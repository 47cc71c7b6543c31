---------------------------- MODULE MCAdmission ----------------------------
(***************************************************************************)
(* Model-checking instance of Admission.                                   *)
(***************************************************************************)
EXTENDS Admission, TLC

MCSymmetry == Permutations(Callers)
=============================================================================
