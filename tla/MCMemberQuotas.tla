-------------------------- MODULE MCMemberQuotas --------------------------
(***************************************************************************)
(* Model-checking instance of MemberQuotas: one user, to whom the index    *)
(* allows one quota in all, and two ids, so that a second creation is      *)
(* tried and refused.                                                      *)
(***************************************************************************)
EXTENDS MemberQuotas, TLC

MCSymmetry == Permutations(Callers) \cup Permutations(Ids)
===========================================================================
