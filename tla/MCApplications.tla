--------------------------- MODULE MCApplications ---------------------------
(* Instance of Applications for TLC.                                         *)
EXTENDS Applications, TLC

MCSymmetry == Permutations(Emails) \cup Permutations(Ids) \cup Permutations(Handlers)

=============================================================================
