-------------------------- MODULE MCPlatformAdmins --------------------------
(* Instance of PlatformAdmins for TLC.                                       *)
EXTENDS PlatformAdmins, TLC

MCSymmetry == Permutations(Admins) \cup Permutations(Handlers)

=============================================================================
