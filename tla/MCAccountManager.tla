-------------------------- MODULE MCAccountManager --------------------------
(***************************************************************************)
(* Model-checking instance of AccountManager: a public account and one that *)
(* is dedicated to the only tenant.                                        *)
(***************************************************************************)
EXTENDS AccountManager, TLC

CONSTANTS a1, own, u1, t1

MCAccounts == {a1, own}
MCRank == (a1 :> 2) @@ (own :> 1)
MCOwner == (a1 :> Public) @@ (own :> t1)
MCTenantOf == (u1 :> t1)
MCSymmetry == Permutations(Callers)
=============================================================================
