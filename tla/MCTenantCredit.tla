-------------------------- MODULE MCTenantCredit --------------------------
(***************************************************************************)
(* Model-checking instance of TenantCredit: two requests, each of a member *)
(* or of an individual, that the balances of 1 do not cover, and two       *)
(* callers of administrative operations.                                   *)
(***************************************************************************)
EXTENDS TenantCredit, TLC

CONSTANTS ann, r1, r2

MCUsers == {ann}
MCRequests == {r1, r2}
MCCost == (r1 :> 2) @@ (r2 :> 1)
MCTokens == (r1 :> 1) @@ (r2 :> 2)
MCSymmetry == Permutations(Callers)
MCStart == (Org :> [NoRow EXCEPT !.balance = 1, !.quota = 0])
        @@ (ann :> [NoRow EXCEPT !.balance = 1, !.quota = 1])
===========================================================================
