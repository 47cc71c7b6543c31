--------------------------- MODULE MCUsageBilling ---------------------------
(***************************************************************************)
(* Model-checking instance of UsageBilling: two users, one of whom cannot  *)
(* afford everything it sends and one whose balance is used up exactly.    *)
(***************************************************************************)
EXTENDS UsageBilling, FiniteSetsExt, TLC

CONSTANTS alice, bob, r1, r2, r3

MCUsers == {alice, bob}
MCRequests == {r1, r2, r3}
MCUserOf == (r1 :> alice) @@ (r2 :> alice) @@ (r3 :> bob)
MCCost == (r1 :> 2) @@ (r2 :> 2) @@ (r3 :> 1)
MCTotalCost == [S \in SUBSET MCRequests |-> MapThenSumSet(LAMBDA r : MCCost[r], S)]
MCInitialBalance == (alice :> 3) @@ (bob :> 1)
=============================================================================
