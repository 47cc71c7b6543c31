--------------------------- MODULE MCPaymentOrder ---------------------------
(***************************************************************************)
(* Model-checking instance of PaymentOrder: two recharges into one tenant  *)
(* account, a subscription of a personal account, and a recharge of the    *)
(* tenant by an administrator.                                             *)
(***************************************************************************)
EXTENDS PaymentOrder, TLC

CONSTANTS o1, o2, o3, t1, tenant, person

MCAccounts == {tenant, person}
MCPersonal == {person}
MCInitialBalance == (tenant :> 1) @@ (person :> 0)

MCAccountOf == (o1 :> tenant) @@ (o2 :> tenant) @@ (o3 :> person) @@ (t1 :> tenant)
MCAmount == (o1 :> 1) @@ (o2 :> 2) @@ (o3 :> 1) @@ (t1 :> 1)
MCSymmetry == Permutations(Handlers)
=============================================================================
