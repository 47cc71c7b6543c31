--------------------------- MODULE AtomicBilling ---------------------------
(***************************************************************************)
(* What usage billing promises its users, with the queue, the workers and  *)
(* the database statements of the implementation left out: every proxied   *)
(* request is settled at most once, in one atomic step, and a user's funds *)
(* only pay for requests settled as "charged" or "leaked", never below 0.  *)
(* UsageBilling implements this specification.                             *)
(***************************************************************************)
EXTENDS Integers, FiniteSets

CONSTANTS
    Requests,        \* proxied requests, each billed under its own request id
    Users,           \* the users whose balance pays for them
    UserOf,          \* UserOf[r]: the user whose key sent request r
    TotalCost,       \* TotalCost[S]: what the requests of S cost together, additive
    InitialBalance   \* InitialBalance[u]: the user's balance at the start

Cost(r) == TotalCost[{r}]
Of(u, S) == {r \in S : UserOf[r] = u}

VARIABLES
    funds,           \* funds[u]: what the user can still spend
    outcome          \* outcome[r]: how the request was settled, if it was

ledger == <<funds, outcome>>

Outcomes == {"open", "charged", "waived", "leaked"}
With(o) == {r \in Requests : outcome[r] = o}

Init ==
    /\ funds = InitialBalance
    /\ outcome = [r \in Requests |-> "open"]

(***************************************************************************)
(* Settle some open requests: those in "paid" are charged and recorded,    *)
(* those in "lost" are charged although no record of them survives (a      *)
(* crash or a refund that failed), those in "free" are not charged.  One   *)
(* request is settled per step except when the process crashes.            *)
(***************************************************************************)
Settle(paid, lost, free) ==
    /\ paid \cap lost = {} /\ paid \cap free = {} /\ lost \cap free = {}
    /\ \A u \in Users : funds[u] >= TotalCost[Of(u, paid \cup lost)]
    /\ funds' = [u \in Users |-> funds[u] - TotalCost[Of(u, paid \cup lost)]]
    /\ outcome' = [r \in Requests |->
                     IF r \in paid THEN "charged"
                     ELSE IF r \in lost THEN "leaked"
                     ELSE IF r \in free THEN "waived"
                     ELSE outcome[r]]

Next == \E paid, lost, free \in SUBSET With("open") : Settle(paid, lost, free)

Spec == Init /\ [][Next]_ledger
=============================================================================
