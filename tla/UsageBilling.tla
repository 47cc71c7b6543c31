---------------------------- MODULE UsageBilling ----------------------------
(***************************************************************************)
(* Usage billing of the transparent proxy: admission on the user's balance,*)
(* the upstream call, the asynchronous billing queue with its workers, and *)
(* BillingService.RecordUsage with its three database statements.          *)
(*                                                                         *)
(* A request that fails upstream is billed with zero tokens: it is a       *)
(* request of cost 0.  A database statement that reports an error has had  *)
(* no effect.  The token-update channel of the queue has no producer in    *)
(* the program and pendingBillings is never appended to, so the batch      *)
(* processor flushes nothing; neither is part of the state.                *)
(***************************************************************************)
EXTENDS Integers, Sequences, FiniteSets

CONSTANTS
    Requests, Users, UserOf, TotalCost, InitialBalance,  \* as in AtomicBilling
    Workers,         \* the goroutines running billingWorker
    QueueSize,       \* capacity of the billingEvents channel
    NoJob            \* the job of a worker that waits in select

Cost(r) == TotalCost[{r}]
Of(u, S) == {r \in S : UserOf[r] = u}

ASSUME BillingAssumption ==
    /\ UserOf \in [Requests -> Users]
    /\ InitialBalance \in [Users -> Nat]
    /\ TotalCost \in [SUBSET Requests -> Nat]
    /\ TotalCost[{}] = 0
    /\ \A S, T \in SUBSET Requests :
         S \cap T = {} => TotalCost[S \cup T] = TotalCost[S] + TotalCost[T]

ASSUME QueueAssumption ==
    /\ QueueSize \in Nat \ {0}
    /\ NoJob \notin Requests

VARIABLES
    balance,   \* users.balance
    phase,     \* how far each request has come
    queue,     \* the billingEvents channel
    job,       \* the event each live worker is processing
    live,      \* the workers that have not returned
    stopping,  \* stopCh is closed
    async      \* the handler was given a queue

vars == <<balance, phase, queue, job, live, stopping, async>>

InProgress == {"serving", "queued", "taken", "deducted", "unrecorded"}
Settled == {"rejected", "dropped", "unpriced", "refused", "failed", "recorded",
            "refunded", "leaked", "lost"}
Phases == {"new"} \cup InProgress \cup Settled

In(P) == {r \in Requests : phase[r] \in P}

\* The requests whose cost is out of the balance although no usage row exists yet.
Held == In({"deducted", "unrecorded"})
\* The requests whose cost the balance has paid for good.
Paid == In({"recorded", "leaked"})

Stopped == stopping /\ live = {}

Init ==
    /\ balance = InitialBalance
    /\ phase = [r \in Requests |-> "new"]
    /\ queue = <<>>
    /\ job = [w \in Workers |-> NoJob]
    /\ live = Workers
    /\ stopping = FALSE
    /\ async \in BOOLEAN

Moves(r, p) == phase' = [phase EXCEPT ![r] = p]

-----------------------------------------------------------------------------
(* The request's own goroutine, HandleProxy. *)

\* Step 6: CheckBalance; a failing read of the balance lets the request through.
Admit(r) ==
    /\ phase[r] = "new"
    /\ \/ balance[UserOf[r]] > 0 /\ Moves(r, "serving")
       \/ balance[UserOf[r]] <= 0 /\ Moves(r, "rejected")
       \/ Moves(r, "serving")
    /\ UNCHANGED <<balance, queue, job, live, stopping, async>>

\* No upstream account or no valid upstream request: the handler answers with
\* an error before the upstream call and nothing is billed.
TurnAway(r) ==
    /\ phase[r] = "serving"
    /\ Moves(r, "rejected")
    /\ UNCHANGED <<balance, queue, job, live, stopping, async>>

\* The upstream call has ended: finalizeBilling calls recordBilling, which
\* enqueues without blocking, or records in place when there is no queue.
EnqueueBilling(r) ==
    /\ async
    /\ phase[r] = "serving"
    /\ \/ /\ Len(queue) < QueueSize
          /\ queue' = Append(queue, r)
          /\ Moves(r, "queued")
       \/ /\ Len(queue) >= QueueSize
          /\ Moves(r, "dropped")
          /\ UNCHANGED queue
    /\ UNCHANGED <<balance, job, live, stopping, async>>

RecordInPlace(r) ==
    /\ ~async
    /\ phase[r] = "serving"
    /\ Moves(r, "taken")
    /\ UNCHANGED <<balance, queue, job, live, stopping, async>>

-----------------------------------------------------------------------------
(* billingWorker: select picks any ready case. *)

Take(w) ==
    /\ w \in live /\ job[w] = NoJob
    /\ queue # <<>>
    /\ job' = [job EXCEPT ![w] = Head(queue)]
    /\ queue' = Tail(queue)
    /\ Moves(Head(queue), "taken")
    /\ UNCHANGED <<balance, live, stopping, async>>

Exit(w) ==
    /\ w \in live /\ job[w] = NoJob
    /\ stopping
    /\ live' = live \ {w}
    /\ UNCHANGED <<balance, phase, queue, job, stopping, async>>

\* Mutant: the worker does not come back to select.
ReleaseNever(r) == job' = job

\* RecordUsage returns: the worker that ran it, if one did, loops.
Release(r) == job' = [w \in Workers |-> IF job[w] = r THEN NoJob ELSE job[w]]

-----------------------------------------------------------------------------
(* RecordUsage, whoever calls it. *)

\* Mutants: no balance >= cost in the UPDATE; a refused event goes back into the
\* channel.
DeductUnguarded(r) ==
    /\ phase[r] = "taken"
    /\ balance' = [balance EXCEPT ![UserOf[r]] = @ - Cost(r)]
    /\ Moves(r, "deducted")
    /\ UNCHANGED <<queue, job, live, stopping, async>>

DeductRequeues(r) ==
    /\ phase[r] = "taken"
    /\ IF balance[UserOf[r]] >= Cost(r)
          THEN /\ balance' = [balance EXCEPT ![UserOf[r]] = @ - Cost(r)]
               /\ Moves(r, "deducted") /\ UNCHANGED <<queue, job>>
          ELSE /\ Moves(r, "queued") /\ Release(r) /\ queue' = Append(queue, r)
               /\ UNCHANGED balance
    /\ UNCHANGED <<live, stopping, async>>

\* CalculateCost fails, or DeductBalance: one UPDATE guarded by balance >= cost.
DeductBalance(r) ==
    /\ phase[r] = "taken"
    /\ \/ /\ \/ Moves(r, "unpriced")
             \/ Moves(r, "failed")
             \/ balance[UserOf[r]] < Cost(r) /\ Moves(r, "refused")
          /\ Release(r)
          /\ UNCHANGED balance
       \/ /\ balance[UserOf[r]] >= Cost(r)
          /\ balance' = [balance EXCEPT ![UserOf[r]] = @ - Cost(r)]
          /\ Moves(r, "deducted")
          /\ UNCHANGED job
    /\ UNCHANGED <<queue, live, stopping, async>>

\* Mutant: the error of Create is returned without a refund.
CreateWithoutRefund(r) ==
    /\ phase[r] = "deducted"
    /\ Moves(r, "recorded") \/ Moves(r, "refunded")
    /\ Release(r)
    /\ UNCHANGED <<balance, queue, live, stopping, async>>

CreateRecord(r) ==
    /\ phase[r] = "deducted"
    /\ \/ Moves(r, "recorded") /\ Release(r)
       \/ Moves(r, "unrecorded") /\ UNCHANGED job
    /\ UNCHANGED <<balance, queue, live, stopping, async>>

\* Mutant: the refund is booked without reaching the balance.
RefundForgotten(r) ==
    /\ phase[r] = "unrecorded"
    /\ Moves(r, "refunded")
    /\ Release(r)
    /\ UNCHANGED <<balance, queue, live, stopping, async>>

\* The refund after a failed Create; its own error is ignored.
Refund(r) ==
    /\ phase[r] = "unrecorded"
    /\ \/ /\ balance' = [balance EXCEPT ![UserOf[r]] = @ + Cost(r)]
          /\ Moves(r, "refunded")
       \/ /\ UNCHANGED balance
          /\ Moves(r, "leaked")
    /\ Release(r)
    /\ UNCHANGED <<queue, live, stopping, async>>

RecordUsage(r) == DeductBalance(r) \/ CreateRecord(r) \/ Refund(r)

-----------------------------------------------------------------------------
(* The process. *)

\* AsyncBillingQueue.Stop: close(stopCh), then wait until every worker returned.
Stop ==
    /\ ~stopping
    /\ stopping' = TRUE
    /\ UNCHANGED <<balance, phase, queue, job, live, async>>

\* The process dies, or exits after Stop, and is started again: the channel,
\* the goroutines and the requests in flight are gone, the rows stay.
Restart ==
    /\ In(InProgress) # {} \/ stopping
    /\ phase' = [r \in Requests |-> IF r \in Held THEN "leaked"
                                    ELSE IF phase[r] \in InProgress THEN "lost"
                                    ELSE phase[r]]
    /\ queue' = <<>>
    /\ job' = [w \in Workers |-> NoJob]
    /\ live' = Workers
    /\ stopping' = FALSE
    /\ UNCHANGED <<balance, async>>

Next ==
    \/ \E r \in Requests : \/ Admit(r) \/ TurnAway(r) \/ EnqueueBilling(r) \/ RecordInPlace(r)
                          \/ RecordUsage(r)
    \/ \E w \in Workers : Take(w) \/ Exit(w)
    \/ Stop
    \/ Restart

Spec == Init /\ [][Next]_vars

\* A goroutine that can run does.  Exit is strongly fair: select chooses
\* uniformly among the ready cases, so a busy queue cannot hide stopCh forever.
Fairness ==
    /\ \A r \in Requests : WF_vars(RecordUsage(r))
    /\ \A w \in Workers : WF_vars(Take(w)) /\ SF_vars(Exit(w))

FairSpec == Spec /\ Fairness

-----------------------------------------------------------------------------
(* Properties *)

\* Every variable keeps its type; a waiting or returned worker has no job.
TypeOK ==
    /\ balance \in [Users -> Int]
    /\ phase \in [Requests -> Phases]
    /\ queue \in Seq(Requests) /\ Len(queue) <= QueueSize
    /\ job \in [Workers -> Requests \cup {NoJob}]
    /\ live \in SUBSET Workers
    /\ stopping \in BOOLEAN
    /\ async \in BOOLEAN

\* RecordUsage deducts, records and refunds in separate statements run by
\* concurrent workers: at every moment the balance and the costs of the
\* requests paid for or being recorded add up to what the user started with.
Conservation ==
    \A u \in Users :
        balance[u] + TotalCost[Of(u, Held \cup Paid)] = InitialBalance[u]

\* However many requests were admitted on the same positive balance, charging
\* them never drives a user's balance below zero.
Solvent == \A u \in Users : balance[u] >= 0

\* An accepted event is in the channel once or with exactly one worker, so no
\* event is billed by two workers and none is forgotten while the process runs.
OneHandler ==
    /\ \A i, j \in 1..Len(queue) : queue[i] = queue[j] => i = j
    /\ {queue[i] : i \in 1..Len(queue)} = In({"queued"})
    /\ \A v, w \in Workers : job[v] = job[w] /\ job[v] # NoJob => v = w
    /\ {job[w] : w \in live} \ {NoJob} =
           IF async THEN In({"taken", "deducted", "unrecorded"}) ELSE {}
    /\ \A w \in Workers \ live : job[w] = NoJob
    /\ async \/ queue = <<>>

\* A charge refused for lack of balance really did not fit: the requests whose
\* cost was taken from this user at some time, with the refused one, cost more
\* than the user had.  (Some of them may have been refunded since.)
EverDeducted == In({"deducted", "unrecorded", "recorded", "leaked", "refunded"})
RefusalJustified ==
    \A r \in In({"refused"}) :
        TotalCost[Of(UserOf[r], EverDeducted \cup {r})] > InitialBalance[UserOf[r]]

\* While nobody stops the queue, every event it accepted is settled: recorded,
\* or given up for a reason RecordUsage reported (or the process died).
AcceptedSettles ==
    \A r \in Requests : phase[r] = "queued" ~> phase[r] \in Settled \/ stopping

\* Stop returns: every worker notices stopCh once its current event is done.
StopReturns == stopping ~> Stopped \/ ~stopping

\* The queue, the workers and the three statements implement AtomicBilling: a
\* request is open until its outcome can no longer change, and money held for
\* a request that is still open counts as funds.
Ledger == INSTANCE AtomicBilling WITH
    funds <- [u \in Users |-> balance[u] + TotalCost[Of(u, Held)]],
    outcome <- [r \in Requests |->
                  CASE phase[r] = "recorded" -> "charged"
                    [] phase[r] = "leaked" -> "leaked"
                    [] phase[r] \in Settled \ {"recorded", "leaked"} -> "waived"
                    [] OTHER -> "open"]
ImplementsLedger == Ledger!Spec
=============================================================================
