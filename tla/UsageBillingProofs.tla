------------------------- MODULE UsageBillingProofs -------------------------
(***************************************************************************)
(* Proofs about UsageBilling, for every set of requests, users and workers *)
(* and every additive cost: types, conservation of money, solvency, that a *)
(* refusal is justified, and the refinement of AtomicBilling.  And, at the *)
(* end, about the counters of the API key the same requests use.           *)
(***************************************************************************)
EXTENDS UsageBilling, APIKeyUsage, TLAPS

\* The requests whose cost is out of the balance, and those it ever was.
Committed == Held \cup Paid

\* The inductive invariant.
IInv == TypeOK /\ OneHandler /\ Conservation /\ Solvent /\ RefusalJustified

-----------------------------------------------------------------------------
(* Sums of costs. *)

\* A request that is not in a set adds its cost to the set's.
LEMMA CostOfOneMore ==
    ASSUME NEW S \in SUBSET Requests, NEW r \in Requests \ S
    PROVE  /\ TotalCost[S] \in Nat /\ Cost(r) \in Nat
           /\ TotalCost[S \cup {r}] = TotalCost[S] + Cost(r)
<1>1. {r} \in SUBSET Requests /\ S \cap {r} = {}
  OBVIOUS
<1>. QED
  BY <1>1, BillingAssumption DEF Cost

\* A larger set costs at least as much: costs are never negative.
LEMMA CostMonotone ==
    ASSUME NEW T \in SUBSET Requests, NEW S \in SUBSET T
    PROVE  /\ TotalCost[S] \in Nat /\ TotalCost[T] \in Nat
           /\ TotalCost[S] <= TotalCost[T]
<1> DEFINE R == T \ S
<1>1. S \in SUBSET Requests /\ R \in SUBSET Requests /\ S \cap R = {} /\ S \cup R = T
  OBVIOUS
<1>2. TotalCost[S \cup R] = TotalCost[S] + TotalCost[R]
  BY <1>1, BillingAssumption
<1>3. TotalCost[S] \in Nat /\ TotalCost[R] \in Nat /\ TotalCost[T] \in Nat
  BY <1>1, BillingAssumption
<1>. QED
  BY <1>1, <1>2, <1>3

-----------------------------------------------------------------------------
(* How a step that moves one request changes the sets Conservation sums. *)

\* Spelled out: which phases have the cost out of the balance.
LEMMA CommittedPhases ==
    Committed = In({"deducted", "unrecorded", "recorded", "leaked"})
BY DEF Committed, Held, Paid, In

\* A justified refusal stays justified when more requests have been deducted.
LEMMA StillJustified ==
    ASSUME RefusalJustified, EverDeducted \subseteq EverDeducted',
           NEW q \in Requests, phase[q] = "refused"
    PROVE  TotalCost[Of(UserOf[q], EverDeducted' \cup {q})] > InitialBalance[UserOf[q]]
<1> DEFINE Now == Of(UserOf[q], EverDeducted \cup {q})
           Then == Of(UserOf[q], EverDeducted' \cup {q})
<1>1. TotalCost[Now] > InitialBalance[UserOf[q]]
  BY DEF RefusalJustified, In
<1>2. InitialBalance[UserOf[q]] \in Nat
  BY BillingAssumption
<1>3. Then \in SUBSET Requests /\ Now \in SUBSET Then
  BY DEF Of, EverDeducted, In
<1> HIDE DEF Now, Then
<1>4. TotalCost[Now] \in Nat /\ TotalCost[Then] \in Nat /\ TotalCost[Now] <= TotalCost[Then]
  BY <1>3, CostMonotone
<1>. QED
  BY <1>1, <1>2, <1>4 DEF Then

\* A refused request does not fit on top of what was already taken.
LEMMA RefusedNow ==
    ASSUME TypeOK, Conservation, EverDeducted \subseteq EverDeducted',
           NEW r \in Requests, balance[UserOf[r]] < Cost(r), r \notin Committed
    PROVE  TotalCost[Of(UserOf[r], EverDeducted' \cup {r})] > InitialBalance[UserOf[r]]
<1> DEFINE u == UserOf[r]
           C == Of(u, Committed)
           Then == Of(u, EverDeducted' \cup {r})
<1>1. u \in Users /\ InitialBalance[u] \in Nat
  BY BillingAssumption
<1>2. C \in SUBSET Requests /\ r \in Requests \ C
  BY CommittedPhases DEF Of, In
<1>3. Then \in SUBSET Requests /\ C \cup {r} \in SUBSET Then
  BY CommittedPhases DEF Of, EverDeducted, In
<1>4. balance[u] + TotalCost[C] = InitialBalance[u] /\ balance[u] \in Int
  BY <1>1 DEF Conservation, Committed, TypeOK
<1> HIDE DEF C, Then
<1>5. TotalCost[C \cup {r}] = TotalCost[C] + Cost(r) /\ TotalCost[C] \in Nat /\ Cost(r) \in Nat
  BY <1>2, CostOfOneMore
<1>6. TotalCost[C \cup {r}] <= TotalCost[Then] /\ TotalCost[C \cup {r}] \in Nat /\ TotalCost[Then] \in Nat
  BY <1>3, CostMonotone
<1> HIDE DEF u
<1>. QED
  BY <1>1, <1>4, <1>5, <1>6 DEF Then, u

\* The invariant of the money only depends on the balance and on two sets.
LEMMA Frame ==
    ASSUME TypeOK, Conservation, Solvent, RefusalJustified,
           balance' = balance, Committed' = Committed,
           EverDeducted \subseteq EverDeducted',
           \A r \in Requests : phase'[r] = "refused" =>
               \/ phase[r] = "refused"
               \/ balance[UserOf[r]] < Cost(r) /\ r \notin Committed
    PROVE  Conservation' /\ Solvent' /\ RefusalJustified'
<1>1. Conservation'
  BY DEF Conservation, Committed, Of
<1>2. Solvent'
  BY DEF Solvent
<1>3. RefusalJustified'
  <2> SUFFICES ASSUME NEW r \in Requests, phase'[r] = "refused"
               PROVE  TotalCost[Of(UserOf[r], EverDeducted' \cup {r})] > InitialBalance[UserOf[r]]
    BY DEF RefusalJustified, Of, In
  <2>. QED
    BY StillJustified, RefusedNow
<1>. QED
  BY <1>1, <1>2, <1>3

-----------------------------------------------------------------------------
(* Each step preserves the invariant. *)

\* The types, for all steps at once.
LEMMA TypeStep == TypeOK /\ [Next]_vars => TypeOK'
<1> SUFFICES ASSUME TypeOK, [Next]_vars PROVE TypeOK'
  OBVIOUS
<1> USE DEF TypeOK, Phases, InProgress, Settled, Moves, Release
<1>1. ASSUME NEW r \in Requests, Admit(r) \/ TurnAway(r) PROVE TypeOK'
  BY <1>1 DEF Admit, TurnAway
<1>2. ASSUME NEW r \in Requests, EnqueueBilling(r) PROVE TypeOK'
  <2>1. queue' \in Seq(Requests) /\ Len(queue') <= QueueSize
    <3>1. CASE Len(queue) < QueueSize /\ queue' = Append(queue, r)
      <4>1. Len(queue') = Len(queue) + 1 /\ Len(queue) \in Nat
        BY <3>1
      <4>. QED BY <3>1, <4>1, QueueAssumption
    <3>2. CASE UNCHANGED queue
      BY <3>2
    <3>. QED BY <1>2, <3>1, <3>2 DEF EnqueueBilling
  <2>2. phase' \in [Requests -> Phases]
    BY <1>2 DEF EnqueueBilling
  <2>. QED BY <1>2, <2>1, <2>2 DEF EnqueueBilling
<1>3. ASSUME NEW r \in Requests, RecordInPlace(r) PROVE TypeOK'
  BY <1>3 DEF RecordInPlace
<1>4. ASSUME NEW r \in Requests, DeductBalance(r) PROVE TypeOK'
  <2>1. UserOf[r] \in Users /\ Cost(r) \in Int
    BY BillingAssumption DEF Cost
  <2>. QED BY <1>4, <2>1 DEF DeductBalance
<1>5. ASSUME NEW r \in Requests, CreateRecord(r) PROVE TypeOK'
  BY <1>5 DEF CreateRecord
<1>6. ASSUME NEW r \in Requests, Refund(r) PROVE TypeOK'
  <2>1. UserOf[r] \in Users /\ Cost(r) \in Int
    BY BillingAssumption DEF Cost
  <2>. QED BY <1>6, <2>1 DEF Refund
<1>7. ASSUME NEW w \in Workers, Take(w) PROVE TypeOK'
  <2>1. queue # <<>> /\ queue' = Tail(queue)
    BY <1>7 DEF Take
  <2>2. queue' \in Seq(Requests) /\ Len(queue') <= QueueSize
    <3>1. Len(queue') = Len(queue) - 1 /\ Len(queue) \in Nat /\ queue' \in Seq(Requests)
      BY <2>1
    <3>. QED BY <3>1, QueueAssumption
  <2>. QED
    BY <1>7, <2>2 DEF Take
<1>8. ASSUME NEW w \in Workers, Exit(w) PROVE TypeOK'
  BY <1>8 DEF Exit
<1>9. CASE Stop
  BY <1>9 DEF Stop
<1>10. CASE Restart
  <2>1. phase' \in [Requests -> Phases]
    BY <1>10 DEF Restart
  <2>2. job' \in [Workers -> Requests \cup {NoJob}]
    BY <1>10 DEF Restart
  <2>3. queue' \in Seq(Requests) /\ Len(queue') <= QueueSize
    BY <1>10, QueueAssumption DEF Restart
  <2>4. live' \in SUBSET Workers /\ stopping' \in BOOLEAN /\ balance' = balance
        /\ async' = async
    BY <1>10 DEF Restart
  <2>. QED BY <2>1, <2>2, <2>3, <2>4
<1>11. CASE UNCHANGED vars
  BY <1>11 DEF vars
<1>. QED
  BY <1>1, <1>2, <1>3, <1>4, <1>5, <1>6, <1>7, <1>8, <1>9, <1>10, <1>11 DEF Next, RecordUsage

LEMMA InitInv == Init => IInv
<1> SUFFICES ASSUME Init PROVE IInv
  OBVIOUS
<1>1. TypeOK
  <2>1. balance \in [Users -> Int] /\ phase \in [Requests -> Phases]
    BY BillingAssumption DEF Init, Phases
  <2>2. queue \in Seq(Requests) /\ Len(queue) <= QueueSize
    BY QueueAssumption DEF Init
  <2>3. job \in [Workers -> Requests \cup {NoJob}] /\ live \in SUBSET Workers /\ stopping \in BOOLEAN
        /\ async \in BOOLEAN
    BY DEF Init
  <2>. QED BY <2>1, <2>2, <2>3 DEF TypeOK
<1>2. \A u \in Users : Of(u, Held \cup Paid) = {}
  BY DEF Init, Of, Held, Paid, In
<1>3. Conservation /\ Solvent
  <2> SUFFICES ASSUME NEW u \in Users
               PROVE  /\ balance[u] + TotalCost[Of(u, Held \cup Paid)] = InitialBalance[u]
                      /\ balance[u] >= 0
    BY DEF Conservation, Solvent
  <2>1. balance[u] = InitialBalance[u] /\ InitialBalance[u] \in Nat
    BY BillingAssumption DEF Init
  <2>2. TotalCost[Of(u, Held \cup Paid)] = 0
    BY <1>2, BillingAssumption
  <2>. QED BY <2>1, <2>2
<1>4. RefusalJustified
  BY DEF Init, RefusalJustified, In
<1>5. OneHandler
  <2>1. Len(queue) = 0 /\ queue = <<>>
    BY DEF Init
  <2>. QED BY <2>1 DEF Init, OneHandler, In
<1>. QED
  BY <1>1, <1>3, <1>4, <1>5 DEF IInv

\* The one statement that takes money: balance >= cost guards it.
LEMMA DeductStep ==
    ASSUME IInv, NEW r \in Requests, DeductBalance(r)
    PROVE  Conservation' /\ Solvent' /\ RefusalJustified'
<1> USE DEF IInv
<1>1. CASE UNCHANGED balance /\ \/ Moves(r, "unpriced") \/ Moves(r, "failed")
                                \/ balance[UserOf[r]] < Cost(r) /\ Moves(r, "refused")
  <2>1. Committed' = Committed /\ EverDeducted \subseteq EverDeducted'
    BY <1>1, CommittedPhases DEF DeductBalance, Committed, Held, Paid, EverDeducted, In, Moves, TypeOK
  <2>2. \A q \in Requests : phase'[q] = "refused" =>
          \/ phase[q] = "refused"
          \/ balance[UserOf[q]] < Cost(q) /\ q \notin Committed
    BY <1>1, CommittedPhases DEF DeductBalance, In, Moves, TypeOK
  <2>3. balance' = balance
    BY <1>1
  <2>. QED
    BY <2>1, <2>2, <2>3, Frame
<1>2. CASE /\ balance[UserOf[r]] >= Cost(r) /\ Moves(r, "deducted")
           /\ balance' = [balance EXCEPT ![UserOf[r]] = @ - Cost(r)]
  <2> DEFINE u == UserOf[r]
             C == Of(u, Committed)
  <2>1. r \in Requests /\ u \in Users
    BY BillingAssumption
  <2>2. C \in SUBSET Requests /\ r \in Requests \ C
    BY CommittedPhases DEF DeductBalance, Of, In
  <2>3. /\ Of(u, Committed)' = C \cup {r}
        /\ \A v \in Users \ {u} : Of(v, Committed)' = Of(v, Committed)
    BY <1>2 DEF DeductBalance, Of, Committed, Held, Paid, In, Moves, TypeOK
  <2>4. TotalCost[C \cup {r}] = TotalCost[C] + Cost(r) /\ TotalCost[C] \in Nat /\ Cost(r) \in Nat
    <3> HIDE DEF C
    <3> QED BY <2>2, CostOfOneMore
  <2>5. balance \in [Users -> Int] /\ balance[u] \in Int /\ balance'[u] = balance[u] - Cost(r)
    BY <1>2, <2>1 DEF TypeOK
  <2>6. \A v \in Users \ {u} : balance'[v] = balance[v]
    BY <1>2, <2>1 DEF TypeOK
  <2>7. Conservation'
    <3>1. balance[u] + TotalCost[C] = InitialBalance[u] /\ InitialBalance[u] \in Nat
      BY <2>1, BillingAssumption DEF Conservation, Committed
    <3>2. balance'[u] + TotalCost[Of(u, Committed)'] = InitialBalance[u]
      <4> HIDE DEF C, u
      <4> QED BY <2>3, <2>4, <2>5, <3>1
    <3>3. \A v \in Users \ {u} : balance'[v] + TotalCost[Of(v, Committed)'] = InitialBalance[v]
      BY <2>3, <2>6 DEF Conservation, Committed
    <3>. QED
      BY <3>2, <3>3 DEF Conservation, Committed, Of
  <2>8. Solvent'
    BY <1>2, <2>4, <2>5, <2>6 DEF Solvent
  <2>9. RefusalJustified'
    <3>1. /\ EverDeducted \subseteq EverDeducted'
          /\ \A q \in Requests : phase'[q] = "refused" => phase[q] = "refused"
      BY <1>2 DEF EverDeducted, In, Moves, TypeOK
    <3> SUFFICES ASSUME NEW q \in Requests, phase'[q] = "refused"
                 PROVE  TotalCost[Of(UserOf[q], EverDeducted' \cup {q})] > InitialBalance[UserOf[q]]
      BY DEF RefusalJustified, Of, In
    <3> QED BY <3>1, StillJustified
  <2>. QED
    BY <2>7, <2>8, <2>9
<1>. QED
  BY <1>1, <1>2 DEF DeductBalance

\* A failed Create is followed by a refund, which may fail in its turn.
LEMMA RefundStep ==
    ASSUME IInv, NEW r \in Requests, Refund(r)
    PROVE  Conservation' /\ Solvent' /\ RefusalJustified'
<1> USE DEF IInv
<1>1. /\ EverDeducted \subseteq EverDeducted'
      /\ \A q \in Requests : phase'[q] = "refused" => phase[q] = "refused"
  BY DEF Refund, EverDeducted, In, Moves, TypeOK
<1>2. CASE UNCHANGED balance /\ Moves(r, "leaked")
  <2>1. Committed' = Committed
    BY <1>2 DEF Refund, Committed, Held, Paid, In, Moves, TypeOK
  <2>2. balance' = balance
    BY <1>2
  <2>. QED
    BY <1>1, <2>1, <2>2, Frame
<1>3. CASE /\ Moves(r, "refunded")
           /\ balance' = [balance EXCEPT ![UserOf[r]] = @ + Cost(r)]
  <2> DEFINE u == UserOf[r]
             C == Of(u, Committed)'
  <2>1. u \in Users /\ InitialBalance[u] \in Nat
    BY BillingAssumption
  <2>2. C \in SUBSET Requests /\ r \in Requests \ C
    BY <1>3 DEF Refund, Of, Committed, Held, Paid, In, Moves, TypeOK
  <2>3. /\ Of(u, Committed) = C \cup {r}
        /\ \A v \in Users \ {u} : Of(v, Committed)' = Of(v, Committed)
    BY <1>3 DEF Refund, Of, Committed, Held, Paid, In, Moves, TypeOK
  <2>4. TotalCost[C \cup {r}] = TotalCost[C] + Cost(r) /\ TotalCost[C] \in Nat /\ Cost(r) \in Nat
    <3> HIDE DEF C
    <3> QED BY <2>2, CostOfOneMore
  <2>5. balance[u] \in Int /\ balance'[u] = balance[u] + Cost(r)
    BY <1>3, <2>1 DEF TypeOK
  <2>6. \A v \in Users \ {u} : balance'[v] = balance[v]
    BY <1>3, <2>1 DEF TypeOK
  <2>7. Conservation'
    <3>1. balance[u] + TotalCost[Of(u, Committed)] = InitialBalance[u]
      BY <2>1 DEF Conservation, Committed
    <3>2. balance'[u] + TotalCost[C] = InitialBalance[u]
      <4> HIDE DEF C, u
      <4> QED BY <2>1, <2>3, <2>4, <2>5, <3>1
    <3>3. \A v \in Users \ {u} : balance'[v] + TotalCost[Of(v, Committed)'] = InitialBalance[v]
      BY <2>3, <2>6 DEF Conservation, Committed
    <3>. QED
      BY <3>2, <3>3 DEF Conservation, Committed, Of
  <2>8. Solvent'
    BY <2>1, <2>4, <2>5, <2>6 DEF Solvent
  <2>9. RefusalJustified'
    <3> SUFFICES ASSUME NEW q \in Requests, phase'[q] = "refused"
                 PROVE  TotalCost[Of(UserOf[q], EverDeducted' \cup {q})] > InitialBalance[UserOf[q]]
      BY DEF RefusalJustified, Of, In
    <3> QED BY <1>1, StillJustified
  <2>. QED
    BY <2>7, <2>8, <2>9
<1>. QED
  BY <1>2, <1>3 DEF Refund

\* The event a worker takes is a queued one, and Tail shifts the others.
LEMMA HeadQueued ==
    ASSUME TypeOK, OneHandler, queue # <<>>
    PROVE  /\ Head(queue) \in Requests /\ phase[Head(queue)] = "queued"
           /\ Head(queue) = queue[1] /\ Len(queue) \in Nat \ {0}
           /\ Len(Tail(queue)) = Len(queue) - 1
           /\ \A i \in 1..Len(Tail(queue)) : Tail(queue)[i] = queue[i + 1]
<1>1. queue \in Seq(Requests)
  BY DEF TypeOK
<1>2. Len(queue) \in Nat \ {0} /\ Head(queue) = queue[1] /\ Head(queue) \in Requests
  BY <1>1
<1>3. queue[1] \in {queue[i] : i \in 1..Len(queue)}
  BY <1>2
<1>4. phase[queue[1]] = "queued"
  BY <1>3 DEF OneHandler, In
<1>5. /\ Len(Tail(queue)) = Len(queue) - 1
      /\ \A i \in 1..Len(Tail(queue)) : Tail(queue)[i] = queue[i + 1]
  BY <1>1
<1>. QED
  BY <1>2, <1>4, <1>5

\* Every other step leaves the balance and the sums alone.
LEMMA MoneyStep == IInv /\ [Next]_vars => Conservation' /\ Solvent' /\ RefusalJustified'
<1> SUFFICES ASSUME IInv, [Next]_vars
             PROVE  Conservation' /\ Solvent' /\ RefusalJustified'
  OBVIOUS
<1> DEFINE Quiet == /\ balance' = balance
                    /\ Committed' = Committed
                    /\ EverDeducted \subseteq EverDeducted'
                    /\ \A q \in Requests : phase'[q] = "refused" => phase[q] = "refused"
<1>1. TypeOK /\ OneHandler
  BY DEF IInv
<1>2. Quiet => Conservation' /\ Solvent' /\ RefusalJustified'
  BY Frame DEF IInv
<1> USE DEF Committed, Held, Paid, EverDeducted, In, Moves, TypeOK
<1>3. ASSUME NEW r \in Requests, Admit(r) \/ TurnAway(r) PROVE Quiet
  BY <1>1, <1>3 DEF Admit, TurnAway
<1>4. ASSUME NEW r \in Requests, EnqueueBilling(r) PROVE Quiet
  BY <1>1, <1>4 DEF EnqueueBilling
<1>5. ASSUME NEW r \in Requests, RecordInPlace(r) PROVE Quiet
  BY <1>1, <1>5 DEF RecordInPlace
<1>6. ASSUME NEW r \in Requests, CreateRecord(r) PROVE Quiet
  BY <1>1, <1>6 DEF CreateRecord
<1>7. ASSUME NEW w \in Workers, Take(w) PROVE Quiet
  <2>1. Head(queue) \in Requests /\ phase[Head(queue)] = "queued"
    BY <1>1, <1>7, HeadQueued DEF Take
  <2>. QED
    BY <1>1, <1>7, <2>1 DEF Take
<1>8. ASSUME NEW w \in Workers, Exit(w) PROVE Quiet
  BY <1>8 DEF Exit
<1>9. ASSUME Stop PROVE Quiet
  BY <1>9 DEF Stop
<1>10. ASSUME Restart PROVE Quiet
  BY <1>1, <1>10 DEF Restart, InProgress
<1>11. ASSUME UNCHANGED vars PROVE Quiet
  BY <1>11 DEF vars
<1> HIDE DEF Quiet
<1>. QED
  BY <1>2, <1>3, <1>4, <1>5, <1>6, <1>7, <1>8, <1>9, <1>10, <1>11, DeductStep, RefundStep
     DEF Next, RecordUsage

\* Every event has one place: the channel, one worker, or its own goroutine.
LEMMA HandlerStep == TypeOK /\ OneHandler /\ [Next]_vars => OneHandler'
<1> SUFFICES ASSUME TypeOK, OneHandler, [Next]_vars PROVE OneHandler'
  OBVIOUS
<1> USE DEF TypeOK, OneHandler, In, Moves
<1>1. ASSUME NEW r \in Requests, Admit(r) \/ TurnAway(r) PROVE OneHandler'
  <2>1. UNCHANGED <<queue, job, live, async>>
    BY <1>1 DEF Admit, TurnAway
  <2>2. /\ In({"queued"})' = In({"queued"})
        /\ In({"taken", "deducted", "unrecorded"})' = In({"taken", "deducted", "unrecorded"})
    BY <1>1 DEF Admit, TurnAway
  <2> HIDE DEF In, TypeOK
  <2>. QED
    BY <2>1, <2>2
<1>2. ASSUME NEW r \in Requests, EnqueueBilling(r) PROVE OneHandler'
  <2>1. CASE Moves(r, "dropped") /\ UNCHANGED queue
    BY <1>2, <2>1, QueueAssumption DEF EnqueueBilling
  <2>2. CASE Moves(r, "queued") /\ queue' = Append(queue, r)
    <3>1. /\ Len(queue') = Len(queue) + 1 /\ Len(queue) \in Nat
          /\ queue'[Len(queue) + 1] = r
          /\ \A i \in 1..Len(queue) : queue'[i] = queue[i]
      BY <2>2
    <3>2. \A i \in 1..Len(queue) : queue[i] # r
      BY <1>2 DEF EnqueueBilling
    <3>3. \A i, j \in 1..Len(queue') : queue'[i] = queue'[j] => i = j
      BY <3>1, <3>2
    <3>4. {queue'[i] : i \in 1..Len(queue')} = {queue[i] : i \in 1..Len(queue)} \cup {r}
      <4>1. ASSUME NEW i \in 1..Len(queue')
            PROVE  queue'[i] \in {queue[k] : k \in 1..Len(queue)} \cup {r}
        <5>1. CASE i = Len(queue) + 1
          BY <3>1, <5>1
        <5>2. CASE i \in 1..Len(queue)
          BY <3>1, <5>2
        <5>. QED BY <3>1, <5>1, <5>2
      <4>2. ASSUME NEW i \in 1..Len(queue)
            PROVE  queue[i] \in {queue'[k] : k \in 1..Len(queue')}
        <5>1. i \in 1..Len(queue') /\ queue'[i] = queue[i]
          BY <3>1
        <5>. QED BY <5>1
      <4>3. r \in {queue'[k] : k \in 1..Len(queue')}
        <5>1. Len(queue) + 1 \in 1..Len(queue')
          BY <3>1
        <5>. QED BY <3>1, <5>1
      <4>. QED
        BY <4>1, <4>2, <4>3
    <3>5. In({"queued"})' = In({"queued"}) \cup {r}
      BY <1>2, <2>2
    <3>6. /\ In({"taken", "deducted", "unrecorded"})' = In({"taken", "deducted", "unrecorded"})
          /\ UNCHANGED <<job, live, async>> /\ async
      BY <1>2, <2>2 DEF EnqueueBilling
    <3>7. {job'[w] : w \in live'} \ {NoJob} = In({"taken", "deducted", "unrecorded"})'
      BY <3>6
    <3>8. {queue'[i] : i \in 1..Len(queue')} = In({"queued"})'
      BY <3>4, <3>5
    <3>. QED
      BY <3>3, <3>6, <3>7, <3>8
  <2>. QED
    BY <1>2, <2>1, <2>2 DEF EnqueueBilling
<1>3. ASSUME NEW r \in Requests, RecordInPlace(r) PROVE OneHandler'
  <2>1. /\ ~async /\ phase[r] = "serving" /\ Moves(r, "taken")
        /\ UNCHANGED <<queue, job, live, async>>
    BY <1>3 DEF RecordInPlace
  <2>2. In({"queued"})' = In({"queued"})
    BY <2>1
  <2>3. {queue'[i] : i \in 1..Len(queue')} = In({"queued"})'
    BY <2>1, <2>2
  <2>4. {job'[w] : w \in live'} \ {NoJob} = {} /\ queue' = <<>>
    <3>1. {job[w] : w \in live} \ {NoJob} = {} /\ queue = <<>>
      <4> HIDE DEF TypeOK, In
      <4>. QED BY <2>1
    <3>. QED BY ONLY <2>1, <3>1
  <2>5. \A w \in Workers \ live' : job'[w] = NoJob
    BY <2>1
  <2>6. /\ \A i, j \in 1..Len(queue') : queue'[i] = queue'[j] => i = j
        /\ \A v, w \in Workers : job'[v] = job'[w] /\ job'[v] # NoJob => v = w
    BY <2>1
  <2>. QED
    BY <2>1, <2>3, <2>4, <2>5, <2>6
<1>4. ASSUME NEW r \in Requests, DeductBalance(r) PROVE OneHandler'
  BY <1>4, QueueAssumption DEF DeductBalance, Release
<1>5. ASSUME NEW r \in Requests, CreateRecord(r) PROVE OneHandler'
  BY <1>5, QueueAssumption DEF CreateRecord, Release
<1>6. ASSUME NEW r \in Requests, Refund(r) PROVE OneHandler'
  <2>1. Moves(r, "refunded") \/ Moves(r, "leaked")
    BY <1>6 DEF Refund
  <2>2. phase[r] = "unrecorded" /\ Release(r) /\ UNCHANGED <<queue, live, async>>
    BY <1>6 DEF Refund
  <2>3. In({"queued"})' = In({"queued"})
    BY <2>1, <2>2
  <2>4. In({"taken", "deducted", "unrecorded"})' = In({"taken", "deducted", "unrecorded"}) \ {r}
    BY <2>1, <2>2
  <2>5. {job'[w] : w \in live'} \ {NoJob} = ({job[w] : w \in live} \ {NoJob}) \ {r}
    <3>1. \A w \in Workers : job'[w] = IF job[w] = r THEN NoJob ELSE job[w]
      BY <2>2 DEF Release
    <3>2. live' = live /\ live \subseteq Workers
      BY <2>2
    <3> HIDE DEF TypeOK, OneHandler, In
    <3>. QED BY <3>1, <3>2
  <2>6. \A v, w \in Workers : job'[v] = job'[w] /\ job'[v] # NoJob => v = w
    BY <2>2 DEF Release
  <2>7. \A w \in Workers \ live' : job'[w] = NoJob
    BY <2>2 DEF Release
  <2>8. {job'[w] : w \in live'} \ {NoJob} =
          IF async THEN In({"taken", "deducted", "unrecorded"})' ELSE {}
    <3>1. {job[w] : w \in live} \ {NoJob} =
            IF async THEN In({"taken", "deducted", "unrecorded"}) ELSE {}
      OBVIOUS
    <3> HIDE DEF In
    <3>. QED BY <2>4, <2>5, <3>1
  <2>9. {queue'[i] : i \in 1..Len(queue')} = In({"queued"})'
    BY <2>2, <2>3
  <2>. QED
    BY <2>2, <2>6, <2>7, <2>8, <2>9
<1>7. ASSUME NEW w \in Workers, Take(w) PROVE OneHandler'
  <2> DEFINE r == Head(queue)
  <2>1. /\ r \in Requests /\ phase[r] = "queued" /\ r = queue[1]
        /\ Len(queue) \in Nat \ {0} /\ Len(queue') = Len(queue) - 1
        /\ \A i \in 1..Len(queue') : queue'[i] = queue[i + 1]
    BY <1>7, HeadQueued DEF Take
  <2>2. /\ Moves(r, "taken") /\ job' = [job EXCEPT ![w] = r]
        /\ job[w] = NoJob /\ w \in live /\ live' = live /\ async /\ async'
    BY <1>7 DEF Take
  <2> HIDE DEF r
  <2>3. \A i, j \in 1..Len(queue') : queue'[i] = queue'[j] => i = j
    BY <2>1
  <2>4. {queue'[i] : i \in 1..Len(queue')} = {queue[i] : i \in 1..Len(queue)} \ {r}
    <3>1. ASSUME NEW i \in 1..Len(queue') PROVE queue'[i] \in {queue[k] : k \in 1..Len(queue)} \ {r}
      BY <2>1
    <3>2. ASSUME NEW i \in 1..Len(queue), queue[i] # r
          PROVE  \E k \in 1..Len(queue') : queue'[k] = queue[i]
      <4>1. i - 1 \in 1..Len(queue') /\ queue'[i - 1] = queue[i]
        BY <2>1, <3>2
      <4>. QED BY <4>1
    <3>. QED
      BY <3>1, <3>2
  <2>5. In({"queued"})' = In({"queued"}) \ {r}
    BY <2>1, <2>2
  <2>6. In({"taken", "deducted", "unrecorded"})' = In({"taken", "deducted", "unrecorded"}) \cup {r}
    BY <2>1, <2>2
  <2>7. \A v \in Workers : job[v] # r
    <3> SUFFICES ASSUME NEW v \in Workers, job[v] = r PROVE FALSE
      OBVIOUS
    <3>1. job[v] # NoJob /\ v \in live
      BY <2>1, QueueAssumption
    <3>2. job[v] \in In({"taken", "deducted", "unrecorded"})
      BY <2>2, <3>1
    <3>. QED
      BY <2>1, <3>2
  <2>8. \A u, v \in Workers : job'[u] = job'[v] /\ job'[u] # NoJob => u = v
    BY <2>2, <2>7
  <2>9. {job'[v] : v \in live'} \ {NoJob} = ({job[v] : v \in live} \ {NoJob}) \cup {r}
    BY <2>1, <2>2, QueueAssumption
  <2>10. \A v \in Workers \ live' : job'[v] = NoJob
    BY <2>2
  <2>. QED
    BY <2>2, <2>3, <2>4, <2>5, <2>6, <2>8, <2>9, <2>10
<1>8. ASSUME NEW w \in Workers, Exit(w) PROVE OneHandler'
  BY <1>8, QueueAssumption DEF Exit
<1>9. CASE Stop
  BY <1>9 DEF Stop
<1>10. CASE Restart
  BY <1>10, QueueAssumption DEF Restart, Held, InProgress
<1>11. CASE UNCHANGED vars
  BY <1>11 DEF vars
<1>. QED
  BY <1>1, <1>2, <1>3, <1>4, <1>5, <1>6, <1>7, <1>8, <1>9, <1>10, <1>11 DEF Next, RecordUsage

-----------------------------------------------------------------------------
(* Theorems *)

\* The invariant holds in every reachable state.
THEOREM Invariance == Spec => []IInv
<1>1. IInv /\ [Next]_vars => IInv'
  BY TypeStep, HandlerStep, MoneyStep DEF IInv
<1>. QED
  BY InitInv, <1>1, PTL DEF Spec

\* Every variable keeps its type.
THEOREM TypeCorrect == Spec => []TypeOK
BY Invariance, PTL DEF IInv

\* Balance, money held and money paid always add up to the initial balance.
THEOREM MoneyConserved == Spec => []Conservation
BY Invariance, PTL DEF IInv

\* No interleaving of workers and requests overdraws a user.
THEOREM NeverOverdrawn == Spec => []Solvent
BY Invariance, PTL DEF IInv

\* No event is handled twice or forgotten while the process runs.
THEOREM HandledOnce == Spec => []OneHandler
BY Invariance, PTL DEF IInv

\* A charge is refused only when the user's money had gone to other requests.
THEOREM RefusalsJustified == Spec => []RefusalJustified
BY Invariance, PTL DEF IInv

-----------------------------------------------------------------------------
(* The refinement of AtomicBilling. *)

\* What the user can still spend, as AtomicBilling sees it.
Funds(u) == balance[u] + TotalCost[Of(u, Held)]

\* Nothing a step does changes the outcome of a settled request.
LEMMA SettledForGood ==
    ASSUME IInv, [Next]_vars, NEW q \in Requests, phase[q] \in Settled
    PROVE  phase'[q] = phase[q]
<1> USE DEF IInv, TypeOK, Moves, Settled
<1>1. ASSUME NEW r \in Requests, Admit(r) \/ TurnAway(r) \/ RecordInPlace(r)
      PROVE  phase'[q] = phase[q]
  BY <1>1 DEF Admit, TurnAway, RecordInPlace
<1>2. ASSUME NEW r \in Requests, EnqueueBilling(r) PROVE phase'[q] = phase[q]
  BY <1>2 DEF EnqueueBilling
<1>3. ASSUME NEW r \in Requests, RecordUsage(r) PROVE phase'[q] = phase[q]
  BY <1>3 DEF RecordUsage, DeductBalance, CreateRecord, Refund
<1>4. ASSUME NEW w \in Workers, Take(w) PROVE phase'[q] = phase[q]
  <2>1. Head(queue) \in Requests /\ phase[Head(queue)] = "queued"
    BY <1>4, HeadQueued DEF Take
  <2>. QED
    BY <1>4, <2>1 DEF Take
<1>5. ASSUME NEW w \in Workers, Exit(w) PROVE phase'[q] = phase[q]
  BY <1>5 DEF Exit
<1>6. CASE Stop
  BY <1>6 DEF Stop
<1>7. CASE Restart
  BY <1>7 DEF Restart, Held, In, InProgress
<1>8. CASE UNCHANGED vars
  BY <1>8 DEF vars
<1>. QED
  BY <1>1, <1>2, <1>3, <1>4, <1>5, <1>6, <1>7, <1>8 DEF Next

\* Funds are what the user started with less what has been paid for good: the
\* money held for requests in progress is the user's until their record exists.
LEMMA FundsLeft ==
    ASSUME NEW u \in Users, NEW b \in Int, b >= 0,
           NEW H \in SUBSET Requests, NEW P \in SUBSET Requests, H \cap P = {},
           b + TotalCost[Of(u, H \cup P)] = InitialBalance[u]
    PROVE  /\ b + TotalCost[Of(u, H)] = InitialBalance[u] - TotalCost[Of(u, P)]
           /\ b + TotalCost[Of(u, H)] \in Nat
<1> DEFINE Hu == Of(u, H)
           Pu == Of(u, P)
<1>1. /\ Hu \in SUBSET Requests /\ Pu \in SUBSET Requests
      /\ Hu \cap Pu = {} /\ Of(u, H \cup P) = Hu \cup Pu
  BY DEF Of
<1>2. InitialBalance[u] \in Nat /\ b + TotalCost[Hu \cup Pu] = InitialBalance[u]
  BY <1>1, BillingAssumption
<1> HIDE DEF Hu, Pu
<1>3. /\ TotalCost[Hu \cup Pu] = TotalCost[Hu] + TotalCost[Pu]
      /\ TotalCost[Hu] \in Nat /\ TotalCost[Pu] \in Nat
  BY <1>1, BillingAssumption
<1>. QED
  BY <1>2, <1>3 DEF Hu, Pu

\* Every step settles the requests whose outcome it decides, all at once: none
\* for most steps, one for a statement, everything in flight for a crash.
LEMMA StepSettles == IInv /\ IInv' /\ [Next]_vars => Ledger!Next
<1> SUFFICES ASSUME IInv, IInv', [Next]_vars PROVE Ledger!Next
  OBVIOUS
<1> DEFINE Open == Requests \ In(Settled)
           paid == {r \in Open : phase'[r] = "recorded"}
           lost == {r \in Open : phase'[r] = "leaked"}
           free == {r \in Open : phase'[r] \in Settled \ {"recorded", "leaked"}}
<1>1. TypeOK /\ TypeOK' /\ Conservation /\ Conservation' /\ Solvent /\ Solvent'
  BY DEF IInv
<1>2. \A q \in Requests : phase[q] \in Settled => phase'[q] = phase[q]
  BY SettledForGood
<1>3. Open = Ledger!With("open")
  BY <1>1 DEF Ledger!With, In, Settled
<1>4. paid \cap lost = {} /\ paid \cap free = {} /\ lost \cap free = {}
  BY DEF In
<1>5. Paid' = Paid \cup (paid \cup lost) /\ Paid \cap (paid \cup lost) = {}
  BY <1>1, <1>2 DEF Paid, In, Settled
<1>6. ASSUME NEW u \in Users
      PROVE  /\ Funds(u)' = Funds(u) - TotalCost[Of(u, paid \cup lost)]
             /\ Funds(u) >= TotalCost[Of(u, paid \cup lost)]
  <2> DEFINE P == Of(u, Paid)
             New == Of(u, paid \cup lost)
  <2>1. P \in SUBSET Requests /\ New \in SUBSET Requests /\ P \cap New = {}
    <3>1. paid \cup lost \in SUBSET Requests /\ Paid \in SUBSET Requests
      BY DEF Paid, In
    <3> HIDE DEF paid, lost
    <3>. QED
      BY <3>1, <1>5 DEF Of
  <2>2. Funds(u) = InitialBalance[u] - TotalCost[P] /\ Funds(u) \in Nat
    <3>1. /\ Held \in SUBSET Requests /\ Paid \in SUBSET Requests /\ Held \cap Paid = {}
          /\ balance[u] \in Int /\ balance[u] >= 0
          /\ balance[u] + TotalCost[Of(u, Held \cup Paid)] = InitialBalance[u]
      BY <1>1 DEF Held, Paid, In, TypeOK, Solvent, Conservation
    <3>. QED
      BY <3>1, FundsLeft DEF Funds
  <2>3. Funds(u)' = InitialBalance[u] - TotalCost[P \cup New] /\ Funds(u)' \in Nat
    <3> DEFINE Held2 == Held'
               Paid2 == Paid'
    <3>1. /\ Held2 \in SUBSET Requests /\ Paid2 \in SUBSET Requests /\ Held2 \cap Paid2 = {}
          /\ balance'[u] \in Int /\ balance'[u] >= 0
      BY <1>1 DEF Held, Paid, In, TypeOK, Solvent
    <3>2. balance'[u] + TotalCost[Of(u, Held2 \cup Paid2)] = InitialBalance[u]
      BY <1>1 DEF Conservation, Of
    <3>3. Funds(u)' = balance'[u] + TotalCost[Of(u, Held2)]
      BY DEF Funds, Of
    <3>4. Of(u, Paid2) = P \cup New
      BY <1>5 DEF Of
    <3> HIDE DEF Held2, Paid2, P, New
    <3>5. /\ balance'[u] + TotalCost[Of(u, Held2)] = InitialBalance[u] - TotalCost[Of(u, Paid2)]
          /\ balance'[u] + TotalCost[Of(u, Held2)] \in Nat
      BY ONLY <3>1, <3>2, FundsLeft, u \in Users, Zenon
    <3>. QED
      BY <3>3, <3>4, <3>5
  <2>4. InitialBalance[u] \in Nat
    BY BillingAssumption
  <2> HIDE DEF P, New
  <2>5. /\ TotalCost[P \cup New] = TotalCost[P] + TotalCost[New]
        /\ TotalCost[P] \in Nat /\ TotalCost[New] \in Nat
    BY <2>1, BillingAssumption
  <2>. QED
    BY <2>2, <2>3, <2>4, <2>5 DEF New
<1> DEFINE funds == [u \in Users |-> balance[u] + TotalCost[Of(u, Held)]]
           outcome == [r \in Requests |->
                         CASE phase[r] = "recorded" -> "charged"
                           [] phase[r] = "leaked" -> "leaked"
                           [] phase[r] \in Settled \ {"recorded", "leaked"} -> "waived"
                           [] OTHER -> "open"]
<1>7. /\ \A u \in Users : funds[u] >= TotalCost[Ledger!Of(u, paid \cup lost)]
      /\ funds' = [u \in Users |-> funds[u] - TotalCost[Ledger!Of(u, paid \cup lost)]]
  <2>1. \A u, S : Ledger!Of(u, S) = Of(u, S)
    BY DEF Ledger!Of, Of
  <2>. QED
    BY <1>6, <2>1 DEF Funds
<1>8. outcome' = [r \in Requests |-> IF r \in paid THEN "charged"
                                     ELSE IF r \in lost THEN "leaked"
                                     ELSE IF r \in free THEN "waived"
                                     ELSE outcome[r]]
  <2> SUFFICES ASSUME NEW r \in Requests
               PROVE  outcome'[r] = IF r \in paid THEN "charged"
                                    ELSE IF r \in lost THEN "leaked"
                                    ELSE IF r \in free THEN "waived"
                                    ELSE outcome[r]
    OBVIOUS
  <2>. QED
    BY <1>2 DEF In, Settled
<1>9. /\ paid \in SUBSET Ledger!With("open") /\ lost \in SUBSET Ledger!With("open")
      /\ free \in SUBSET Ledger!With("open")
  BY <1>3
<1> HIDE DEF Open, paid, lost, free
<1>10. \E p, l, f \in SUBSET Ledger!With("open") :
         /\ p \cap l = {} /\ p \cap f = {} /\ l \cap f = {}
         /\ \A u \in Users : funds[u] >= TotalCost[Ledger!Of(u, p \cup l)]
         /\ funds' = [u \in Users |-> funds[u] - TotalCost[Ledger!Of(u, p \cup l)]]
         /\ outcome' = [r \in Requests |-> IF r \in p THEN "charged"
                                          ELSE IF r \in l THEN "leaked"
                                          ELSE IF r \in f THEN "waived"
                                          ELSE outcome[r]]
  <2> HIDE DEF funds, outcome
  <2> USE <1>9
  <2> WITNESS paid \in SUBSET Ledger!With("open"), lost \in SUBSET Ledger!With("open"),
              free \in SUBSET Ledger!With("open")
  <2>. QED
    BY <1>4, <1>7, <1>8, Zenon
<1>. QED
  BY <1>10 DEF Ledger!Next, Ledger!Settle

\* Users of the queue, the workers and the three statements see what
\* AtomicBilling promises: each request settled at most once and in one step,
\* and funds that pay for nothing but charged and leaked requests.
THEOREM Refinement == Spec => ImplementsLedger
<1>1. Init => Ledger!Init
  <2> SUFFICES ASSUME Init PROVE Ledger!Init
    OBVIOUS
  <2>1. \A u \in Users : balance[u] + TotalCost[Of(u, Held)] = InitialBalance[u]
    <3> SUFFICES ASSUME NEW u \in Users
                 PROVE  balance[u] + TotalCost[Of(u, Held)] = InitialBalance[u]
      OBVIOUS
    <3>1. Of(u, Held) = {}
      BY DEF Init, Of, Held, In
    <3>2. TotalCost[Of(u, Held)] = 0 /\ InitialBalance[u] \in Nat
      BY <3>1, BillingAssumption
    <3>. QED
      BY <3>2 DEF Init
  <2>2. InitialBalance = [u \in Users |-> InitialBalance[u]]
    BY BillingAssumption
  <2>. QED
    BY <2>1, <2>2 DEF Init, Ledger!Init, Settled
<1>2. IInv /\ IInv' /\ [Next]_vars => [Ledger!Next]_(Ledger!ledger)
  BY StepSettles
<1>. QED
  BY <1>1, <1>2, Invariance, PTL DEF Spec, ImplementsLedger, Ledger!Spec

-----------------------------------------------------------------------------
(* The counters of the API key that the same requests use (APIKeyUsage), for   *)
(* every set of requests, providers and administrators and every additive     *)
(* token count.                                                                *)

\* A request that is not in a set adds its tokens to the set's.
LEMMA OneMore ==
    ASSUME NEW S \in SUBSET Served, NEW r \in Served \ S
    PROVE  /\ TotalTokens[S] \in Nat /\ Tokens(r) \in Nat
           /\ TotalTokens[S \cup {r}] = TotalTokens[S] + Tokens(r)
<1>1. {r} \in SUBSET Served /\ S \cap {r} = {}
  OBVIOUS
<1> QED
  BY <1>1, UsageAssumption DEF Tokens

\* What a provider served, when one more request is counted.
LEMMA OneMoreFor ==
    ASSUME NEW S \in SUBSET Served, NEW r \in Served \ S, NEW p \in Providers
    PROVE  /\ TotalTokens[For(p, S)] \in Nat
           /\ TotalTokens[For(p, S \cup {r})] =
                TotalTokens[For(p, S)] + (IF p = ProviderOf[r] THEN Tokens(r) ELSE 0)
<1>1. For(p, S) \in SUBSET Served /\ r \in Served \ For(p, S)
  BY DEF For
<1>2. TotalTokens[For(p, S)] \in Nat /\ Tokens(r) \in Nat
      /\ TotalTokens[For(p, S) \cup {r}] = TotalTokens[For(p, S)] + Tokens(r)
  BY <1>1, OneMore
<1>3. CASE p = ProviderOf[r]
  <2>1. For(p, S \cup {r}) = For(p, S) \cup {r}
    BY <1>3 DEF For
  <2> QED
    BY <1>2, <1>3, <2>1
<1>4. CASE p # ProviderOf[r]
  <2>1. For(p, S \cup {r}) = For(p, S)
    BY <1>4 DEF For
  <2> QED
    BY <1>2, <1>4, <2>1
<1> QED
  BY <1>3, <1>4

-----------------------------------------------------------------------------
(* Types, and which requests have been counted and added. *)

\* A request is counted or added at most once: only after the step that does it.
Progress ==
    /\ \A r \in counted : step[r] \in {"add", "done"}
    /\ \A r \in added : step[r] = "done"

BaseInv == KeyTypeOK /\ Progress

LEMMA BaseInit == KeyInit => BaseInv
BY DEF KeyInit, BaseInv, KeyTypeOK, Progress, NoUsage, Usages

LEMMA BaseStep == BaseInv /\ [KeyNext]_keyVars => BaseInv'
<1> SUFFICES ASSUME BaseInv, [KeyNext]_keyVars PROVE BaseInv'
  OBVIOUS
<1> USE DEF BaseInv, KeyTypeOK, Progress, Goto
<1>1. ASSUME NEW r \in Served, ReadUsage(r)
      PROVE  BaseInv'
  BY <1>1 DEF ReadUsage
<1>2. ASSUME NEW r \in Served, WriteUsage(r)
      PROVE  BaseInv'
  <2>1. Tokens(r) \in Nat /\ ProviderOf[r] \in Providers /\ seen[r] \in Usages
    BY UsageAssumption DEF Tokens
  <2>2. [seen[r] EXCEPT ![ProviderOf[r]] = @ + Tokens(r)] \in Usages
    BY <2>1 DEF Usages
  <2>3. total' \in Nat /\ usage' \in Usages /\ counted' \in SUBSET Served
    BY <1>2, <2>1, <2>2 DEF WriteUsage
  <2>4. step' = [step EXCEPT ![r] = "add"] /\ UNCHANGED <<seen, edit, added, stale>>
    BY <1>2 DEF WriteUsage
  <2>5. Progress'
    BY <1>2, <2>4 DEF WriteUsage
  <2> QED
    BY <2>3, <2>4, <2>5
<1>3. ASSUME NEW r \in Served, AddTokens(r)
      PROVE  BaseInv'
  <2>1. Tokens(r) \in Nat
    BY UsageAssumption DEF Tokens
  <2> QED
    BY <1>3, <2>1 DEF AddTokens
<1>4. ASSUME NEW a \in Admins, ReadKey(a)
      PROVE  BaseInv'
  <2>1. [by |-> a, total |-> total, usage |-> usage] \in [by : Admins, total : Nat, usage : Usages]
    OBVIOUS
  <2> QED
    BY <1>4, <2>1 DEF ReadKey
<1>5. ASSUME NEW a \in Admins, SaveKey(a)
      PROVE  BaseInv'
  BY <1>5 DEF SaveKey
<1>6. CASE UNCHANGED keyVars
  BY <1>6 DEF keyVars
<1> QED
  BY <1>1, <1>2, <1>3, <1>4, <1>5, <1>6 DEF KeyNext, CostLimitTool

\* Types of the usage model are preserved by every step.
THEOREM KeyTypeCorrect == KeySpec => []KeyTypeOK
<1>1. BaseInv => KeyTypeOK
  BY DEF BaseInv
<1> QED
  BY BaseInit, BaseStep, <1>1, PTL DEF KeySpec

-----------------------------------------------------------------------------
(* What the two updates do to the counters and to their histories. *)

LEMMA WriteEffect ==
    ASSUME BaseInv, NEW r \in Served, WriteUsage(r)
    PROVE  /\ UNCHANGED <<seen, edit, added, stale>> /\ step[r] = "write"
           /\ \A q \in Served : step'[q] = "write" => step[q] = "write"
           /\ \/ UNCHANGED <<total, usage, counted>>
              \/ /\ counted' = counted \cup {r}
                 /\ total' = total + Tokens(r)
                 /\ TotalTokens[counted'] = TotalTokens[counted] + Tokens(r)
                 /\ \A p \in Providers :
                      /\ usage'[p] = seen[r][p] + (IF p = ProviderOf[r] THEN Tokens(r) ELSE 0)
                      /\ TotalTokens[For(p, counted')] = TotalTokens[For(p, counted)]
                           + (IF p = ProviderOf[r] THEN Tokens(r) ELSE 0)
<1>1. UNCHANGED <<seen, edit, added, stale>> /\ step[r] = "write"
      /\ \A q \in Served : step'[q] = "write" => step[q] = "write"
  BY DEF WriteUsage, Goto, BaseInv, KeyTypeOK
<1>2. CASE UNCHANGED <<total, usage, counted>>
  BY <1>1, <1>2
<1>3. CASE ~UNCHANGED <<total, usage, counted>>
  <2>1. counted' = counted \cup {r} /\ total' = total + Tokens(r)
        /\ usage' = [seen[r] EXCEPT ![ProviderOf[r]] = @ + Tokens(r)]
    BY <1>3 DEF WriteUsage
  <2>2. counted \in SUBSET Served /\ r \in Served \ counted
    BY <1>1 DEF BaseInv, KeyTypeOK, Progress
  <2>3. TotalTokens[counted'] = TotalTokens[counted] + Tokens(r)
    BY <2>1, <2>2, OneMore
  <2>4. ASSUME NEW p \in Providers
        PROVE  /\ usage'[p] = seen[r][p] + (IF p = ProviderOf[r] THEN Tokens(r) ELSE 0)
               /\ TotalTokens[For(p, counted')] = TotalTokens[For(p, counted)]
                    + (IF p = ProviderOf[r] THEN Tokens(r) ELSE 0)
    <3>1. seen[r] \in [Providers -> Nat]
      BY DEF BaseInv, KeyTypeOK, Usages
    <3>2. usage'[p] = seen[r][p] + (IF p = ProviderOf[r] THEN Tokens(r) ELSE 0)
      BY <2>1, <3>1
    <3> QED
      BY <2>1, <2>2, <3>2, OneMoreFor
  <2> QED
    BY <1>1, <2>1, <2>3, <2>4
<1> QED
  BY <1>2, <1>3

LEMMA AddEffect ==
    ASSUME BaseInv, NEW r \in Served, AddTokens(r)
    PROVE  /\ UNCHANGED <<usage, seen, edit, counted, stale>>
           /\ \A q \in Served : step'[q] = "write" => step[q] = "write"
           /\ \/ UNCHANGED <<total, added>>
              \/ /\ total' = total + Tokens(r)
                 /\ TotalTokens[added'] = TotalTokens[added] + Tokens(r)
<1>1. UNCHANGED <<usage, seen, edit, counted, stale>>
      /\ \A q \in Served : step'[q] = "write" => step[q] = "write"
  BY DEF AddTokens, Goto, BaseInv, KeyTypeOK
<1>2. added \in SUBSET Served /\ r \in Served \ added
  BY DEF AddTokens, BaseInv, KeyTypeOK, Progress
<1>3. added' = added \cup {r} => TotalTokens[added'] = TotalTokens[added] + Tokens(r)
  BY <1>2, OneMore
<1> QED
  BY <1>1, <1>3 DEF AddTokens

\* The sums the properties are about are natural numbers.
LEMMA Sums ==
    ASSUME BaseInv
    PROVE  /\ TotalTokens[counted] \in Nat /\ TotalTokens[added] \in Nat
           /\ \A r \in Served : Tokens(r) \in Nat
           /\ \A p \in Providers : TotalTokens[For(p, counted)] \in Nat
<1>1. counted \in SUBSET Served /\ added \in SUBSET Served
  BY DEF BaseInv, KeyTypeOK
<1>2. \A p \in Providers : For(p, counted) \in SUBSET Served
  BY <1>1 DEF For
<1> QED
  BY <1>1, <1>2, UsageAssumption DEF Tokens

-----------------------------------------------------------------------------
(* Never overstated *)

\* Neither the counters nor any copy of them that may be written back later
\* shows more than the successful updates amount to.
CopiesBounded ==
    /\ \A r \in Served, p \in Providers :
         step[r] = "write" => seen[r][p] <= TotalTokens[For(p, counted)]
    /\ \A e \in edit :
         /\ e.total <= TotalTokens[counted] + TotalTokens[added]
         /\ \A p \in Providers : e.usage[p] <= TotalTokens[For(p, counted)]

BoundInv == BaseInv /\ NeverOverstated /\ CopiesBounded

LEMMA BoundStep == BoundInv /\ [KeyNext]_keyVars => BoundInv'
<1> SUFFICES ASSUME BoundInv, [KeyNext]_keyVars PROVE BoundInv'
  OBVIOUS
<1>0. BaseInv /\ BaseInv' /\ NeverOverstated /\ CopiesBounded
  BY BaseStep DEF BoundInv
<1>s. /\ TotalTokens[counted] \in Nat /\ TotalTokens[added] \in Nat
      /\ \A r \in Served : Tokens(r) \in Nat
      /\ \A p \in Providers : TotalTokens[For(p, counted)] \in Nat
  BY <1>0, Sums
<1>t. /\ total \in Nat /\ usage \in [Providers -> Nat]
      /\ \A r \in Served : seen[r] \in [Providers -> Nat]
      /\ \A e \in edit : e.total \in Nat /\ e.usage \in [Providers -> Nat]
  BY <1>0 DEF BaseInv, KeyTypeOK, Usages
<1>1. ASSUME NEW r \in Served, ReadUsage(r)
      PROVE  NeverOverstated' /\ CopiesBounded'
  <2>1. UNCHANGED <<total, usage, edit, counted, added>>
    BY <1>1 DEF ReadUsage
  <2>2. \A q \in Served : step'[q] = "write" =>
          seen'[q] = usage \/ (step[q] = "write" /\ seen'[q] = seen[q])
    BY <1>0, <1>1 DEF ReadUsage, Goto, BaseInv, KeyTypeOK
  <2> QED
    BY <1>0, <2>1, <2>2 DEF NeverOverstated, CopiesBounded
<1>2. ASSUME NEW r \in Served, WriteUsage(r)
      PROVE  NeverOverstated' /\ CopiesBounded'
  <2>1. /\ UNCHANGED <<seen, edit, added, stale>> /\ step[r] = "write"
        /\ \A q \in Served : step'[q] = "write" => step[q] = "write"
    BY <1>0, <1>2, WriteEffect
  <2>2. CASE UNCHANGED <<total, usage, counted>>
    BY <1>0, <2>1, <2>2 DEF NeverOverstated, CopiesBounded
  <2>3. CASE ~UNCHANGED <<total, usage, counted>>
    <3>1. /\ total' = total + Tokens(r)
          /\ TotalTokens[counted'] = TotalTokens[counted] + Tokens(r)
          /\ \A p \in Providers :
               /\ usage'[p] = seen[r][p] + (IF p = ProviderOf[r] THEN Tokens(r) ELSE 0)
               /\ TotalTokens[For(p, counted')] = TotalTokens[For(p, counted)]
                    + (IF p = ProviderOf[r] THEN Tokens(r) ELSE 0)
      BY <1>0, <1>2, <2>3, WriteEffect
    <3>2. \A p \in Providers : TotalTokens[For(p, counted')] >= TotalTokens[For(p, counted)]
      BY <1>s, <3>1
    <3>3. NeverOverstated'
      <4>1. total' <= TotalTokens[counted'] + TotalTokens[added']
        BY <1>0, <1>s, <1>t, <2>1, <3>1 DEF NeverOverstated
      <4>2. ASSUME NEW p \in Providers PROVE usage'[p] <= TotalTokens[For(p, counted')]
        <5>1. seen[r][p] <= TotalTokens[For(p, counted)] /\ seen[r][p] \in Nat
          BY <1>0, <1>t, <2>1 DEF CopiesBounded
        <5> QED
          BY <1>s, <3>1, <5>1
      <4> QED
        BY <4>1, <4>2 DEF NeverOverstated, For
    <3>4. CopiesBounded'
      <4>1. ASSUME NEW q \in Served, NEW p \in Providers, step'[q] = "write"
            PROVE  seen'[q][p] <= TotalTokens[For(p, counted')]
        <5>1. seen[q][p] <= TotalTokens[For(p, counted)] /\ seen[q][p] \in Nat
          BY <1>0, <1>t, <2>1, <4>1 DEF CopiesBounded
        <5> QED
          BY <1>s, <2>1, <3>1, <5>1
      <4>2. ASSUME NEW e \in edit'
            PROVE  /\ e.total <= TotalTokens[counted'] + TotalTokens[added']
                   /\ \A p \in Providers : e.usage[p] <= TotalTokens[For(p, counted')]
        <5>1. /\ e.total <= TotalTokens[counted] + TotalTokens[added]
              /\ \A p \in Providers : e.usage[p] <= TotalTokens[For(p, counted)]
          BY <1>0, <2>1 DEF CopiesBounded
        <5>2. e.total \in Nat /\ \A p \in Providers : e.usage[p] \in Nat
          BY <1>t, <2>1
        <5> QED
          BY <1>s, <2>1, <3>1, <5>1, <5>2
      <4> QED
        BY <4>1, <4>2 DEF CopiesBounded, For
    <3> QED
      BY <3>3, <3>4
  <2> QED
    BY <2>2, <2>3
<1>3. ASSUME NEW r \in Served, AddTokens(r)
      PROVE  NeverOverstated' /\ CopiesBounded'
  <2>1. /\ UNCHANGED <<usage, seen, edit, counted, stale>>
        /\ \A q \in Served : step'[q] = "write" => step[q] = "write"
    BY <1>0, <1>3, AddEffect
  <2>2. /\ total' <= TotalTokens[counted] + TotalTokens[added']
        /\ TotalTokens[added'] >= TotalTokens[added] /\ TotalTokens[added'] \in Nat
    BY <1>0, <1>s, <1>t, <1>3, AddEffect DEF NeverOverstated
  <2>3. \A e \in edit : e.total <= TotalTokens[counted] + TotalTokens[added']
    BY <1>0, <1>s, <1>t, <2>2 DEF CopiesBounded
  <2> QED
    BY <1>0, <2>1, <2>2, <2>3 DEF NeverOverstated, CopiesBounded
<1>4. ASSUME NEW a \in Admins, ReadKey(a)
      PROVE  NeverOverstated' /\ CopiesBounded'
  BY <1>0, <1>4 DEF ReadKey, NeverOverstated, CopiesBounded
<1>5. ASSUME NEW a \in Admins, SaveKey(a)
      PROVE  NeverOverstated' /\ CopiesBounded'
  <2>1. PICK e \in edit : total' = e.total /\ usage' = e.usage /\ edit' = edit \ {e}
    BY <1>5 DEF SaveKey
  <2>2. UNCHANGED <<step, seen, counted, added>>
    BY <1>5 DEF SaveKey
  <2> QED
    BY <1>0, <2>1, <2>2 DEF NeverOverstated, CopiesBounded
<1>6. CASE UNCHANGED keyVars
  BY <1>0, <1>6 DEF keyVars, NeverOverstated, CopiesBounded, BoundInv
<1> QED
  BY <1>0, <1>1, <1>2, <1>3, <1>4, <1>5, <1>6 DEF KeyNext, CostLimitTool, BoundInv

\* Whatever is lost to concurrent requests and stale rows, no counter of the key
\* ever shows more than its requests' successful updates amount to.
THEOREM UsageNeverOverstated == KeySpec => []NeverOverstated
<1>1. KeyInit => BoundInv
  <2> SUFFICES ASSUME KeyInit PROVE NeverOverstated /\ CopiesBounded
    BY BaseInit DEF BoundInv
  <2>1. \A p \in Providers : For(p, counted) = {}
    BY DEF KeyInit, For
  <2> QED
    BY <2>1, UsageAssumption DEF KeyInit, NoUsage, NeverOverstated, CopiesBounded
<1>2. BoundInv => NeverOverstated
  BY DEF BoundInv
<1> QED
  BY BoundStep, <1>1, <1>2, PTL DEF KeySpec

-----------------------------------------------------------------------------
(* Exact, until an out-of-date row is saved *)

\* The monthly total loses no increment to the requests that add to it at the
\* same time; only the save of an out-of-date row takes some away.
THEOREM IncrementsExact == KeySpec => []TotalExact
<1> DEFINE Inv == BaseInv /\ TotalExact
<1>1. KeyInit => Inv
  BY BaseInit, UsageAssumption DEF KeyInit, TotalExact
<1>2. Inv /\ [KeyNext]_keyVars => Inv'
  <2> SUFFICES ASSUME Inv, [KeyNext]_keyVars PROVE TotalExact'
    BY BaseStep
  <2>s. TotalTokens[counted] \in Nat /\ TotalTokens[added] \in Nat
        /\ \A r \in Served : Tokens(r) \in Nat
    BY Sums
  <2>1. ASSUME NEW r \in Served, ReadUsage(r) PROVE TotalExact'
    BY <2>1 DEF ReadUsage, TotalExact
  <2>2. ASSUME NEW r \in Served, WriteUsage(r) PROVE TotalExact'
    BY <2>2, <2>s, WriteEffect DEF TotalExact
  <2>3. ASSUME NEW r \in Served, AddTokens(r) PROVE TotalExact'
    BY <2>3, <2>s, AddEffect DEF TotalExact
  <2>4. ASSUME NEW a \in Admins, ReadKey(a) PROVE TotalExact'
    BY <2>4 DEF ReadKey, TotalExact
  <2>5. ASSUME NEW a \in Admins, SaveKey(a) PROVE TotalExact'
    <3>1. PICK e \in edit :
            total' = e.total /\ stale' = IF e.total = total THEN stale ELSE stale \cup {a}
      BY <2>5 DEF SaveKey
    <3>2. UNCHANGED <<counted, added>>
      BY <2>5 DEF SaveKey
    <3> QED
      BY <3>1, <3>2 DEF TotalExact
  <2>6. CASE UNCHANGED keyVars
    BY <2>6 DEF keyVars, TotalExact
  <2> QED
    BY <2>1, <2>2, <2>3, <2>4, <2>5, <2>6 DEF KeyNext, CostLimitTool
<1>3. Inv => TotalExact
  OBVIOUS
<1> QED
  BY <1>1, <1>2, <1>3, PTL DEF KeySpec
=============================================================================
