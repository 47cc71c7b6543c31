------------------------- MODULE PaymentOrderProofs -------------------------
(***************************************************************************)
(* Theorems about PaymentOrder, for every set of orders, accounts and      *)
(* concurrent callback handlers, with their proofs; and, from "Signing in" *)
(* on, theorems about Sessions, for every set of passwords, tenants and    *)
(* callers and every bound on the failed logins.                           *)
(***************************************************************************)
EXTENDS PaymentOrder, Sessions, FiniteSetTheorems, TLAPS

USE DEF vars, handler, history

-----------------------------------------------------------------------------
(* The inductive invariant *)

\* The gateway is still being called for an order only before its trade begins,
\* and only a created order has a trade.
TradesAfterCreation ==
    \A o \in Orders :
        /\ o \in creating => trade[o] = "open" /\ status[o] # "none"
        /\ trade[o] # "open" => status[o] # "none"

\* A handler works on an order with a trade that it has not credited yet; once
\* it has saved the order, nothing makes the order pending again.
HandlerState ==
    \A h \in Handlers : step[h] # "idle" =>
        /\ trade[order[h]] # "open"
        /\ credits[h][order[h]] = 0
        /\ step[h] # "save" => status[order[h]] \notin {"none", "pending"}

\* An order that credited an account is not pending, so no notice passes the
\* status check any more.
CreditedIsSettled ==
    \A h \in Handlers, o \in Orders : credits[h][o] > 0 =>
        trade[o] # "open" /\ status[o] \notin {"none", "pending"}

RefusalInv ==
    TypeOK /\ TradesAfterCreation /\ HandlerState /\ CreditedIsSettled /\ RepeatRefused

-----------------------------------------------------------------------------
LEMMA NoRowType == NoRow \in Rows
BY DEF NoRow, Rows

\* A handler that returns is idle, and the handlers' state keeps its type.
HandlersOK ==
    /\ step \in [Handlers -> {"idle", "save", "load", "credit"}]
    /\ order \in [Handlers -> Orders \cup {NoOrder}]
    /\ read \in [Handlers -> Rows]
    /\ \A h \in Handlers : step[h] = "idle" <=> order[h] = NoOrder

LEMMA ReturnType ==
    ASSUME HandlersOK, NEW h \in Handlers, Return(h)
    PROVE  HandlersOK'
BY NoRowType, PaymentAssumption DEF HandlersOK, Return, Enter

LEMMA TypeInit == Init => TypeOK
BY PaymentAssumption DEF Init, TypeOK, Statuses, Rows, NoRow

\* What a recharge by hand does to the accounts: nothing, or it adds its amount.
LEMMA TopUpEffect ==
    ASSUME TypeOK, NEW t \in TopUps, UpdateBalance(t)
    PROVE  /\ row' \in [Accounts -> Rows] /\ credited' \in [Accounts -> Nat]
           /\ AccountOf[t] \in Accounts /\ Amount[t] \in Nat
           /\ UNCHANGED <<step, order, read>>
           /\ overlapped \subseteq overlapped'
           /\ \/ UNCHANGED <<row, credited>>
              \/ /\ AccountOf[t] \in InHand => AccountOf[t] \in overlapped'
                 /\ \A a \in Accounts :
                      IF a = AccountOf[t]
                         THEN /\ row'[a].balance = row[a].balance + Amount[t]
                              /\ credited'[a] = credited[a] + Amount[t]
                         ELSE row'[a] = row[a] /\ credited'[a] = credited[a]
<1>1. AccountOf[t] \in Accounts /\ Amount[t] \in Nat
  BY PaymentAssumption
<1>2. row \in [Accounts -> Rows] /\ credited \in [Accounts -> Nat]
  BY DEF TypeOK
<1>3. UNCHANGED <<step, order, read>> /\ overlapped \subseteq overlapped'
  BY DEF UpdateBalance
<1>4. CASE UNCHANGED <<row, credited>>
  BY <1>1, <1>2, <1>3, <1>4
<1>5. CASE ~UNCHANGED <<row, credited>>
  <2>1. /\ row' = [row EXCEPT ![AccountOf[t]].balance = @ + Amount[t]]
        /\ credited' = [credited EXCEPT ![AccountOf[t]] = @ + Amount[t]]
        /\ overlapped' = overlapped \cup ({AccountOf[t]} \cap InHand)
    BY <1>5 DEF UpdateBalance
  <2> DEFINE new == [row[AccountOf[t]] EXCEPT !.balance = @ + Amount[t]]
  <2>2. new \in Rows /\ new.balance = row[AccountOf[t]].balance + Amount[t]
    BY <1>1, <1>2 DEF Rows
  <2>3. row' = [row EXCEPT ![AccountOf[t]] = new]
    BY <2>1
  <2> HIDE DEF new
  <2> QED
    BY <1>1, <1>2, <1>3, <2>1, <2>2, <2>3
<1> QED
  BY <1>4, <1>5

LEMMA TypeStep == TypeOK /\ [Next]_vars => TypeOK'
<1> SUFFICES ASSUME TypeOK, [Next]_vars PROVE TypeOK'
  OBVIOUS
<1>0. HandlersOK
  BY DEF TypeOK, HandlersOK
<1> USE DEF TypeOK, Statuses
<1>1. ASSUME NEW o \in Orders, Create(o) \/ Created(o) \/ CancelReads(o) \/ CancelSaves(o)
                               \/ Expire(o)
      PROVE  TypeOK'
  BY <1>1 DEF Create, Created, CancelReads, CancelSaves, Expire, SetStatus
<1>2. ASSUME NEW o \in Orders, Trade(o)
      PROVE  TypeOK'
  BY <1>2 DEF Trade
<1>3. ASSUME NEW h \in Handlers, NEW o \in Orders, Callback(h, o)
      PROVE  TypeOK'
  BY <1>3, PaymentAssumption DEF Callback, Enter
<1>4. ASSUME NEW h \in Handlers, SavePaid(h)
      PROVE  TypeOK'
  <2>1. UNCHANGED <<creating, cancelling, trade, topUp, row, history>>
    BY <1>4 DEF SavePaid
  <2>2. status' \in [Orders -> Statuses]
    BY <1>4 DEF SavePaid, SetStatus
  <2>3. HandlersOK'
    <3>1. CASE Return(h)
      BY <3>1, <1>0, ReturnType
    <3>2. CASE Enter(h, "load") /\ UNCHANGED <<order, read>>
      BY <3>2, <1>4 DEF Enter, HandlersOK, SavePaid
    <3> QED
      BY <3>1, <3>2, <1>4 DEF SavePaid
  <2> QED
    BY <2>1, <2>2, <2>3 DEF HandlersOK
<1>5. ASSUME NEW h \in Handlers, LoadAccount(h)
      PROVE  TypeOK'
  <2>1. UNCHANGED <<status, creating, cancelling, trade, topUp, row, credits, credited>>
    BY <1>5 DEF LoadAccount
  <2>11. overlapped' \in SUBSET Accounts
    <3>1. order[h] \in Orders
      BY <1>5 DEF LoadAccount
    <3>2. AccountOf[order[h]] \in Accounts
      BY <3>1, PaymentAssumption
    <3> QED
      BY <1>5, <3>2 DEF LoadAccount
  <2>2. HandlersOK'
    <3>1. CASE Return(h)
      BY <3>1, <1>0, ReturnType
    <3>2. CASE /\ read' = [read EXCEPT ![h] = row[AccountOf[order[h]]]]
               /\ Enter(h, "credit") /\ UNCHANGED order
      <4>1. order[h] \in Orders /\ step[h] = "load"
        BY <1>5 DEF LoadAccount
      <4>2. row[AccountOf[order[h]]] \in Rows
        BY <4>1, PaymentAssumption
      <4> QED
        BY <3>2, <4>1, <4>2 DEF Enter, HandlersOK
    <3> QED
      BY <3>1, <3>2, <1>5 DEF LoadAccount
  <2> QED
    BY <2>1, <2>11, <2>2 DEF HandlersOK
<1>6. ASSUME NEW h \in Handlers, Credit(h)
      PROVE  TypeOK'
  <2> DEFINE o == order[h]  a == AccountOf[o]
  <2>1. /\ o \in Orders /\ a \in Accounts /\ Amount[o] \in Nat
        /\ read[h].balance + Amount[o] \in Int
        /\ [balance |-> read[h].balance + Amount[o], status |-> "active"] \in Rows
    <3>1. o \in Orders
      BY <1>6 DEF Credit
    <3>2. read[h] \in Rows /\ Amount[o] \in Nat /\ a \in Accounts
      BY <3>1, PaymentAssumption
    <3> QED
      BY <3>1, <3>2 DEF Rows
  <2>2. Return(h) /\ UNCHANGED <<status, creating, cancelling, trade, topUp, overlapped>>
    BY <1>6 DEF Credit
  <2>3. HandlersOK'
    BY <2>2, <1>0, ReturnType
  <2>4. CASE UNCHANGED <<row, credits, credited>>
    BY <2>2, <2>3, <2>4 DEF HandlersOK
  <2>5. CASE ~UNCHANGED <<row, credits, credited>>
    <3>1. /\ row' = [row EXCEPT ![a] = [balance |-> read[h].balance + Amount[o],
                                         status |-> "active"]]
          /\ credits' = [credits EXCEPT ![h][o] = @ + 1]
          /\ credited' = [credited EXCEPT ![a] = @ + Amount[o]]
      BY <1>6, <2>5 DEF Credit
    <3> HIDE DEF o, a
    <3>2. row' \in [Accounts -> Rows]
      BY <2>1, <3>1
    <3>3. credits' \in [Handlers -> [Orders -> Nat]]
      BY <2>1, <3>1
    <3>4. credited' \in [Accounts -> Nat]
      BY <2>1, <3>1
    <3> QED
      BY <2>2, <2>3, <3>2, <3>3, <3>4 DEF HandlersOK
  <2> QED
    BY <2>4, <2>5
<1>7. CASE Restart
  BY <1>7, NoRowType DEF Restart
<1>8. CASE UNCHANGED vars
  BY <1>8
<1>9. ASSUME NEW t \in TopUps, Recharge(t) \/ MarkCompleted(t)
      PROVE  TypeOK'
  BY <1>9 DEF Recharge, MarkCompleted, Proceed
<1>10. ASSUME NEW t \in TopUps, UpdateBalance(t)
       PROVE  TypeOK'
  <2>1. UNCHANGED <<status, creating, cancelling, trade, handler, credits>>
    BY <1>10 DEF UpdateBalance
  <2>2. topUp' \in [TopUps -> {"none", "inserted", "added", "completed", "stuck"}]
    BY <1>10 DEF UpdateBalance, Proceed
  <2>3. row' \in [Accounts -> Rows] /\ credited' \in [Accounts -> Nat]
    BY <1>10, TopUpEffect
  <2>4. overlapped' \in SUBSET Accounts
    BY <1>10, PaymentAssumption DEF UpdateBalance
  <2> QED
    BY <2>1, <2>2, <2>3, <2>4
<1> QED
  BY <1>1, <1>2, <1>3, <1>4, <1>5, <1>6, <1>7, <1>8, <1>9, <1>10 DEF Next, ProcessPaymentCallback

-----------------------------------------------------------------------------
LEMMA RefusalInit == Init => RefusalInv
<1> SUFFICES ASSUME Init PROVE RefusalInv
  OBVIOUS
<1>1. TypeOK
  BY TypeInit
<1> QED
  BY <1>1 DEF RefusalInv, Init, TradesAfterCreation, HandlerState, CreditedIsSettled, RepeatRefused

LEMMA RefusalStep == RefusalInv /\ [Next]_vars => RefusalInv'
<1> SUFFICES ASSUME RefusalInv, [Next]_vars PROVE RefusalInv'
  OBVIOUS
<1>0. TypeOK'
  BY TypeStep DEF RefusalInv
<1> USE <1>0 DEF RefusalInv, TypeOK, TradesAfterCreation, HandlerState, CreditedIsSettled,
                 RepeatRefused, SetStatus, Enter, Return
<1>1. ASSUME NEW o \in Orders, Create(o) \/ Created(o) \/ CancelReads(o) \/ CancelSaves(o)
                               \/ Expire(o)
      PROVE  RefusalInv'
  BY <1>1 DEF Create, Created, CancelReads, CancelSaves, Expire
<1>2. ASSUME NEW o \in Orders, Trade(o)
      PROVE  RefusalInv'
  BY <1>2 DEF Trade
<1>3. ASSUME NEW h \in Handlers, NEW o \in Orders, Callback(h, o)
      PROVE  RefusalInv'
  BY <1>3 DEF Callback, Notified
<1>4. ASSUME NEW h \in Handlers, SavePaid(h)
      PROVE  RefusalInv'
  <2>1. /\ step[h] # "idle" /\ order[h] \in Orders /\ status[order[h]] \in Statuses
        /\ trade[order[h]] # "open" /\ credits[h][order[h]] = 0
    BY <1>4 DEF SavePaid
  <2>2. UNCHANGED <<creating, cancelling, trade, topUp, credits>>
    BY <1>4 DEF SavePaid, history
  <2>3. status' = status \/ status' = [status EXCEPT ![order[h]] = "paid"]
    BY <1>4 DEF SavePaid
  <2>4. \A o \in Orders : status'[o] = status[o] \/ (o = order[h] /\ status'[o] = "paid")
    BY <2>1, <2>3
  <2>5. \A g \in Handlers \ {h} : step'[g] = step[g] /\ order'[g] = order[g]
    BY <1>4 DEF SavePaid
  <2>6. step'[h] = "idle" \/ /\ step'[h] = "load" /\ order'[h] = order[h]
                             /\ status'[order[h]] = "paid"
    BY <1>4, <2>1 DEF SavePaid
  <2>7. TradesAfterCreation'
    BY <2>1, <2>2, <2>4
  <2>8. HandlerState'
    <3> SUFFICES ASSUME NEW g \in Handlers, step'[g] # "idle"
                 PROVE  /\ trade[order'[g]] # "open" /\ credits[g][order'[g]] = 0
                        /\ step'[g] # "save" => status'[order'[g]] \notin {"none", "pending"}
      BY <2>2
    <3>1. CASE g = h
      BY <2>1, <2>6, <3>1
    <3>2. CASE g # h
      <4>1. order[g] \in Orders /\ step[g] # "idle"
        BY <2>5, <3>2
      <4> QED
        BY <2>4, <2>5, <3>2, <4>1
    <3> QED
      BY <3>1, <3>2
  <2>9. CreditedIsSettled' /\ RepeatRefused'
    BY <2>2, <2>4
  <2> QED
    BY <2>7, <2>8, <2>9
<1>5. ASSUME NEW h \in Handlers, LoadAccount(h)
      PROVE  RefusalInv'
  BY <1>5 DEF LoadAccount
<1>6. ASSUME NEW h \in Handlers, Credit(h)
      PROVE  RefusalInv'
  <2>1. order[h] \in Orders /\ credits[h][order[h]] = 0
    BY <1>6 DEF Credit
  <2>2. UNCHANGED <<status, creating, cancelling, trade, topUp>>
    BY <1>6 DEF Credit
  <2>3. \A g \in Handlers, o \in Orders :
          /\ credits'[g][o] = credits[g][o] \/ (g = h /\ o = order[h] /\ credits'[g][o] = 1)
    BY <1>6, <2>1 DEF Credit
  <2>4. \A g \in Handlers : step'[g] # "idle" =>
          g # h /\ step'[g] = step[g] /\ order'[g] = order[g]
    BY <1>6 DEF Credit
  <2>8. trade[order[h]] # "open" /\ status[order[h]] \notin {"none", "pending"}
    BY <1>6 DEF Credit
  <2>9. CreditedIsSettled'
    <3> SUFFICES ASSUME NEW g \in Handlers, NEW o \in Orders, credits'[g][o] > 0
                 PROVE  trade[o] # "open" /\ status[o] \notin {"none", "pending"}
      BY <2>2
    <3>1. CASE credits'[g][o] = credits[g][o]
      BY <3>1
    <3>2. CASE g = h /\ o = order[h]
      BY <3>2, <2>8
    <3> QED
      BY <3>1, <3>2, <2>3
  <2>10. RepeatRefused'
    <3> SUFFICES ASSUME NEW g \in Handlers, NEW o \in Orders PROVE credits'[g][o] <= 1
      OBVIOUS
    <3>1. credits[g][o] <= 1
      OBVIOUS
    <3>2. CASE credits'[g][o] = credits[g][o]
      BY <3>1, <3>2
    <3>3. CASE credits'[g][o] = 1
      BY <3>3
    <3> QED
      BY <2>3, <3>2, <3>3
  <2>6. \A g \in Handlers : step'[g] # "idle" => credits'[g][order'[g]] = 0
    BY <2>3, <2>4
  <2>7. HandlerState'
    BY <2>2, <2>4, <2>6
  <2> QED
    BY <2>2, <2>7, <2>9, <2>10
<1>7. CASE Restart
  BY <1>7 DEF Restart
<1>8. CASE UNCHANGED vars
  BY <1>8
<1>9. ASSUME NEW t \in TopUps, Recharge(t) \/ UpdateBalance(t) \/ MarkCompleted(t)
      PROVE  RefusalInv'
  BY <1>9 DEF Recharge, UpdateBalance, MarkCompleted
<1> QED
  BY <1>1, <1>2, <1>3, <1>4, <1>5, <1>6, <1>7, <1>8, <1>9 DEF Next, ProcessPaymentCallback

\* Types of the payment model are preserved by every step.
THEOREM TypeCorrect == Spec => []TypeOK
BY TypeInit, TypeStep, PTL DEF Spec

\* However creation, cancellation, expiry, restarts and repeated notices
\* interleave, no handler credits an order that was credited before it read it.
THEOREM NoRepeatedCredit == Spec => []RepeatRefused
<1>1. RefusalInv => RepeatRefused
  BY DEF RefusalInv
<1> QED
  BY RefusalInit, RefusalStep, <1>1, PTL DEF Spec

-----------------------------------------------------------------------------
(* Whether the buyer paid *)

\* With a provider that reports successful trades only, a handler works on, and
\* has credited, only orders that were paid in full.
WorkIsPaid ==
    \A h \in Handlers : step[h] # "idle" => trade[order[h]] = "paid"

PaidInv == TypeOK /\ WorkIsPaid /\ CreditedWasPaid

LEMMA PaidStep ==
    ASSUME FailedNotices = FALSE
    PROVE  PaidInv /\ [Next]_vars => PaidInv'
<1> SUFFICES ASSUME PaidInv, [Next]_vars PROVE PaidInv'
  OBVIOUS
<1>0. TypeOK'
  BY TypeStep DEF PaidInv
<1> USE <1>0 DEF PaidInv, TypeOK, WorkIsPaid, CreditedWasPaid, SetStatus, Enter, Return
<1>1. ASSUME NEW o \in Orders, Create(o) \/ Created(o) \/ CancelReads(o) \/ CancelSaves(o)
                               \/ Expire(o)
      PROVE  PaidInv'
  BY <1>1 DEF Create, Created, CancelReads, CancelSaves, Expire
<1>2. ASSUME NEW o \in Orders, Trade(o)
      PROVE  PaidInv'
  BY <1>2 DEF Trade
<1>3. ASSUME NEW h \in Handlers, NEW o \in Orders, Callback(h, o)
      PROVE  PaidInv'
  BY <1>3 DEF Callback, Notified, PaidAmountSuffices
<1>4. ASSUME NEW h \in Handlers, SavePaid(h)
      PROVE  PaidInv'
  <2>1. UNCHANGED <<trade, credits>>
    BY <1>4 DEF SavePaid
  <2>2. \A g \in Handlers : step'[g] # "idle" => step[g] # "idle" /\ order'[g] = order[g]
    BY <1>4 DEF SavePaid
  <2> QED
    BY <2>1, <2>2
<1>5. ASSUME NEW h \in Handlers, LoadAccount(h)
      PROVE  PaidInv'
  <2>1. UNCHANGED <<trade, credits>>
    BY <1>5 DEF LoadAccount
  <2>2. \A g \in Handlers : step'[g] # "idle" => step[g] # "idle" /\ order'[g] = order[g]
    BY <1>5 DEF LoadAccount
  <2> QED
    BY <2>1, <2>2
<1>6. ASSUME NEW h \in Handlers, Credit(h)
      PROVE  PaidInv'
  <2>1. \A g \in Handlers, o \in Orders :
          credits'[g][o] = credits[g][o] \/ (g = h /\ o = order[h])
    BY <1>6 DEF Credit
  <2>2. trade' = trade /\ trade[order[h]] = "paid"
    BY <1>6 DEF Credit
  <2>3. CreditedWasPaid'
    BY <2>1, <2>2
  <2>4. WorkIsPaid'
    BY <1>6 DEF Credit
  <2> QED
    BY <2>3, <2>4
<1>7. CASE Restart
  BY <1>7 DEF Restart
<1>8. CASE UNCHANGED vars
  BY <1>8
<1>9. ASSUME NEW t \in TopUps, Recharge(t) \/ UpdateBalance(t) \/ MarkCompleted(t)
      PROVE  PaidInv'
  <2>1. UNCHANGED <<trade, step, order, credits>>
    BY <1>9 DEF Recharge, UpdateBalance, MarkCompleted
  <2> QED
    BY <2>1
<1> QED
  BY <1>1, <1>2, <1>3, <1>4, <1>5, <1>6, <1>7, <1>8, <1>9 DEF Next, ProcessPaymentCallback

\* If the provider only reports successful trades, no order credits an account
\* before its buyer has paid it in full.
THEOREM CreditsArePaid ==
    ASSUME FailedNotices = FALSE
    PROVE  Spec => []CreditedWasPaid
<1>1. Init => PaidInv
  BY TypeInit DEF PaidInv, Init, WorkIsPaid, CreditedWasPaid
<1>2. PaidInv /\ [Next]_vars => PaidInv'
  BY PaidStep
<1>3. PaidInv => CreditedWasPaid
  BY DEF PaidInv
<1> QED
  BY <1>1, <1>2, <1>3, PTL DEF Spec

-----------------------------------------------------------------------------
(* The accounts *)

\* Only a handler's last two steps and recharges touch the accounts or a copy.
LEMMA AccountFrame ==
    ASSUME TypeOK, [Next]_vars,
           \A h \in Handlers : ~LoadAccount(h) /\ ~Credit(h),
           \A t \in TopUps : ~UpdateBalance(t)
    PROVE  /\ UNCHANGED <<row, credited, overlapped>>
           /\ \A h \in Handlers : step'[h] = "credit" =>
                step[h] = "credit" /\ order'[h] = order[h] /\ read'[h] = read[h]
<1> DEFINE Kept == /\ UNCHANGED <<row, credited, overlapped>>
                   /\ \A h \in Handlers : step'[h] = "credit" =>
                        step[h] = "credit" /\ order'[h] = order[h] /\ read'[h] = read[h]
<1>1. ASSUME NEW o \in Orders, Create(o) \/ Created(o) \/ CancelReads(o) \/ CancelSaves(o)
                               \/ Expire(o) \/ Trade(o)
      PROVE  Kept
  BY <1>1 DEF Create, Created, CancelReads, CancelSaves, Expire, Trade
<1>2. ASSUME NEW h \in Handlers, NEW o \in Orders, Callback(h, o)
      PROVE  Kept
  BY <1>2 DEF Callback, Enter, TypeOK
<1>3. ASSUME NEW h \in Handlers, SavePaid(h)
      PROVE  Kept
  <2>1. UNCHANGED <<row, credited, overlapped>>
    BY <1>3 DEF SavePaid
  <2>2. \A g \in Handlers : step'[g] = "credit" =>
          step[g] = "credit" /\ order'[g] = order[g] /\ read'[g] = read[g]
    BY <1>3 DEF SavePaid, Return, Enter, TypeOK
  <2> QED
    BY <2>1, <2>2
<1>4. CASE Restart
  BY <1>4 DEF Restart
<1>5. CASE UNCHANGED vars
  BY <1>5
<1>6. ASSUME NEW t \in TopUps, Recharge(t) \/ MarkCompleted(t)
      PROVE  Kept
  BY <1>6 DEF Recharge, MarkCompleted
<1> QED
  BY <1>1, <1>2, <1>3, <1>4, <1>5, <1>6 DEF Next, ProcessPaymentCallback

\* What loading an account does to the handlers' copies.
LEMMA LoadEffect ==
    ASSUME TypeOK, NEW h \in Handlers, LoadAccount(h)
    PROVE  /\ UNCHANGED <<row, credited>>
           /\ order[h] \in Orders /\ AccountOf[order[h]] \in Accounts
           /\ \A g \in Handlers : step'[g] = "credit" =>
                /\ order'[g] = order[g]
                /\ IF g = h THEN read'[g] = row[AccountOf[order[g]]]
                            ELSE step[g] = "credit" /\ read'[g] = read[g]
<1>1. order[h] \in Orders
  BY DEF LoadAccount, TypeOK
<1>2. AccountOf[order[h]] \in Accounts
  BY <1>1, PaymentAssumption
<1>3. UNCHANGED <<row, credited>>
  BY DEF LoadAccount
<1>4. CASE Return(h)
  BY <1>1, <1>2, <1>3, <1>4 DEF Return, Enter, TypeOK
<1>5. CASE ~Return(h)
  BY <1>1, <1>2, <1>3, <1>5 DEF LoadAccount, Enter, TypeOK
<1> QED
  BY <1>4, <1>5

\* When another handler holds the account, loading it is an overlap.
LEMMA LoadOverlap ==
    ASSUME TypeOK, NEW h \in Handlers, LoadAccount(h)
    PROVE  /\ UNCHANGED <<row, credited>> /\ overlapped \subseteq overlapped'
           /\ AccountOf[order[h]] \in InHand =>
                step'[h] # "credit" \/ AccountOf[order[h]] \in overlapped'
           /\ step[h] = "load"
BY DEF LoadAccount, Return, Enter, TypeOK

\* What crediting does: nothing, or the account is the handler's copy plus the
\* amount, and the history grows by the amount.
LEMMA CreditEffect ==
    ASSUME TypeOK, NEW h \in Handlers, Credit(h)
    PROVE  /\ step[h] = "credit" /\ order[h] \in Orders
           /\ AccountOf[order[h]] \in Accounts /\ Amount[order[h]] \in Nat
           /\ \A g \in Handlers : step'[g] = "credit" =>
                g # h /\ step[g] = "credit" /\ order'[g] = order[g] /\ read'[g] = read[g]
           /\ \/ UNCHANGED <<row, credited>>
              \/ \A a \in Accounts :
                   IF a = AccountOf[order[h]]
                      THEN /\ row'[a].balance = read[h].balance + Amount[order[h]]
                           /\ credited'[a] = credited[a] + Amount[order[h]]
                      ELSE row'[a] = row[a] /\ credited'[a] = credited[a]
<1>1. step[h] = "credit" /\ order[h] \in Orders
  BY DEF Credit, TypeOK
<1>2. AccountOf[order[h]] \in Accounts /\ Amount[order[h]] \in Nat
  BY <1>1, PaymentAssumption
<1>3. \A g \in Handlers : step'[g] = "credit" =>
        g # h /\ step[g] = "credit" /\ order'[g] = order[g] /\ read'[g] = read[g]
  BY DEF Credit, Return, Enter, TypeOK
<1>4. CASE UNCHANGED <<row, credits, credited>>
  BY <1>1, <1>2, <1>3, <1>4
<1>5. CASE ~UNCHANGED <<row, credits, credited>>
  <2>1. /\ row' = [row EXCEPT ![AccountOf[order[h]]] =
                     [balance |-> read[h].balance + Amount[order[h]], status |-> "active"]]
        /\ credited' = [credited EXCEPT ![AccountOf[order[h]]] = @ + Amount[order[h]]]
    BY <1>5 DEF Credit
  <2> QED
    BY <1>1, <1>2, <1>3, <2>1 DEF TypeOK
<1> QED
  BY <1>4, <1>5

\* No handler holds a copy with more money than was there or credited.
CopiesBounded ==
    \A h \in Handlers : step[h] = "credit" =>
        LET a == AccountOf[order[h]] IN read[h].balance <= InitialBalance[a] + credited[a]

MoneyInv == TypeOK /\ NoMoneyInvented /\ CopiesBounded

LEMMA MoneyStep == MoneyInv /\ [Next]_vars => MoneyInv'
<1> SUFFICES ASSUME MoneyInv, [Next]_vars PROVE MoneyInv'
  OBVIOUS
<1>0. TypeOK /\ TypeOK' /\ NoMoneyInvented /\ CopiesBounded
  BY TypeStep DEF MoneyInv
<1>1. \A h \in Handlers : step[h] = "credit" =>
        order[h] \in Orders /\ AccountOf[order[h]] \in Accounts /\ read[h].balance \in Int
  BY <1>0, PaymentAssumption DEF TypeOK, Rows
<1>2. \A a \in Accounts :
        InitialBalance[a] \in Nat /\ credited[a] \in Nat /\ row[a].balance \in Int
  BY <1>0, PaymentAssumption DEF TypeOK, Rows
<1>3. ASSUME NEW h \in Handlers, LoadAccount(h)
      PROVE  NoMoneyInvented' /\ CopiesBounded'
  BY <1>0, <1>3, LoadEffect DEF NoMoneyInvented, CopiesBounded
<1>4. ASSUME NEW h \in Handlers, Credit(h)
      PROVE  NoMoneyInvented' /\ CopiesBounded'
  <2>1. \A a \in Accounts : credited'[a] \in Nat /\ credited'[a] >= credited[a]
    BY <1>0, <1>2, <1>4, CreditEffect
  <2>2. CopiesBounded'
    <3> SUFFICES ASSUME NEW g \in Handlers, step'[g] = "credit"
                 PROVE  read'[g].balance <=
                          InitialBalance[AccountOf[order'[g]]] + credited'[AccountOf[order'[g]]]
      BY DEF CopiesBounded
    <3>1. step[g] = "credit" /\ order'[g] = order[g] /\ read'[g] = read[g]
      BY <1>0, <1>4, CreditEffect
    <3> QED
      BY <1>0, <1>1, <1>2, <2>1, <3>1 DEF CopiesBounded
  <2>3. NoMoneyInvented'
    BY <1>0, <1>1, <1>2, <1>4, CreditEffect DEF NoMoneyInvented, CopiesBounded
  <2> QED
    BY <2>2, <2>3
<1>6. ASSUME NEW t \in TopUps, UpdateBalance(t)
      PROVE  NoMoneyInvented' /\ CopiesBounded'
  <2>1. \A a \in Accounts : credited'[a] \in Nat /\ credited'[a] >= credited[a]
    BY <1>0, <1>2, <1>6, TopUpEffect
  <2>2. UNCHANGED <<step, order, read>>
    BY <1>0, <1>6, TopUpEffect
  <2>3. CopiesBounded'
    BY <1>0, <1>1, <1>2, <2>1, <2>2 DEF CopiesBounded
  <2>4. NoMoneyInvented'
    BY <1>0, <1>2, <1>6, TopUpEffect DEF NoMoneyInvented
  <2> QED
    BY <2>3, <2>4
<1>5. CASE /\ \A h \in Handlers : ~LoadAccount(h) /\ ~Credit(h)
           /\ \A t \in TopUps : ~UpdateBalance(t)
  <2>1. /\ UNCHANGED <<row, credited>>
        /\ \A h \in Handlers : step'[h] = "credit" =>
             step[h] = "credit" /\ order'[h] = order[h] /\ read'[h] = read[h]
    BY <1>0, <1>5, AccountFrame
  <2>2. NoMoneyInvented'
    BY <1>0, <2>1 DEF NoMoneyInvented
  <2>3. CopiesBounded'
    <3> SUFFICES ASSUME NEW g \in Handlers, step'[g] = "credit"
                 PROVE  read'[g].balance <=
                          InitialBalance[AccountOf[order'[g]]] + credited'[AccountOf[order'[g]]]
      BY DEF CopiesBounded
    <3> QED
      BY <1>0, <2>1 DEF CopiesBounded
  <2> QED
    BY <1>0, <2>2, <2>3 DEF MoneyInv
<1> QED
  BY <1>0, <1>3, <1>4, <1>5, <1>6 DEF MoneyInv

\* Handlers that overwrite each other's account rows never make money that no
\* handler credited.
THEOREM MoneyNotInvented == Spec => []NoMoneyInvented
<1>1. Init => MoneyInv
  BY TypeInit, PaymentAssumption DEF MoneyInv, Init, NoMoneyInvented, CopiesBounded
<1>2. MoneyInv => NoMoneyInvented
  BY DEF MoneyInv
<1> QED
  BY MoneyStep, <1>1, <1>2, PTL DEF Spec

-----------------------------------------------------------------------------
(* Nothing is lost without an overlap *)

\* An account that was never read while another handler was to save it is in the
\* hands of at most one handler, whose copy is the account.
CopyFresh ==
    \A h \in Handlers : step[h] = "credit" /\ AccountOf[order[h]] \notin overlapped =>
        /\ read[h].balance = row[AccountOf[order[h]]].balance
        /\ \A g \in Handlers :
              step[g] = "credit" /\ AccountOf[order[g]] = AccountOf[order[h]] => g = h

ExactInv == TypeOK /\ ExactUnlessOverlapped /\ CopyFresh

LEMMA ExactStep == ExactInv /\ [Next]_vars => ExactInv'
<1> SUFFICES ASSUME ExactInv, [Next]_vars PROVE ExactInv'
  OBVIOUS
<1>0. TypeOK /\ TypeOK' /\ ExactUnlessOverlapped /\ CopyFresh
  BY TypeStep DEF ExactInv
<1>1. \A a \in Accounts :
        InitialBalance[a] \in Nat /\ credited[a] \in Nat /\ row[a].balance \in Int
  BY <1>0, PaymentAssumption DEF TypeOK, Rows
<1>2. ASSUME NEW h \in Handlers, LoadAccount(h)
      PROVE  ExactUnlessOverlapped' /\ CopyFresh'
  <2>1. /\ UNCHANGED <<row, credited>> /\ overlapped \subseteq overlapped'
        /\ AccountOf[order[h]] \in InHand => step'[h] # "credit" \/ AccountOf[order[h]] \in overlapped'
        /\ step[h] = "load"
    BY <1>0, <1>2, LoadOverlap
  <2>2. /\ order[h] \in Orders
        /\ \A g \in Handlers : step'[g] = "credit" =>
             /\ order'[g] = order[g]
             /\ IF g = h THEN read'[g] = row[AccountOf[order[g]]]
                         ELSE step[g] = "credit" /\ read'[g] = read[g]
    BY <1>0, <1>2, LoadEffect
  <2>3. ExactUnlessOverlapped'
    BY <1>0, <2>1 DEF ExactUnlessOverlapped
  <2>4. CopyFresh'
    <3> SUFFICES ASSUME NEW g \in Handlers, step'[g] = "credit",
                        AccountOf[order'[g]] \notin overlapped'
                 PROVE  /\ read'[g].balance = row'[AccountOf[order'[g]]].balance
                        /\ \A f \in Handlers :
                              step'[f] = "credit" /\ AccountOf[order'[f]] = AccountOf[order'[g]] => f = g
      BY DEF CopyFresh
    <3>1. order'[g] = order[g] /\ AccountOf[order[g]] \notin overlapped
      BY <2>1, <2>2
    <3>2. read'[g].balance = row'[AccountOf[order'[g]]].balance
      BY <1>0, <2>1, <2>2, <3>1 DEF CopyFresh
    <3>3. ASSUME NEW f \in Handlers, step'[f] = "credit", f # g,
                 AccountOf[order'[f]] = AccountOf[order'[g]]
          PROVE  FALSE
      <4>1. order'[f] = order[f]
        BY <2>2, <3>3
      <4>2. CASE f = h
        <5>1. step[g] = "credit"
          BY <2>2, <3>3, <4>2
        <5>2. AccountOf[order[h]] \in InHand
          BY <3>1, <3>3, <4>1, <4>2, <5>1 DEF InHand
        <5> QED
          BY <2>1, <3>1, <3>3, <4>1, <4>2, <5>2
      <4>3. CASE g = h
        <5>1. step[f] = "credit"
          BY <2>2, <3>3, <4>3
        <5>2. AccountOf[order[h]] \in InHand
          BY <3>1, <3>3, <4>1, <4>3, <5>1 DEF InHand
        <5> QED
          BY <2>1, <3>1, <4>3, <5>2
      <4>4. CASE f # h /\ g # h
        BY <1>0, <2>2, <3>1, <3>3, <4>1, <4>4 DEF CopyFresh
      <4> QED
        BY <4>2, <4>3, <4>4
    <3> QED
      BY <3>2, <3>3
  <2> QED
    BY <2>3, <2>4
<1>3. ASSUME NEW h \in Handlers, Credit(h)
      PROVE  ExactUnlessOverlapped' /\ CopyFresh'
  <2>1. overlapped' = overlapped
    BY <1>3 DEF Credit
  <2>2. /\ step[h] = "credit" /\ AccountOf[order[h]] \in Accounts
        /\ Amount[order[h]] \in Nat
        /\ \A g \in Handlers : step'[g] = "credit" =>
             g # h /\ step[g] = "credit" /\ order'[g] = order[g] /\ read'[g] = read[g]
        /\ \/ UNCHANGED <<row, credited>>
           \/ \A a \in Accounts :
                IF a = AccountOf[order[h]]
                   THEN /\ row'[a].balance = read[h].balance + Amount[order[h]]
                        /\ credited'[a] = credited[a] + Amount[order[h]]
                   ELSE row'[a] = row[a] /\ credited'[a] = credited[a]
    BY <1>0, <1>3, CreditEffect
  <2>3. ExactUnlessOverlapped'
    <3> SUFFICES ASSUME NEW a \in Accounts, a \notin overlapped
                 PROVE  row'[a].balance = InitialBalance[a] + credited'[a]
      BY <2>1 DEF ExactUnlessOverlapped
    <3>1. row[a].balance = InitialBalance[a] + credited[a]
      BY <1>0 DEF ExactUnlessOverlapped
    <3>2. CASE a = AccountOf[order[h]]
      <4>1. read[h].balance = row[a].balance
        BY <1>0, <2>2, <3>2 DEF CopyFresh
      <4> QED
        BY <1>1, <2>2, <3>1, <3>2, <4>1
    <3>3. CASE a # AccountOf[order[h]]
      BY <2>2, <3>1, <3>3
    <3> QED
      BY <3>2, <3>3
  <2>4. CopyFresh'
    <3> SUFFICES ASSUME NEW g \in Handlers, step'[g] = "credit",
                        AccountOf[order'[g]] \notin overlapped
                 PROVE  /\ read'[g].balance = row'[AccountOf[order'[g]]].balance
                        /\ \A f \in Handlers :
                              step'[f] = "credit" /\ AccountOf[order'[f]] = AccountOf[order'[g]] => f = g
      BY <2>1 DEF CopyFresh
    <3>1. g # h /\ step[g] = "credit" /\ order'[g] = order[g] /\ read'[g] = read[g]
          /\ AccountOf[order[g]] \in Accounts
      BY <1>0, <2>2, PaymentAssumption DEF TypeOK
    <3>2. AccountOf[order[g]] # AccountOf[order[h]]
      BY <1>0, <2>2, <3>1 DEF CopyFresh
    <3>3. row'[AccountOf[order[g]]].balance = row[AccountOf[order[g]]].balance
      BY <2>2, <3>1, <3>2
    <3> QED
      BY <1>0, <2>2, <3>1, <3>3 DEF CopyFresh
  <2> QED
    BY <2>3, <2>4
<1>5. ASSUME NEW t \in TopUps, UpdateBalance(t)
      PROVE  ExactUnlessOverlapped' /\ CopyFresh'
  <2>1. UNCHANGED <<step, order, read>> /\ overlapped \subseteq overlapped'
    BY <1>0, <1>5, TopUpEffect
  <2>2. ExactUnlessOverlapped'
    BY <1>0, <1>1, <1>5, <2>1, TopUpEffect DEF ExactUnlessOverlapped
  <2>3. CopyFresh'
    <3> SUFFICES ASSUME NEW g \in Handlers, step[g] = "credit",
                        AccountOf[order[g]] \notin overlapped'
                 PROVE  read[g].balance = row'[AccountOf[order[g]]].balance
      BY <1>0, <2>1 DEF CopyFresh
    <3>1. AccountOf[order[g]] \in InHand
      BY DEF InHand
    <3>2. AccountOf[order[g]] \in Accounts
      BY <1>0, PaymentAssumption DEF TypeOK
    <3>3. read[g].balance = row[AccountOf[order[g]]].balance
      BY <1>0, <2>1 DEF CopyFresh
    <3> QED
      BY <1>0, <1>5, <3>1, <3>2, <3>3, TopUpEffect
  <2> QED
    BY <2>2, <2>3
<1>4. CASE /\ \A h \in Handlers : ~LoadAccount(h) /\ ~Credit(h)
           /\ \A t \in TopUps : ~UpdateBalance(t)
  <2>1. /\ UNCHANGED <<row, credited, overlapped>>
        /\ \A h \in Handlers : step'[h] = "credit" =>
             step[h] = "credit" /\ order'[h] = order[h] /\ read'[h] = read[h]
    BY <1>0, <1>4, AccountFrame
  <2>2. ExactUnlessOverlapped'
    BY <1>0, <2>1 DEF ExactUnlessOverlapped
  <2>3. CopyFresh'
    BY <1>0, <2>1 DEF CopyFresh
  <2> QED
    BY <1>0, <2>2, <2>3 DEF ExactInv
<1> QED
  BY <1>0, <1>2, <1>3, <1>4, <1>5 DEF ExactInv

\* Stale copies lose credits only where two handlers overlap on one account: any
\* other balance is what it started with plus what was credited.
THEOREM LossNeedsOverlap == Spec => []ExactUnlessOverlapped
<1>1. Init => ExactInv
  BY TypeInit, PaymentAssumption DEF ExactInv, Init, ExactUnlessOverlapped, CopyFresh
<1>2. ExactInv => ExactUnlessOverlapped
  BY DEF ExactInv
<1> QED
  BY ExactStep, <1>1, <1>2, PTL DEF Spec

-----------------------------------------------------------------------------
(* Signing in: the inductive invariant *)

\* Points from which a request issues a refresh token, or sends a mail, next.
Issuing == {"issue", "create", "createTenant", "createUser", "join", "welcome"}
Sending == {"send", "create", "createTenant", "createUser", "join"}

\* Points at which a request holds the row of a user who exists.
Holding == {"issue", "saveLogin", "history", "savePassword", "saveVerified", "send", "join",
            "edit"}

Doing(P) == {w \in Callers : job[w].pc \in P}
Count(P) == Cardinality(Doing(P))

\* What a request holds fits the user row and the tenants: a row that it saves
\* is that of a user, one that it creates is not verified and owes nothing,
\* and a mail is only sent for a row that is not verified.
JobFits(j, u, ts) ==
    /\ j.pc \in Holding => j.read.status # "absent" /\ u.status # "absent"
    /\ j.pc \in {"create", "createUser"} =>
          j.read.status # "absent" /\ ~ j.read.verified /\ j.read.balance = 0
    /\ j.pc = "createTenant" =>
          j.read = NewUser(j.password) \/ (j.read.status # "absent" /\ u.status # "absent")
    /\ j.pc = "send" => ~ j.read.verified
    /\ j.pc \in {"createUser", "join"} => j.tenant \in ts

JobsFit == \A w \in Callers : JobFits(job[w], user, tenants)

\* Only the row of a user is hashed anew, and one who does not exist was
\* neither sent a mail, charged nor confirmed.
RowsFit ==
    /\ \A r \in rehash : r.status # "absent" /\ user.status # "absent"
    /\ user.status = "absent" => user.mail = 0 /\ ledger = 0 /\ confirmed = FALSE

\* Refresh tokens are issued in their order, each by a call of its own.
LoginsCounted ==
    \E k \in Nat : /\ \A s \in Logins : refresh[s] # "none" <=> s <= k
                   /\ k + Count(Issuing) <= calls + 1

\* So are mails.
MailsCounted == mails + Count(Sending) <= calls

\* While Redis answers, a wrong guess is counted or about to be, and those about
\* to be counted passed the check with fewer failures than block.
GuessesCounted ==
    ~ outage =>
        /\ guesses <= failures + Count({"record"})
        /\ failures + Count({"record", "lookup"}) <= MaxFailed - 1 + Cardinality(Callers)

SessionInv ==
    /\ SessionTypeOK /\ JobsFit /\ RowsFit
    /\ LoginsCounted /\ MailsCounted /\ GuessesCounted /\ UserKept

-----------------------------------------------------------------------------
(* Requests under way *)

Typed == job \in [Callers -> Jobs]

LEMMA CountIsNat ==
    ASSUME NEW P
    PROVE  IsFiniteSet(Doing(P)) /\ Count(P) \in Nat /\ Count(P) <= Cardinality(Callers)
           /\ Cardinality(Callers) \in Nat
<1>1. Doing(P) \subseteq Callers
  BY DEF Doing
<1> QED
  BY <1>1, SessionsAssumption, FS_Subset, FS_CardinalityType DEF Count

\* When one request moves, the number of those at P changes by that one.
LEMMA OneMoves ==
    ASSUME Typed, NEW w \in Callers, NEW j \in Jobs, job' = [job EXCEPT ![w] = j], NEW P
    PROVE  /\ Count(P) \in Nat /\ Count(P)' \in Nat
           /\ Count(P)' <= Cardinality(Callers)
           /\ (j.pc \in P <=> job[w].pc \in P) => Count(P)' = Count(P)
           /\ j.pc \in P /\ job[w].pc \notin P => Count(P)' = Count(P) + 1
           /\ j.pc \notin P /\ job[w].pc \in P => Count(P)' = Count(P) - 1
           /\ job[w].pc \in P => Count(P) > 0
<1>1. IsFiniteSet(Doing(P)) /\ Count(P) \in Nat /\ Cardinality(Callers) \in Nat
  BY CountIsNat
<1>2. Doing(P)' = IF j.pc \in P THEN Doing(P) \cup {w} ELSE Doing(P) \ {w}
  BY DEF Doing, Typed
<1>3. w \in Doing(P) <=> job[w].pc \in P
  BY DEF Doing
<1>4. /\ Cardinality(Doing(P) \cup {w}) =
            IF w \in Doing(P) THEN Cardinality(Doing(P)) ELSE Cardinality(Doing(P)) + 1
      /\ IsFiniteSet(Doing(P) \cup {w})
  BY <1>1, FS_AddElement
<1>5. /\ Cardinality(Doing(P) \ {w}) =
            IF w \in Doing(P) THEN Cardinality(Doing(P)) - 1 ELSE Cardinality(Doing(P))
      /\ IsFiniteSet(Doing(P) \ {w})
  BY <1>1, FS_RemoveElement
<1>6. Count(P)' = Cardinality(Doing(P)')
  BY DEF Count
<1>7. Count(P)' \in Nat
  BY <1>2, <1>4, <1>5, <1>6, FS_CardinalityType
<1>8. Count(P)' <= Cardinality(Callers)
  <2>1. Doing(P)' \subseteq Callers
    BY DEF Doing
  <2> QED
    BY <2>1, <1>6, SessionsAssumption, FS_Subset
<1>9. ASSUME job[w].pc \in P PROVE Count(P) > 0
  <2>1. Doing(P) # {}
    BY <1>3, <1>9
  <2> QED
    BY <2>1, <1>1, FS_EmptySet DEF Count
<1>10. CASE j.pc \in P
  <2>1. Count(P)' = IF job[w].pc \in P THEN Count(P) ELSE Count(P) + 1
    BY <1>2, <1>3, <1>4, <1>6, <1>10 DEF Count
  <2> QED
    BY <2>1, <1>1, <1>7, <1>8, <1>9, <1>10
<1>11. CASE j.pc \notin P
  <2>1. Count(P)' = IF job[w].pc \in P THEN Count(P) - 1 ELSE Count(P)
    BY <1>2, <1>3, <1>5, <1>6, <1>11 DEF Count
  <2> QED
    BY <2>1, <1>1, <1>7, <1>8, <1>9, <1>11
<1> QED
  BY <1>10, <1>11

LEMMA RowTypes ==
    /\ AnyPassword \in Passwords /\ Absent \in Users /\ Idle \in Jobs /\ Idle.pc = "idle"
    /\ Idle.read = Absent /\ NoToken \in Tokens
    /\ Absent.status = "absent" /\ Absent.balance = 0
    /\ \A p \in Passwords : /\ NewUser(p) \in Users /\ NewUser(p).status = "pending_verification"
                            /\ ~ NewUser(p).verified /\ NewUser(p).balance = 0
                            /\ NewUser(p).password = p
<1>1. AnyPassword \in Passwords
  BY SessionsAssumption DEF AnyPassword
<1>2. Absent \in Users /\ Absent.status = "absent" /\ Absent.balance = 0 /\ NoToken \in Tokens
  BY <1>1 DEF Absent, Users, NoToken, Tokens
<1>3. Idle \in Jobs /\ Idle.pc = "idle" /\ Idle.read = Absent
  BY <1>1, <1>2 DEF Idle, Jobs, Points, Tenants
<1>4. \A p \in Passwords : /\ NewUser(p) \in Users /\ NewUser(p).status = "pending_verification"
                            /\ ~ NewUser(p).verified /\ NewUser(p).balance = 0
                            /\ NewUser(p).password = p
  <2> SUFFICES ASSUME NEW p \in Passwords
               PROVE  /\ NewUser(p) \in Users /\ NewUser(p).status = "pending_verification"
                      /\ ~ NewUser(p).verified /\ NewUser(p).balance = 0
                      /\ NewUser(p).password = p
    OBVIOUS
  <2>1. NewUser(p) = [Absent EXCEPT !.status = "pending_verification", !.password = p]
    BY DEF NewUser
  <2>2. NewUser(p) \in Users
    BY <1>2, <2>1 DEF Users
  <2>3. /\ NewUser(p).status = "pending_verification" /\ NewUser(p).password = p
        /\ NewUser(p).verified = Absent.verified /\ NewUser(p).balance = Absent.balance
    BY <1>2, <2>1 DEF Users
  <2>4. Absent.verified = FALSE /\ Absent.balance = 0
    BY DEF Absent
  <2> QED
    BY <2>2, <2>3, <2>4
<1> QED
  BY <1>1, <1>2, <1>3, <1>4

\* What the request of w is after a step to a point.
After(w, to) == IF to = "idle" THEN Idle ELSE [job[w] EXCEPT !.pc = to]

LEMMA StepEffect ==
    ASSUME Typed, NEW w \in Callers, NEW from, NEW to \in Points, Step(w, from, to)
    PROVE  /\ After(w, to) \in Jobs /\ job' = [job EXCEPT ![w] = After(w, to)]
           /\ calls' = calls /\ job[w] \in Jobs /\ job[w].pc = from
           /\ After(w, to).pc = to
           /\ to # "idle" => /\ After(w, to).read = job[w].read
                             /\ After(w, to).password = job[w].password
                             /\ After(w, to).tenant = job[w].tenant
           /\ Typed'
<1>1. job[w] \in Jobs /\ job[w].pc = from /\ calls' = calls
  BY DEF Typed, Step
<1>2. job' = [job EXCEPT ![w] = After(w, to)]
  BY DEF Step, After, Typed
<1>3. /\ After(w, to) \in Jobs /\ After(w, to).pc = to
      /\ to # "idle" => /\ After(w, to).read = job[w].read
                        /\ After(w, to).password = job[w].password
                        /\ After(w, to).tenant = job[w].tenant
  BY <1>1, RowTypes DEF After, Jobs
<1> QED
  BY <1>1, <1>2, <1>3 DEF Typed

LEMMA StartEffect ==
    ASSUME SessionTypeOK, NEW w \in Callers, NEW j \in Jobs, Start(w, j)
    PROVE  /\ job' = [job EXCEPT ![w] = j] /\ Typed'
           /\ job[w].pc = "idle" /\ calls < MaxCalls /\ calls' = calls + 1
           /\ calls' \in 0..MaxCalls
BY SessionsAssumption DEF Start, SessionTypeOK, Typed

-----------------------------------------------------------------------------
(* What a step keeps of each part of the invariant *)

LEMMA FitsKept ==
    ASSUME SessionInv, NEW w \in Callers, NEW j \in Jobs, job' = [job EXCEPT ![w] = j],
           user.status # "absent" => user'.status # "absent", tenants \subseteq tenants',
           JobFits(j, user', tenants')
    PROVE  JobsFit'
<1> SUFFICES ASSUME NEW v \in Callers PROVE JobFits(job'[v], user', tenants')
  BY DEF JobsFit
<1>1. CASE v = w
  BY <1>1 DEF SessionInv, SessionTypeOK
<1>2. CASE v # w
  <2>1. job'[v] = job[v] /\ JobFits(job[v], user, tenants)
    BY <1>2 DEF SessionInv, SessionTypeOK, JobsFit
  <2> QED
    BY <2>1 DEF JobFits
<1> QED
  BY <1>1, <1>2

\* A call pays for what a request is still going to issue or to send.
Paid(w, j, P) ==
    \/ calls' = calls + 1
    \/ calls' = calls /\ (j.pc \in P => job[w].pc \in P)

LEMMA PaidCount ==
    ASSUME SessionTypeOK, NEW w \in Callers, NEW j \in Jobs, job' = [job EXCEPT ![w] = j],
           NEW P, Paid(w, j, P)
    PROVE  /\ Count(P) \in Nat /\ Count(P)' \in Nat /\ calls \in Nat /\ calls' \in Nat
           /\ calls' - Count(P)' >= calls - Count(P)
<1>1. calls \in Nat /\ calls' \in Nat
  BY SessionsAssumption DEF SessionTypeOK, Paid
<1>2. Typed
  BY DEF SessionTypeOK, Typed
<1>3. /\ Count(P) \in Nat /\ Count(P)' \in Nat
      /\ (j.pc \in P <=> job[w].pc \in P) => Count(P)' = Count(P)
      /\ j.pc \in P /\ job[w].pc \notin P => Count(P)' = Count(P) + 1
      /\ j.pc \notin P /\ job[w].pc \in P => Count(P)' = Count(P) - 1
  BY <1>2, OneMoves
<1>4. Count(P)' <= Count(P) + 1 /\ ((j.pc \in P => job[w].pc \in P) => Count(P)' <= Count(P))
  BY <1>3
<1> QED
  BY <1>1, <1>3, <1>4 DEF Paid

SameLogins == \A s \in Logins : refresh'[s] # "none" <=> refresh[s] # "none"

LEMMA LoginsKept ==
    ASSUME SessionInv, NEW w \in Callers, NEW j \in Jobs, job' = [job EXCEPT ![w] = j],
           Paid(w, j, Issuing), SameLogins
    PROVE  LoginsCounted'
<1>1. PICK k \in Nat : /\ \A s \in Logins : refresh[s] # "none" <=> s <= k
                       /\ k + Count(Issuing) <= calls + 1
  BY DEF SessionInv, LoginsCounted
<1>2. /\ Count(Issuing) \in Nat /\ Count(Issuing)' \in Nat /\ calls \in Nat /\ calls' \in Nat
      /\ calls' - Count(Issuing)' >= calls - Count(Issuing)
  BY PaidCount DEF SessionInv
<1>3. k + Count(Issuing)' <= calls' + 1
  BY <1>1, <1>2
<1> QED
  BY <1>1, <1>3 DEF LoginsCounted, SameLogins

LEMMA MailsKept ==
    ASSUME SessionInv, NEW w \in Callers, NEW j \in Jobs, job' = [job EXCEPT ![w] = j],
           Paid(w, j, Sending), mails' = mails
    PROVE  MailsCounted'
<1>1. /\ Count(Sending) \in Nat /\ Count(Sending)' \in Nat /\ calls \in Nat /\ calls' \in Nat
      /\ calls' - Count(Sending)' >= calls - Count(Sending)
  BY PaidCount DEF SessionInv
<1>2. mails \in Nat /\ mails + Count(Sending) <= calls
  BY SessionsAssumption DEF SessionInv, SessionTypeOK, MailsCounted, Mails
<1> QED
  BY <1>1, <1>2 DEF MailsCounted

LEMMA GuessesKept ==
    ASSUME SessionInv, NEW w \in Callers, NEW j \in Jobs, job' = [job EXCEPT ![w] = j],
           job[w].pc \notin {"record", "lookup"}, j.pc \notin {"record", "lookup"},
           failures' = failures, guesses' = guesses, outage' = outage
    PROVE  GuessesCounted'
<1>1. Typed
  BY DEF SessionInv, SessionTypeOK, Typed
<1>2. Count({"record"})' = Count({"record"})
  BY <1>1, OneMoves
<1>3. Count({"record", "lookup"})' = Count({"record", "lookup"})
  BY <1>1, OneMoves
<1> QED
  BY <1>2, <1>3 DEF SessionInv, GuessesCounted

\* A step that leaves the user row alone, reads no password and records no
\* failure keeps the invariant when it keeps the types and is paid for.
LEMMA Quiet ==
    ASSUME SessionInv, NEW w \in Callers, NEW j \in Jobs, job' = [job EXCEPT ![w] = j],
           SessionTypeOK', JobFits(j, user, tenants'), tenants \subseteq tenants',
           job[w].pc \notin {"record", "lookup"}, j.pc \notin {"record", "lookup"},
           Paid(w, j, Issuing), Paid(w, j, Sending), SameLogins,
           UNCHANGED <<user, raced, rehash, mails, wishes, failures, guesses, outage>>
    PROVE  SessionInv'
<1>1. JobsFit'
  BY FitsKept
<1>2. LoginsCounted' /\ MailsCounted' /\ GuessesCounted'
  BY LoginsKept, MailsKept, GuessesKept
<1>3. RowsFit' /\ UserKept'
  BY DEF SessionInv, RowsFit, UserKept, wishes
<1> QED
  BY <1>1, <1>2, <1>3 DEF SessionInv

-----------------------------------------------------------------------------
(* Steps of the same kind *)

others == <<requireEmailVerify, outage, user, raced, rehash, mails, chosen, ledger, confirmed,
            failures, guesses>>

LEMMA UsersExist ==
    ASSUME SessionInv, NEW w \in Callers
    PROVE  /\ job[w] \in Jobs /\ job[w].pc \in Points /\ job[w].read \in Users
           /\ job[w].password \in Passwords /\ job[w].tenant \in Tenants
           /\ job[w].token \in {0} \cup TokenIds /\ job[w].login \in {0} \cup Logins
           /\ user \in Users /\ JobFits(job[w], user, tenants)
BY DEF SessionInv, SessionTypeOK, JobsFit, Jobs

LEMMA Begins ==
    ASSUME SessionInv, NEW w \in Callers, NEW j \in Jobs, Start(w, j),
           j.pc \notin {"record", "lookup"}, JobFits(j, user, tenants),
           refresh' \in [Logins -> Refreshes], tokens' \in [TokenIds -> Tokens], SameLogins,
           UNCHANGED <<tenants, members, oldPasswords, blocked>>, UNCHANGED others
    PROVE  SessionInv'
<1>1. /\ job' = [job EXCEPT ![w] = j] /\ Typed'
      /\ job[w].pc = "idle" /\ calls' = calls + 1 /\ calls' \in 0..MaxCalls
  BY StartEffect DEF SessionInv
<1>2. SessionTypeOK'
  BY <1>1 DEF SessionInv, SessionTypeOK, Typed, others
<1>3. Paid(w, j, Issuing) /\ Paid(w, j, Sending)
  BY <1>1 DEF Paid
<1> QED
  BY <1>1, <1>2, <1>3, Quiet DEF others, wishes

LEMMA Goes ==
    ASSUME SessionInv, NEW w \in Callers, NEW from, NEW to \in Points, Step(w, from, to),
           from \notin {"record", "lookup"}, to \notin {"record", "lookup"},
           to \in Issuing => from \in Issuing, to \in Sending => from \in Sending,
           JobFits(After(w, to), user, tenants'),
           tenants \subseteq tenants', tenants' \subseteq Tenants, members' \subseteq tenants',
           oldPasswords' \subseteq Passwords, blocked' \in BOOLEAN,
           refresh' \in [Logins -> Refreshes], tokens' \in [TokenIds -> Tokens], SameLogins,
           UNCHANGED others
    PROVE  SessionInv'
<1>1. Typed
  BY DEF SessionInv, SessionTypeOK, Typed
<1>2. /\ After(w, to) \in Jobs /\ job' = [job EXCEPT ![w] = After(w, to)]
      /\ calls' = calls /\ job[w].pc = from /\ After(w, to).pc = to /\ Typed'
  BY <1>1, StepEffect
<1>3. SessionTypeOK'
  BY <1>2 DEF SessionInv, SessionTypeOK, Typed, others
<1>4. Paid(w, After(w, to), Issuing) /\ Paid(w, After(w, to), Sending)
  BY <1>2 DEF Paid
<1> QED
  BY <1>2, <1>3, <1>4, Quiet DEF others, wishes

\* A request that returns.
LEMMA Returns ==
    ASSUME SessionInv, NEW w \in Callers, NEW from, Step(w, from, "idle"),
           from \notin {"record", "lookup"},
           UNCHANGED <<tenants, members>>,
           oldPasswords' \subseteq Passwords, blocked' \in BOOLEAN,
           refresh' \in [Logins -> Refreshes], tokens' \in [TokenIds -> Tokens], SameLogins,
           UNCHANGED others
    PROVE  SessionInv'
<1>1. JobFits(After(w, "idle"), user, tenants')
  BY RowTypes DEF After, JobFits, Holding
<1>2. tenants' \subseteq Tenants /\ members' \subseteq tenants'
  BY DEF SessionInv, SessionTypeOK
<1>3. "idle" \in Points /\ "idle" \notin Issuing /\ "idle" \notin Sending
  BY DEF Points, Issuing, Sending
<1> QED
  BY <1>1, <1>2, <1>3, Goes

\* A request that saves a row of a user who exists, and goes to a point where
\* it holds none.
LEMMA Saves ==
    ASSUME SessionInv, NEW w \in Callers, NEW from, NEW to \in {"idle", "revokeAll"},
           Step(w, from, to), from \notin {"record", "lookup"},
           NEW saved \in Users, user' = saved, saved.status # "absent", raced' \in BOOLEAN,
           user.status # "absent", UserKept',
           chosen' \in Passwords, confirmed' \in BOOLEAN, tokens' \in [TokenIds -> Tokens],
           UNCHANGED <<ledger, tenants, members, oldPasswords, refresh, lockout, rehash, mails,
                       rest>>
    PROVE  SessionInv'
<1>1. Typed /\ to \in Points
  BY DEF SessionInv, SessionTypeOK, Typed, Points
<1>2. /\ After(w, to) \in Jobs /\ job' = [job EXCEPT ![w] = After(w, to)]
      /\ calls' = calls /\ job[w].pc = from /\ After(w, to).pc = to /\ Typed'
  BY <1>1, StepEffect
<1>3. SessionTypeOK'
  BY <1>2 DEF SessionInv, SessionTypeOK, Typed, lockout, rest
<1>4. Paid(w, After(w, to), Issuing) /\ Paid(w, After(w, to), Sending)
  BY <1>2 DEF Paid, Issuing, Sending
<1>5. JobFits(After(w, to), user', tenants')
  BY <1>2 DEF JobFits, Holding
<1>6. JobsFit'
  BY <1>2, <1>5, FitsKept
<1>7. LoginsCounted' /\ MailsCounted' /\ GuessesCounted'
  <2>1. SameLogins
    BY DEF SameLogins
  <2>2. to \notin {"record", "lookup"}
    OBVIOUS
  <2> QED
    BY <1>2, <1>4, <2>1, <2>2, LoginsKept, MailsKept, GuessesKept DEF lockout, rest
<1>8. RowsFit'
  BY DEF SessionInv, RowsFit
<1> QED
  BY <1>3, <1>6, <1>7, <1>8 DEF SessionInv

-----------------------------------------------------------------------------
(* Requests on tokens *)

LEMMA TokenEffects ==
    ASSUME SessionTypeOK
    PROVE  /\ \A s \in {0} \cup Logins : Mint(s) => tokens' \in [TokenIds -> Tokens]
           /\ \A i : Blacklist(i) \in [TokenIds -> Tokens]
           /\ RevokeAllByUser \in [Logins -> Refreshes]
           /\ refresh' = RevokeAllByUser => SameLogins
           /\ refresh' = refresh => SameLogins
           /\ tokens \in [TokenIds -> Tokens] /\ refresh \in [Logins -> Refreshes]
<1>0. tokens \in [TokenIds -> Tokens] /\ refresh \in [Logins -> Refreshes]
  BY DEF SessionTypeOK
<1>1. ASSUME NEW s \in {0} \cup Logins, Mint(s) PROVE tokens' \in [TokenIds -> Tokens]
  <2>1. [login |-> s, state |-> "live"] \in Tokens
    BY DEF Tokens
  <2> QED
    BY <1>0, <1>1, <2>1 DEF Mint
<1>2. ASSUME NEW i PROVE Blacklist(i) \in [TokenIds -> Tokens]
  <2>1. CASE i \in TokenIds
    <3>1. tokens[i] \in Tokens
      BY <1>0, <2>1
    <3>2. [tokens[i] EXCEPT !.state = "blacklisted"] \in Tokens
      BY <3>1 DEF Tokens
    <3> QED
      BY <1>0, <2>1, <3>2 DEF Blacklist
  <2>2. CASE i \notin TokenIds
    BY <1>0, <2>2 DEF Blacklist
  <2> QED
    BY <2>1, <2>2
<1>3. RevokeAllByUser \in [Logins -> Refreshes]
  BY <1>0 DEF RevokeAllByUser, Refreshes
<1>4. refresh' = RevokeAllByUser => SameLogins
  BY <1>0 DEF RevokeAllByUser, SameLogins
<1>5. refresh' = refresh => SameLogins
  BY DEF SameLogins
<1> QED
  BY <1>0, <1>1, <1>2, <1>3, <1>4, <1>5

\* A request of these kinds holds nothing that a later step relies on.
LEMMA FreeJobs ==
    ASSUME SessionInv
    PROVE  /\ \A s \in {0} \cup Logins : [Idle EXCEPT !.pc = "refresh", !.login = s] \in Jobs
           /\ \A i \in TokenIds, t \in Tenants, s \in {0} \cup Logins :
                 [Idle EXCEPT !.pc = "switch", !.token = i, !.tenant = t, !.login = s] \in Jobs
           /\ \A i \in TokenIds : [Idle EXCEPT !.pc = "invalidate", !.token = i] \in Jobs
           /\ \A j \in Jobs : j.pc \in {"idle", "refresh", "switch", "invalidate"} =>
                 /\ JobFits(j, user, tenants)
                 /\ j.pc \notin {"record", "lookup"}
BY RowTypes DEF Jobs, Points, JobFits, Holding

LEMMA RefreshTokenKeeps ==
    ASSUME SessionInv, NEW w \in Callers, NEW s \in Logins, RefreshToken(w, s)
    PROVE  SessionInv'
<1> DEFINE j == [Idle EXCEPT !.pc = "refresh", !.login = s]
<1>1. j \in Jobs /\ j.pc = "refresh"
  BY FreeJobs, RowTypes DEF Jobs
<1> HIDE DEF j
<1>2. JobFits(j, user, tenants) /\ j.pc \notin {"record", "lookup"}
  BY <1>1, FreeJobs
<1>3. Start(w, j)
  BY DEF RefreshToken, j
<1>4. refresh' = refresh /\ tokens' = tokens /\ UNCHANGED others
      /\ UNCHANGED <<tenants, members, oldPasswords, blocked>>
  BY DEF RefreshToken, others, grants, lockout, wishes, rest
<1>5. SessionTypeOK
  BY DEF SessionInv
<1>6. refresh' \in [Logins -> Refreshes] /\ tokens' \in [TokenIds -> Tokens] /\ SameLogins
  BY <1>4, <1>5, TokenEffects
<1> QED
  BY <1>1, <1>2, <1>3, <1>4, <1>6, Begins

LEMMA SwitchTenantKeeps ==
    ASSUME SessionInv, NEW w \in Callers, NEW i \in TokenIds, NEW t \in Tenants,
           SwitchTenant(w, i, t)
    PROVE  SessionInv'
<1>5. SessionTypeOK
  BY DEF SessionInv
<1>0. tokens[i].login \in {0} \cup Logins
  BY <1>5 DEF SessionTypeOK, Tokens
<1> DEFINE j == [Idle EXCEPT !.pc = "switch", !.token = i, !.tenant = t,
                             !.login = tokens[i].login]
<1>1. j \in Jobs /\ j.pc = "switch"
  BY <1>0, FreeJobs, RowTypes DEF Jobs
<1> HIDE DEF j
<1>2. JobFits(j, user, tenants) /\ j.pc \notin {"record", "lookup"}
  BY <1>1, FreeJobs
<1>3. Start(w, j)
  BY DEF SwitchTenant, j
<1>4. refresh' = refresh /\ tokens' = tokens /\ UNCHANGED others
      /\ UNCHANGED <<tenants, members, oldPasswords, blocked>>
  BY DEF SwitchTenant, others, grants, lockout, wishes, rest
<1>6. refresh' \in [Logins -> Refreshes] /\ tokens' \in [TokenIds -> Tokens] /\ SameLogins
  BY <1>4, <1>5, TokenEffects
<1> QED
  BY <1>1, <1>2, <1>3, <1>4, <1>6, Begins

LEMMA LogoutKeeps ==
    ASSUME SessionInv, NEW w \in Callers, NEW i \in TokenIds, Logout(w, i)
    PROVE  SessionInv'
<1>5. SessionTypeOK
  BY DEF SessionInv
<1>2. Idle \in Jobs /\ JobFits(Idle, user, tenants) /\ Idle.pc \notin {"record", "lookup"}
  BY RowTypes, FreeJobs
<1>4. refresh' = refresh /\ tokens' = Blacklist(i) /\ UNCHANGED others /\ Start(w, Idle)
      /\ UNCHANGED <<tenants, members, oldPasswords, blocked>>
  BY DEF Logout, others, lockout, wishes, rest
<1>6. refresh' \in [Logins -> Refreshes] /\ tokens' \in [TokenIds -> Tokens] /\ SameLogins
  BY <1>4, <1>5, TokenEffects
<1> QED
  BY <1>2, <1>4, <1>6, Begins

LEMMA LogoutAllKeeps ==
    ASSUME SessionInv, NEW w \in Callers, NEW i \in TokenIds, LogoutAll(w, i)
    PROVE  SessionInv'
<1>5. SessionTypeOK
  BY DEF SessionInv
<1> DEFINE j == [Idle EXCEPT !.pc = "invalidate", !.token = i]
<1>1. j \in Jobs /\ j.pc = "invalidate"
  BY FreeJobs, RowTypes DEF Jobs
<1> HIDE DEF j
<1>2. JobFits(j, user, tenants) /\ j.pc \notin {"record", "lookup"}
  BY <1>1, FreeJobs
<1>3. Start(w, j)
  BY DEF LogoutAll, j
<1>4. refresh' = RevokeAllByUser /\ tokens' = tokens /\ UNCHANGED others
      /\ UNCHANGED <<tenants, members, oldPasswords, blocked>>
  BY DEF LogoutAll, others, lockout, wishes, rest
<1>6. refresh' \in [Logins -> Refreshes] /\ tokens' \in [TokenIds -> Tokens] /\ SameLogins
  BY <1>4, <1>5, TokenEffects
<1> QED
  BY <1>1, <1>2, <1>3, <1>4, <1>6, Begins

LEMMA MintingKeeps ==
    ASSUME SessionInv, NEW w \in Callers, MintRefreshed(w) \/ MintSwitched(w)
    PROVE  SessionInv'
<1>1. SessionTypeOK /\ job[w].login \in {0} \cup Logins
  BY UsersExist DEF SessionInv
<1>2. PICK from \in {"refresh", "switch"} : Step(w, from, "idle")
  BY DEF MintRefreshed, MintSwitched
<1>3. Mint(job[w].login) \/ tokens' = tokens
  BY DEF MintRefreshed, MintSwitched
<1>4. refresh' = refresh /\ UNCHANGED others
      /\ UNCHANGED <<tenants, members, oldPasswords, blocked>>
  BY DEF MintRefreshed, MintSwitched, others, lockout, wishes, rest
<1>5. /\ refresh' \in [Logins -> Refreshes] /\ tokens' \in [TokenIds -> Tokens] /\ SameLogins
      /\ oldPasswords' \subseteq Passwords /\ blocked' \in BOOLEAN
  BY <1>1, <1>3, <1>4, TokenEffects DEF SessionTypeOK
<1> QED
  BY <1>2, <1>4, <1>5, Returns

LEMMA EndingKeeps ==
    ASSUME SessionInv, NEW w \in Callers, InvalidateToken(w) \/ RevokeAll(w) \/ BlockIP(w)
    PROVE  SessionInv'
<1>1. SessionTypeOK
  BY DEF SessionInv
<1>2. PICK from \in {"invalidate", "revokeAll", "block"} : Step(w, from, "idle")
  BY DEF InvalidateToken, RevokeAll, BlockIP
<1>3. /\ tokens' = Blacklist(job[w].token) \/ tokens' = tokens
      /\ refresh' = RevokeAllByUser \/ refresh' = refresh
      /\ blocked' = TRUE \/ blocked' = blocked
  BY DEF InvalidateToken, RevokeAll, BlockIP, lockout, grants
<1>4. UNCHANGED others /\ UNCHANGED <<tenants, members, oldPasswords>>
  BY DEF InvalidateToken, RevokeAll, BlockIP, others, lockout, wishes, rest
<1>5. /\ refresh' \in [Logins -> Refreshes] /\ tokens' \in [TokenIds -> Tokens] /\ SameLogins
      /\ oldPasswords' \subseteq Passwords /\ blocked' \in BOOLEAN
  BY <1>1, <1>3, <1>4, TokenEffects DEF SessionTypeOK
<1> QED
  BY <1>2, <1>4, <1>5, Returns

-----------------------------------------------------------------------------
(* Requests that read the user row *)

LEMMA StartAlone ==
    ASSUME SessionInv, NEW w \in Callers, NEW j \in Jobs, Start(w, j),
           j.pc \notin {"record", "lookup"}, JobFits(j, user, tenants),
           UNCHANGED <<user, tenants, members, oldPasswords, grants, lockout, rehash, mails,
                       raced, wishes, rest>>
    PROVE  SessionInv'
<1>1. SessionTypeOK
  BY DEF SessionInv
<1>2. refresh' = refresh /\ tokens' = tokens /\ UNCHANGED others
      /\ UNCHANGED <<tenants, members, oldPasswords, blocked>>
  BY DEF others, grants, lockout, wishes, rest
<1>3. refresh' \in [Logins -> Refreshes] /\ tokens' \in [TokenIds -> Tokens] /\ SameLogins
  BY <1>1, <1>2, TokenEffects
<1> QED
  BY <1>2, <1>3, Begins

LEMMA ChangePasswordKeeps ==
    ASSUME SessionInv, NEW w \in Callers, NEW i \in TokenIds, NEW p \in Passwords,
           ChangePassword(w, i, p)
    PROVE  SessionInv'
<1> DEFINE j == [Idle EXCEPT !.pc = "history", !.read = user, !.password = p]
<1>1. j \in Jobs /\ j.pc = "history" /\ j.read = user
  BY UsersExist, RowTypes DEF Jobs, Points
<1>2. user.status # "absent"
  BY DEF ChangePassword, JWTAuthMiddleware, Authorized
<1>3. Start(w, j)
  BY DEF ChangePassword
<1> HIDE DEF j
<1>4. JobFits(j, user, tenants) /\ j.pc \notin {"record", "lookup"}
  BY <1>1, <1>2 DEF JobFits
<1> QED
  BY <1>1, <1>3, <1>4, StartAlone DEF ChangePassword

LEMMA VerifyEmailKeeps ==
    ASSUME SessionInv, NEW w \in Callers, NEW n \in Mails, VerifyEmail(w, n)
    PROVE  SessionInv'
<1> DEFINE j == [Idle EXCEPT !.pc = "saveVerified", !.read = user]
<1>1. j \in Jobs /\ j.pc = "saveVerified" /\ j.read = user
  BY UsersExist, RowTypes DEF Jobs, Points
<1>2. user.status # "absent"
  BY SessionsAssumption DEF VerifyEmail, Mails, SessionInv, RowsFit
<1>3. Start(w, j)
  BY DEF VerifyEmail
<1> HIDE DEF j
<1>4. JobFits(j, user, tenants) /\ j.pc \notin {"record", "lookup"}
  BY <1>1, <1>2 DEF JobFits
<1> QED
  BY <1>1, <1>3, <1>4, StartAlone DEF VerifyEmail

LEMMA ResendVerificationKeeps ==
    ASSUME SessionInv, NEW w \in Callers, ResendVerification(w)
    PROVE  SessionInv'
<1> DEFINE j == [Idle EXCEPT !.pc = "send", !.read = user]
<1>1. j \in Jobs /\ j.pc = "send" /\ j.read = user
  BY UsersExist, RowTypes DEF Jobs, Points
<1>2. user.status # "absent" /\ ~ user.verified /\ Start(w, j)
  BY DEF ResendVerification
<1> HIDE DEF j
<1>3. JobFits(j, user, tenants) /\ j.pc \notin {"record", "lookup"}
  BY <1>1, <1>2 DEF JobFits
<1> QED
  BY <1>1, <1>2, <1>3, StartAlone DEF ResendVerification

LEMMA RegisterKeeps ==
    ASSUME SessionInv, NEW w \in Callers, NEW p \in Passwords, Register(w, p)
    PROVE  SessionInv'
<1>1. CASE user.status = "absent" /\ Start(w, [Idle EXCEPT !.pc = "create", !.read = NewUser(p)])
  <2> DEFINE j == [Idle EXCEPT !.pc = "create", !.read = NewUser(p)]
  <2>1. j \in Jobs /\ j.pc = "create" /\ j.read = NewUser(p)
    BY RowTypes DEF Jobs, Points
  <2>2. Start(w, j)
    BY <1>1
  <2> HIDE DEF j
  <2>3. JobFits(j, user, tenants) /\ j.pc \notin {"record", "lookup"}
    BY <2>1, RowTypes DEF JobFits, Holding
  <2> QED
    BY <2>1, <2>2, <2>3, StartAlone DEF Register
<1>2. CASE /\ user.status # "absent" /\ ~user.verified
           /\ Start(w, [Idle EXCEPT !.pc = "send", !.read = user])
  <2> DEFINE j == [Idle EXCEPT !.pc = "send", !.read = user]
  <2>1. j \in Jobs /\ j.pc = "send" /\ j.read = user
    BY UsersExist, RowTypes DEF Jobs, Points
  <2>2. Start(w, j)
    BY <1>2
  <2> HIDE DEF j
  <2>3. JobFits(j, user, tenants) /\ j.pc \notin {"record", "lookup"}
    BY <1>2, <2>1 DEF JobFits
  <2> QED
    BY <2>1, <2>2, <2>3, StartAlone DEF Register
<1> QED
  BY <1>1, <1>2 DEF Register

LEMMA RegisterTenantKeeps ==
    ASSUME SessionInv, NEW w \in Callers, NEW p \in Passwords, NEW t \in Orgs,
           RegisterTenant(w, p, t)
    PROVE  SessionInv'
<1> DEFINE r == IF user.status = "absent" THEN NewUser(p) ELSE user
           j == [Idle EXCEPT !.pc = "createTenant", !.password = p, !.tenant = t, !.read = r]
<1>1. r \in Users /\ (r = NewUser(p) \/ (r.status # "absent" /\ user.status # "absent"))
  BY UsersExist, RowTypes
<1>2. t \in Tenants
  BY DEF Tenants
<1>3. Start(w, j)
  BY DEF RegisterTenant
<1> HIDE DEF r
<1>4. j \in Jobs /\ j.pc = "createTenant" /\ j.read = r /\ j.password = p
  BY <1>1, <1>2, RowTypes DEF Jobs, Points
<1> HIDE DEF j
<1>5. JobFits(j, user, tenants) /\ j.pc \notin {"record", "lookup"}
  BY <1>1, <1>4 DEF JobFits, Holding
<1> QED
  BY <1>3, <1>4, <1>5, StartAlone DEF RegisterTenant

LEMMA EditUserKeeps ==
    ASSUME SessionInv, NEW w \in Callers, EditUser(w)
    PROVE  SessionInv'
<1> DEFINE j == [Idle EXCEPT !.pc = "edit", !.read = user]
<1>1. j \in Jobs /\ j.pc = "edit" /\ j.read = user
  BY UsersExist, RowTypes DEF Jobs, Points
<1>2. user.status # "absent" /\ Start(w, j)
  BY DEF EditUser
<1> HIDE DEF j
<1>3. JobFits(j, user, tenants) /\ j.pc \notin {"record", "lookup"}
  BY <1>1, <1>2 DEF JobFits
<1> QED
  BY <1>1, <1>2, <1>3, StartAlone DEF EditUser

-----------------------------------------------------------------------------
(* Statements of a request *)

LEMMA SavePasswordHistoryKeeps ==
    ASSUME SessionInv, NEW w \in Callers, SavePasswordHistory(w)
    PROVE  SessionInv'
<1>1. SessionTypeOK /\ Typed
  BY DEF SessionInv, SessionTypeOK, Typed
<1>2. Step(w, "history", "savePassword") /\ UNCHANGED others
      /\ UNCHANGED <<tenants, members, blocked, refresh, tokens>>
  BY DEF SavePasswordHistory, others, lockout, wishes, rest, grants
<1>3. /\ "history" \in Points /\ "savePassword" \in Points
      /\ "savePassword" \notin Issuing /\ "savePassword" \notin Sending
  BY DEF Points, Issuing, Sending
<1>4. JobFits(After(w, "savePassword"), user, tenants')
  BY <1>1, <1>2, <1>3, StepEffect, UsersExist DEF JobFits, Holding
<1>5. oldPasswords' \subseteq Passwords
  BY <1>1, UsersExist DEF SavePasswordHistory, SessionTypeOK, Users
<1>6. /\ refresh' \in [Logins -> Refreshes] /\ tokens' \in [TokenIds -> Tokens] /\ SameLogins
      /\ tenants \subseteq tenants' /\ tenants' \subseteq Tenants /\ members' \subseteq tenants'
      /\ blocked' \in BOOLEAN
  BY <1>1, <1>2, TokenEffects DEF SessionTypeOK
<1> QED
  BY <1>2, <1>3, <1>4, <1>5, <1>6, Goes

LEMMA CreateTenantKeeps ==
    ASSUME SessionInv, NEW w \in Callers, CreateTenant(w)
    PROVE  SessionInv'
<1>1. SessionTypeOK /\ Typed
  BY DEF SessionInv, SessionTypeOK, Typed
<1>2. UNCHANGED others /\ UNCHANGED <<members, oldPasswords, blocked, refresh, tokens>>
  BY DEF CreateTenant, others, lockout, wishes, rest, grants
<1>3. /\ refresh' \in [Logins -> Refreshes] /\ tokens' \in [TokenIds -> Tokens] /\ SameLogins
      /\ oldPasswords' \subseteq Passwords /\ blocked' \in BOOLEAN
  BY <1>1, <1>2, TokenEffects DEF SessionTypeOK
<1>4. CASE Step(w, "createTenant", "idle") /\ UNCHANGED tenants
  BY <1>2, <1>3, <1>4, Returns
<1> DEFINE new == job[w].read = NewUser(job[w].password)
           to == IF new THEN "createUser" ELSE "join"
<1>5. CASE tenants' = tenants \cup {job[w].tenant} /\ Step(w, "createTenant", to)
  <2>1. /\ to \in Points /\ to \in {"createUser", "join"} /\ "createTenant" \in Issuing
        /\ "createTenant" \in Sending
    BY DEF Points, Issuing, Sending
  <2>2. /\ tenants \subseteq tenants' /\ tenants' \subseteq Tenants
        /\ members' \subseteq tenants' /\ job[w].tenant \in tenants'
    BY <1>1, <1>2, <1>5, UsersExist DEF SessionTypeOK
  <2>3. job[w].pc = "createTenant" /\ JobFits(job[w], user, tenants)
    BY <1>5, UsersExist DEF Step
  <2>4. new => /\ job[w].read.status # "absent" /\ ~ job[w].read.verified
               /\ job[w].read.balance = 0
    BY UsersExist, RowTypes
  <2>5. ~ new => job[w].read.status # "absent" /\ user.status # "absent"
    BY <2>3 DEF JobFits
  <2> HIDE DEF new
  <2>6. /\ After(w, to).pc = to /\ After(w, to).read = job[w].read
        /\ After(w, to).tenant = job[w].tenant
    BY <1>1, <1>5, <2>1, StepEffect
  <2>7. JobFits(After(w, to), user, tenants')
    <3>1. CASE new
      BY <2>2, <2>4, <2>6, <3>1 DEF JobFits, Holding
    <3>2. CASE ~ new
      BY <2>2, <2>5, <2>6, <3>2 DEF JobFits, Holding
    <3> QED
      BY <3>1, <3>2
  <2> HIDE DEF to
  <2> QED
    BY <1>2, <1>3, <1>5, <2>1, <2>2, <2>7, Goes
<1> QED
  BY <1>4, <1>5 DEF CreateTenant

LEMMA JoinTenantKeeps ==
    ASSUME SessionInv, NEW w \in Callers, JoinTenant(w)
    PROVE  SessionInv'
<1>1. SessionTypeOK /\ Typed
  BY DEF SessionInv, SessionTypeOK, Typed
<1>2. UNCHANGED others /\ UNCHANGED <<tenants, oldPasswords, blocked, refresh, tokens>>
  BY DEF JoinTenant, others, lockout, wishes, rest, grants
<1>3. /\ refresh' \in [Logins -> Refreshes] /\ tokens' \in [TokenIds -> Tokens] /\ SameLogins
      /\ oldPasswords' \subseteq Passwords /\ blocked' \in BOOLEAN
  BY <1>1, <1>2, TokenEffects DEF SessionTypeOK
<1>4. CASE Step(w, "join", "idle") /\ UNCHANGED members
  BY <1>2, <1>3, <1>4, Returns
<1> DEFINE to == IF ~requireEmailVerify THEN "welcome"
                 ELSE IF ~job[w].read.verified THEN "send" ELSE "idle"
<1>5. CASE members' = members \cup {job[w].tenant} /\ Step(w, "join", to)
  <2>1. /\ to \in Points /\ to \in {"welcome", "send", "idle"}
        /\ to = "send" => ~ job[w].read.verified
        /\ "join" \in Issuing /\ "join" \in Sending
        /\ to \notin {"record", "lookup"}
    BY DEF Points, Issuing, Sending
  <2> HIDE DEF to
  <2>2. job[w].pc = "join" /\ JobFits(job[w], user, tenants)
    BY <1>5, UsersExist DEF Step
  <2>3. /\ tenants \subseteq tenants' /\ tenants' \subseteq Tenants /\ members' \subseteq tenants'
    BY <1>1, <1>2, <1>5, <2>2 DEF SessionTypeOK, JobFits
  <2>4. JobFits(After(w, to), user, tenants')
    BY <1>1, <1>5, <2>1, <2>2, StepEffect DEF JobFits, Holding
  <2>5. to \in Issuing => "join" \in Issuing
    BY <2>1
  <2> QED
    BY <1>2, <1>3, <1>5, <2>1, <2>3, <2>4, <2>5, Goes
<1> QED
  BY <1>4, <1>5 DEF JoinTenant

\* A save of the row as it was read changes nothing unless it races.
LEMMA PlainSave ==
    ASSUME SessionInv, NEW r \in Users, Save(r, r), UNCHANGED wishes
    PROVE  UserKept' /\ raced' \in BOOLEAN
BY DEF SessionInv, SessionTypeOK, UserKept, Save, wishes

LEMMA SavingKeeps ==
    ASSUME SessionInv, NEW w \in Callers, SaveLogin(w) \/ SaveEdited(w)
    PROVE  SessionInv'
<1>1. SessionTypeOK /\ job[w].login \in {0} \cup Logins
  BY UsersExist DEF SessionInv
<1>2. PICK from \in {"saveLogin", "edit"} : Step(w, from, "idle")
  BY DEF SaveLogin, SaveEdited
<1>3. Save(job[w].read, job[w].read) \/ UNCHANGED <<user, raced>>
  BY DEF SaveLogin, SaveEdited
<1>4. Mint(job[w].login) \/ tokens' = tokens
  BY DEF SaveLogin, SaveEdited, grants
<1>5. UNCHANGED <<tenants, members, oldPasswords, refresh, lockout, rehash, mails, wishes, rest>>
  BY DEF SaveLogin, SaveEdited, grants
<1>6. tokens' \in [TokenIds -> Tokens] /\ refresh' \in [Logins -> Refreshes] /\ SameLogins
  BY <1>1, <1>4, <1>5, TokenEffects
<1>7. CASE UNCHANGED <<user, raced>>
  <2>1. UNCHANGED others /\ UNCHANGED <<tenants, members>>
    BY <1>5, <1>7 DEF others, lockout, wishes, rest
  <2>2. oldPasswords' \subseteq Passwords /\ blocked' \in BOOLEAN
    BY <1>1, <1>5 DEF SessionTypeOK, lockout
  <2> QED
    BY <1>2, <1>6, <2>1, <2>2, Returns
<1>8. CASE Save(job[w].read, job[w].read)
  <2>1. job[w].read \in Users /\ user' = job[w].read
    BY <1>8, UsersExist DEF Save
  <2>2. job[w].read.status # "absent" /\ user.status # "absent"
    BY <1>2, UsersExist DEF Step, JobFits, Holding
  <2>3. UserKept' /\ raced' \in BOOLEAN
    BY <1>5, <1>8, <2>1, PlainSave
  <2>4. UNCHANGED <<ledger, tenants, members, oldPasswords, refresh, lockout, rehash, mails, rest>>
        /\ chosen' \in Passwords /\ confirmed' \in BOOLEAN
    BY <1>1, <1>5 DEF SessionTypeOK, wishes
  <2> QED
    BY <1>2, <1>6, <2>1, <2>2, <2>3, <2>4, Saves
<1> QED
  BY <1>3, <1>7, <1>8

LEMMA SavePasswordKeeps ==
    ASSUME SessionInv, NEW w \in Callers, SavePassword(w)
    PROVE  SessionInv'
<1>1. SessionTypeOK
  BY DEF SessionInv
<1>2. /\ UNCHANGED <<tenants, members, oldPasswords, grants, lockout, rehash, mails, ledger,
                     confirmed, rest>>
      /\ refresh' = refresh /\ tokens' = tokens
  BY DEF SavePassword, grants
<1>3. tokens' \in [TokenIds -> Tokens] /\ refresh' \in [Logins -> Refreshes] /\ SameLogins
  BY <1>1, <1>2, TokenEffects
<1> DEFINE r == job[w].read
           saved == [r EXCEPT !.password = job[w].password, !.legacy = FALSE]
<1>4. CASE Step(w, "savePassword", "idle") /\ UNCHANGED <<user, raced, chosen>>
  <2>1. UNCHANGED others /\ UNCHANGED <<tenants, members>>
    BY <1>2, <1>4 DEF others, lockout, rest
  <2>2. oldPasswords' \subseteq Passwords /\ blocked' \in BOOLEAN
    BY <1>1, <1>2 DEF SessionTypeOK, lockout
  <2> QED
    BY <1>3, <1>4, <2>1, <2>2, Returns
<1>5. CASE Step(w, "savePassword", "revokeAll") /\ Save(r, saved) /\ chosen' = job[w].password
  <2>1. r \in Users /\ job[w].password \in Passwords
    BY UsersExist
  <2>2. r.status # "absent" /\ user.status # "absent"
    BY <1>5, UsersExist DEF Step, JobFits, Holding
  <2> HIDE DEF r
  <2>3. /\ saved \in Users /\ saved.status = r.status /\ saved.verified = r.verified
        /\ saved.balance = r.balance /\ saved.password = job[w].password
    BY <2>1 DEF Users
  <2> HIDE DEF saved
  <2>4. user' = saved /\ raced' \in BOOLEAN /\ (~ raced' => ~ raced /\ user = r)
    BY <1>1, <1>5 DEF Save, SessionTypeOK
  <2>5. ledger' = ledger /\ confirmed' = confirmed
    BY <1>2
  <2>6. UserKept'
    BY <1>5, <2>2, <2>3, <2>4, <2>5 DEF UserKept, SessionInv
  <2>7. chosen' \in Passwords /\ confirmed' \in BOOLEAN
    BY <1>1, <1>5, <2>1, <2>5 DEF SessionTypeOK
  <2> QED
    BY <1>2, <1>3, <1>5, <2>2, <2>3, <2>4, <2>6, <2>7, Saves
<1> QED
  BY <1>4, <1>5 DEF SavePassword

LEMMA SaveVerifiedKeeps ==
    ASSUME SessionInv, NEW w \in Callers, SaveVerified(w)
    PROVE  SessionInv'
<1>1. SessionTypeOK
  BY DEF SessionInv
<1>2. /\ UNCHANGED <<tenants, members, oldPasswords, grants, lockout, rehash, mails, chosen,
                     ledger, rest>>
      /\ refresh' = refresh /\ tokens' = tokens /\ Step(w, "saveVerified", "idle")
  BY DEF SaveVerified, grants
<1>3. tokens' \in [TokenIds -> Tokens] /\ refresh' \in [Logins -> Refreshes] /\ SameLogins
  BY <1>1, <1>2, TokenEffects
<1> DEFINE r == job[w].read
           saved == [r EXCEPT !.verified = TRUE, !.mail = 0, !.status = "active"]
<1>4. CASE UNCHANGED <<user, raced, confirmed>>
  <2>1. UNCHANGED others /\ UNCHANGED <<tenants, members>>
    BY <1>2, <1>4 DEF others, lockout, rest
  <2>2. oldPasswords' \subseteq Passwords /\ blocked' \in BOOLEAN
    BY <1>1, <1>2 DEF SessionTypeOK, lockout
  <2> QED
    BY <1>2, <1>3, <1>4, <2>1, <2>2, Returns
<1>5. CASE Save(r, saved) /\ confirmed' = TRUE
  <2>1. r \in Users
    BY UsersExist
  <2>2. r.status # "absent" /\ user.status # "absent"
    BY <1>2, UsersExist DEF Step, JobFits, Holding
  <2> HIDE DEF r
  <2>3. /\ saved \in Users /\ saved.status = "active" /\ saved.verified = TRUE
        /\ saved.balance = r.balance /\ saved.password = r.password
    BY <2>1 DEF Users
  <2> HIDE DEF saved
  <2>4. user' = saved /\ raced' \in BOOLEAN /\ (~ raced' => ~ raced /\ user = r)
    BY <1>1, <1>5 DEF Save, SessionTypeOK
  <2>5. ledger' = ledger /\ chosen' = chosen
    BY <1>2
  <2>6. UserKept'
    BY <2>2, <2>3, <2>4, <2>5 DEF UserKept, SessionInv
  <2>7. chosen' \in Passwords /\ confirmed' \in BOOLEAN /\ saved.status # "absent"
    BY <1>1, <1>5, <2>3, <2>5 DEF SessionTypeOK
  <2> QED
    BY <1>2, <1>3, <1>5, <2>2, <2>3, <2>4, <2>6, <2>7, Saves
<1> QED
  BY <1>4, <1>5 DEF SaveVerified

-----------------------------------------------------------------------------
(* Rows that are written *)

\* What a request keeps that changes neither the refresh tokens nor the failures.
LEMMA Counters ==
    ASSUME SessionInv, NEW w \in Callers, NEW from, NEW to \in Points, Step(w, from, to),
           from \notin {"record", "lookup"}, to \notin {"record", "lookup"},
           to \in Issuing => from \in Issuing, to \in Sending => from \in Sending,
           UNCHANGED <<refresh, failures, guesses, outage>>
    PROVE  /\ After(w, to) \in Jobs /\ job' = [job EXCEPT ![w] = After(w, to)]
           /\ After(w, to).pc = to /\ job[w].pc = from
           /\ job' \in [Callers -> Jobs] /\ calls' = calls
           /\ LoginsCounted' /\ GuessesCounted' /\ (mails' = mails => MailsCounted')
<1>1. Typed
  BY DEF SessionInv, SessionTypeOK, Typed
<1>2. /\ After(w, to) \in Jobs /\ job' = [job EXCEPT ![w] = After(w, to)]
      /\ calls' = calls /\ job[w].pc = from /\ After(w, to).pc = to /\ Typed'
  BY <1>1, StepEffect
<1>3. SameLogins
  BY DEF SameLogins
<1>4. Paid(w, After(w, to), Issuing) /\ Paid(w, After(w, to), Sending)
  BY <1>2 DEF Paid
<1> QED
  BY <1>2, <1>3, <1>4, LoginsKept, MailsKept, GuessesKept DEF Typed

LEMMA SendVerificationEmailKeeps ==
    ASSUME SessionInv, NEW w \in Callers, SendVerificationEmail(w)
    PROVE  SessionInv'
<1>1. SessionTypeOK /\ Typed
  BY DEF SessionInv, SessionTypeOK, Typed
<1>2. /\ UNCHANGED <<tenants, members, oldPasswords, refresh, tokens, lockout, rehash, wishes,
                     rest>>
      /\ Step(w, "send", "idle")
  BY DEF SendVerificationEmail, grants
<1> DEFINE r == job[w].read
           saved == [r EXCEPT !.mail = mails + 1, !.verified = FALSE,
                            !.status = "pending_verification"]
<1>3. CASE UNCHANGED <<mails, user, raced>>
  <2>1. UNCHANGED others /\ UNCHANGED <<tenants, members>>
    BY <1>2, <1>3 DEF others, lockout, wishes, rest
  <2>2. oldPasswords' \subseteq Passwords /\ blocked' \in BOOLEAN
    BY <1>1, <1>2 DEF SessionTypeOK, lockout
  <2>3. tokens' \in [TokenIds -> Tokens] /\ refresh' \in [Logins -> Refreshes] /\ SameLogins
    BY <1>1, <1>2, TokenEffects
  <2> QED
    BY <1>2, <2>1, <2>2, <2>3, Returns
<1>4. CASE mails' = mails + 1 /\ Save(r, saved)
  <2>1. r \in Users /\ JobFits(job[w], user, tenants) /\ job[w].pc = "send"
    BY <1>2, UsersExist DEF Step
  <2>2. r.status # "absent" /\ ~ r.verified /\ user.status # "absent"
    BY <2>1 DEF JobFits, Holding
  <2>3. "idle" \in Points /\ "idle" \notin Issuing /\ "idle" \notin Sending /\ "send" \in Sending
    BY DEF Points, Issuing, Sending
  <2>4. /\ After(w, "idle") \in Jobs /\ job' = [job EXCEPT ![w] = After(w, "idle")]
        /\ After(w, "idle").pc = "idle" /\ job' \in [Callers -> Jobs] /\ calls' = calls
        /\ LoginsCounted' /\ GuessesCounted'
    BY <1>2, <2>3, Counters DEF lockout, rest
  <2>5. Count(Sending) \in Nat /\ Count(Sending) > 0 /\ Count(Sending)' = Count(Sending) - 1
    BY <1>1, <2>1, <2>3, <2>4, OneMoves
  <2>6. mails \in Nat /\ calls \in 0..MaxCalls /\ mails + Count(Sending) <= calls
    BY <1>1, SessionsAssumption DEF SessionTypeOK, Mails, SessionInv, MailsCounted
  <2>7. MailsCounted' /\ mails' \in Mails
    BY <1>4, <2>4, <2>5, <2>6, SessionsAssumption DEF MailsCounted, Mails
  <2>8. mails + 1 \in {0} \cup Mails
    BY <1>4, <2>7
  <2> HIDE DEF r
  <2>9. /\ saved \in Users /\ saved.status = "pending_verification"
        /\ saved.balance = r.balance /\ saved.password = r.password
    BY <2>1, <2>8 DEF Users
  <2> HIDE DEF saved
  <2>10. user' = saved /\ raced' \in BOOLEAN /\ (~ raced' => ~ raced /\ user = r)
    BY <1>1, <1>4 DEF Save, SessionTypeOK
  <2>11. UserKept'
    BY <1>2, <2>2, <2>9, <2>10 DEF UserKept, SessionInv, wishes
  <2>12. RowsFit'
    BY <1>2, <2>2, <2>9, <2>10 DEF SessionInv, RowsFit, wishes
  <2>13. JobFits(After(w, "idle"), user', tenants')
    BY <2>4 DEF JobFits, Holding
  <2>14. JobsFit'
    BY <1>2, <2>4, <2>9, <2>10, <2>13, FitsKept
  <2>15. SessionTypeOK'
    BY <1>1, <1>2, <2>4, <2>7, <2>9, <2>10 DEF SessionTypeOK, lockout, wishes, rest
  <2> QED
    BY <2>4, <2>7, <2>11, <2>12, <2>14, <2>15 DEF SessionInv
<1> QED
  BY <1>3, <1>4 DEF SendVerificationEmail

\* A user who is inserted was not there, nothing was charged and no address confirmed.
LEMMA Inserts ==
    ASSUME SessionInv, NEW w \in Callers, job[w].pc \in {"create", "createUser"},
           InsertUser(job[w].read), UNCHANGED <<raced, ledger, confirmed, rehash>>
    PROVE  /\ user' = job[w].read /\ user' \in Users /\ user'.status # "absent"
           /\ chosen' \in Passwords /\ UserKept' /\ RowsFit'
<1>1. job[w].read \in Users /\ JobFits(job[w], user, tenants)
  BY UsersExist
<1>2. /\ user.status = "absent" /\ user' = job[w].read /\ chosen' = job[w].read.password
  BY DEF InsertUser
<1>3. /\ job[w].read.status # "absent" /\ ~ job[w].read.verified
      /\ job[w].read.balance = 0
  BY <1>1 DEF JobFits
<1>4. ledger = 0 /\ confirmed = FALSE /\ rehash = {}
  BY <1>2 DEF SessionInv, RowsFit
<1>5. UserKept'
  BY <1>2, <1>3, <1>4 DEF UserKept
<1>6. RowsFit'
  BY <1>2, <1>3, <1>4 DEF RowsFit
<1> QED
  BY <1>1, <1>2, <1>3, <1>5, <1>6 DEF Users

LEMMA InsertKeeps ==
    ASSUME SessionInv, NEW w \in Callers, NEW from \in {"create", "createUser"},
           NEW to \in {"send", "welcome", "join"}, to = "send" => from = "create",
           to = "join" => from = "createUser",
           Step(w, from, to), InsertUser(job[w].read),
           members \subseteq members', members' \subseteq tenants,
           UNCHANGED <<tenants, oldPasswords, grants, lockout, rehash, mails, raced, ledger,
                       confirmed, rest>>
    PROVE  SessionInv'
<1>1. SessionTypeOK /\ Typed
  BY DEF SessionInv, SessionTypeOK, Typed
<1>2. /\ to \in Points /\ to \notin {"record", "lookup"} /\ from \in Issuing /\ from \in Sending
      /\ from \notin {"record", "lookup"}
  BY DEF Points, Issuing, Sending
<1>3. /\ After(w, to) \in Jobs /\ job' = [job EXCEPT ![w] = After(w, to)]
      /\ After(w, to).pc = to /\ job[w].pc = from
      /\ job' \in [Callers -> Jobs] /\ calls' = calls
      /\ LoginsCounted' /\ GuessesCounted' /\ MailsCounted'
  BY <1>2, Counters DEF lockout, rest, grants
<1>4. /\ user' = job[w].read /\ user' \in Users /\ user'.status # "absent"
      /\ chosen' \in Passwords /\ UserKept' /\ RowsFit'
  BY <1>3, Inserts
<1>5. /\ After(w, to).read = job[w].read /\ After(w, to).tenant = job[w].tenant
      /\ JobFits(job[w], user, tenants)
  BY <1>1, <1>2, StepEffect, UsersExist
<1>6. JobFits(After(w, to), user', tenants')
  BY <1>3, <1>4, <1>5 DEF JobFits, Holding
<1>7. JobsFit'
  BY <1>3, <1>4, <1>6, FitsKept
<1>8. SessionTypeOK'
  BY <1>1, <1>3, <1>4 DEF SessionTypeOK, grants, lockout, rest
<1> QED
  BY <1>3, <1>4, <1>7, <1>8 DEF SessionInv

LEMMA CreateUserKeeps ==
    ASSUME SessionInv, NEW w \in Callers, CreateUser(w) \/ CreateAdmin(w)
    PROVE  SessionInv'
<1>1. SessionTypeOK
  BY DEF SessionInv
<1>2. /\ UNCHANGED <<tenants, oldPasswords, grants, lockout, rehash, mails, raced, ledger,
                     confirmed, rest>>
      /\ refresh' = refresh /\ tokens' = tokens
  BY DEF CreateUser, CreateAdmin, grants
<1>3. CASE /\ InsertUser(job[w].read) /\ members' = members \cup {Public}
           /\ Step(w, "create", IF requireEmailVerify THEN "send" ELSE "welcome")
  <2>1. members \subseteq members' /\ members' \subseteq tenants
    BY <1>1, <1>3 DEF SessionTypeOK
  <2> QED
    BY <1>2, <1>3, <2>1, InsertKeeps
<1>4. CASE /\ InsertUser(job[w].read) /\ members' = members
           /\ Step(w, "createUser", "join")
  <2>1. members \subseteq members' /\ members' \subseteq tenants
    BY <1>1, <1>4 DEF SessionTypeOK
  <2> QED
    BY <1>2, <1>4, <2>1, InsertKeeps
<1>5. CASE /\ Step(w, "create", "idle") \/ Step(w, "createUser", "idle")
           /\ UNCHANGED <<user, chosen, members>>
  <2>1. PICK from \in {"create", "createUser"} : Step(w, from, "idle")
    BY <1>5
  <2>2. UNCHANGED others /\ UNCHANGED <<tenants, members>>
    BY <1>2, <1>5 DEF others, lockout, rest
  <2>3. oldPasswords' \subseteq Passwords /\ blocked' \in BOOLEAN
    BY <1>1, <1>2 DEF SessionTypeOK, lockout
  <2>4. tokens' \in [TokenIds -> Tokens] /\ refresh' \in [Logins -> Refreshes] /\ SameLogins
    BY <1>1, <1>2, TokenEffects
  <2> QED
    BY <2>1, <2>2, <2>3, <2>4, Returns
<1>6. CASE CreateUser(w)
  BY <1>3, <1>5, <1>6 DEF CreateUser
<1>7. CASE CreateAdmin(w)
  BY <1>4, <1>5, <1>7 DEF CreateAdmin
<1> QED
  BY <1>6, <1>7

-----------------------------------------------------------------------------
(* Failures and logins *)

LEMMA GuessesReset ==
    ASSUME SessionInv, NEW w \in Callers, NEW j \in Jobs, job' = [job EXCEPT ![w] = j],
           (failures' = 0 /\ guesses' = 0) \/ outage, outage' = outage
    PROVE  GuessesCounted'
<1>1. Typed
  BY DEF SessionInv, SessionTypeOK, Typed
<1>2. Count({"record"})' \in Nat
  BY <1>1, OneMoves
<1>3. Count({"record", "lookup"})' \in Nat /\ Count({"record", "lookup"})' <= Cardinality(Callers)
  BY <1>1, OneMoves
<1>4. Cardinality(Callers) \in Nat
  BY CountIsNat
<1> QED
  BY <1>2, <1>3, <1>4, SessionsAssumption DEF GuessesCounted

\* The login that is issued next has its number free.
LEMMA NextLoginFree ==
    ASSUME SessionInv, NEW w \in Callers, job[w].pc \in Issuing
    PROVE  /\ NextLogin \in Logins /\ refresh[NextLogin] = "none"
           /\ \A s \in Logins : s < NextLogin <=> refresh[s] # "none"
           /\ NextLogin - 1 + Count(Issuing) <= calls + 1
<1>1. PICK k \in Nat : /\ \A s \in Logins : refresh[s] # "none" <=> s <= k
                       /\ k + Count(Issuing) <= calls + 1
  BY DEF SessionInv, LoginsCounted
<1>2. Typed /\ calls \in 0..MaxCalls
  BY DEF SessionInv, SessionTypeOK, Typed
<1>3. Count(Issuing) \in Nat /\ Count(Issuing) > 0
  <2>1. job[w] \in Jobs /\ job = [job EXCEPT ![w] = job[w]]
    BY <1>2 DEF Typed
  <2>2. w \in Doing(Issuing)
    BY DEF Doing
  <2>3. IsFiniteSet(Doing(Issuing)) /\ Count(Issuing) \in Nat
    BY CountIsNat
  <2> QED
    BY <2>2, <2>3, FS_EmptySet DEF Count
<1>4. k + 1 \in Logins
  BY <1>1, <1>2, <1>3, SessionsAssumption DEF Logins
<1> DEFINE First(s) == refresh[s] = "none" /\ \A r \in 1..(s - 1) : refresh[r] # "none"
<1>5. First(k + 1)
  BY <1>1, <1>4, SessionsAssumption DEF Logins
<1>6. \A s \in Logins : First(s) => s = k + 1
  BY <1>1, <1>4, SessionsAssumption DEF Logins
<1>7. NextLogin = CHOOSE s \in Logins : First(s)
  BY DEF NextLogin
<1> HIDE DEF First
<1>8. NextLogin = k + 1
  BY <1>4, <1>5, <1>6, <1>7
<1>9. First(NextLogin)
  BY <1>5, <1>8
<1> QED
  BY <1>1, <1>4, <1>8, <1>9, SessionsAssumption DEF First, Logins

LEMMA IssueKeeps ==
    ASSUME SessionInv, NEW w \in Callers, NEW j \in Jobs, job' = [job EXCEPT ![w] = j],
           job[w].pc \in Issuing, j.pc \notin Issuing, calls' = calls, Issue
    PROVE  LoginsCounted' /\ refresh' \in [Logins -> Refreshes] /\ NextLogin \in Logins
<1>1. /\ NextLogin \in Logins /\ refresh[NextLogin] = "none"
      /\ \A s \in Logins : s < NextLogin <=> refresh[s] # "none"
      /\ NextLogin - 1 + Count(Issuing) <= calls + 1
  BY NextLoginFree
<1>2. refresh \in [Logins -> Refreshes] /\ Typed /\ calls \in Int
  BY SessionsAssumption DEF SessionInv, SessionTypeOK, Typed
<1>3. Count(Issuing) \in Nat /\ Count(Issuing)' = Count(Issuing) - 1
  BY <1>2, OneMoves
<1>4. PICK r \in {"stored", "void"} : refresh' = [refresh EXCEPT ![NextLogin] = r]
  BY DEF Issue
<1>5. refresh' \in [Logins -> Refreshes]
  BY <1>2, <1>4 DEF Refreshes
<1>6. NextLogin \in Nat /\ NextLogin + Count(Issuing)' <= calls' + 1
  BY <1>1, <1>2, <1>3, SessionsAssumption DEF Logins
<1>7. \A s \in Logins : refresh'[s] # "none" <=> s <= NextLogin
  <2> SUFFICES ASSUME NEW s \in Logins PROVE refresh'[s] # "none" <=> s <= NextLogin
    OBVIOUS
  <2>1. CASE s = NextLogin
    BY <1>1, <1>2, <1>4, <2>1 DEF Logins
  <2>2. CASE s # NextLogin
    <3>1. refresh'[s] = refresh[s] /\ s \in Int /\ NextLogin \in Int
      BY <1>1, <1>2, <1>4, <2>2, SessionsAssumption DEF Logins
    <3> QED
      BY <1>1, <2>2, <3>1
  <2> QED
    BY <2>1, <2>2
<1> QED
  BY <1>1, <1>5, <1>6, <1>7 DEF LoginsCounted

\* The parts of the invariant that only speak of the user row.
LEMMA RowKept ==
    ASSUME SessionInv, UNCHANGED <<user, raced, rehash, wishes>>
    PROVE  RowsFit' /\ UserKept'
BY DEF SessionInv, RowsFit, UserKept, wishes

LEMMA LoginKeeps ==
    ASSUME SessionInv, NEW w \in Callers, NEW p \in Passwords, Login(w, p)
    PROVE  SessionInv'
<1> DEFINE j == [Idle EXCEPT !.pc = "lookup", !.password = p]
<1>1. j \in Jobs /\ j.pc = "lookup"
  BY RowTypes DEF Jobs, Points
<1>2. /\ job' = [job EXCEPT ![w] = j] /\ job[w].pc = "idle"
      /\ UNCHANGED <<calls, user, tenants, members, oldPasswords, refresh, tokens, failures,
                     blocked, guesses, rehash, mails, raced, wishes, rest, outage>>
  BY DEF Login, grants, lockout, rest
<1> HIDE DEF j
<1>3. JobsFit'
  <2>1. JobFits(j, user', tenants')
    BY <1>1 DEF JobFits, Holding
  <2> QED
    BY <1>1, <1>2, <2>1, FitsKept
<1>4. SessionTypeOK'
  BY <1>1, <1>2 DEF SessionInv, SessionTypeOK, wishes, rest
<1>5. LoginsCounted' /\ MailsCounted'
  <2>1. Paid(w, j, Issuing) /\ Paid(w, j, Sending) /\ SameLogins
    BY <1>1, <1>2 DEF Paid, SameLogins, Issuing, Sending
  <2> QED
    BY <1>1, <1>2, <2>1, LoginsKept, MailsKept
<1>6. GuessesCounted'
  <2>1. Typed
    BY DEF SessionInv, SessionTypeOK, Typed
  <2>2. Count({"record"})' = Count({"record"})
    BY <1>1, <1>2, <2>1, OneMoves
  <2>3. Count({"record", "lookup"})' \in Nat
        /\ Count({"record", "lookup"})' <= Cardinality(Callers)
    BY <1>1, <1>2, <2>1, OneMoves
  <2>4. ~ outage => failures < MaxFailed
    BY DEF Login, LoginAllowed
  <2>5. failures \in Nat /\ Cardinality(Callers) \in Nat
    BY CountIsNat DEF SessionInv, SessionTypeOK
  <2>6. ~ outage => failures + Count({"record", "lookup"})' <= MaxFailed - 1 + Cardinality(Callers)
    BY <2>3, <2>4, <2>5, SessionsAssumption
  <2> QED
    BY <1>2, <2>2, <2>6 DEF GuessesCounted, SessionInv
<1> QED
  BY <1>2, <1>3, <1>4, <1>5, <1>6, RowKept DEF SessionInv

LEMMA LookupKeeps ==
    ASSUME SessionInv, NEW w \in Callers, Lookup(w)
    PROVE  SessionInv'
<1>1. SessionTypeOK /\ Typed
  BY DEF SessionInv, SessionTypeOK, Typed
<1>2. UNCHANGED <<user, tenants, members, oldPasswords, refresh, tokens, failures, blocked, mails,
                  raced, wishes, requireEmailVerify, outage>>
  BY DEF Lookup, grants, rest
<1>3. failures \in Nat /\ guesses \in Nat /\ Cardinality(Callers) \in Nat
  BY <1>1, CountIsNat DEF SessionTypeOK
<1>4. SameLogins
  BY <1>2 DEF SameLogins
<1>5. CASE /\ Step(w, "lookup", "record") /\ rehash' = rehash
           /\ guesses' = guesses \/ (guesses' = guesses + 1 /\ ~ outage)
  <2> DEFINE j == After(w, "record")
  <2>1. "record" \in Points
    BY DEF Points
  <2>2. /\ j \in Jobs /\ job' = [job EXCEPT ![w] = j] /\ job' \in [Callers -> Jobs]
        /\ calls' = calls /\ job[w].pc = "lookup" /\ j.pc = "record"
    BY <1>1, <1>5, <2>1, StepEffect DEF Typed
  <2> HIDE DEF j
  <2>3. JobsFit'
    <3>1. JobFits(j, user', tenants')
      BY <2>2 DEF JobFits, Holding
    <3> QED
      BY <1>2, <2>2, <3>1, FitsKept
  <2>4. SessionTypeOK'
    BY <1>1, <1>2, <1>3, <1>5, <2>2 DEF SessionTypeOK, wishes
  <2>5. LoginsCounted' /\ MailsCounted'
    <3>1. Paid(w, j, Issuing) /\ Paid(w, j, Sending)
      BY <2>2 DEF Paid, Issuing, Sending
    <3> QED
      BY <1>2, <1>4, <2>2, <3>1, LoginsKept, MailsKept
  <2>6. GuessesCounted'
    <3>1. Count({"record"}) \in Nat /\ Count({"record"})' = Count({"record"}) + 1
      BY <1>1, <2>2, OneMoves
    <3>2. Count({"record", "lookup"})' = Count({"record", "lookup"})
      BY <1>1, <2>2, OneMoves
    <3> QED
      BY <1>2, <1>3, <1>5, <3>1, <3>2 DEF GuessesCounted, SessionInv
  <2> QED
    BY <1>2, <1>5, <2>3, <2>4, <2>5, <2>6, RowKept DEF SessionInv
<1>6. CASE /\ MayLogin(user) /\ job[w].pc = "lookup" /\ calls < MaxCalls
           /\ job' = [job EXCEPT ![w].pc = "issue", ![w].read = user]
           /\ calls' = calls + 1
           /\ rehash' = IF user.legacy THEN rehash \cup {user} ELSE rehash
           /\ guesses' = guesses
  <2> DEFINE j == [job[w] EXCEPT !.pc = "issue", !.read = user]
  <2>0. job[w] \in Jobs /\ user \in Users
    BY UsersExist
  <2>1. j \in Jobs /\ j.pc = "issue" /\ j.read = user
    BY <2>0 DEF Jobs, Points
  <2>2. job' = [job EXCEPT ![w] = j]
    BY <1>1, <1>6, <2>0 DEF Typed, Jobs
  <2> HIDE DEF j
  <2>3. user.status # "absent"
    BY <1>6 DEF MayLogin
  <2>4. JobsFit'
    <3>1. JobFits(j, user', tenants')
      BY <1>2, <2>1, <2>3 DEF JobFits
    <3> QED
      BY <1>2, <2>1, <2>2, <3>1, FitsKept
  <2>5. SessionTypeOK'
    <3>1. calls' \in 0..MaxCalls /\ rehash' \subseteq Users
      BY <1>1, <1>6, <2>0, SessionsAssumption DEF SessionTypeOK
    <3> QED
      BY <1>1, <1>2, <1>6, <2>1, <2>2, <3>1 DEF SessionTypeOK, wishes
  <2>6. LoginsCounted' /\ MailsCounted'
    <3>1. Paid(w, j, Issuing) /\ Paid(w, j, Sending)
      BY <1>6 DEF Paid
    <3> QED
      BY <1>2, <1>4, <2>1, <2>2, <3>1, LoginsKept, MailsKept
  <2>7. GuessesCounted'
    <3>1. Count({"record"})' = Count({"record"})
      BY <1>1, <1>6, <2>1, <2>2, OneMoves
    <3>2. /\ Count({"record", "lookup"}) \in Nat
          /\ Count({"record", "lookup"})' = Count({"record", "lookup"}) - 1
      BY <1>1, <1>6, <2>1, <2>2, OneMoves
    <3> QED
      BY <1>2, <1>3, <1>6, <3>1, <3>2, SessionsAssumption DEF GuessesCounted, SessionInv
  <2>8. RowsFit' /\ UserKept'
    BY <1>2, <1>6, <2>3 DEF RowsFit, UserKept, SessionInv, wishes
  <2> QED
    BY <2>4, <2>5, <2>6, <2>7, <2>8 DEF SessionInv
<1> QED
  BY <1>5, <1>6 DEF Lookup

LEMMA RecordFailedAttemptKeeps ==
    ASSUME SessionInv, NEW w \in Callers, RecordFailedAttempt(w)
    PROVE  SessionInv'
<1>1. SessionTypeOK /\ Typed
  BY DEF SessionInv, SessionTypeOK, Typed
<1>2. UNCHANGED <<user, tenants, members, oldPasswords, refresh, tokens, blocked, guesses, rehash,
                  mails, raced, wishes, requireEmailVerify, outage>>
  BY DEF RecordFailedAttempt, grants, rest
<1>3. failures \in Nat /\ guesses \in Nat /\ Cardinality(Callers) \in Nat
  BY <1>1, CountIsNat DEF SessionTypeOK
<1>4. PICK to \in {"block", "idle"} :
         /\ Step(w, "record", to)
         /\ failures' = failures + 1 \/ (failures' = failures /\ outage)
  BY DEF RecordFailedAttempt
<1> DEFINE j == After(w, to)
<1>5. to \in Points
  BY DEF Points
<1>6. /\ j \in Jobs /\ job' = [job EXCEPT ![w] = j] /\ job' \in [Callers -> Jobs]
      /\ calls' = calls /\ job[w].pc = "record" /\ j.pc = to
  BY <1>1, <1>4, <1>5, StepEffect DEF Typed
<1> HIDE DEF j
<1>7. JobsFit'
  <2>1. JobFits(j, user', tenants')
    BY <1>6 DEF JobFits, Holding
  <2> QED
    BY <1>2, <1>6, <2>1, FitsKept
<1>8. SessionTypeOK'
  BY <1>1, <1>2, <1>3, <1>4, <1>6 DEF SessionTypeOK, wishes
<1>9. LoginsCounted' /\ MailsCounted'
  <2>1. Paid(w, j, Issuing) /\ Paid(w, j, Sending) /\ SameLogins
    BY <1>2, <1>6 DEF Paid, Issuing, Sending, SameLogins
  <2> QED
    BY <1>2, <1>6, <2>1, LoginsKept, MailsKept
<1>10. GuessesCounted'
  <2>1. Count({"record"}) \in Nat /\ Count({"record"})' = Count({"record"}) - 1
    BY <1>1, <1>6, OneMoves
  <2>2. /\ Count({"record", "lookup"}) \in Nat
        /\ Count({"record", "lookup"})' = Count({"record", "lookup"}) - 1
    BY <1>1, <1>6, OneMoves
  <2> QED
    BY <1>2, <1>3, <1>4, <2>1, <2>2, SessionsAssumption DEF GuessesCounted, SessionInv
<1> QED
  BY <1>2, <1>7, <1>8, <1>9, <1>10, RowKept DEF SessionInv

LEMMA GenerateTokenKeeps ==
    ASSUME SessionInv, NEW w \in Callers, GenerateToken(w)
    PROVE  SessionInv'
<1>1. SessionTypeOK /\ Typed
  BY DEF SessionInv, SessionTypeOK, Typed
<1>2. /\ UNCHANGED <<user, tenants, members, oldPasswords, tokens, blocked, rehash, mails, raced,
                     wishes, requireEmailVerify, outage>>
      /\ (failures' = 0 /\ guesses' = 0) \/ (outage /\ UNCHANGED <<failures, guesses>>)
  BY DEF GenerateToken, rest
<1>3. failures' \in Nat /\ guesses' \in Nat
  BY <1>1, <1>2 DEF SessionTypeOK
<1>4. CASE /\ Step(w, "issue", "record") \/ Step(w, "issue", "idle")
           /\ refresh' = refresh
  <2>1. PICK to \in {"record", "idle"} : Step(w, "issue", to)
    BY <1>4
  <2> DEFINE j == After(w, to)
  <2>2. to \in Points
    BY DEF Points
  <2>3. /\ j \in Jobs /\ job' = [job EXCEPT ![w] = j] /\ job' \in [Callers -> Jobs]
        /\ calls' = calls /\ job[w].pc = "issue" /\ j.pc = to
    BY <1>1, <2>1, <2>2, StepEffect DEF Typed
  <2> HIDE DEF j
  <2>4. JobsFit'
    <3>1. JobFits(j, user', tenants')
      BY <2>3 DEF JobFits, Holding
    <3> QED
      BY <1>2, <2>3, <3>1, FitsKept
  <2>5. SessionTypeOK'
    BY <1>1, <1>2, <1>3, <1>4, <2>3 DEF SessionTypeOK, wishes
  <2>6. LoginsCounted' /\ MailsCounted'
    <3>1. Paid(w, j, Issuing) /\ Paid(w, j, Sending) /\ SameLogins
      BY <1>4, <2>3 DEF Paid, Issuing, Sending, SameLogins
    <3> QED
      BY <1>2, <2>3, <3>1, LoginsKept, MailsKept
  <2>7. GuessesCounted'
    BY <1>2, <2>3, GuessesReset
  <2> QED
    BY <1>2, <2>4, <2>5, <2>6, <2>7, RowKept DEF SessionInv
<1>5. CASE /\ job[w].pc = "issue" /\ Issue /\ calls' = calls
           /\ job' = [job EXCEPT ![w].pc = "saveLogin", ![w].login = NextLogin]
  <2> DEFINE j == [job[w] EXCEPT !.pc = "saveLogin", !.login = NextLogin]
  <2>1. NextLogin \in Logins
    BY <1>5, NextLoginFree DEF Issuing
  <2>2. job[w] \in Jobs /\ JobFits(job[w], user, tenants)
    BY UsersExist
  <2>3. j \in Jobs /\ j.pc = "saveLogin" /\ j.read = job[w].read
    BY <2>1, <2>2 DEF Jobs, Points
  <2>4. job' = [job EXCEPT ![w] = j]
    BY <1>1, <1>5, <2>2 DEF Typed, Jobs
  <2> HIDE DEF j
  <2>5. JobsFit'
    <3>1. JobFits(j, user', tenants')
      BY <1>2, <1>5, <2>2, <2>3 DEF JobFits, Holding
    <3> QED
      BY <1>2, <2>3, <2>4, <3>1, FitsKept
  <2>6. LoginsCounted' /\ refresh' \in [Logins -> Refreshes]
    BY <1>5, <2>3, <2>4, IssueKeeps DEF Issuing
  <2>7. SessionTypeOK'
    BY <1>1, <1>2, <1>3, <1>5, <2>3, <2>4, <2>6 DEF SessionTypeOK, wishes
  <2>8. MailsCounted'
    <3>1. Paid(w, j, Sending)
      BY <1>5, <2>3 DEF Paid, Sending
    <3> QED
      BY <1>2, <2>3, <2>4, <3>1, MailsKept
  <2>9. GuessesCounted'
    BY <1>2, <2>3, <2>4, GuessesReset
  <2> QED
    BY <1>2, <2>5, <2>6, <2>7, <2>8, <2>9, RowKept DEF SessionInv
<1> QED
  BY <1>4, <1>5 DEF GenerateToken

LEMMA WelcomeKeeps ==
    ASSUME SessionInv, NEW w \in Callers, Welcome(w)
    PROVE  SessionInv'
<1>1. SessionTypeOK /\ Typed
  BY DEF SessionInv, SessionTypeOK, Typed
<1>2. /\ UNCHANGED <<user, tenants, members, oldPasswords, failures, blocked, guesses, rehash,
                     mails, raced, wishes, requireEmailVerify, outage>>
      /\ Step(w, "welcome", "idle") /\ Issue /\ Mint(NextLogin)
  BY DEF Welcome, rest, lockout
<1> DEFINE j == After(w, "idle")
<1>3. "idle" \in Points
  BY DEF Points
<1>4. /\ j \in Jobs /\ job' = [job EXCEPT ![w] = j] /\ job' \in [Callers -> Jobs]
      /\ calls' = calls /\ job[w].pc = "welcome" /\ j.pc = "idle"
  BY <1>1, <1>2, <1>3, StepEffect DEF Typed
<1> HIDE DEF j
<1>5. JobsFit'
  <2>1. JobFits(j, user', tenants')
    BY <1>4 DEF JobFits, Holding
  <2> QED
    BY <1>2, <1>4, <2>1, FitsKept
<1>6. LoginsCounted' /\ refresh' \in [Logins -> Refreshes] /\ NextLogin \in Logins
  BY <1>2, <1>4, IssueKeeps DEF Issuing
<1>7. SessionTypeOK'
  <2>1. tokens' \in [TokenIds -> Tokens]
    BY <1>1, <1>2, <1>6, TokenEffects
  <2> QED
    BY <1>1, <1>2, <1>4, <1>6, <2>1 DEF SessionTypeOK, wishes
<1>8. MailsCounted' /\ GuessesCounted'
  <2>1. Paid(w, j, Sending)
    BY <1>4 DEF Paid, Sending
  <2> QED
    BY <1>2, <1>4, <2>1, MailsKept, GuessesKept
<1> QED
  BY <1>2, <1>5, <1>6, <1>7, <1>8, RowKept DEF SessionInv

-----------------------------------------------------------------------------
(* Steps of no request *)

LEMMA Unmoved ==
    ASSUME SessionInv, UNCHANGED <<job, calls, tenants, mails, outage>>,
           user.status # "absent" => user'.status # "absent", SameLogins
    PROVE  /\ JobsFit' /\ LoginsCounted' /\ MailsCounted'
           /\ (UNCHANGED <<failures, guesses>> \/ (failures' = 0 /\ guesses' = 0))
                 => GuessesCounted'
<1>1. \A P : Count(P)' = Count(P)
  BY DEF Count, Doing
<1>2. JobsFit'
  BY DEF SessionInv, JobsFit, JobFits
<1>3. LoginsCounted' /\ MailsCounted'
  BY <1>1 DEF SessionInv, LoginsCounted, MailsCounted, SameLogins
<1>4. ASSUME UNCHANGED <<failures, guesses>> PROVE GuessesCounted'
  BY <1>1, <1>4 DEF SessionInv, GuessesCounted
<1>5. ASSUME failures' = 0, guesses' = 0 PROVE GuessesCounted'
  <2>1. Count({"record"}) \in Nat /\ Count({"record", "lookup"}) \in Nat
        /\ Count({"record", "lookup"}) <= Cardinality(Callers)
        /\ Cardinality(Callers) \in Nat
    BY CountIsNat
  <2> QED
    BY <1>1, <1>5, <2>1, SessionsAssumption DEF GuessesCounted
<1> QED
  BY <1>2, <1>3, <1>4, <1>5

LEMMA UpgradeHashKeeps ==
    ASSUME SessionInv, UpgradeHash
    PROVE  SessionInv'
<1>1. SessionTypeOK
  BY DEF SessionInv
<1>2. /\ UNCHANGED <<tenants, members, oldPasswords, refresh, tokens, failures, blocked, guesses,
                     mails, job, calls, wishes, requireEmailVerify, outage>>
  BY DEF UpgradeHash, grants, lockout, rest
<1>3. PICK r \in rehash : /\ Save(r, [r EXCEPT !.legacy = FALSE]) \/ UNCHANGED <<user, raced>>
                          /\ rehash' = rehash \ {r}
  BY DEF UpgradeHash
<1>4. r \in Users /\ r.status # "absent" /\ user.status # "absent" /\ user \in Users
  BY <1>1 DEF SessionInv, SessionTypeOK, RowsFit
<1> DEFINE saved == [r EXCEPT !.legacy = FALSE]
<1>5. /\ saved \in Users /\ saved.status = r.status /\ saved.verified = r.verified
      /\ saved.balance = r.balance /\ saved.password = r.password
  BY <1>4 DEF Users
<1>6. Save(r, saved) \/ UNCHANGED <<user, raced>>
  BY <1>3
<1> HIDE DEF saved
<1>7. /\ user' \in Users /\ user'.status # "absent" /\ raced' \in BOOLEAN
      /\ ~ raced' => ~ raced /\ user'.status = user.status /\ user'.verified = user.verified
                     /\ user'.balance = user.balance /\ user'.password = user.password
  BY <1>1, <1>4, <1>5, <1>6 DEF Save, SessionTypeOK
<1>8. UserKept' /\ RowsFit'
  BY <1>2, <1>3, <1>4, <1>7 DEF SessionInv, UserKept, RowsFit, wishes
<1>9. SessionTypeOK'
  BY <1>1, <1>2, <1>3, <1>7 DEF SessionTypeOK, wishes
<1>10. SameLogins
  BY <1>2 DEF SameLogins
<1> QED
  BY <1>2, <1>7, <1>8, <1>9, <1>10, Unmoved DEF SessionInv

LEMMA SpendKeeps ==
    ASSUME SessionInv, Spend
    PROVE  SessionInv'
<1>1. SessionTypeOK /\ user \in Users
  BY DEF SessionInv, SessionTypeOK
<1>2. /\ UNCHANGED <<tenants, members, oldPasswords, refresh, tokens, failures, blocked, guesses,
                     rehash, mails, job, calls, raced, chosen, confirmed, requireEmailVerify,
                     outage>>
      /\ user.status # "absent" /\ ledger > -MaxSpends
      /\ user' = [user EXCEPT !.balance = @ - 1] /\ ledger' = ledger - 1
  BY DEF Spend, grants, lockout, rest
<1>3. /\ user' \in Users /\ user'.status = user.status /\ user'.verified = user.verified
      /\ user'.balance = user.balance - 1 /\ user'.password = user.password
      /\ user.balance \in Int
  BY <1>1, <1>2 DEF Users
<1>4. ledger' \in -MaxSpends..0
  BY <1>1, <1>2, SessionsAssumption DEF SessionTypeOK
<1>5. UserKept' /\ RowsFit'
  BY <1>2, <1>3 DEF SessionInv, UserKept, RowsFit
<1>6. SessionTypeOK'
  BY <1>1, <1>2, <1>3, <1>4 DEF SessionTypeOK
<1>7. SameLogins
  BY <1>2 DEF SameLogins
<1> QED
  BY <1>2, <1>3, <1>5, <1>6, <1>7, Unmoved DEF SessionInv

LEMMA ExpiryKeeps ==
    ASSUME SessionInv, Expiry
    PROVE  SessionInv'
<1>1. SessionTypeOK
  BY DEF SessionInv
<1>2. UNCHANGED <<user, tenants, members, oldPasswords, rehash, mails, job, calls, raced, wishes,
                  requireEmailVerify, outage>>
  BY DEF Expiry, ExpireToken, ExpireRefresh, ExpireFailures, ExpireBlock, grants, lockout, rest
<1>3. /\ tokens' \in [TokenIds -> Tokens] /\ blocked' \in BOOLEAN
      /\ failures' \in Nat /\ guesses' \in Nat
      /\ UNCHANGED <<failures, guesses>> \/ (failures' = 0 /\ guesses' = 0)
      /\ refresh' \in [Logins -> Refreshes] /\ SameLogins
  <2>0. /\ tokens \in [TokenIds -> Tokens] /\ blocked \in BOOLEAN
        /\ failures \in Nat /\ guesses \in Nat /\ refresh \in [Logins -> Refreshes]
    BY <1>1 DEF SessionTypeOK
  <2>1. CASE \E i \in TokenIds : ExpireToken(i)
    <3>1. PICK i \in TokenIds : ExpireToken(i)
      BY <2>1
    <3>2. [tokens[i] EXCEPT !.state = "expired"] \in Tokens
      BY <2>0 DEF Tokens
    <3>3. tokens' = [tokens EXCEPT ![i] = [tokens[i] EXCEPT !.state = "expired"]]
      BY <3>1, <2>0 DEF ExpireToken
    <3>4. tokens' \in [TokenIds -> Tokens]
      BY <2>0, <3>2, <3>3
    <3> QED
      BY <2>0, <3>1, <3>4 DEF ExpireToken, lockout, SameLogins
  <2>2. CASE \E s \in Logins : ExpireRefresh(s)
    BY <2>0, <2>2 DEF ExpireRefresh, lockout, SameLogins, Refreshes
  <2>3. CASE ExpireFailures
    BY <2>0, <2>3 DEF ExpireFailures, grants, SameLogins
  <2>4. CASE ExpireBlock
    BY <2>0, <2>4 DEF ExpireBlock, grants, SameLogins
  <2> QED
    BY <2>1, <2>2, <2>3, <2>4 DEF Expiry
<1>4. SessionTypeOK'
  BY <1>1, <1>2, <1>3 DEF SessionTypeOK, wishes
<1> QED
  BY <1>2, <1>3, <1>4, Unmoved, RowKept DEF SessionInv

-----------------------------------------------------------------------------
(* The theorems *)

LEMMA SessionInvInit == SessionInit => SessionInv
<1> SUFFICES ASSUME SessionInit PROVE SessionInv
  OBVIOUS
<1>1. /\ requireEmailVerify \in BOOLEAN /\ tenants = {Public} /\ oldPasswords = {}
      /\ failures = 0 /\ blocked = FALSE /\ rehash = {} /\ mails = 0
      /\ job = [w \in Callers |-> Idle] /\ calls = 0 /\ outage \in BOOLEAN /\ raced = FALSE
      /\ chosen = user.password /\ ledger = 0 /\ guesses = 0
  BY DEF SessionInit
<1>2. /\ user \in Users /\ user.balance = 0
      /\ user.status = "absent" => user.mail = 0 /\ confirmed = FALSE
      /\ confirmed \in BOOLEAN /\ (confirmed => user.verified /\ user.status = "active")
      /\ members \subseteq {Public}
  <2>1. CASE user = Absent /\ members = {} /\ confirmed = FALSE
    BY <2>1, RowTypes DEF Absent
  <2>2. CASE /\ \E old \in BOOLEAN :
                   user = [Absent EXCEPT !.status = "active", !.verified = TRUE, !.legacy = old]
             /\ members = {Public} /\ confirmed = TRUE
    <3>1. PICK old \in BOOLEAN :
             user = [Absent EXCEPT !.status = "active", !.verified = TRUE, !.legacy = old]
      BY <2>2
    <3>2. /\ user \in Users /\ user.status = "active" /\ user.verified = TRUE
          /\ user.balance = Absent.balance
      BY <3>1, RowTypes DEF Users
    <3> QED
      BY <2>2, <3>2, RowTypes
  <2> QED
    BY <2>1, <2>2 DEF SessionInit
<1>3. \E k \in {0, 1} : \A s \in Logins : refresh[s] # "none" <=> s <= k
  <2>1. CASE refresh = [s \in Logins |-> "none"]
    BY <2>1, SessionsAssumption DEF Logins
  <2>2. CASE refresh = [s \in Logins |-> IF s = 1 THEN "stored" ELSE "none"]
    BY <2>2, SessionsAssumption DEF Logins
  <2> QED
    BY <2>1, <2>2 DEF SessionInit
<1>4. refresh \in [Logins -> Refreshes] /\ tokens \in [TokenIds -> Tokens]
  <2>1. 1 \in Logins
    BY SessionsAssumption DEF Logins
  <2>2. [login |-> 1, state |-> "live"] \in Tokens
    BY <2>1 DEF Tokens
  <2>3. refresh \in [Logins -> Refreshes]
    BY DEF SessionInit, Refreshes
  <2>4. \/ tokens = [i \in TokenIds |-> NoToken]
        \/ tokens = [i \in TokenIds |-> IF i = 1 THEN [login |-> 1, state |-> "live"] ELSE NoToken]
    BY DEF SessionInit
  <2>5. tokens \in [TokenIds -> Tokens]
    BY <2>2, <2>4, RowTypes
  <2> QED
    BY <2>3, <2>5
<1>5. SessionTypeOK
  <2>1. chosen \in Passwords
    BY <1>1, <1>2 DEF Users
  <2>2. job \in [Callers -> Jobs]
    BY <1>1, RowTypes
  <2>3. ledger \in -MaxSpends..0 /\ calls \in 0..MaxCalls
    BY <1>1, SessionsAssumption
  <2>4. members \subseteq tenants /\ tenants \subseteq Tenants /\ {Public} \subseteq tenants
    BY <1>1, <1>2 DEF Tenants
  <2> QED
    BY <1>1, <1>2, <1>4, <2>1, <2>2, <2>3, <2>4 DEF SessionTypeOK
<1>6. \A P : "idle" \notin P => Count(P) = 0
  <2> SUFFICES ASSUME NEW P, "idle" \notin P PROVE Count(P) = 0
    OBVIOUS
  <2>1. Doing(P) = {}
    BY <1>1, RowTypes DEF Doing
  <2> QED
    BY <2>1, FS_EmptySet DEF Count
<1>7. Count(Issuing) = 0 /\ Count(Sending) = 0 /\ Count({"record"}) = 0
      /\ Count({"record", "lookup"}) = 0
  BY <1>6 DEF Issuing, Sending
<1>8. JobsFit
  BY <1>1, RowTypes DEF JobsFit, JobFits, Holding
<1>9. RowsFit
  BY <1>1, <1>2 DEF RowsFit
<1>10. LoginsCounted
  <2>1. PICK k \in {0, 1} : \A s \in Logins : refresh[s] # "none" <=> s <= k
    BY <1>3
  <2>2. k \in Nat /\ k + Count(Issuing) <= calls + 1
    BY <1>1, <1>7
  <2> QED
    BY <2>1, <2>2 DEF LoginsCounted
<1>11. MailsCounted
  BY <1>1, <1>7 DEF MailsCounted
<1>12. GuessesCounted
  BY <1>1, <1>7, CountIsNat, SessionsAssumption DEF GuessesCounted
<1>13. UserKept
  BY <1>1, <1>2 DEF UserKept
<1> QED
  BY <1>5, <1>8, <1>9, <1>10, <1>11, <1>12, <1>13 DEF SessionInv

LEMMA SessionInvStep == SessionInv /\ [SessionNext]_sessionVars => SessionInv'
<1> SUFFICES ASSUME SessionInv, [SessionNext]_sessionVars PROVE SessionInv'
  OBVIOUS
<1>1. CASE UNCHANGED sessionVars
  BY <1>1 DEF sessionVars, SessionInv, SessionTypeOK, JobsFit, RowsFit, LoginsCounted,
              MailsCounted, GuessesCounted, UserKept, Count, Doing
<1>2. ASSUME NEW w \in Callers, LoginRoute(w) PROVE SessionInv'
  BY <1>2, LoginKeeps, LookupKeeps, RecordFailedAttemptKeeps, EndingKeeps, GenerateTokenKeeps,
     SavingKeeps DEF LoginRoute
<1>3. ASSUME NEW w \in Callers, RegisterRoutes(w) PROVE SessionInv'
  BY <1>3, RegisterKeeps, RegisterTenantKeeps, CreateUserKeeps, WelcomeKeeps, CreateTenantKeeps,
     JoinTenantKeeps DEF RegisterRoutes
<1>4. ASSUME NEW w \in Callers, VerificationRoutes(w) PROVE SessionInv'
  BY <1>4, VerifyEmailKeeps, ResendVerificationKeeps, SaveVerifiedKeeps,
     SendVerificationEmailKeeps DEF VerificationRoutes
<1>5. ASSUME NEW w \in Callers, TokenRoutes(w) PROVE SessionInv'
  BY <1>5, RefreshTokenKeeps, SwitchTenantKeeps, MintingKeeps DEF TokenRoutes
<1>6. ASSUME NEW w \in Callers, AccountRoutes(w) PROVE SessionInv'
  BY <1>6, LogoutKeeps, LogoutAllKeeps, ChangePasswordKeeps, EndingKeeps,
     SavePasswordHistoryKeeps, SavePasswordKeeps DEF AccountRoutes
<1>7. ASSUME NEW w \in Callers, EditUser(w) \/ SaveEdited(w) PROVE SessionInv'
  BY <1>7, EditUserKeeps, SavingKeeps
<1> QED
  BY <1>1, <1>2, <1>3, <1>4, <1>5, <1>6, <1>7, UpgradeHashKeeps, SpendKeeps, ExpiryKeeps
     DEF SessionNext

LEMMA SessionInvariant == SessionSpec => []SessionInv
BY SessionInvInit, SessionInvStep, PTL DEF SessionSpec

\* The rows of the user, the tenants, the tokens and what every request holds
\* stay well formed, whatever statement fails: the logins and the mails do not
\* exceed the calls that ask for them.
THEOREM SessionTypeCorrect == SessionSpec => []SessionTypeOK
<1>1. SessionInv => SessionTypeOK
  BY DEF SessionInv
<1> QED
  BY <1>1, SessionInvariant, PTL

\* As long as no caller saves a row that had changed since it was read, the user
\* keeps the password chosen last, pays every charge once and stays verified.
THEOREM UserIsKept == SessionSpec => []UserKept
<1>1. SessionInv => UserKept
  BY DEF SessionInv
<1> QED
  BY <1>1, SessionInvariant, PTL

\* While Redis answers, the wrong passwords compared in one window exceed those
\* that do not block yet by at most one for each caller, however they interleave.
THEOREM GuessesAreBounded == SessionSpec => []GuessesBounded
<1>1. SessionInv => GuessesBounded
  <2> SUFFICES ASSUME SessionInv, ~ outage PROVE guesses <= MaxFailed - 1 + Cardinality(Callers)
    BY DEF GuessesBounded
  <2>1. /\ guesses <= failures + Count({"record"})
        /\ failures + Count({"record", "lookup"}) <= MaxFailed - 1 + Cardinality(Callers)
    BY DEF SessionInv, GuessesCounted
  <2>2. Count({"record"}) <= Count({"record", "lookup"})
    <3>1. Doing({"record"}) \subseteq Doing({"record", "lookup"})
      BY DEF Doing
    <3> QED
      BY <3>1, CountIsNat, FS_Subset DEF Count
  <2>3. /\ Count({"record"}) \in Nat /\ Count({"record", "lookup"}) \in Nat
        /\ Cardinality(Callers) \in Nat /\ failures \in Nat /\ guesses \in Nat
    BY CountIsNat DEF SessionInv, SessionTypeOK
  <2> QED
    BY <2>1, <2>2, <2>3, SessionsAssumption
<1> QED
  BY <1>1, SessionInvariant, PTL

-----------------------------------------------------------------------------
(* Logins that have ended *)

\* What a step may do to the refresh tokens, the access tokens and the login
\* that a request works for.
RefreshMoves ==
    \/ refresh' = refresh
    \/ refresh' = RevokeAllByUser
    \/ \E x \in Logins : refresh' = [refresh EXCEPT ![x] = "void"]
    \/ \E w \in Callers : job[w].pc \in Issuing /\ Issue

TokenMoves ==
    \/ tokens' = tokens
    \/ \E i : tokens' = Blacklist(i)
    \/ \E i \in TokenIds : tokens' = [tokens EXCEPT ![i].state = "expired"]
    \/ \E w \in Callers : Mint(job[w].login) \/ (job[w].pc \in Issuing /\ Mint(NextLogin))

\* The login of a request stays, is forgotten, or is one that is in use or new.
LoginMoves(w) ==
    \/ job'[w].login \in {0, job[w].login}
    \/ refresh[job'[w].login] = "stored"
    \/ \E i \in TokenIds : Live(i) /\ job'[w].login = tokens[i].login
    \/ job[w].pc \in Issuing /\ job'[w].login = NextLogin

Moves == RefreshMoves /\ TokenMoves /\ \A w \in Callers : LoginMoves(w)

\* A request that takes a step keeps its login, or forgets it.
LEMMA StepMoves ==
    ASSUME Typed, NEW w \in Callers, NEW from, NEW to \in Points, Step(w, from, to)
    PROVE  \A v \in Callers : LoginMoves(v)
<1>1. Idle.login = 0
  BY DEF Idle
<1>2. job[w] \in Jobs
  BY DEF Typed
<1>3. job'[w].login \in {0, job[w].login}
  BY <1>1, <1>2 DEF Step, Typed, Jobs
<1>4. \A v \in Callers : v # w => job'[v] = job[v]
  BY DEF Step, Typed
<1> QED
  BY <1>3, <1>4 DEF LoginMoves

LEMMA StartMoves ==
    ASSUME Typed, NEW w \in Callers, NEW j \in Jobs, job' = [job EXCEPT ![w] = j],
           \/ j.login = 0
           \/ refresh[j.login] = "stored"
           \/ \E i \in TokenIds : Live(i) /\ j.login = tokens[i].login
           \/ j.login = job[w].login
           \/ job[w].pc \in Issuing /\ j.login = NextLogin
    PROVE  \A v \in Callers : LoginMoves(v)
<1>1. job'[w] = j
  BY DEF Typed
<1>2. \A v \in Callers : v # w => job'[v] = job[v]
  BY DEF Typed
<1> QED
  BY <1>1, <1>2 DEF LoginMoves

LEMMA LoginRouteMoves ==
    ASSUME SessionInv, NEW w \in Callers, LoginRoute(w)
    PROVE  Moves
<1>1. Typed /\ job[w] \in Jobs
  BY DEF SessionInv, SessionTypeOK, Typed
<1>2. RefreshMoves
  BY DEF LoginRoute, Login, Lookup, RecordFailedAttempt, BlockIP, GenerateToken, SaveLogin, grants,
         RefreshMoves, Step, Issuing
<1>3. TokenMoves
  BY DEF LoginRoute, Login, Lookup, RecordFailedAttempt, BlockIP, GenerateToken, SaveLogin, grants,
         TokenMoves
<1>4. CASE \E p \in Passwords : Login(w, p)
  <2>1. PICK p \in Passwords : Login(w, p)
    BY <1>4
  <2> DEFINE j == [Idle EXCEPT !.pc = "lookup", !.password = p]
  <2>2. j \in Jobs /\ j.login = 0
    BY RowTypes DEF Jobs, Points, Idle
  <2>3. job' = [job EXCEPT ![w] = j]
    BY <2>1 DEF Login
  <2> HIDE DEF j
  <2> QED
    BY <1>1, <1>2, <1>3, <2>2, <2>3, StartMoves DEF Moves
<1>5. CASE Lookup(w)
  <2>1. CASE Step(w, "lookup", "record")
    BY <1>1, <1>2, <1>3, <2>1, StepMoves DEF Moves, Points
  <2>2. CASE job' = [job EXCEPT ![w].pc = "issue", ![w].read = user]
    <3> DEFINE j == [job[w] EXCEPT !.pc = "issue", !.read = user]
    <3>1. j \in Jobs /\ j.login = job[w].login
      BY <1>1, UsersExist DEF Jobs, Points
    <3>2. job' = [job EXCEPT ![w] = j]
      BY <1>1, <2>2 DEF Typed, Jobs
    <3> HIDE DEF j
    <3> QED
      BY <1>1, <1>2, <1>3, <3>1, <3>2, StartMoves DEF Moves
  <2> QED
    BY <1>5, <2>1, <2>2 DEF Lookup
<1>6. CASE GenerateToken(w)
  <2>1. CASE Step(w, "issue", "record") \/ Step(w, "issue", "idle")
    BY <1>1, <1>2, <1>3, <2>1, StepMoves DEF Moves, Points
  <2>2. CASE /\ job[w].pc = "issue"
             /\ job' = [job EXCEPT ![w].pc = "saveLogin", ![w].login = NextLogin]
    <3> DEFINE j == [job[w] EXCEPT !.pc = "saveLogin", !.login = NextLogin]
    <3>0. NextLogin \in Logins
      BY <2>2, NextLoginFree DEF Issuing
    <3>1. j \in Jobs /\ j.login = NextLogin
      BY <1>1, <3>0 DEF Jobs, Points
    <3>2. job' = [job EXCEPT ![w] = j]
      BY <1>1, <2>2 DEF Typed, Jobs
    <3> HIDE DEF j
    <3>3. job[w].pc \in Issuing
      BY <2>2 DEF Issuing
    <3> QED
      BY <1>1, <1>2, <1>3, <3>1, <3>2, <3>3, StartMoves DEF Moves
  <2> QED
    BY <1>6, <2>1, <2>2 DEF GenerateToken
<1>7. CASE RecordFailedAttempt(w) \/ BlockIP(w) \/ SaveLogin(w)
  <2>1. PICK from \in Points, to \in {"block", "idle"} : Step(w, from, to)
    BY <1>7 DEF RecordFailedAttempt, BlockIP, SaveLogin, Points
  <2>2. to \in Points
    BY DEF Points
  <2> QED
    BY <1>1, <1>2, <1>3, <2>1, <2>2, StepMoves DEF Moves
<1> QED
  BY <1>4, <1>5, <1>6, <1>7 DEF LoginRoute

LEMMA RegisterRoutesMoves ==
    ASSUME SessionInv, NEW w \in Callers, RegisterRoutes(w)
    PROVE  Moves
<1>1. Typed /\ job[w] \in Jobs
  BY DEF SessionInv, SessionTypeOK, Typed
<1>2. RefreshMoves
  BY DEF RegisterRoutes, Register, RegisterTenant, CreateUser, Welcome, CreateTenant, CreateAdmin,
         JoinTenant, grants, RefreshMoves, Step, Issuing
<1>3. TokenMoves
  BY DEF RegisterRoutes, Register, RegisterTenant, CreateUser, Welcome, CreateTenant, CreateAdmin,
         JoinTenant, grants, TokenMoves, Step, Issuing
<1>4. CASE \E p \in Passwords : Register(w, p)
  <2>1. PICK p \in Passwords : Register(w, p)
    BY <1>4
  <2>2. PICK pc \in {"create", "send"}, r \in Users :
           Start(w, [Idle EXCEPT !.pc = pc, !.read = r])
    BY <2>1, UsersExist, RowTypes DEF Register
  <2> DEFINE j == [Idle EXCEPT !.pc = pc, !.read = r]
  <2>3. j \in Jobs /\ j.login = 0
    BY RowTypes DEF Jobs, Points, Idle
  <2>4. job' = [job EXCEPT ![w] = j]
    BY <2>2 DEF Start
  <2> HIDE DEF j
  <2> QED
    BY <1>1, <1>2, <1>3, <2>3, <2>4, StartMoves DEF Moves
<1>5. CASE \E p \in Passwords, t \in Orgs : RegisterTenant(w, p, t)
  <2>1. PICK p \in Passwords, t \in Orgs : RegisterTenant(w, p, t)
    BY <1>5
  <2> DEFINE r == IF user.status = "absent" THEN NewUser(p) ELSE user
             j == [Idle EXCEPT !.pc = "createTenant", !.password = p, !.tenant = t, !.read = r]
  <2>2. r \in Users /\ t \in Tenants
    BY UsersExist, RowTypes DEF Tenants
  <2>3. job' = [job EXCEPT ![w] = j]
    BY <2>1 DEF RegisterTenant, Start
  <2> HIDE DEF r
  <2>4. j \in Jobs /\ j.login = 0
    BY <2>2, RowTypes DEF Jobs, Points, Idle
  <2> HIDE DEF j
  <2> QED
    BY <1>1, <1>2, <1>3, <2>3, <2>4, StartMoves DEF Moves
<1>6. CASE \/ CreateUser(w) \/ Welcome(w) \/ CreateTenant(w) \/ CreateAdmin(w)
           \/ JoinTenant(w)
  <2>1. PICK from \in Points, to \in {"send", "welcome", "idle", "createUser", "join"} :
           Step(w, from, to)
    BY <1>6 DEF CreateUser, Welcome, CreateTenant, CreateAdmin, JoinTenant, Points
  <2>2. to \in Points
    BY DEF Points
  <2> QED
    BY <1>1, <1>2, <1>3, <2>1, <2>2, StepMoves DEF Moves
<1> QED
  BY <1>4, <1>5, <1>6 DEF RegisterRoutes

LEMMA VerificationRoutesMoves ==
    ASSUME SessionInv, NEW w \in Callers, VerificationRoutes(w) \/ EditUser(w) \/ SaveEdited(w)
    PROVE  Moves
<1>1. Typed /\ job[w] \in Jobs /\ user \in Users
  BY DEF SessionInv, SessionTypeOK, Typed
<1>2. RefreshMoves /\ TokenMoves
  BY DEF VerificationRoutes, VerifyEmail, ResendVerification, SaveVerified, SendVerificationEmail,
         EditUser, SaveEdited, grants, RefreshMoves, TokenMoves
<1>3. CASE \/ \E n \in Mails : VerifyEmail(w, n)
           \/ ResendVerification(w) \/ EditUser(w)
  <2>1. PICK pc \in {"saveVerified", "send", "edit"} :
           Start(w, [Idle EXCEPT !.pc = pc, !.read = user])
    BY <1>3 DEF VerifyEmail, ResendVerification, EditUser
  <2> DEFINE j == [Idle EXCEPT !.pc = pc, !.read = user]
  <2>2. j \in Jobs /\ j.login = 0
    BY <1>1, RowTypes DEF Jobs, Points, Idle
  <2>3. job' = [job EXCEPT ![w] = j]
    BY <2>1 DEF Start
  <2> HIDE DEF j
  <2> QED
    BY <1>1, <1>2, <2>2, <2>3, StartMoves DEF Moves
<1>4. CASE SaveVerified(w) \/ SendVerificationEmail(w) \/ SaveEdited(w)
  <2>1. PICK from : Step(w, from, "idle")
    BY <1>4 DEF SaveVerified, SendVerificationEmail, SaveEdited
  <2> QED
    BY <1>1, <1>2, <2>1, StepMoves DEF Moves, Points
<1> QED
  BY <1>3, <1>4 DEF VerificationRoutes

LEMMA TokenRoutesMoves ==
    ASSUME SessionInv, NEW w \in Callers, TokenRoutes(w)
    PROVE  Moves
<1>1. Typed /\ job[w] \in Jobs /\ tokens \in [TokenIds -> Tokens]
  BY DEF SessionInv, SessionTypeOK, Typed
<1>2. RefreshMoves
  BY DEF TokenRoutes, RefreshToken, SwitchTenant, MintRefreshed, MintSwitched, grants, RefreshMoves
<1>3. TokenMoves
  BY DEF TokenRoutes, RefreshToken, SwitchTenant, MintRefreshed, MintSwitched, grants, TokenMoves
<1>4. CASE \E s \in Logins : RefreshToken(w, s)
  <2>1. PICK s \in Logins : RefreshToken(w, s)
    BY <1>4
  <2> DEFINE j == [Idle EXCEPT !.pc = "refresh", !.login = s]
  <2>2. j \in Jobs /\ j.login = s
    BY RowTypes DEF Jobs, Points
  <2>3. job' = [job EXCEPT ![w] = j] /\ refresh[s] = "stored"
    BY <2>1 DEF RefreshToken, Start
  <2> HIDE DEF j
  <2> QED
    BY <1>1, <1>2, <1>3, <2>2, <2>3, StartMoves DEF Moves
<1>5. CASE \E i \in TokenIds, t \in Tenants : SwitchTenant(w, i, t)
  <2>1. PICK i \in TokenIds, t \in Tenants : SwitchTenant(w, i, t)
    BY <1>5
  <2> DEFINE j == [Idle EXCEPT !.pc = "switch", !.token = i, !.tenant = t,
                               !.login = tokens[i].login]
  <2>2. tokens[i].login \in {0} \cup Logins
    BY <1>1 DEF Tokens
  <2>3. j \in Jobs /\ j.login = tokens[i].login
    BY <2>2, RowTypes DEF Jobs, Points
  <2>4. job' = [job EXCEPT ![w] = j] /\ Live(i)
    BY <2>1 DEF SwitchTenant, Start, Authorized
  <2> HIDE DEF j
  <2> QED
    BY <1>1, <1>2, <1>3, <2>3, <2>4, StartMoves DEF Moves
<1>6. CASE MintRefreshed(w) \/ MintSwitched(w)
  <2>1. PICK from : Step(w, from, "idle")
    BY <1>6 DEF MintRefreshed, MintSwitched
  <2> QED
    BY <1>1, <1>2, <1>3, <2>1, StepMoves DEF Moves, Points
<1> QED
  BY <1>4, <1>5, <1>6 DEF TokenRoutes

LEMMA AccountRoutesMoves ==
    ASSUME SessionInv, NEW w \in Callers, AccountRoutes(w)
    PROVE  Moves
<1>1. Typed /\ job[w] \in Jobs /\ user \in Users
  BY DEF SessionInv, SessionTypeOK, Typed
<1>2. RefreshMoves
  BY DEF AccountRoutes, Logout, LogoutAll, ChangePassword, InvalidateToken, SavePasswordHistory,
         SavePassword, RevokeAll, grants, RefreshMoves
<1>3. TokenMoves
  BY DEF AccountRoutes, Logout, LogoutAll, ChangePassword, InvalidateToken, SavePasswordHistory,
         SavePassword, RevokeAll, grants, TokenMoves
<1>4. CASE \E i \in TokenIds : Logout(w, i)
  <2>1. job' = [job EXCEPT ![w] = Idle]
    BY <1>4 DEF Logout, Start
  <2>2. Idle \in Jobs /\ Idle.login = 0
    BY RowTypes DEF Idle
  <2> QED
    BY <1>1, <1>2, <1>3, <2>1, <2>2, StartMoves DEF Moves
<1>5. CASE \E i \in TokenIds : LogoutAll(w, i)
  <2>1. PICK i \in TokenIds : LogoutAll(w, i)
    BY <1>5
  <2> DEFINE j == [Idle EXCEPT !.pc = "invalidate", !.token = i]
  <2>2. j \in Jobs /\ j.login = 0
    BY RowTypes DEF Jobs, Points, Idle
  <2>3. job' = [job EXCEPT ![w] = j]
    BY <2>1 DEF LogoutAll, Start
  <2> HIDE DEF j
  <2> QED
    BY <1>1, <1>2, <1>3, <2>2, <2>3, StartMoves DEF Moves
<1>6. CASE \E i \in TokenIds, p \in Passwords : ChangePassword(w, i, p)
  <2>1. PICK i \in TokenIds, p \in Passwords : ChangePassword(w, i, p)
    BY <1>6
  <2> DEFINE j == [Idle EXCEPT !.pc = "history", !.read = user, !.password = p]
  <2>2. j \in Jobs /\ j.login = 0
    BY <1>1, RowTypes DEF Jobs, Points, Idle
  <2>3. job' = [job EXCEPT ![w] = j]
    BY <2>1 DEF ChangePassword, Start
  <2> HIDE DEF j
  <2> QED
    BY <1>1, <1>2, <1>3, <2>2, <2>3, StartMoves DEF Moves
<1>7. CASE \/ InvalidateToken(w) \/ SavePasswordHistory(w) \/ SavePassword(w)
           \/ RevokeAll(w)
  <2>1. PICK from \in Points, to \in {"idle", "savePassword", "revokeAll"} : Step(w, from, to)
    BY <1>7 DEF InvalidateToken, SavePasswordHistory, SavePassword, RevokeAll, Points
  <2>2. to \in Points
    BY DEF Points
  <2> QED
    BY <1>1, <1>2, <1>3, <2>1, <2>2, StepMoves DEF Moves
<1> QED
  BY <1>4, <1>5, <1>6, <1>7 DEF AccountRoutes

LEMMA NextMoves ==
    ASSUME SessionInv, SessionNext
    PROVE  Moves
<1>1. CASE UpgradeHash \/ Spend \/ Expiry
  <2>1. job' = job /\ RefreshMoves
    BY <1>1 DEF UpgradeHash, Spend, Expiry, ExpireToken, ExpireRefresh, ExpireFailures, ExpireBlock,
                grants, RefreshMoves
  <2>2. TokenMoves
    BY <1>1 DEF UpgradeHash, Spend, Expiry, ExpireToken, ExpireRefresh, ExpireFailures, ExpireBlock,
                grants, TokenMoves
  <2> QED
    BY <2>1, <2>2 DEF Moves, LoginMoves
<1> QED
  BY <1>1, LoginRouteMoves, RegisterRoutesMoves, VerificationRoutesMoves, TokenRoutesMoves,
     AccountRoutesMoves DEF SessionNext

LEMMA EndedStays ==
    ASSUME SessionInv, SessionNext, NEW s \in Logins, Ended(s), ~ outage
    PROVE  Ended(s)'
<1>1. /\ refresh[s] = "void" /\ refresh \in [Logins -> Refreshes]
      /\ tokens \in [TokenIds -> Tokens]
      /\ \A i \in TokenIds : tokens[i].login = s => tokens[i].state # "live"
      /\ \A w \in Callers : job[w].login # s
      /\ s # 0
  BY SessionsAssumption DEF Ended, SessionInv, SessionTypeOK, Logins
<1>2. \A w \in Callers : job[w].pc \in Issuing =>
         NextLogin \in Logins /\ refresh[NextLogin] = "none" /\ NextLogin # s
  BY <1>1, NextLoginFree
<1>3. RefreshMoves /\ TokenMoves /\ \A w \in Callers : LoginMoves(w)
  BY NextMoves DEF Moves
<1>4. refresh'[s] = "void"
  BY <1>1, <1>2, <1>3 DEF RefreshMoves, RevokeAllByUser, Issue
<1>5. ASSUME NEW i \in TokenIds, tokens'[i].login = s PROVE tokens'[i].state # "live"
  <2>1. CASE tokens' = tokens
    BY <1>1, <1>5, <2>1
  <2>2. CASE \E k : tokens' = Blacklist(k)
    <3>1. PICK k : tokens' = Blacklist(k)
      BY <2>2
    <3>2. tokens[i] \in Tokens
      BY <1>1
    <3>3. tokens'[i] = tokens[i] \/ tokens'[i] = [tokens[i] EXCEPT !.state = "blacklisted"]
      BY <1>1, <3>1 DEF Blacklist
    <3> QED
      BY <1>1, <1>5, <3>2, <3>3 DEF Tokens
  <2>3. CASE \E k \in TokenIds : tokens' = [tokens EXCEPT ![k].state = "expired"]
    <3>1. PICK k \in TokenIds : tokens' = [tokens EXCEPT ![k].state = "expired"]
      BY <2>3
    <3>2. tokens[i] \in Tokens
      BY <1>1
    <3>3. tokens'[i] = tokens[i] \/ tokens'[i] = [tokens[i] EXCEPT !.state = "expired"]
      BY <1>1, <3>1
    <3> QED
      BY <1>1, <1>5, <3>2, <3>3 DEF Tokens
  <2>4. CASE \E w \in Callers : Mint(job[w].login) \/ (job[w].pc \in Issuing /\ Mint(NextLogin))
    <3>1. PICK x : Mint(x) /\ x # s
      BY <1>1, <1>2, <2>4
    <3>2. tokens'[i] = tokens[i] \/ tokens'[i] = [login |-> x, state |-> "live"]
      BY <1>1, <3>1 DEF Mint
    <3> QED
      BY <1>1, <1>5, <3>1, <3>2
  <2> QED
    BY <1>3, <2>1, <2>2, <2>3, <2>4 DEF TokenMoves
<1>6. ASSUME NEW w \in Callers PROVE job'[w].login # s
  <2>1. LoginMoves(w)
    BY <1>3
  <2>2. \A i \in TokenIds : Live(i) => tokens[i].login # s
    BY <1>1 DEF Live
  <2> QED
    BY <1>1, <1>2, <2>1, <2>2 DEF LoginMoves
<1> QED
  BY <1>4, <1>5, <1>6 DEF Ended

\* While Redis answers, a login whose refresh token is revoked, whose access
\* tokens have ended and for which no request is under way gets no access token
\* any more: no request refreshes, switches or mints for it again.
THEOREM SessionsEnd == SessionSpec => SessionEnds
<1>1. SessionInv /\ [SessionNext]_sessionVars =>
         [\A s \in Logins : Ended(s) /\ ~ outage => Ended(s)']_sessionVars
  <2> SUFFICES ASSUME SessionInv, SessionNext
               PROVE  \A s \in Logins : Ended(s) /\ ~ outage => Ended(s)'
    OBVIOUS
  <2> QED
    BY EndedStays
<1> QED
  BY <1>1, SessionInvariant, PTL DEF SessionSpec, SessionEnds
=============================================================================
