---------------------------- MODULE PaymentOrder ----------------------------
(***************************************************************************)
(* Payment orders: creation at a payment gateway, cancellation, expiry,    *)
(* and the provider callbacks that mark an order paid and credit the       *)
(* account (a UserQuota row in individual mode, a Tenant row otherwise).   *)
(*                                                                         *)
(* Every Update of the code is a gorm Save of the whole row as it was read *)
(* earlier.  A database statement that reports an error has had no effect. *)
(* The provider is external: it notifies of the outcome of a trade as      *)
(* often as it likes, late, repeated, concurrently or not at all.          *)
(***************************************************************************)
EXTENDS Integers, FiniteSets

CONSTANTS
    Orders,          \* the orders that may be created
    Recharges,       \* those whose order type credits the account
    TopUps,          \* the recharges that administrators enter by hand
    Accounts,
    Personal,        \* the accounts that are UserQuota rows
    AccountOf,       \* AccountOf[o]: the account order or recharge o pays into
    Amount,          \* Amount[o]: what order or recharge o is worth
    InitialBalance,  \* InitialBalance[a]: the balance of account a at the start
    Handlers,        \* the callback requests the server runs at the same time
    FailedNotices,   \* TRUE when the provider also reports trades closed unpaid
    NoOrder          \* the order of an idle handler

ASSUME PaymentAssumption ==
    /\ Recharges \subseteq Orders
    /\ Personal \subseteq Accounts
    /\ TopUps \cap Orders = {}
    /\ AccountOf \in [Orders \cup TopUps -> Accounts]
    /\ \A t \in TopUps : AccountOf[t] \notin Personal
    /\ Amount \in [Orders \cup TopUps -> Nat \ {0}]
    /\ InitialBalance \in [Accounts -> Nat]
    /\ FailedNotices \in BOOLEAN
    /\ NoOrder \notin Orders

VARIABLES
    status,      \* payment_orders.status of each order, "none" before creation
    creating,    \* orders whose CreatePaymentOrder is waiting for the gateway
    cancelling,  \* orders a CancelPaymentOrder has read as pending
    trade,       \* the trade at the provider: what the buyer did
    row,         \* each account's row
    topUp,       \* how far each recharge by hand is
    step,        \* where each callback handler is
    order,       \* the order each handler has read
    read,        \* the account row each handler has read
    credits,     \* history: how often handler h has credited order o
    credited,    \* history: what has been credited to account a, in all
    overlapped   \* history: accounts read or credited while another handler was
                 \* to save them

vars == <<status, creating, cancelling, trade, row, topUp, step, order, read,
          credits, credited, overlapped>>
handler == <<step, order, read>>
history == <<credits, credited, overlapped>>

Statuses == {"none", "pending", "paid", "cancelled", "expired"}
\* A row's status is "pending_payment" or "active"; a tenant's row is active.
Rows == [balance : Int, status : {"pending_payment", "active"}]
NoRow == [balance |-> 0, status |-> "active"]

Init ==
    /\ status = [o \in Orders |-> "none"]
    /\ creating = {} /\ cancelling = {}
    /\ trade = [o \in Orders |-> "open"]
    /\ row = [a \in Accounts |-> [balance |-> InitialBalance[a],
                                status |-> IF a \in Personal THEN "pending_payment" ELSE "active"]]
    /\ topUp = [t \in TopUps |-> "none"]
    /\ step = [h \in Handlers |-> "idle"]
    /\ order = [h \in Handlers |-> NoOrder]
    /\ read = [h \in Handlers |-> NoRow]
    /\ credits = [h \in Handlers |-> [o \in Orders |-> 0]]
    /\ credited = [a \in Accounts |-> 0]
    /\ overlapped = {}

SetStatus(o, s) == status' = [status EXCEPT ![o] = s]

-----------------------------------------------------------------------------
(* The buyer's requests and the expiry sweep. *)

\* CreatePaymentOrder inserts the row and calls the gateway.
Create(o) ==
    /\ status[o] = "none"
    /\ SetStatus(o, "pending")
    /\ creating' = creating \cup {o}
    /\ UNCHANGED <<cancelling, trade, row, topUp, handler, history>>

\* The gateway answered: with a payment id the row as created is saved again;
\* without one, or when the gateway or the save fails, it is left alone.
Created(o) ==
    /\ o \in creating
    /\ creating' = creating \ {o}
    /\ SetStatus(o, "pending") \/ UNCHANGED status
    /\ UNCHANGED <<cancelling, trade, row, topUp, handler, history>>

\* CancelPaymentOrder reads the order ...
CancelReads(o) ==
    /\ status[o] = "pending"
    /\ cancelling' = cancelling \cup {o}
    /\ UNCHANGED <<status, creating, trade, row, topUp, handler, history>>

\* ... and saves what it read with the status changed.
CancelSaves(o) ==
    /\ o \in cancelling
    /\ cancelling' = cancelling \ {o}
    /\ SetStatus(o, "cancelled") \/ UNCHANGED status
    /\ UNCHANGED <<creating, trade, row, topUp, handler, history>>

\* MarkExpired: one guarded UPDATE.  The gateway answers long before expire_at.
Expire(o) ==
    /\ status[o] = "pending" /\ o \notin creating
    /\ SetStatus(o, "expired")
    /\ UNCHANGED <<creating, cancelling, trade, row, topUp, handler, history>>

-----------------------------------------------------------------------------
(* The provider and the buyer at the provider. *)

\* Once CreatePaymentOrder has returned the buyer pays, pays less than the
\* order, or lets the trade close; the provider knows nothing of the status.
Trade(o) ==
    /\ status[o] # "none" /\ o \notin creating
    /\ trade[o] = "open"
    /\ \E t \in {"paid", "short", "closed"} : trade' = [trade EXCEPT ![o] = t]
    /\ UNCHANGED <<status, creating, cancelling, row, topUp, handler, history>>

\* A notice reports the order's full amount, also of a trade that closed unpaid.
Notified(o) == trade[o] \in {"paid", "short"} \/ (FailedNotices /\ trade[o] = "closed")
PaidAmountSuffices(o) == trade[o] # "short"

-----------------------------------------------------------------------------
(* ProcessPaymentCallback in handler h. *)

Enter(h, s) == step' = [step EXCEPT ![h] = s]
Return(h) ==
    /\ Enter(h, "idle")
    /\ order' = [order EXCEPT ![h] = NoOrder]
    /\ read' = [read EXCEPT ![h] = NoRow]

\* Mutants: the amount is not checked; the order's status is not checked.
CallbackAnyAmount(h, o) ==
    /\ step[h] = "idle"
    /\ Notified(o)
    /\ status[o] = "pending"
    /\ Enter(h, "save")
    /\ order' = [order EXCEPT ![h] = o]
    /\ UNCHANGED <<status, creating, cancelling, trade, row, topUp, read, history>>

CallbackAnyStatus(h, o) ==
    /\ step[h] = "idle"
    /\ Notified(o)
    /\ PaidAmountSuffices(o)
    /\ Enter(h, "save")
    /\ order' = [order EXCEPT ![h] = o]
    /\ UNCHANGED <<status, creating, cancelling, trade, row, topUp, read, history>>

\* A notice arrives: the order is read and validated.  A notice that is refused
\* ("order already processed", amount too low) changes nothing.
Callback(h, o) ==
    /\ step[h] = "idle"
    /\ Notified(o)
    /\ status[o] = "pending"
    /\ PaidAmountSuffices(o)
    /\ Enter(h, "save")
    /\ order' = [order EXCEPT ![h] = o]
    /\ UNCHANGED <<status, creating, cancelling, trade, row, topUp, read, history>>

\* Update saves the order as paid; only a recharge goes on to the account.
SavePaid(h) ==
    /\ step[h] = "save"
    /\ \/ /\ SetStatus(order[h], "paid")
          /\ IF order[h] \in Recharges
                THEN Enter(h, "load") /\ UNCHANGED <<order, read>>
                ELSE Return(h)
       \/ Return(h) /\ UNCHANGED status
    /\ UNCHANGED <<creating, cancelling, trade, row, topUp, history>>

\* Mutant: the account is looked up by the buyer instead of by the order.
LoadAnyAccount(h) ==
    /\ step[h] = "load"
    /\ \/ /\ \E a \in Accounts : read' = [read EXCEPT ![h] = row[a]]
          /\ Enter(h, "credit")
          /\ UNCHANGED order
       \/ Return(h)
    /\ UNCHANGED <<status, creating, cancelling, trade, row, topUp, history>>

\* The accounts that some handler has read and will save.
InHand == {AccountOf[order[h]] : h \in {g \in Handlers : step[g] = "credit"}}

\* processPayment reads the account, or fails for want of one.
LoadAccount(h) ==
    /\ step[h] = "load"
    /\ \/ /\ read' = [read EXCEPT ![h] = row[AccountOf[order[h]]]]
          /\ Enter(h, "credit")
          /\ overlapped' = overlapped \cup ({AccountOf[order[h]]} \cap InHand)
          /\ UNCHANGED order
       \/ Return(h) /\ UNCHANGED overlapped
    /\ UNCHANGED <<status, creating, cancelling, trade, row, topUp, credits, credited>>

\* Mutant: the amount is added to the copy and once more by the save.
CreditAddsTwice(h) ==
    LET o == order[h]  a == AccountOf[o] IN
    /\ step[h] = "credit"
    /\ row' = [row EXCEPT ![a] = [balance |-> read[h].balance + 2 * Amount[o],
                                  status |-> "active"]]
    /\ credits' = [credits EXCEPT ![h][o] = @ + 1]
    /\ credited' = [credited EXCEPT ![a] = @ + Amount[o]]
    /\ Return(h)
    /\ UNCHANGED <<status, creating, cancelling, trade, topUp, overlapped>>

\* The account is saved as it was read, plus the amount, and active.
Credit(h) ==
    LET o == order[h]  a == AccountOf[o] IN
    /\ step[h] = "credit"
    /\ \/ /\ row' = [row EXCEPT ![a] = [balance |-> read[h].balance + Amount[o],
                                        status |-> "active"]]
          /\ credits' = [credits EXCEPT ![h][o] = @ + 1]
          /\ credited' = [credited EXCEPT ![a] = @ + Amount[o]]
       \/ UNCHANGED <<row, credits, credited>>
    /\ Return(h)
    /\ UNCHANGED <<status, creating, cancelling, trade, topUp, overlapped>>

ProcessPaymentCallback(h) ==
    (\E o \in Orders : Callback(h, o)) \/ SavePaid(h) \/ LoadAccount(h) \/ Credit(h)

-----------------------------------------------------------------------------
(* BillingService.Recharge: three statements, each of which may fail.         *)

Proceed(t, s) == topUp' = [topUp EXCEPT ![t] = s]

\* The record is inserted as pending, and stays so when a statement fails.
Recharge(t) ==
    /\ topUp[t] = "none"
    /\ Proceed(t, "inserted")
    /\ UNCHANGED <<status, creating, cancelling, trade, row, handler, history>>

\* The tenant's balance is increased in place; a handler that holds a copy of
\* the row will overwrite it.
UpdateBalance(t) ==
    LET a == AccountOf[t] IN
    /\ topUp[t] = "inserted"
    /\ \/ /\ row' = [row EXCEPT ![a].balance = @ + Amount[t]]
          /\ credited' = [credited EXCEPT ![a] = @ + Amount[t]]
          /\ overlapped' = overlapped \cup ({a} \cap InHand)
          /\ Proceed(t, "added")
       \/ Proceed(t, "stuck") /\ UNCHANGED <<row, credited, overlapped>>
    /\ UNCHANGED <<status, creating, cancelling, trade, handler, credits>>

MarkCompleted(t) ==
    /\ topUp[t] = "added"
    /\ Proceed(t, "completed") \/ Proceed(t, "stuck")
    /\ UNCHANGED <<status, creating, cancelling, trade, row, handler, history>>

-----------------------------------------------------------------------------
\* The process dies and is started again: only the rows survive.
Restart ==
    /\ \/ creating # {} \/ cancelling # {}
       \/ \E h \in Handlers : step[h] # "idle"
       \/ \E t \in TopUps : topUp[t] \in {"inserted", "added"}
    /\ creating' = {} /\ cancelling' = {}
    /\ topUp' = [t \in TopUps |-> IF topUp[t] \in {"inserted", "added"} THEN "stuck" ELSE topUp[t]]
    /\ step' = [h \in Handlers |-> "idle"]
    /\ order' = [h \in Handlers |-> NoOrder]
    /\ read' = [h \in Handlers |-> NoRow]
    /\ UNCHANGED <<status, trade, row, history>>

Next ==
    \/ \E o \in Orders : \/ Create(o) \/ Created(o) \/ CancelReads(o) \/ CancelSaves(o)
                         \/ Expire(o) \/ Trade(o)
    \/ \E h \in Handlers : ProcessPaymentCallback(h)
    \/ \E t \in TopUps : Recharge(t) \/ UpdateBalance(t) \/ MarkCompleted(t)
    \/ Restart

Spec == Init /\ [][Next]_vars

-----------------------------------------------------------------------------
(* Properties *)

\* Every variable keeps its type, and a handler that is processing a callback
\* has an order.
TypeOK ==
    /\ status \in [Orders -> Statuses]
    /\ creating \in SUBSET Orders /\ cancelling \in SUBSET Orders
    /\ trade \in [Orders -> {"open", "paid", "short", "closed"}]
    /\ row \in [Accounts -> Rows]
    /\ topUp \in [TopUps -> {"none", "inserted", "added", "completed", "stuck"}]
    /\ step \in [Handlers -> {"idle", "save", "load", "credit"}]
    /\ order \in [Handlers -> Orders \cup {NoOrder}]
    /\ read \in [Handlers -> Rows]
    /\ credits \in [Handlers -> [Orders -> Nat]]
    /\ credited \in [Accounts -> Nat]
    /\ overlapped \in SUBSET Accounts
    /\ \A h \in Handlers : step[h] = "idle" <=> order[h] = NoOrder

\* A notice that comes after a handler has credited its order is refused, however
\* the notice, the stale saves of creation and cancellation, and the expiry sweep
\* interleave: no handler, being one callback at a time, credits an order twice.
RepeatRefused == \A h \in Handlers, o \in Orders : credits[h][o] <= 1

\* Only an order whose buyer really paid in full credits an account.
CreditedWasPaid ==
    \A h \in Handlers, o \in Orders : credits[h][o] > 0 => trade[o] = "paid"

\* Handlers overwrite each other's account rows with what they read earlier;
\* that may lose a credit, or a recharge by hand (UpdateBalance), but never makes
\* money that was not credited.
NoMoneyInvented ==
    \A a \in Accounts : row[a].balance <= InitialBalance[a] + credited[a]

\* Only handlers that overlap on an account, or a recharge by hand that falls
\* between the read and the save of one, lose credits: any other balance is exact.
ExactUnlessOverlapped ==
    \A a \in Accounts \ overlapped :
        row[a].balance = InitialBalance[a] + credited[a]

=============================================================================
