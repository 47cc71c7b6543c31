-------------------------- MODULE ProviderAccounts --------------------------
(***************************************************************************)
(* ProviderAccountService: the accounts of one provider, which of them is  *)
(* the default, and the timers that bring rate-limited accounts back.      *)
(*                                                                         *)
(* Every operation is a sequence of database statements with no            *)
(* transaction around them.  job[c] is what caller c is executing: the     *)
(* operation, the statement that comes next (pc), the account, the backup  *)
(* chosen for it and the row as it was read.  Any statement may fail; the  *)
(* code ignores most failures and goes on.  Which active account is the    *)
(* first by priority is left open, since UpdateAccount changes priorities. *)
(* Accounts dedicated to a tenant or a user are left out.                  *)
(***************************************************************************)
EXTENDS Naturals

CONSTANTS
    Accounts,
    Callers,              \* the goroutines that use the service
    Timers,
    ErrorLimit,           \* consecutive errors that limit an account; 5 in the code
    MaxCalls,             \* bound on the operations that are started
    NoAccount, NoTimer

ASSUME AccountsAssumption ==
    /\ NoAccount \notin Accounts /\ NoTimer \notin Timers
    /\ ErrorLimit \in Nat \ {0} /\ MaxCalls \in Nat

VARIABLES
    rows,        \* the provider's rows: status, default flag, errors, over the limit
    job,
    tracked,     \* recoveryTimers: the timer registered for an account
    clock,       \* the timers: state and account
    stopped,     \* stopCh is closed
    calls,       \* the number of operations started
    disturbed,   \* history: a default flag was written while another writer held an old one
    late,        \* history: accounts whose newer timer was dropped by an older one's callback
    stranded     \* history: accounts whose recovery failed or died with the process

store == <<rows, disturbed>>
timers == <<tracked, clock, late, stranded>>
vars == <<rows, job, tracked, clock, stopped, calls, disturbed, late, stranded>>

Statuses == {"none", "active", "limited", "exhausted", "disabled", "deleted"}
Rows == [status : Statuses, default : BOOLEAN, errors : 0..ErrorLimit, over : BOOLEAN]
NoRow == [status |-> "none", default |-> FALSE, errors |-> 0, over |-> FALSE]

Exists(a) == rows[a].status \notin {"none", "deleted"}
Active(a) == rows[a].status = "active"

\* The status that UpdateStatus is called with.
Mark == [disable |-> "disabled", rateLimit |-> "limited", noQuota |-> "exhausted",
         error |-> "limited", overLimit |-> "exhausted", overErrors |-> "limited"]
Ops == DOMAIN Mark \cup {"none", "setDefault", "delete", "create", "update"}
Points == {"idle", "reload", "status", "next", "clear", "set", "delete", "arm", "save",
           "insert"}

Jobs == [op : Ops, pc : Points, id : Accounts \cup {NoAccount},
         next : Accounts \cup {NoAccount}, row : Rows]
NoJob == [op |-> "none", pc |-> "idle", id |-> NoAccount, next |-> NoAccount, row |-> NoRow]
NoClock == [state |-> "idle", acct |-> NoAccount]

\* A fresh process on a database in which some accounts were created before;
\* one of them is the default.
Created(dflt) == [NoRow EXCEPT !.status = "active", !.default = dflt]
Init ==
    /\ \E E \in SUBSET Accounts, D \in SUBSET Accounts :
          /\ D \subseteq E /\ (E # {} => \E a \in E : D = {a})
          /\ rows = [a \in Accounts |-> IF a \in E THEN Created(a \in D) ELSE NoRow]
    /\ job = [c \in Callers |-> NoJob]
    /\ tracked = [a \in Accounts |-> NoTimer]
    /\ clock = [t \in Timers |-> NoClock]
    /\ stopped = FALSE /\ calls = 0
    /\ disturbed = FALSE /\ late = {} /\ stranded = {}

-----------------------------------------------------------------------------
(* Steps from one statement to the next *)

At(c, pc) == job[c].pc = pc
Done(c) == job' = [job EXCEPT ![c] = NoJob]
Goto(c, pc) == job' = [job EXCEPT ![c].pc = pc]

\* Only UpdateAccount uses more of the row it read than the default flag.
Seen(op, r) == IF op = "update" THEN r ELSE [NoRow EXCEPT !.default = r.default]

Begin(c, op, pc, a, next, r) ==
    /\ At(c, "idle")
    /\ calls < MaxCalls /\ calls' = calls + 1
    /\ job' = [job EXCEPT ![c] = [op |-> op, pc |-> pc, id |-> a, next |-> next,
                                  row |-> Seen(op, r)]]

\* What follows once the switch to a backup has succeeded, failed or found none.
AfterSwitch(c) ==
    CASE job[c].op = "disable"   -> Goto(c, "status")
      [] job[c].op = "delete"    -> Goto(c, "delete")
      [] job[c].op = "rateLimit" -> Goto(c, "arm")
      [] OTHER                   -> Done(c)

\* Another caller will write a default flag that it determined before.
FlagsInHand(c) == job[c].pc \in {"set", "insert", "save"}
Disturb(c) == disturbed' = (disturbed \/ \E d \in Callers \ {c} : FlagsInHand(d))

-----------------------------------------------------------------------------
(* The operations up to their first write *)

SetDefaultAccount(c, a) ==
    /\ Active(a)
    /\ Begin(c, "setDefault", "clear", a, a, rows[a])
    /\ UNCHANGED <<store, timers, stopped>>

\* DisableAccount and DeleteAccount first look for another default.
DisableAccount(c, a) ==
    /\ Exists(a)
    /\ Begin(c, "disable", IF rows[a].default THEN "next" ELSE "status", a, NoAccount, rows[a])
    /\ UNCHANGED <<store, timers, stopped>>

DeleteAccount(c, a) ==
    /\ Exists(a)
    /\ Begin(c, "delete", IF rows[a].default THEN "next" ELSE "delete", a, NoAccount, rows[a])
    /\ UNCHANGED <<store, timers, stopped>>

HandleRateLimit(c, a) ==
    /\ Exists(a)
    /\ Begin(c, "rateLimit", "status", a, NoAccount, rows[a])
    /\ UNCHANGED <<store, timers, stopped>>

HandleInsufficientQuota(c, a) ==
    /\ Exists(a)
    /\ Begin(c, "noQuota", "status", a, NoAccount, rows[a])
    /\ UNCHANGED <<store, timers, stopped>>

\* A statement that fails, or that matches no row, changes nothing.
Write(a, r) == rows' = [rows EXCEPT ![a] = r]
Counted(n) == IF n < ErrorLimit THEN n + 1 ELSE n

RecordError(c, a) ==
    /\ Begin(c, "error", "reload", a, NoAccount, NoRow)
    /\ \/ Exists(a) /\ Write(a, [rows[a] EXCEPT !.errors = Counted(@)])
       \/ UNCHANGED rows
    /\ UNCHANGED <<disturbed, timers, stopped>>

\* RecordError reads the row again to see whether the account reached the limit.
Reload(c) ==
    /\ At(c, "reload")
    /\ LET a == job[c].id IN
       \/ /\ Exists(a) /\ rows[a].errors >= ErrorLimit
          /\ job' = [job EXCEPT ![c].pc = "status", ![c].row = Seen("error", rows[a])]
       \/ /\ ~(Exists(a) /\ rows[a].errors >= ErrorLimit)
          /\ Done(c)
       \/ Done(c)                                                  \* the query fails
    /\ UNCHANGED <<store, timers, stopped, calls>>

\* The default among the active accounts, or the first active one.
Preferred == IF \E a \in Accounts : Active(a) /\ rows[a].default
             THEN {a \in Accounts : Active(a) /\ rows[a].default}
             ELSE {a \in Accounts : Active(a)}

\* GetActiveAccount changes something only when it finds its account unusable.
GetActiveAccount(c) == \E a \in Preferred :
    /\ \/ rows[a].over /\ Begin(c, "overLimit", "status", a, NoAccount, rows[a])
       \/ /\ ~rows[a].over /\ rows[a].errors >= ErrorLimit
          /\ Begin(c, "overErrors", "status", a, NoAccount, rows[a])
    /\ UNCHANGED <<store, timers, stopped>>

\* The first account of a provider becomes its default.  A failure to list the
\* existing accounts is taken for "there are none".
CreateAccount(c, a) ==
    /\ rows[a].status = "none"
    /\ \A d \in Callers : job[d].id # a
    /\ \/ /\ Begin(c, "create", "insert", a, NoAccount,
                   [NoRow EXCEPT !.default = \A b \in Accounts : ~Exists(b)])
          /\ UNCHANGED disturbed
       \/ /\ Begin(c, "create", "insert", a, NoAccount, [NoRow EXCEPT !.default = TRUE])
          /\ disturbed' = TRUE
    /\ UNCHANGED <<rows, timers, stopped>>

\* UpdateAccount reads the row and saves all of it; with another monthly limit the account may be above or below it.
UpdateAccount(c, a) ==
    /\ Exists(a)
    /\ \E over \in BOOLEAN : Begin(c, "update", "save", a, NoAccount,
                                   [rows[a] EXCEPT !.over = over])
    /\ UNCHANGED <<store, timers, stopped>>

-----------------------------------------------------------------------------
(* The operations that are one statement *)

Single == calls < MaxCalls /\ calls' = calls + 1

EnableAccount(a) ==
    /\ Single
    /\ Exists(a)
    /\ Write(a, [rows[a] EXCEPT !.status = "active", !.errors = 0])
    /\ UNCHANGED <<job, disturbed, timers, stopped>>

\* The cost of a request may bring the account over its monthly limit.
RecordSuccess(a) ==
    /\ Single
    /\ Exists(a)
    /\ \E over \in {rows[a].over, TRUE} :
          Write(a, [rows[a] EXCEPT !.errors = 0, !.over = over])
    /\ UNCHANGED <<job, disturbed, timers, stopped>>

ResetMonthlyUsage ==
    /\ Single
    /\ rows' = [a \in Accounts |->
                  IF rows[a].status \in {"active", "limited", "exhausted"}
                  THEN [rows[a] EXCEPT !.status = "active", !.errors = 0, !.over = FALSE]
                  ELSE rows[a]]
    /\ UNCHANGED <<job, disturbed, timers, stopped>>

-----------------------------------------------------------------------------
(* The statements that follow *)

UpdateStatus(c) ==
    /\ At(c, "status")
    /\ LET a == job[c].id IN
       \/ Exists(a) /\ Write(a, [rows[a] EXCEPT !.status = Mark[job[c].op]])
       \/ UNCHANGED rows
    /\ \/ /\ job[c].op # "disable"
          /\ job[c].row.default \/ job[c].op \in {"overLimit", "overErrors"}
          /\ Goto(c, "next")
       \/ /\ \/ job[c].op = "disable"
             \/ ~job[c].row.default /\ job[c].op \notin {"overLimit", "overErrors"}
          /\ Done(c)
    /\ UNCHANGED <<disturbed, timers, stopped, calls>>

GetNextAvailable(c) ==
    /\ At(c, "next")
    /\ \/ \E b \in Accounts \ {job[c].id} :
             /\ Active(b)
             /\ job' = [job EXCEPT ![c].pc = "clear", ![c].next = b]
       \/ AfterSwitch(c)                       \* there is none, or the query fails
    /\ UNCHANGED <<store, timers, stopped, calls>>

\* Mutant: SetDefault keeps the old default flags.
ClearNothing(c) ==
    /\ At(c, "clear")
    /\ \/ /\ Disturb(c)
          /\ Goto(c, "set")
          /\ UNCHANGED rows
       \/ AfterSwitch(c) /\ UNCHANGED store
    /\ UNCHANGED <<timers, stopped, calls>>

\* SetDefault clears every flag of the provider ...
ClearDefaults(c) ==
    /\ At(c, "clear")
    /\ \/ /\ rows' = [a \in Accounts |-> [rows[a] EXCEPT !.default = FALSE]]
          /\ Disturb(c)
          /\ Goto(c, "set")
       \/ AfterSwitch(c) /\ UNCHANGED store
    /\ UNCHANGED <<timers, stopped, calls>>

\* ... and then sets one.
MarkDefault(c) ==
    /\ At(c, "set")
    /\ LET b == job[c].next IN
       \/ Exists(b) /\ Write(b, [rows[b] EXCEPT !.default = TRUE]) /\ Disturb(c)
       \/ UNCHANGED store
    /\ AfterSwitch(c)
    /\ UNCHANGED <<timers, stopped, calls>>

Delete(c) ==
    /\ At(c, "delete")
    /\ \/ Write(job[c].id, [NoRow EXCEPT !.status = "deleted"])
       \/ UNCHANGED rows
    /\ Done(c)
    /\ UNCHANGED <<disturbed, timers, stopped, calls>>

Insert(c) ==
    /\ At(c, "insert")
    /\ \/ /\ Write(job[c].id, [job[c].row EXCEPT !.status = "active"])
          /\ Disturb(c)
       \/ UNCHANGED store
    /\ Done(c)
    /\ UNCHANGED <<timers, stopped, calls>>

\* Saving a row that was deleted meanwhile inserts it again.
Save(c) ==
    /\ At(c, "save")
    /\ \/ Write(job[c].id, job[c].row) /\ Disturb(c)
       \/ UNCHANGED store
    /\ Done(c)
    /\ UNCHANGED <<timers, stopped, calls>>

-----------------------------------------------------------------------------
(* Recovery timers *)

\* A timer that has fired cannot be stopped any more.
Cancelled(t) == IF t \in Timers /\ clock[t].state = "armed" THEN {t} ELSE {}

\* Mutants: the existing timer is not stopped; it is stopped and none is started.
ArmAnother(c) ==
    /\ At(c, "arm")
    /\ \E t \in Timers, a \in {job[c].id} :
          /\ clock[t] = NoClock
          /\ \A b \in Accounts : tracked[b] # t
          /\ clock' = [clock EXCEPT ![t] = [state |-> "armed", acct |-> a]]
          /\ tracked' = [tracked EXCEPT ![a] = t]
    /\ Done(c)
    /\ UNCHANGED <<store, late, stranded, stopped, calls>>

ArmOnce(c) ==
    /\ At(c, "arm")
    /\ \E t \in Timers, a \in {job[c].id} :
          /\ clock[t] = NoClock
          /\ \A b \in Accounts : tracked[b] # t
          /\ IF tracked[a] = NoTimer
                THEN /\ clock' = [clock EXCEPT ![t] = [state |-> "armed", acct |-> a]]
                     /\ tracked' = [tracked EXCEPT ![a] = t]
                ELSE /\ clock' = [s \in Timers |-> IF s \in Cancelled(tracked[a]) THEN NoClock
                                                   ELSE clock[s]]
                     /\ tracked' = [tracked EXCEPT ![a] = NoTimer]
    /\ Done(c)
    /\ UNCHANGED <<store, late, stranded, stopped, calls>>

\* Under recoveryMutex: stop the account's timer, if any, and start another.
Arm(c) ==
    /\ At(c, "arm")
    /\ \E t \in Timers, a \in {job[c].id} :
          /\ clock[t] = NoClock
          /\ \A b \in Accounts : tracked[b] # t
          /\ clock' = [s \in Timers |->
                         IF s = t THEN [state |-> "armed", acct |-> a]
                         ELSE IF s \in Cancelled(tracked[a]) THEN NoClock
                         ELSE clock[s]]
          /\ tracked' = [tracked EXCEPT ![a] = t]
    /\ Done(c)
    /\ UNCHANGED <<store, late, stranded, stopped, calls>>

\* Five minutes later the callback looks at stopCh ...
Fire(t) ==
    /\ clock[t].state = "armed"
    /\ clock' = [clock EXCEPT ![t] = IF stopped THEN NoClock ELSE [@ EXCEPT !.state = "fired"]]
    /\ UNCHANGED <<store, job, tracked, late, stranded, stopped, calls>>

\* ... sets the account active, whatever it is by then ...
Recover(t) ==
    /\ clock[t].state = "fired"
    /\ LET a == clock[t].acct IN
       \/ /\ Exists(a)
          /\ Write(a, [rows[a] EXCEPT !.status = "active", !.errors = 0])
          /\ UNCHANGED stranded
       \/ /\ ~Exists(a)
          /\ UNCHANGED <<rows, stranded>>
       \/ /\ stranded' = stranded \cup {a}                     \* the statement fails
          /\ UNCHANGED rows
    /\ clock' = [clock EXCEPT ![t].state = "done"]
    /\ UNCHANGED <<disturbed, job, tracked, late, stopped, calls>>

\* ... and removes the account's entry, which may be that of a newer timer.
Forget(t) ==
    /\ clock[t].state = "done"
    /\ LET a == clock[t].acct IN
       /\ tracked' = [tracked EXCEPT ![a] = NoTimer]
       /\ late' = IF tracked[a] \in {t, NoTimer} THEN late ELSE late \cup {a}
    /\ clock' = [clock EXCEPT ![t] = NoClock]
    /\ UNCHANGED <<store, job, stranded, stopped, calls>>

Stop ==
    /\ ~stopped /\ stopped' = TRUE
    /\ clock' = [t \in Timers |->
                   IF clock[t].state = "armed" /\ \E a \in Accounts : tracked[a] = t
                   THEN NoClock ELSE clock[t]]
    /\ tracked' = [a \in Accounts |-> NoTimer]
    /\ UNCHANGED <<store, job, late, stranded, calls>>

\* The process dies and another starts: jobs and timers are gone.
Restart ==
    /\ job' = [c \in Callers |-> NoJob]
    /\ clock' = [t \in Timers |-> NoClock]
    /\ tracked' = [a \in Accounts |-> NoTimer]
    /\ stopped' = FALSE /\ late' = {} /\ stranded' = Accounts
    /\ UNCHANGED <<store, calls>>

-----------------------------------------------------------------------------
\* What administrators do with the tools of the MCP server.
ProviderTools(c, a) ==
    \/ CreateAccount(c, a) \/ UpdateAccount(c, a)
    \/ SetDefaultAccount(c, a) \/ DisableAccount(c, a) \/ DeleteAccount(c, a)

Operation(c) ==
    \/ GetActiveAccount(c)
    \/ \E a \in Accounts :
          \/ ProviderTools(c, a)
          \/ HandleRateLimit(c, a) \/ HandleInsufficientQuota(c, a) \/ RecordError(c, a)

OneStatement ==
    \/ ResetMonthlyUsage
    \/ \E a \in Accounts : EnableAccount(a) \/ RecordSuccess(a)

Continue(c) ==
    \/ Reload(c) \/ UpdateStatus(c) \/ GetNextAvailable(c) \/ ClearDefaults(c)
    \/ MarkDefault(c) \/ Delete(c) \/ Insert(c) \/ Save(c) \/ Arm(c)

Callback(t) == Fire(t) \/ Recover(t) \/ Forget(t)

Next ==
    \/ \E c \in Callers : Operation(c) \/ Continue(c)
    \/ OneStatement
    \/ \E t \in Timers : Callback(t)
    \/ Stop \/ Restart

Spec == Init /\ [][Next]_vars

\* Goroutines that can run do, and five minutes pass.
FairSpec ==
    /\ Spec
    /\ \A c \in Callers : WF_vars(Continue(c))
    /\ \A t \in Timers : WF_vars(Callback(t))

-----------------------------------------------------------------------------
TypeOK ==
    /\ rows \in [Accounts -> Rows]
    /\ job \in [Callers -> Jobs]
    /\ tracked \in [Accounts -> Timers \cup {NoTimer}]
    /\ clock \in [Timers -> {NoClock} \cup
                            [state : {"armed", "fired", "done"}, acct : Accounts]]
    /\ stopped \in BOOLEAN /\ disturbed \in BOOLEAN /\ calls \in 0..MaxCalls
    /\ late \in SUBSET Accounts /\ stranded \in SUBSET Accounts

\* Failures, restarts and statements of other operations in between leave the
\* provider with at most one default account (SetDefault, CreateAccount,
\* UpdateAccount), unless one of them wrote a default flag while another was
\* about to write one that it had determined before, or CreateAccount could not
\* list the accounts.
SingleDefault ==
    ~disturbed => \A a, b \in Accounts :
                     rows[a].default /\ rows[b].default => a = b

\* A timer that is running is the one registered for its account, so that
\* HandleRateLimit and Stop can stop it, and an account has one such timer at
\* most -- unless the callback of an older timer removed the newer one's entry.
TimersTracked ==
    \A t \in Timers : clock[t].state = "armed" =>
        tracked[clock[t].acct] = t \/ clock[t].acct \in late

\* When HandleRateLimit is called for the default account, that account sooner
\* or later is not limited, unless the service stops, the process dies or the
\* recovery statement fails.
RateLimitEnds ==
    \A a \in Accounts :
        (\E c \in Callers : job[c].op = "rateLimit" /\ job[c].id = a /\ job[c].row.default)
            ~> (rows[a].status # "limited" \/ stopped \/ a \in stranded)

=============================================================================
