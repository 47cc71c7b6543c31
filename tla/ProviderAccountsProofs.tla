----------------------- MODULE ProviderAccountsProofs -----------------------
(***************************************************************************)
(* Types, the single default account and the registered timers, for any    *)
(* accounts, callers and timers.                                           *)
(***************************************************************************)
EXTENDS ProviderAccounts, TLAPS

-----------------------------------------------------------------------------
(* The inductive invariant *)

\* What a job knows about itself at each point.
Knows(c) ==
    /\ At(c, "status") => job[c].op \in DOMAIN Mark
    /\ At(c, "reload") => job[c].op = "error"
    /\ ~At(c, "idle") => job[c].id \in Accounts
    /\ At(c, "clear") \/ At(c, "set") => job[c].next \in Accounts
    /\ At(c, "save") => job[c].row.status \notin {"none", "deleted"}
JobsKnow == \A c \in Callers : Knows(c)

\* Only an account that exists is a default.
DefaultsExist == \A a \in Accounts : rows[a].default => Exists(a)

\* A caller that is about to make an account the default may do so.
NoOther(c) ==
    /\ At(c, "set") => \A a \in Accounts : ~rows[a].default
    /\ At(c, "insert") /\ job[c].row.default => \A a \in Accounts : ~rows[a].default
    /\ At(c, "save") /\ job[c].row.default =>
          \A a \in Accounts : rows[a].default => a = job[c].id
InHand == ~disturbed => \A c \in Callers : NoOther(c)

IInv == TypeOK /\ JobsKnow /\ DefaultsExist /\ InHand /\ SingleDefault

-----------------------------------------------------------------------------
(* The vocabulary of the module *)

LEMMA MarkDomain ==
    /\ DOMAIN Mark = {"disable", "rateLimit", "noQuota", "error", "overLimit", "overErrors"}
    /\ \A o \in DOMAIN Mark : Mark[o] \in Statuses \ {"none", "deleted"}
BY DEF Mark, Statuses

LEMMA RowTypes ==
    /\ NoRow \in Rows
    /\ \A r \in Rows, op \in Ops : Seen(op, r) \in Rows
    /\ \A n \in 0..ErrorLimit : Counted(n) \in 0..ErrorLimit
<1>1. NoRow \in Rows
  BY AccountsAssumption DEF NoRow, Rows, Statuses
<1>2. ASSUME NEW r \in Rows, NEW op \in Ops PROVE Seen(op, r) \in Rows
  <2>1. r.default \in BOOLEAN
    BY DEF Rows
  <2>2. [NoRow EXCEPT !.default = r.default] \in Rows
    BY <1>1, <2>1 DEF Rows
  <2> QED
    BY <2>2 DEF Seen
<1>3. ASSUME NEW n \in 0..ErrorLimit PROVE Counted(n) \in 0..ErrorLimit
  BY AccountsAssumption DEF Counted
<1> QED
  BY <1>1, <1>2, <1>3

LEMMA NoJobType == NoJob \in Jobs
BY RowTypes DEF NoJob, Jobs, Ops, Points

\* What Begin makes of the callers' jobs.
LEMMA BeginStep ==
    ASSUME TypeOK, NEW c \in Callers, NEW op \in Ops, NEW pc \in Points,
           NEW a \in Accounts, NEW next \in Accounts \cup {NoAccount}, NEW r \in Rows,
           Begin(c, op, pc, a, next, r)
    PROVE  /\ job' \in [Callers -> Jobs]
           /\ calls' \in 0..MaxCalls
           /\ \A d \in Callers \ {c} : job'[d] = job[d]
           /\ job'[c] = [op |-> op, pc |-> pc, id |-> a, next |-> next, row |-> Seen(op, r)]
<1>1. [op |-> op, pc |-> pc, id |-> a, next |-> next, row |-> Seen(op, r)] \in Jobs
  BY RowTypes DEF Jobs
<1> QED
  BY <1>1, AccountsAssumption DEF Begin, TypeOK

\* A caller that ends its operation holds nothing.
LEMMA DoneStep ==
    ASSUME TypeOK, NEW c \in Callers, Done(c)
    PROVE  /\ job' \in [Callers -> Jobs]
           /\ \A d \in Callers \ {c} : job'[d] = job[d]
           /\ job'[c] = NoJob
BY NoJobType DEF Done, TypeOK

LEMMA GotoStep ==
    ASSUME TypeOK, NEW c \in Callers, NEW pc \in Points, Goto(c, pc)
    PROVE  /\ job' \in [Callers -> Jobs]
           /\ \A d \in Callers \ {c} : job'[d] = job[d]
           /\ job'[c] = [job[c] EXCEPT !.pc = pc]
BY DEF Goto, TypeOK, Jobs

\* After a switch the caller ends its operation or goes on with a statement
\* that touches no default flag.
LEMMA AfterSwitchStep ==
    ASSUME TypeOK, NEW c \in Callers, AfterSwitch(c)
    PROVE  /\ job' \in [Callers -> Jobs]
           /\ \A d \in Callers \ {c} : job'[d] = job[d]
           /\ \/ job'[c] = NoJob
              \/ /\ job[c].op = "disable"
                 /\ job'[c] = [job[c] EXCEPT !.pc = "status"]
              \/ job'[c] = [job[c] EXCEPT !.pc = "delete"]
              \/ job'[c] = [job[c] EXCEPT !.pc = "arm"]
<1>1. CASE job[c].op = "disable" /\ Goto(c, "status")
  BY <1>1, GotoStep DEF Points
<1>2. CASE Goto(c, "delete")
  BY <1>2, GotoStep DEF Points
<1>3. CASE Goto(c, "arm")
  BY <1>3, GotoStep DEF Points
<1>4. CASE Done(c)
  BY <1>4, DoneStep
<1> QED
  BY <1>1, <1>2, <1>3, <1>4 DEF AfterSwitch

-----------------------------------------------------------------------------
(* Two kinds of steps *)

\* The variables no default flag depends on.
Others ==
    /\ tracked \in [Accounts -> Timers \cup {NoTimer}]
    /\ clock \in [Timers -> {NoClock} \cup
                            [state : {"armed", "fired", "done"}, acct : Accounts]]
    /\ stopped \in BOOLEAN /\ calls \in 0..MaxCalls
    /\ late \in SUBSET Accounts /\ stranded \in SUBSET Accounts

LEMMA OthersType == TypeOK => Others
BY DEF TypeOK, Others

\* A step that sets no default flag: it is enough to look at the jobs it changes.
LEMMA QuietStep ==
    ASSUME IInv, Others',
           rows' \in [Accounts -> Rows], job' \in [Callers -> Jobs],
           disturbed' \in BOOLEAN, disturbed => disturbed',
           \A a \in Accounts : rows'[a].default => rows[a].default /\ Exists(a)',
           \A d \in Callers : \/ job'[d] = job[d]
                              \/ Knows(d)' /\ (~disturbed' => NoOther(d)')
    PROVE  IInv'
<1>1. TypeOK'
  BY DEF TypeOK, Others
<1>2. JobsKnow'
  <2> SUFFICES ASSUME NEW d \in Callers PROVE Knows(d)'
    BY DEF JobsKnow
  <2>1. CASE job'[d] = job[d]
    BY <2>1 DEF IInv, JobsKnow, Knows, At
  <2> QED
    BY <2>1
<1>3. DefaultsExist'
  BY DEF DefaultsExist
<1>4. InHand'
  <2> SUFFICES ASSUME ~disturbed', NEW d \in Callers PROVE NoOther(d)'
    BY DEF InHand
  <2>1. CASE job'[d] = job[d]
    <3>1. NoOther(d)
      BY DEF IInv, InHand
    <3> QED
      BY <2>1, <3>1 DEF NoOther, At
  <2> QED
    BY <2>1
<1>5. SingleDefault'
  BY DEF IInv, SingleDefault
<1> QED
  BY <1>1, <1>2, <1>3, <1>4, <1>5 DEF IInv

\* A step in which caller c writes the row r of account b, with whatever flag.
LEMMA LoudStep ==
    ASSUME IInv, Others', NEW c \in Callers, NEW b \in Accounts, NEW r \in Rows,
           Write(b, r), Disturb(c), job' \in [Callers -> Jobs],
           \A d \in Callers \ {c} : job'[d] = job[d],
           Knows(c)', ~FlagsInHand(c)',
           r.default => r.status \notin {"none", "deleted"},
           ~disturbed /\ r.default => \A a \in Accounts : rows[a].default => a = b
    PROVE  IInv'
<1>1. rows' \in [Accounts -> Rows] /\ rows'[b] = r
      /\ \A a \in Accounts \ {b} : rows'[a] = rows[a]
  BY DEF Write, IInv, TypeOK
<1>2. disturbed' \in BOOLEAN /\ (disturbed => disturbed')
      /\ (~disturbed' => \A d \in Callers \ {c} : ~FlagsInHand(d))
  BY DEF Disturb, IInv, TypeOK
<1>3. TypeOK'
  BY <1>1, <1>2 DEF TypeOK, Others
<1>4. JobsKnow'
  <2> SUFFICES ASSUME NEW d \in Callers \ {c} PROVE Knows(d)'
    BY DEF JobsKnow
  <2> QED
    BY DEF IInv, JobsKnow, Knows, At
<1>5. DefaultsExist'
  BY <1>1 DEF DefaultsExist, Exists, IInv
<1>6. InHand'
  <2> SUFFICES ASSUME ~disturbed', NEW d \in Callers PROVE NoOther(d)'
    BY DEF InHand
  <2>1. ~FlagsInHand(d)'
    BY <1>2 DEF FlagsInHand
  <2> QED
    BY <2>1 DEF FlagsInHand, NoOther, At
<1>7. SingleDefault'
  BY <1>1, <1>2 DEF IInv, SingleDefault
<1> QED
  BY <1>3, <1>4, <1>5, <1>6, <1>7 DEF IInv

\* The start of an operation that writes nothing yet.
LEMMA BeginQuiet ==
    ASSUME IInv, NEW c \in Callers, NEW op \in Ops, NEW pc \in Points \ {"set", "insert"},
           NEW a \in Accounts, NEW next \in Accounts \cup {NoAccount}, NEW r \in Rows,
           Begin(c, op, pc, a, next, r), UNCHANGED <<store, timers, stopped>>,
           pc = "status" => op \in DOMAIN Mark,
           pc = "reload" => op = "error",
           pc = "clear" => next \in Accounts,
           pc = "save" => /\ op = "update" /\ r.status \notin {"none", "deleted"}
                          /\ r.default => \A b \in Accounts : rows[b].default =>
                                                                 disturbed \/ b = a
    PROVE  IInv'
<1>1. /\ job' \in [Callers -> Jobs]
      /\ calls' \in 0..MaxCalls
      /\ \A d \in Callers \ {c} : job'[d] = job[d]
      /\ job'[c] = [op |-> op, pc |-> pc, id |-> a, next |-> next, row |-> Seen(op, r)]
  BY BeginStep DEF IInv
<1>2. Others'
  BY <1>1 DEF IInv, TypeOK, Others, timers
<1>3. pc = "save" => Seen(op, r) = r
  BY DEF Seen
<1>4. Knows(c)'
  BY <1>1, <1>3 DEF Knows, At
<1>5. ~disturbed' => NoOther(c)'
  BY <1>1, <1>3 DEF NoOther, At, store
<1>6. \A d \in Callers : \/ job'[d] = job[d]
                         \/ Knows(d)' /\ (~disturbed' => NoOther(d)')
  BY <1>1, <1>4, <1>5
<1>7. \A d \in Accounts : rows'[d].default => rows[d].default /\ Exists(d)'
  BY DEF IInv, DefaultsExist, Exists, store
<1> QED
  BY <1>1, <1>2, <1>6, <1>7, QuietStep DEF IInv, TypeOK, store

\* A caller that is done, or beyond a switch, has no default flag in hand.
LEMMA IdleKnows ==
    ASSUME NEW c \in Callers, job'[c] = NoJob
    PROVE  Knows(c)' /\ NoOther(c)' /\ ~FlagsInHand(c)'
BY DEF NoJob, Knows, NoOther, FlagsInHand, At

LEMMA SwitchedKnows ==
    ASSUME IInv, NEW c \in Callers, ~At(c, "idle"), AfterSwitch(c)
    PROVE  /\ job' \in [Callers -> Jobs]
           /\ \A d \in Callers \ {c} : job'[d] = job[d]
           /\ Knows(c)' /\ NoOther(c)' /\ ~FlagsInHand(c)'
<1>1. /\ job' \in [Callers -> Jobs]
      /\ \A d \in Callers \ {c} : job'[d] = job[d]
      /\ \/ job'[c] = NoJob
         \/ /\ job[c].op = "disable"
            /\ job'[c] = [job[c] EXCEPT !.pc = "status"]
         \/ job'[c] = [job[c] EXCEPT !.pc = "delete"]
         \/ job'[c] = [job[c] EXCEPT !.pc = "arm"]
  BY AfterSwitchStep DEF IInv
<1>2. job[c] \in Jobs /\ job[c].id \in Accounts
  BY DEF IInv, TypeOK, JobsKnow, Knows
<1>3. Knows(c)' /\ NoOther(c)' /\ ~FlagsInHand(c)'
  <2>1. CASE job'[c] = NoJob
    BY <2>1, IdleKnows
  <2>2. CASE /\ job[c].op = "disable"
             /\ job'[c] = [job[c] EXCEPT !.pc = "status"]
    BY <1>2, <2>2, MarkDomain DEF Knows, NoOther, FlagsInHand, At, Jobs
  <2>3. CASE \/ job'[c] = [job[c] EXCEPT !.pc = "delete"]
             \/ job'[c] = [job[c] EXCEPT !.pc = "arm"]
    BY <1>2, <2>3 DEF Knows, NoOther, FlagsInHand, At, Jobs
  <2> QED
    BY <1>1, <2>1, <2>2, <2>3
<1> QED
  BY <1>1, <1>3

\* A quiet step of caller c that leaves the rows' flags alone or clears some.
LEMMA QuietCaller ==
    ASSUME IInv, NEW c \in Callers, Others',
           rows' \in [Accounts -> Rows], job' \in [Callers -> Jobs],
           disturbed' \in BOOLEAN, disturbed => disturbed',
           \A a \in Accounts : rows'[a].default => rows[a].default /\ Exists(a)',
           \A d \in Callers \ {c} : job'[d] = job[d],
           Knows(c)', ~disturbed' => NoOther(c)'
    PROVE  IInv'
BY QuietStep

-----------------------------------------------------------------------------
(* The operations up to their first write *)

LEMMA OperationStep ==
    ASSUME IInv, NEW c \in Callers, Operation(c)
    PROVE  IInv'
<1> USE DEF Points, Ops
<1>0. /\ TypeOK /\ SingleDefault /\ DefaultsExist
      /\ \A a \in Accounts : rows[a] \in Rows
  BY DEF IInv, TypeOK
<1>1. CASE GetActiveAccount(c)
  <2>1. PICK a \in Preferred :
          /\ \/ Begin(c, "overLimit", "status", a, NoAccount, rows[a])
             \/ Begin(c, "overErrors", "status", a, NoAccount, rows[a])
          /\ UNCHANGED <<store, timers, stopped>>
    BY <1>1 DEF GetActiveAccount
  <2>2. a \in Accounts
    BY DEF Preferred
  <2> QED
    BY <1>0, <2>1, <2>2, BeginQuiet, MarkDomain
<1>2. ASSUME NEW a \in Accounts, SetDefaultAccount(c, a) PROVE IInv'
  BY <1>0, <1>2, BeginQuiet, MarkDomain DEF SetDefaultAccount
<1>3. ASSUME NEW a \in Accounts, DisableAccount(c, a) PROVE IInv'
  <2>1. UNCHANGED <<store, timers, stopped>>
        /\ \/ Begin(c, "disable", "next", a, NoAccount, rows[a])
           \/ Begin(c, "disable", "status", a, NoAccount, rows[a])
    BY <1>3 DEF DisableAccount
  <2> QED
    BY <1>0, <2>1, BeginQuiet, MarkDomain
<1>4. ASSUME NEW a \in Accounts, DeleteAccount(c, a) PROVE IInv'
  <2>1. UNCHANGED <<store, timers, stopped>>
        /\ \/ Begin(c, "delete", "next", a, NoAccount, rows[a])
           \/ Begin(c, "delete", "delete", a, NoAccount, rows[a])
    BY <1>4 DEF DeleteAccount
  <2> QED
    BY <1>0, <2>1, BeginQuiet, MarkDomain
<1>5. ASSUME NEW a \in Accounts, HandleRateLimit(c, a) PROVE IInv'
  BY <1>0, <1>5, BeginQuiet, MarkDomain DEF HandleRateLimit
<1>6. ASSUME NEW a \in Accounts, HandleInsufficientQuota(c, a) PROVE IInv'
  BY <1>0, <1>6, BeginQuiet, MarkDomain DEF HandleInsufficientQuota
<1>7. ASSUME NEW a \in Accounts, RecordError(c, a) PROVE IInv'
  <2>1. /\ Begin(c, "error", "reload", a, NoAccount, NoRow)
        /\ UNCHANGED <<disturbed, timers, stopped>>
    BY <1>7 DEF RecordError
  <2>2. /\ job' \in [Callers -> Jobs]
        /\ calls' \in 0..MaxCalls
        /\ \A d \in Callers \ {c} : job'[d] = job[d]
        /\ job'[c] = [op |-> "error", pc |-> "reload", id |-> a, next |-> NoAccount,
                      row |-> Seen("error", NoRow)]
    <3>1. NoRow \in Rows /\ "error" \in Ops /\ "reload" \in Points
      BY RowTypes, MarkDomain
    <3> QED
      BY <1>0, <2>1, <3>1, BeginStep
  <2>3. Others'
    BY <1>0, <2>1, <2>2 DEF TypeOK, Others, timers
  <2>4. Knows(c)' /\ NoOther(c)'
    BY <2>2 DEF Knows, NoOther, At
  <2>5. /\ rows' \in [Accounts -> Rows]
        /\ \A b \in Accounts : rows'[b].default = rows[b].default
                               /\ rows'[b].status = rows[b].status
    <3>1. CASE UNCHANGED rows
      BY <1>0, <3>1 DEF TypeOK
    <3>2. CASE Write(a, [rows[a] EXCEPT !.errors = Counted(@)])
      <4>1. Counted(rows[a].errors) \in 0..ErrorLimit
        BY <1>0, RowTypes DEF Rows
      <4> QED
        BY <1>0, <3>2, <4>1 DEF Write, TypeOK, Rows
    <3> QED
      BY <1>7, <3>1, <3>2 DEF RecordError
  <2> QED
    BY <1>0, <2>1, <2>2, <2>3, <2>4, <2>5, QuietCaller DEF TypeOK, DefaultsExist, Exists
<1>8. ASSUME NEW a \in Accounts, CreateAccount(c, a) PROVE IInv'
  <2>1. PICK dflt \in BOOLEAN :
          /\ Begin(c, "create", "insert", a, NoAccount, [NoRow EXCEPT !.default = dflt])
          /\ UNCHANGED <<rows, timers, stopped>>
          /\ \/ UNCHANGED disturbed /\ (dflt => \A b \in Accounts : ~Exists(b))
             \/ disturbed' = TRUE
    BY <1>8 DEF CreateAccount
  <2> DEFINE r == [NoRow EXCEPT !.default = dflt]
  <2>2. r \in Rows /\ r.default = dflt
    BY RowTypes DEF Rows
  <2>3. Seen("create", r).default = dflt
    BY <2>2, RowTypes DEF Seen, Rows
  <2> HIDE DEF r
  <2>4. /\ job' \in [Callers -> Jobs]
        /\ calls' \in 0..MaxCalls
        /\ \A d \in Callers \ {c} : job'[d] = job[d]
        /\ job'[c] = [op |-> "create", pc |-> "insert", id |-> a, next |-> NoAccount,
                      row |-> Seen("create", r)]
    <3>1. Begin(c, "create", "insert", a, NoAccount, r)
      BY <2>1 DEF r
    <3> QED
      BY <1>0, <2>2, <3>1, BeginStep
  <2>5. Others'
    BY <1>0, <2>1, <2>4 DEF TypeOK, Others, timers
  <2>6. Knows(c)'
    BY <2>4 DEF Knows, At
  <2>7. ~disturbed' => NoOther(c)'
    <3>1. ~disturbed' => (dflt => \A b \in Accounts : ~rows'[b].default)
      BY <1>0, <2>1 DEF DefaultsExist
    <3> QED
      BY <2>3, <2>4, <3>1 DEF NoOther, At
  <2>8. disturbed' \in BOOLEAN /\ (disturbed => disturbed')
    <3>1. disturbed \in BOOLEAN /\ (disturbed' = disturbed \/ disturbed' = TRUE)
      BY <1>0, <2>1 DEF TypeOK
    <3> QED
      BY <3>1, Zenon
  <2> QED
    BY <1>0, <2>1, <2>4, <2>5, <2>6, <2>7, <2>8, QuietCaller DEF TypeOK, DefaultsExist, Exists
<1>9. ASSUME NEW a \in Accounts, UpdateAccount(c, a) PROVE IInv'
  <2>1. PICK over \in BOOLEAN :
          /\ Begin(c, "update", "save", a, NoAccount, [rows[a] EXCEPT !.over = over])
          /\ UNCHANGED <<store, timers, stopped>>
    BY <1>9 DEF UpdateAccount
  <2> DEFINE r == [rows[a] EXCEPT !.over = over]
  <2>2. r \in Rows /\ r.default = rows[a].default /\ r.status \notin {"none", "deleted"}
    BY <1>0, <1>9 DEF Rows, UpdateAccount, Exists
  <2>3. r.default => \A b \in Accounts : rows[b].default => disturbed \/ b = a
    BY <1>0, <1>9, <2>2 DEF SingleDefault, UpdateAccount
  <2> HIDE DEF r
  <2>4. Begin(c, "update", "save", a, NoAccount, r)
    BY <2>1 DEF r
  <2> QED
    BY <2>1, <2>2, <2>3, <2>4, BeginQuiet
<1> QED
  BY <1>1, <1>2, <1>3, <1>4, <1>5, <1>6, <1>7, <1>8, <1>9 DEF Operation, ProviderTools

-----------------------------------------------------------------------------
(* The operations that are one statement *)

LEMMA OneStatementStep ==
    ASSUME IInv, OneStatement
    PROVE  IInv'
<1>0. TypeOK /\ DefaultsExist /\ (\A a \in Accounts : rows[a] \in Rows)
  BY DEF IInv, TypeOK
<1>1. 0 \in 0..ErrorLimit
  BY AccountsAssumption
<1>2. UNCHANGED <<job, disturbed, timers, stopped>> /\ calls' \in 0..MaxCalls
  <2>1. Single /\ UNCHANGED <<job, disturbed, timers, stopped>>
    BY DEF OneStatement, ResetMonthlyUsage, EnableAccount, RecordSuccess
  <2>2. calls \in 0..MaxCalls
    BY <1>0 DEF TypeOK
  <2> QED
    BY <2>1, <2>2, AccountsAssumption DEF Single
<1>3. ASSUME rows' \in [Accounts -> Rows],
             \A a \in Accounts : rows'[a].default => rows[a].default /\ Exists(a)'
      PROVE  IInv'
  <2>1. Others'
    BY <1>0, <1>2 DEF Others, TypeOK, timers
  <2> QED
    BY <1>0, <1>2, <1>3, <2>1, QuietStep DEF TypeOK
<1>4. CASE ResetMonthlyUsage
  <2>1. \A a \in Accounts : [rows[a] EXCEPT !.status = "active", !.errors = 0, !.over = FALSE]
                               \in Rows
    BY <1>0, <1>1 DEF Rows, Statuses
  <2>2. \A a \in Accounts : rows'[a] \in Rows /\ rows'[a].default = rows[a].default
                            /\ (Exists(a) => Exists(a)')
    BY <1>0, <1>4, <2>1 DEF ResetMonthlyUsage, Exists, Rows
  <2>3. rows' \in [Accounts -> Rows]
    BY <1>0, <1>4, <2>1 DEF ResetMonthlyUsage
  <2> QED
    BY <1>0, <1>3, <2>2, <2>3 DEF DefaultsExist
<1>5. ASSUME NEW a \in Accounts, EnableAccount(a) PROVE IInv'
  <2>1. [rows[a] EXCEPT !.status = "active", !.errors = 0] \in Rows
    BY <1>0, <1>1 DEF Rows, Statuses
  <2> QED
    BY <1>0, <1>3, <1>5, <2>1 DEF EnableAccount, Write, TypeOK, DefaultsExist, Exists, Rows
<1>6. ASSUME NEW a \in Accounts, RecordSuccess(a) PROVE IInv'
  <2>1. PICK over \in {rows[a].over, TRUE} :
           Write(a, [rows[a] EXCEPT !.errors = 0, !.over = over])
    BY <1>6 DEF RecordSuccess
  <2>2. [rows[a] EXCEPT !.errors = 0, !.over = over] \in Rows
    BY <1>0, <1>1, <2>1 DEF Rows
  <2> QED
    BY <1>0, <1>3, <2>1, <2>2 DEF Write, TypeOK, DefaultsExist, Exists, Rows
<1> QED
  BY <1>4, <1>5, <1>6 DEF OneStatement

-----------------------------------------------------------------------------
(* The statements that follow *)

\* A caller's step that leaves the rows alone.
LEMMA CallerOnly ==
    ASSUME IInv, NEW c \in Callers, job' \in [Callers -> Jobs],
           \A d \in Callers \ {c} : job'[d] = job[d],
           Knows(c)', ~disturbed' => NoOther(c)', UNCHANGED store, Others'
    PROVE  IInv'
<1>1. \A a \in Accounts : rows'[a].default => rows[a].default /\ Exists(a)'
  BY DEF IInv, DefaultsExist, Exists, store
<1>2. rows' \in [Accounts -> Rows] /\ disturbed' \in BOOLEAN /\ disturbed' = disturbed
  BY DEF IInv, TypeOK, store
<1> QED
  BY <1>1, <1>2, QuietCaller

LEMMA ReloadStep ==
    ASSUME IInv, NEW c \in Callers, Reload(c)
    PROVE  IInv'
<1>1. TypeOK /\ Knows(c) /\ At(c, "reload") /\ UNCHANGED <<store, timers, stopped, calls>>
  BY DEF IInv, JobsKnow, Reload
<1>2. Others'
  BY <1>1 DEF TypeOK, Others, timers
<1>3. CASE Done(c)
  BY <1>1, <1>2, <1>3, DoneStep, IdleKnows, CallerOnly
<1>4. ASSUME ~Done(c) PROVE IInv'
  <2> DEFINE r == Seen("error", rows[job[c].id])
  <2>1. job' = [job EXCEPT ![c].pc = "status", ![c].row = r]
    BY <1>4 DEF Reload
  <2>2. job[c] \in Jobs /\ job[c].id \in Accounts /\ job[c].op = "error"
    BY <1>1 DEF TypeOK, Knows, At
  <2>3. r \in Rows
    <3>1. rows[job[c].id] \in Rows /\ "error" \in Ops
      BY <1>1, <2>2, MarkDomain DEF TypeOK, Ops
    <3> QED
      BY <3>1, RowTypes
  <2> HIDE DEF r
  <2>4. [job[c] EXCEPT !.pc = "status", !.row = r] \in Jobs
    BY <2>2, <2>3 DEF Jobs, Points
  <2>5. /\ job' \in [Callers -> Jobs]
        /\ \A d \in Callers \ {c} : job'[d] = job[d]
        /\ job'[c] = [job[c] EXCEPT !.pc = "status", !.row = r]
    BY <1>1, <2>1, <2>4 DEF TypeOK
  <2>6. Knows(c)' /\ NoOther(c)'
    BY <2>2, <2>5, MarkDomain DEF Knows, NoOther, At, Jobs
  <2> QED
    BY <1>1, <1>2, <2>5, <2>6, CallerOnly
<1> QED
  BY <1>3, <1>4

LEMMA UpdateStatusStep ==
    ASSUME IInv, NEW c \in Callers, UpdateStatus(c)
    PROVE  IInv'
<1>1. /\ TypeOK /\ DefaultsExist /\ Knows(c) /\ At(c, "status")
      /\ UNCHANGED <<disturbed, timers, stopped, calls>>
  BY DEF IInv, JobsKnow, UpdateStatus
<1>2. Others'
  BY <1>1 DEF TypeOK, Others, timers
<1>3. /\ job[c].id \in Accounts /\ job[c].op \in DOMAIN Mark /\ job[c] \in Jobs
      /\ rows[job[c].id] \in Rows
  BY <1>1 DEF Knows, At, TypeOK
<1>4. /\ job' \in [Callers -> Jobs]
      /\ \A d \in Callers \ {c} : job'[d] = job[d]
      /\ Knows(c)' /\ NoOther(c)'
  <2>1. CASE Goto(c, "next")
    <3>1. /\ job' \in [Callers -> Jobs]
          /\ \A d \in Callers \ {c} : job'[d] = job[d]
          /\ job'[c] = [job[c] EXCEPT !.pc = "next"]
      BY <1>1, <2>1, GotoStep DEF Points
    <3> QED
      BY <1>3, <3>1 DEF Knows, NoOther, At, Jobs
  <2>2. CASE Done(c)
    BY <1>1, <2>2, DoneStep, IdleKnows
  <2> QED
    BY <2>1, <2>2 DEF UpdateStatus
<1>5. CASE UNCHANGED rows
  BY <1>1, <1>2, <1>4, <1>5, CallerOnly DEF store
<1>6. CASE Write(job[c].id, [rows[job[c].id] EXCEPT !.status = Mark[job[c].op]])
  <2>1. Mark[job[c].op] \in Statuses \ {"none", "deleted"}
    BY <1>3, MarkDomain
  <2>2. rows' \in [Accounts -> Rows]
        /\ \A a \in Accounts : /\ rows'[a].default = rows[a].default
                               /\ Exists(a) => Exists(a)'
    BY <1>1, <1>3, <1>6, <2>1 DEF TypeOK, Write, Rows, Exists
  <2> QED
    BY <1>1, <1>2, <1>4, <2>2, QuietCaller DEF TypeOK, DefaultsExist
<1> QED
  BY <1>5, <1>6 DEF UpdateStatus

LEMMA GetNextAvailableStep ==
    ASSUME IInv, NEW c \in Callers, GetNextAvailable(c)
    PROVE  IInv'
<1>1. /\ TypeOK /\ Knows(c) /\ At(c, "next") /\ ~At(c, "idle")
      /\ UNCHANGED <<store, timers, stopped, calls>>
  BY DEF IInv, JobsKnow, GetNextAvailable, At
<1>2. Others'
  BY <1>1 DEF TypeOK, Others, timers
<1>3. CASE AfterSwitch(c)
  BY <1>1, <1>2, <1>3, SwitchedKnows, CallerOnly
<1>4. ASSUME NEW b \in Accounts, job' = [job EXCEPT ![c].pc = "clear", ![c].next = b]
      PROVE  IInv'
  <2>1. job[c] \in Jobs /\ job[c].id \in Accounts
    BY <1>1 DEF TypeOK, Knows, At
  <2>2. [job[c] EXCEPT !.pc = "clear", !.next = b] \in Jobs
    BY <2>1 DEF Jobs, Points
  <2>3. /\ job' \in [Callers -> Jobs]
        /\ \A d \in Callers \ {c} : job'[d] = job[d]
        /\ job'[c] = [job[c] EXCEPT !.pc = "clear", !.next = b]
    BY <1>1, <1>4, <2>2 DEF TypeOK
  <2>4. Knows(c)' /\ NoOther(c)'
    BY <2>1, <2>3 DEF Knows, NoOther, At, Jobs
  <2> QED
    BY <1>1, <1>2, <2>3, <2>4, CallerOnly
<1> QED
  BY <1>3, <1>4 DEF GetNextAvailable

LEMMA ClearDefaultsStep ==
    ASSUME IInv, NEW c \in Callers, ClearDefaults(c)
    PROVE  IInv'
<1>1. /\ TypeOK /\ Knows(c) /\ At(c, "clear") /\ ~At(c, "idle")
      /\ UNCHANGED <<timers, stopped, calls>>
  BY DEF IInv, JobsKnow, ClearDefaults, At
<1>2. Others'
  BY <1>1 DEF TypeOK, Others, timers
<1>3. CASE AfterSwitch(c) /\ UNCHANGED store
  BY <1>1, <1>2, <1>3, SwitchedKnows, CallerOnly
<1>4. ASSUME rows' = [a \in Accounts |-> [rows[a] EXCEPT !.default = FALSE]],
             Disturb(c), Goto(c, "set")
      PROVE  IInv'
  <2>1. job[c] \in Jobs /\ job[c].id \in Accounts /\ job[c].next \in Accounts
    BY <1>1 DEF TypeOK, Knows, At
  <2>2. rows' \in [Accounts -> Rows] /\ \A a \in Accounts : ~rows'[a].default
    BY <1>1, <1>4 DEF TypeOK, Rows
  <2>3. /\ job' \in [Callers -> Jobs]
        /\ \A d \in Callers \ {c} : job'[d] = job[d]
        /\ job'[c] = [job[c] EXCEPT !.pc = "set"]
    BY <1>1, <1>4, GotoStep DEF Points
  <2>4. Knows(c)' /\ NoOther(c)'
    BY <2>1, <2>2, <2>3 DEF Knows, NoOther, At, Jobs
  <2>5. disturbed' \in BOOLEAN /\ (disturbed => disturbed')
    BY <1>1, <1>4 DEF Disturb, TypeOK
  <2> QED
    BY <1>2, <2>2, <2>3, <2>4, <2>5, QuietCaller
<1> QED
  BY <1>3, <1>4 DEF ClearDefaults

LEMMA MarkDefaultStep ==
    ASSUME IInv, NEW c \in Callers, MarkDefault(c)
    PROVE  IInv'
<1>1. /\ TypeOK /\ Knows(c) /\ At(c, "set") /\ ~At(c, "idle") /\ AfterSwitch(c)
      /\ UNCHANGED <<timers, stopped, calls>>
  BY DEF IInv, JobsKnow, MarkDefault, At
<1>2. Others'
  BY <1>1 DEF TypeOK, Others, timers
<1>3. CASE UNCHANGED store
  BY <1>1, <1>2, <1>3, SwitchedKnows, CallerOnly
<1>4. ASSUME NEW b \in Accounts, Exists(b), Write(b, [rows[b] EXCEPT !.default = TRUE]),
             Disturb(c)
      PROVE  IInv'
  <2> DEFINE r == [rows[b] EXCEPT !.default = TRUE]
  <2>1. r \in Rows /\ r.status \notin {"none", "deleted"}
    BY <1>1, <1>4 DEF TypeOK, Rows, Exists
  <2>2. ~disturbed => \A a \in Accounts : ~rows[a].default
    BY <1>1 DEF IInv, InHand, NoOther
  <2>3. Write(b, r)
    BY <1>4
  <2> HIDE DEF r
  <2> QED
    BY <1>1, <1>2, <1>4, <2>1, <2>2, <2>3, SwitchedKnows, LoudStep
<1> QED
  BY <1>1, <1>3, <1>4 DEF MarkDefault, Knows

LEMMA DeleteStep ==
    ASSUME IInv, NEW c \in Callers, Delete(c)
    PROVE  IInv'
<1>1. /\ TypeOK /\ DefaultsExist /\ Done(c)
      /\ UNCHANGED <<disturbed, timers, stopped, calls>>
  BY DEF IInv, Delete
<1>2. Others'
  BY <1>1 DEF TypeOK, Others, timers
<1>3. /\ rows' \in [Accounts -> Rows]
      /\ \A a \in Accounts : rows'[a].default => rows[a].default /\ Exists(a)'
  <2>1. CASE UNCHANGED rows
    BY <1>1, <2>1 DEF TypeOK, DefaultsExist, Exists
  <2>2. CASE Write(job[c].id, [NoRow EXCEPT !.status = "deleted"])
    <3> DEFINE r == [NoRow EXCEPT !.status = "deleted"]
    <3>1. r \in Rows
      BY RowTypes DEF Rows, Statuses
    <3>2. ~r.default
      BY DEF NoRow
    <3>3. rows' = [rows EXCEPT ![job[c].id] = r]
      BY <2>2 DEF Write
    <3> HIDE DEF r
    <3> QED
      BY <1>1, <3>1, <3>2, <3>3 DEF TypeOK, DefaultsExist, Exists
  <2> QED
    BY <2>1, <2>2 DEF Delete
<1> QED
  BY <1>1, <1>2, <1>3, DoneStep, IdleKnows, QuietCaller DEF TypeOK

\* An account is inserted as active: as the default only when no other is.
LEMMA InsertStep ==
    ASSUME IInv, NEW c \in Callers, Insert(c)
    PROVE  IInv'
<1>1. /\ TypeOK /\ Knows(c) /\ At(c, "insert") /\ Done(c)
      /\ UNCHANGED <<timers, stopped, calls>>
  BY DEF IInv, JobsKnow, Insert
<1>2. Others'
  BY <1>1 DEF TypeOK, Others, timers
<1>3. CASE UNCHANGED store
  BY <1>1, <1>2, <1>3, DoneStep, IdleKnows, CallerOnly
<1>4. ASSUME Write(job[c].id, [job[c].row EXCEPT !.status = "active"]), Disturb(c)
      PROVE  IInv'
  <2> DEFINE r == [job[c].row EXCEPT !.status = "active"]
  <2>1. job[c].id \in Accounts /\ job[c].row \in Rows
    BY <1>1 DEF TypeOK, Knows, At, Jobs
  <2>2. r \in Rows /\ r.status = "active" /\ r.default = job[c].row.default
    BY <2>1 DEF Rows, Statuses
  <2>3. ~disturbed /\ r.default => \A a \in Accounts : ~rows[a].default
    BY <1>1, <2>2 DEF IInv, InHand, NoOther
  <2>4. Write(job[c].id, r)
    BY <1>4
  <2> HIDE DEF r
  <2> QED
    BY <1>1, <1>2, <1>4, <2>1, <2>2, <2>3, <2>4, DoneStep, IdleKnows, LoudStep
<1> QED
  BY <1>3, <1>4 DEF Insert

\* A saved row brings its old default flag back: to the same account.
LEMMA SaveStep ==
    ASSUME IInv, NEW c \in Callers, Save(c)
    PROVE  IInv'
<1>1. /\ TypeOK /\ Knows(c) /\ At(c, "save") /\ Done(c)
      /\ UNCHANGED <<timers, stopped, calls>>
  BY DEF IInv, JobsKnow, Save
<1>2. Others'
  BY <1>1 DEF TypeOK, Others, timers
<1>3. CASE UNCHANGED store
  BY <1>1, <1>2, <1>3, DoneStep, IdleKnows, CallerOnly
<1>4. ASSUME Write(job[c].id, job[c].row), Disturb(c)
      PROVE  IInv'
  <2>1. /\ job[c].id \in Accounts /\ job[c].row \in Rows
        /\ job[c].row.status \notin {"none", "deleted"}
    BY <1>1 DEF TypeOK, Knows, At, Jobs
  <2>2. ~disturbed /\ job[c].row.default =>
           \A a \in Accounts : rows[a].default => a = job[c].id
    BY <1>1 DEF IInv, InHand, NoOther
  <2> QED
    BY <1>1, <1>2, <1>4, <2>1, <2>2, DoneStep, IdleKnows, LoudStep
<1> QED
  BY <1>3, <1>4 DEF Save

-----------------------------------------------------------------------------
(* Recovery timers *)

LEMMA ArmStep ==
    ASSUME IInv, NEW c \in Callers, Arm(c)
    PROVE  IInv'
<1>1. /\ TypeOK /\ Knows(c) /\ At(c, "arm") /\ Done(c)
      /\ UNCHANGED <<store, late, stranded, stopped, calls>>
  BY DEF IInv, JobsKnow, Arm
<1>2. job[c].id \in Accounts
  BY <1>1 DEF Knows, At
<1>3. Others'
  BY <1>1, <1>2 DEF TypeOK, Others, Arm
<1> QED
  BY <1>1, <1>3, DoneStep, IdleKnows, CallerOnly

\* A step that changes neither rows nor jobs.
LEMMA TimersOnly ==
    ASSUME IInv, Others', UNCHANGED <<store, job>>
    PROVE  IInv'
<1>1. \A a \in Accounts : rows'[a].default => rows[a].default /\ Exists(a)'
  BY DEF IInv, DefaultsExist, Exists, store
<1> QED
  BY <1>1, QuietStep DEF IInv, TypeOK, store

\* A timer that was started keeps its account.
Started == [state : {"armed", "fired", "done"}, acct : Accounts]

LEMMA ClockMoves ==
    ASSUME TypeOK, NEW t \in Timers, clock[t].state # "idle"
    PROVE  /\ clock[t] \in Started /\ clock[t].acct \in Accounts
           /\ [clock[t] EXCEPT !.state = "fired"] \in Started
           /\ [clock[t] EXCEPT !.state = "done"] \in Started
<1>1. clock[t] \in Started
  BY DEF TypeOK, NoClock, Started
<1> QED
  BY <1>1 DEF Started

LEMMA CallbackStep ==
    ASSUME IInv, NEW t \in Timers, Callback(t)
    PROVE  IInv'
<1>0. TypeOK /\ DefaultsExist
  BY DEF IInv
<1>1. CASE Fire(t)
  <2>1. [clock[t] EXCEPT !.state = "fired"] \in Started
    BY <1>0, <1>1, ClockMoves DEF Fire
  <2>2. clock' \in [Timers -> {NoClock} \cup Started]
    BY <1>0, <1>1, <2>1 DEF Fire, TypeOK, Started
  <2>3. Others'
    BY <1>0, <1>1, <2>2 DEF Fire, TypeOK, Others, Started
  <2> QED
    BY <1>1, <2>3, TimersOnly DEF Fire
<1>2. CASE Recover(t)
  <2>1. clock[t].acct \in Accounts /\ [clock[t] EXCEPT !.state = "done"] \in Started
    BY <1>0, <1>2, ClockMoves DEF Recover
  <2>2. Others'
    <3>1. clock' \in [Timers -> {NoClock} \cup Started]
      BY <1>0, <1>2, <2>1 DEF Recover, TypeOK, Started
    <3>2. stranded' \in SUBSET Accounts
      BY <1>0, <1>2, <2>1 DEF Recover, TypeOK
    <3> QED
      BY <1>0, <1>2, <3>1, <3>2 DEF Recover, TypeOK, Others, Started
  <2>3. /\ rows' \in [Accounts -> Rows]
        /\ \A a \in Accounts : rows'[a].default => rows[a].default /\ Exists(a)'
    <3>1. CASE UNCHANGED rows
      BY <1>0, <3>1 DEF TypeOK, DefaultsExist, Exists
    <3>2. ASSUME NEW a \in Accounts,
                 Write(a, [rows[a] EXCEPT !.status = "active", !.errors = 0])
          PROVE  /\ rows' \in [Accounts -> Rows]
                 /\ \A d \in Accounts : rows'[d].default => rows[d].default /\ Exists(d)'
      <4>1. [rows[a] EXCEPT !.status = "active", !.errors = 0] \in Rows
        <5>1. rows[a] \in Rows /\ 0 \in 0..ErrorLimit
          BY <1>0, AccountsAssumption DEF TypeOK
        <5> QED
          BY <5>1 DEF Rows, Statuses
      <4> QED
        BY <1>0, <3>2, <4>1 DEF Write, TypeOK, DefaultsExist, Exists, Rows
    <3> QED
      BY <1>2, <2>1, <3>1, <3>2 DEF Recover
  <2> QED
    BY <1>0, <1>2, <2>2, <2>3, QuietStep DEF Recover, TypeOK
<1>3. CASE Forget(t)
  <2>1. clock[t].acct \in Accounts
    BY <1>0, <1>3 DEF Forget, TypeOK, NoClock
  <2>2. Others'
    BY <1>0, <1>3, <2>1 DEF Forget, TypeOK, Others
  <2> QED
    BY <1>3, <2>2, TimersOnly DEF Forget
<1> QED
  BY <1>1, <1>2, <1>3 DEF Callback

LEMMA StopStep == IInv /\ Stop => IInv'
<1> SUFFICES ASSUME IInv, Stop PROVE IInv'
  OBVIOUS
<1>1. Others'
  BY DEF IInv, TypeOK, Stop, Others
<1> QED
  BY <1>1, TimersOnly DEF Stop

LEMMA RestartStep == IInv /\ Restart => IInv'
<1> SUFFICES ASSUME IInv, Restart PROVE IInv'
  OBVIOUS
<1>1. Others'
  BY DEF IInv, TypeOK, Restart, Others, store
<1>2. \A c \in Callers : job'[c] = NoJob
  BY DEF Restart
<1>3. \A c \in Callers : Knows(c)' /\ NoOther(c)'
  BY <1>2, IdleKnows
<1>4. job' \in [Callers -> Jobs]
  BY NoJobType DEF Restart
<1>5. /\ rows' \in [Accounts -> Rows] /\ disturbed' \in BOOLEAN /\ disturbed' = disturbed
      /\ \A a \in Accounts : rows'[a].default => rows[a].default /\ Exists(a)'
  BY DEF IInv, TypeOK, DefaultsExist, Exists, Restart, store
<1> QED
  BY <1>1, <1>3, <1>4, <1>5, QuietStep

-----------------------------------------------------------------------------
(* The invariant *)

LEMMA InitIInv == Init => IInv
<1> SUFFICES ASSUME Init PROVE IInv
  OBVIOUS
<1>1. PICK E \in SUBSET Accounts, D \in SUBSET Accounts :
         /\ D \subseteq E /\ (E # {} => \E a \in E : D = {a})
         /\ rows = [a \in Accounts |-> IF a \in E THEN Created(a \in D) ELSE NoRow]
  BY DEF Init
<1>2. \A b \in BOOLEAN : Created(b) \in Rows /\ Created(b).default = b
                          /\ Created(b).status = "active"
  BY RowTypes DEF Created, Rows, Statuses
<1>3. ~NoRow.default
  BY DEF NoRow
<1>4. ASSUME NEW a \in Accounts
      PROVE  rows[a] \in Rows /\ (rows[a].default => a \in D /\ Exists(a))
  <2>1. CASE a \in E
    <3>1. rows[a] = Created(a \in D)
      BY <1>1, <2>1
    <3>2. (a \in D) \in BOOLEAN
      OBVIOUS
    <3>3. rows[a] \in Rows /\ rows[a].default = (a \in D) /\ rows[a].status = "active"
      BY <1>2, <3>1, <3>2, Zenon
    <3> QED
      BY <3>3 DEF Exists
  <2>2. CASE a \notin E
    BY <1>1, <1>3, <2>2, RowTypes
  <2> QED
    BY <2>1, <2>2
<1>5. TypeOK
  <2>1. rows \in [Accounts -> Rows]
    BY <1>1, <1>4
  <2> QED
    <3>1. job \in [Callers -> Jobs]
      BY NoJobType DEF Init
    <3>2. tracked \in [Accounts -> Timers \cup {NoTimer}] /\ clock \in [Timers -> {NoClock}]
      BY DEF Init
    <3>3. /\ stopped \in BOOLEAN /\ disturbed \in BOOLEAN /\ calls \in 0..MaxCalls
          /\ late \in SUBSET Accounts /\ stranded \in SUBSET Accounts
      <4>1. 0 \in 0..MaxCalls
        BY AccountsAssumption
      <4> QED
        BY <4>1, Zenon DEF Init
    <3> QED
      BY <2>1, <3>1, <3>2, <3>3 DEF TypeOK
<1>6. \A c \in Callers : Knows(c) /\ NoOther(c)
  BY DEF Init, NoJob, Knows, NoOther, At
<1>7. SingleDefault
  BY <1>1, <1>4 DEF SingleDefault
<1> QED
  BY <1>4, <1>5, <1>6, <1>7 DEF IInv, JobsKnow, DefaultsExist, InHand

LEMMA StepIInv == IInv /\ [Next]_vars => IInv'
<1> SUFFICES ASSUME IInv, [Next]_vars PROVE IInv'
  OBVIOUS
<1>1. ASSUME NEW c \in Callers, Continue(c) PROVE IInv'
  BY <1>1, ReloadStep, UpdateStatusStep, GetNextAvailableStep, ClearDefaultsStep,
     MarkDefaultStep, DeleteStep, InsertStep, SaveStep, ArmStep DEF Continue
<1>2. CASE UNCHANGED vars
  <2>1. Others'
    BY <1>2 DEF IInv, TypeOK, Others, vars
  <2> QED
    BY <1>2, <2>1, TimersOnly DEF vars, store
<1> QED
  BY <1>1, <1>2, OperationStep, OneStatementStep, CallbackStep, StopStep, RestartStep
     DEF Next

LEMMA Inductive == Spec => []IInv
BY InitIInv, StepIInv, PTL DEF Spec

\* The types hold for any accounts, callers, timers and error limit.
THEOREM TypeCorrect == Spec => []TypeOK
<1>1. IInv => TypeOK
  BY DEF IInv
<1> QED
  BY <1>1, Inductive, PTL

\* SetDefault, CreateAccount and UpdateAccount leave at most one default account
\* as long as no two of them are at their flags at the same time.
THEOREM OneDefault == Spec => []SingleDefault
<1>1. IInv => SingleDefault
  BY DEF IInv
<1> QED
  BY <1>1, Inductive, PTL

\* The registered timer is the running one, given only the types: what Arm stops
\* is the timer it replaces, and Forget marks the accounts whose entry it takes.
LEMMA TimersTrackedStep == IInv /\ TimersTracked /\ [Next]_vars => TimersTracked'
<1> SUFFICES ASSUME IInv, TimersTracked, [Next]_vars PROVE TimersTracked'
  OBVIOUS
<1>0. TypeOK
  BY DEF IInv
<1>1. CASE UNCHANGED <<tracked, clock, late>>
  BY <1>1 DEF TimersTracked
<1>2. ASSUME NEW c \in Callers, Arm(c) PROVE TimersTracked'
  <2>1. job[c].id \in Accounts
    BY <1>2 DEF IInv, JobsKnow, Knows, At, Arm
  <2>2. PICK t \in Timers :
          /\ clock' = [s \in Timers |->
                         IF s = t THEN [state |-> "armed", acct |-> job[c].id]
                         ELSE IF s \in Cancelled(tracked[job[c].id]) THEN NoClock
                         ELSE clock[s]]
          /\ tracked' = [tracked EXCEPT ![job[c].id] = t]
    BY <1>2 DEF Arm
  <2> SUFFICES ASSUME NEW s \in Timers, clock'[s].state = "armed"
               PROVE  tracked'[clock'[s].acct] = s \/ clock'[s].acct \in late'
    BY DEF TimersTracked
  <2>3. CASE s = t
    BY <1>0, <2>1, <2>2, <2>3 DEF TypeOK
  <2>4. CASE s # t
    <3>1. s \notin Cancelled(tracked[job[c].id]) /\ clock'[s] = clock[s]
      BY <2>2, <2>4 DEF NoClock
    <3>2. tracked[job[c].id] # s
      BY <3>1 DEF Cancelled
    <3>3. tracked[clock[s].acct] = s \/ clock[s].acct \in late
      BY <3>1 DEF TimersTracked
    <3>4. late' = late
      BY <1>2 DEF Arm
    <3> QED
      BY <1>0, <2>1, <2>2, <3>1, <3>2, <3>3, <3>4 DEF TypeOK
  <2> QED
    BY <2>3, <2>4
<1>3. ASSUME NEW t \in Timers, Fire(t) PROVE TimersTracked'
  <2> SUFFICES ASSUME NEW s \in Timers, clock'[s].state = "armed"
               PROVE  tracked'[clock'[s].acct] = s \/ clock'[s].acct \in late'
    BY DEF TimersTracked
  <2>1. s # t
    <3>1. clock'[t] = NoClock \/ clock'[t] = [clock[t] EXCEPT !.state = "fired"]
      BY <1>0, <1>3 DEF Fire, TypeOK
    <3>2. clock[t] \in Started
      BY <1>0, <1>3, ClockMoves DEF Fire
    <3> QED
      BY <3>1, <3>2 DEF NoClock, Started
  <2> QED
    BY <1>0, <1>3, <2>1 DEF Fire, TypeOK, TimersTracked
<1>4. ASSUME NEW t \in Timers, Recover(t) PROVE TimersTracked'
  <2> SUFFICES ASSUME NEW s \in Timers, clock'[s].state = "armed"
               PROVE  tracked'[clock'[s].acct] = s \/ clock'[s].acct \in late'
    BY DEF TimersTracked
  <2>1. s # t
    <3>1. clock[t] \in Started /\ clock'[t] = [clock[t] EXCEPT !.state = "done"]
      BY <1>0, <1>4, ClockMoves DEF Recover, TypeOK
    <3> QED
      BY <3>1 DEF Started
  <2> QED
    BY <1>0, <1>4, <2>1 DEF Recover, TypeOK, TimersTracked
<1>5. ASSUME NEW t \in Timers, Forget(t) PROVE TimersTracked'
  <2> SUFFICES ASSUME NEW s \in Timers, clock'[s].state = "armed"
               PROVE  tracked'[clock'[s].acct] = s \/ clock'[s].acct \in late'
    BY DEF TimersTracked
  <2>1. s # t /\ clock'[s] = clock[s] /\ s # NoTimer
    BY <1>0, <1>5, AccountsAssumption DEF Forget, TypeOK, NoClock
  <2>2. tracked[clock[s].acct] = s \/ clock[s].acct \in late
    BY <2>1 DEF TimersTracked
  <2>3. clock[s].acct \in Accounts
    BY <1>0, <2>1, ClockMoves
  <2> QED
    BY <1>0, <1>5, <2>1, <2>2, <2>3 DEF Forget, TypeOK
<1>6. CASE Stop
  <2> SUFFICES ASSUME NEW s \in Timers, clock'[s].state = "armed"
               PROVE  clock'[s].acct \in late'
    BY DEF TimersTracked
  <2>1. clock'[s] = clock[s] /\ clock[s].state = "armed"
        /\ \A a \in Accounts : tracked[a] # s
    BY <1>6 DEF Stop, NoClock
  <2>2. clock[s].acct \in Accounts
    BY <1>0, <2>1, ClockMoves
  <2> QED
    BY <1>6, <2>1, <2>2 DEF Stop, TimersTracked
<1>7. CASE Restart
  BY <1>7 DEF Restart, TimersTracked, NoClock
<1> QED
  BY <1>1, <1>2, <1>3, <1>4, <1>5, <1>6, <1>7
     DEF Next, vars, timers, Operation, ProviderTools, OneStatement, Continue, Callback,
         GetActiveAccount, SetDefaultAccount, DisableAccount, DeleteAccount, HandleRateLimit,
         HandleInsufficientQuota, RecordError, CreateAccount, UpdateAccount,
         EnableAccount, RecordSuccess, ResetMonthlyUsage, Reload, UpdateStatus,
         GetNextAvailable, ClearDefaults, MarkDefault, Delete, Insert, Save

\* A running recovery timer is the registered one of its account, so HandleRateLimit
\* and Stop reach it, whatever the number of timers and accounts.
THEOREM TimersReachable == Spec => []TimersTracked
<1>1. Init => TimersTracked
  BY DEF Init, TimersTracked, NoClock
<1> QED
  BY <1>1, TimersTrackedStep, Inductive, PTL DEF Spec
=============================================================================
