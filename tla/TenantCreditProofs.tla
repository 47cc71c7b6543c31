------------------------- MODULE TenantCreditProofs -------------------------
(***************************************************************************)
(* Types, the accounts of the credit, of the bill and of the grants, and   *)
(* the agreement of check and deduction, for any requests, callers, costs  *)
(* and limits.                                                             *)
(*                                                                         *)
(* None of them is inductive alone: what a save does to the credit used    *)
(* depends on the copy that is saved.  As long as nobody has overtaken     *)
(* anybody, a copy says what its job is going to charge or to bill         *)
(* (CopiesFresh); a payment holds what was left of the bill when it was    *)
(* read, which later payments only make smaller (JobsOK, BillCovered).     *)
(***************************************************************************)
EXTENDS TenantCredit, TLAPS

Granted(t) == t.credit = "approved" \/ t.limit # NoLimit => granted

\* What a job knows about itself and the bill, and about the grants.
JobShape(w, j) ==
    /\ j.amount >= 0
    /\ j.pc \in {"insert", "bill", "reset"} => j.acct = Org
    /\ j.pc \in {"saveCharge", "suspend"} => j.acct # Org
    /\ j.pc \in {"save", "insert"} /\ (w \in Callers \/ j.acct # Org) => j.amount = 0
    /\ w \in Requests => j.pc \in {"idle", "save", "saveCharge", "suspend"}
    /\ j.pc \in {"reset", "pay"} => bill.status # "none"
    /\ j.pc = "pay" => bill.amount <= j.total + paid
GrantKnown(j) ==
    /\ j.pc = "adopt" => granted
    /\ j.acct = Org => Granted(j.row)
JobOK(w, j) == JobShape(w, j) /\ GrantKnown(j)

\* A copy of the tenant's row that nobody has overtaken: what saving it does to
\* the credit used is what the job is going to charge, or to bill.
HoldsRow(j) == j.acct = Org /\ j.pc \in {"save", "insert", "bill", "reset"}
Fresh(j) ==
    HoldsRow(j) =>
        /\ j.pc \in {"save", "insert"} => j.row.used = rows[Org].used + j.amount
        /\ j.pc \in {"bill", "reset"} => j.row.used = 0
        /\ j.pc = "bill" => j.amount = rows[Org].used
        /\ j.pc = "reset" => bill.amount = rows[Org].used

JobsOK == \A w \in Workers : JobOK(w, job[w])
CopiesFresh == ~overlapped => \A w \in Workers : Fresh(job[w])

\* What is left of the bill and what was paid on it are never less than it.
BillCovered ==
    /\ bill.status = "none" => bill.amount = 0
    /\ bill.amount <= bill.total + paid

Books == JobsOK /\ CopiesFresh /\ BillCovered /\ CreditAccounted /\ NotForgiven /\ CreditNeedsGrant
IInv == TypeOK /\ Books

-----------------------------------------------------------------------------
(* The vocabulary of the module *)

LEMMA NoJobType ==
  /\ NoJob \in Jobs /\ NoRow \in Rows /\ NoApp \in AppRows /\ NoJob.pc = "idle"
  /\ NoJob.row = NoRow /\ NoJob.amount = 0 /\ NoJob.acct = Org
  /\ NoRow.credit = "none" /\ NoRow.limit = NoLimit
<1>1. NoRow \in Rows
  BY DEF NoRow, Rows, NoLimit, AllCycles
<1>2. NoApp \in AppRows
  BY DEF NoApp, AppRows, AllCycles
<1>3. NoJob \in Jobs
  BY <1>1, <1>2, CreditAssumption DEF NoJob, Jobs, Points, Accounts
<1> QED
  BY <1>1, <1>2, <1>3 DEF NoJob, NoRow

LEMMA RequestTypes ==
  ASSUME NEW r \in Requests
  PROVE  Cost[r] \in Nat /\ Tokens[r] \in Nat /\ (Tokens[r] = 0 => Cost[r] = 0)
BY CreditAssumption

-----------------------------------------------------------------------------
(* What the deductions return *)

(* What one change of a row leaves as it was.                                 *)
SameCredit(d, t) == d.credit = t.credit /\ d.limit = t.limit

LEMMA RowFields ==
  ASSUME NEW t \in Rows
  PROVE  t.balance \in Int /\ t.tokens \in Nat /\ t.used \in Nat /\ t.quota \in Int
BY DEF Rows

LEMMA RowUpdates ==
  ASSUME NEW t \in Rows
  PROVE  /\ \A n \in Nat : LET d == [t EXCEPT !.tokens = n] IN
              d \in Rows /\ d.used = t.used /\ d.balance = t.balance /\ SameCredit(d, t)
         /\ \A b \in Int : LET d == [t EXCEPT !.balance = b] IN
              d \in Rows /\ d.used = t.used /\ SameCredit(d, t)
         /\ \A n \in Nat : LET d == [t EXCEPT !.used = n] IN
              d \in Rows /\ d.used = n /\ SameCredit(d, t)
         /\ \A s \in {"active", "suspended"} : LET d == [t EXCEPT !.status = s] IN
              d \in Rows /\ d.used = t.used /\ SameCredit(d, t)
         /\ \A n \in Nat : LET d == [t EXCEPT !.quota = n] IN
              d \in Rows /\ d.used = t.used /\ SameCredit(d, t)
BY DEF Rows, SameCredit

(* A deduction returns a row; what it adds to the credit used is the cost, or  *)
(* nothing; it grants nothing.                                                 *)
LEMMA DeductionOfOrganization ==
  ASSUME NEW t \in Rows, NEW r \in Requests
  PROVE  LET d == DeductOrganization(t, r) IN
         d \in Rows /\ d.used - t.used \in {0, Cost[r]} /\ d.used - t.used >= 0 /\ SameCredit(d, t)
<1> DEFINE u == [t EXCEPT !.tokens = @ + Tokens[r]]
           b == IF t.balance > 0 THEN 0 ELSE t.balance
           e == [u EXCEPT !.balance = b]
<1>1. Cost[r] \in Nat /\ Tokens[r] \in Nat
  BY RequestTypes
<1>2. t.balance \in Int /\ t.tokens \in Nat /\ t.used \in Nat
  BY RowFields
<1>a. t.tokens + Tokens[r] \in Nat /\ t.balance - Cost[r] \in Int /\ t.used + Cost[r] \in Nat
  BY <1>1, <1>2
<1>b. b \in Int
  BY <1>2
<1>c. u \in Rows /\ u.used = t.used /\ u.balance = t.balance /\ SameCredit(u, t)
  BY <1>a, RowUpdates
<1>3. u \in Rows /\ u.used = t.used /\ u.balance = t.balance /\ SameCredit(u, t) /\ b \in Int
  BY <1>b, <1>c
<1>4. [u EXCEPT !.balance = b, !.used = @ + Cost[r]] = [e EXCEPT !.used = t.used + Cost[r]]
      /\ [u EXCEPT !.balance = b, !.status = "suspended"] = [e EXCEPT !.status = "suspended"]
  BY <1>3
<1> HIDE DEF u, b
<1>5. [u EXCEPT !.balance = t.balance - Cost[r]] \in Rows
      /\ [u EXCEPT !.balance = t.balance - Cost[r]].used = u.used
      /\ SameCredit([u EXCEPT !.balance = t.balance - Cost[r]], u)
  BY <1>a, <1>3, RowUpdates
<1>6. e \in Rows /\ e.used = u.used /\ SameCredit(e, u)
  BY <1>1, <1>2, <1>3, RowUpdates
<1> HIDE DEF e
<1>7. [e EXCEPT !.used = t.used + Cost[r]] \in Rows
      /\ [e EXCEPT !.used = t.used + Cost[r]].used = t.used + Cost[r]
      /\ SameCredit([e EXCEPT !.used = t.used + Cost[r]], e)
  BY <1>a, <1>6, RowUpdates
<1>8. [e EXCEPT !.status = "suspended"] \in Rows
      /\ [e EXCEPT !.status = "suspended"].used = e.used
      /\ SameCredit([e EXCEPT !.status = "suspended"], e)
  BY <1>6, RowUpdates
<1> DEFINE d == DeductOrganization(t, r)
<1>9. \/ d = u \/ d = [u EXCEPT !.balance = t.balance - Cost[r]]
      \/ d = [e EXCEPT !.used = t.used + Cost[r]]
      \/ d = [e EXCEPT !.status = "suspended"]
  <2>1. \/ d = u \/ d = [u EXCEPT !.balance = t.balance - Cost[r]]
        \/ d = [u EXCEPT !.balance = b, !.used = @ + Cost[r]]
        \/ d = [u EXCEPT !.balance = b, !.status = "suspended"]
    BY <1>3 DEF DeductOrganization, u, b
  <2> QED
    BY <1>4, <2>1
<1> HIDE DEF d
<1>10. d \in Rows /\ (d.used = t.used \/ d.used = t.used + Cost[r]) /\ SameCredit(d, t)
  BY <1>3, <1>5, <1>6, <1>7, <1>8, <1>9 DEF SameCredit
<1>11. d.used - t.used \in {0, Cost[r]} /\ d.used - t.used >= 0
  BY <1>1, <1>2, <1>10
<1> QED
  BY <1>10, <1>11 DEF d

LEMMA DeductionOfIndividual ==
  ASSUME NEW q \in Rows, NEW r \in Requests
  PROVE  LET d == DeductIndividual(q, r) IN d \in Rows
<1> DEFINE n == IF q.tokens < q.quota THEN q.quota ELSE q.tokens
           u == [q EXCEPT !.tokens = n]
<1>1. Cost[r] \in Nat /\ Tokens[r] \in Nat
  BY RequestTypes
<1>2. q.balance \in Int /\ q.tokens \in Nat /\ q.quota \in Int
  BY RowFields
<1>3. n \in Nat
  BY <1>2
<1>a. q.tokens + Tokens[r] \in Nat /\ q.balance - Cost[r] \in Int
  BY <1>1, <1>2
<1>4. [q EXCEPT !.tokens = q.tokens + Tokens[r]] \in Rows
  BY <1>a, RowUpdates
<1>5. u \in Rows /\ u.balance = q.balance
  BY <1>3, RowUpdates
<1>6. [q EXCEPT !.tokens = n, !.balance = q.balance - Cost[r]]
        = [u EXCEPT !.balance = q.balance - Cost[r]]
  BY DEF Rows
<1> HIDE DEF u
<1>7. [u EXCEPT !.balance = q.balance - Cost[r]] \in Rows
  BY <1>a, <1>5, RowUpdates
<1> QED
  BY <1>4, <1>6, <1>7 DEF DeductIndividual

-----------------------------------------------------------------------------
(* Steps of one job *)

LEMMA JobFacts ==
  ASSUME IInv, NEW w \in Workers
  PROVE  /\ job[w] \in Jobs /\ JobShape(w, job[w]) /\ GrantKnown(job[w])
         /\ ~overlapped => Fresh(job[w])
         /\ job[w].pc \in Points /\ job[w].acct \in Accounts /\ job[w].row \in Rows
         /\ job[w].app \in 0..MaxApps /\ job[w].appRow \in AppRows
         /\ job[w].amount \in Nat /\ job[w].total \in Nat
<1>1. job[w] \in Jobs /\ JobShape(w, job[w]) /\ GrantKnown(job[w])
  BY DEF IInv, TypeOK, Books, JobsOK, JobOK
<1>2. ~overlapped => Fresh(job[w])
  BY DEF IInv, Books, CopiesFresh
<1>3. /\ job[w].pc \in Points /\ job[w].acct \in Accounts /\ job[w].row \in Rows
      /\ job[w].app \in 0..MaxApps /\ job[w].appRow \in AppRows
      /\ job[w].amount \in Int /\ job[w].total \in Nat
  BY <1>1 DEF Jobs
<1> QED
  BY <1>1, <1>2, <1>3 DEF JobShape

LEMMA OrgRow ==
  ASSUME IInv
  PROVE  /\ Org \in Accounts /\ rows[Org] \in Rows /\ Granted(rows[Org])
         /\ \A a \in Accounts : rows[a] \in Rows
         /\ bill \in Bills /\ bill.amount \in Nat /\ bill.total \in Nat
         /\ owed \in Nat /\ paid \in Nat /\ rows[Org].used \in Nat
<1>1. Org \in Accounts /\ rows \in [Accounts -> Rows] /\ bill \in Bills
      /\ owed \in Nat /\ paid \in Nat
  BY DEF Accounts, IInv, TypeOK
<1> QED
  BY <1>1 DEF IInv, Books, CreditNeedsGrant, Granted, Bills, Rows

(* A worker that does not save goes on with job j.                             *)
LEMMA JobStep ==
  ASSUME IInv, NEW w \in Workers, NEW j \in Jobs, job' = [job EXCEPT ![w] = j],
         UNCHANGED <<rows, bill, owed, paid, overlapped>>, granted => granted',
         JobShape(w, j), GrantKnown(j) \/ granted', ~overlapped => Fresh(j),
         job[w].pc # "reset", j.pc # "reset"
  PROVE  Books' /\ job' \in [Workers -> Jobs]
<1>1. job \in [Workers -> Jobs]
  BY DEF IInv, TypeOK
<1>2. job'[w] = j /\ \A v \in Workers : v # w => job'[v] = job[v]
  BY <1>1
<1>3. ASSUME NEW v \in Workers PROVE JobOK(v, job[v])
  BY <1>3 DEF IInv, Books, JobsOK
<1>4. ASSUME NEW v \in Workers PROVE JobOK(v, job[v])'
  <2>1. CASE v = w
    BY <1>2, <2>1 DEF JobOK, JobShape, GrantKnown, Granted
  <2>2. CASE v # w
    BY <1>2, <1>3, <2>2 DEF JobOK, JobShape, GrantKnown, Granted
  <2> QED
    BY <2>1, <2>2
<1>5. JobsOK'
  BY <1>4 DEF JobsOK, JobOK, JobShape, GrantKnown
<1>6. CopiesFresh'
  <2> SUFFICES ASSUME ~overlapped', NEW v \in Workers PROVE Fresh(job[v])'
    BY DEF CopiesFresh
  <2>1. Fresh(job[v]) /\ Fresh(j)
    BY DEF IInv, Books, CopiesFresh
  <2> QED
    BY <1>2, <2>1 DEF Fresh, HoldsRow
<1>7. \A c \in Callers : At(c, "reset")' <=> At(c, "reset")
  BY <1>2 DEF At, Workers
<1>8. BillCovered' /\ NotForgiven' /\ CreditNeedsGrant'
  BY DEF IInv, Books, BillCovered, NotForgiven, CreditNeedsGrant
<1>9. CreditAccounted'
  BY <1>7 DEF IInv, Books, CreditAccounted
<1> QED
  BY <1>1, <1>5, <1>6, <1>8, <1>9 DEF Books

(* What one job holds does not tell others apart.                              *)
LEMMA OneJob ==
  ASSUME IInv, NEW w \in Workers, NEW j \in Jobs, job' = [job EXCEPT ![w] = j]
  PROVE  /\ job' \in [Workers -> Jobs] /\ job'[w] = j
         /\ \A v \in Workers : v # w => job'[v] = job[v]
BY DEF IInv, TypeOK

(* A worker saves its copy and goes on with job j, which holds none; what a    *)
(* request charged is owed.                                                    *)
LEMMA SaveStep ==
  ASSUME IInv, NEW w \in Workers, NEW j \in Jobs, job' = [job EXCEPT ![w] = j], Store(w),
         job[w].pc \in {"save", "reset", "saveCharge", "suspend"}, j.pc \in {"idle", "suspend"},
         JobShape(w, j), GrantKnown(j), UNCHANGED <<bill, paid, granted>>,
         owed' = owed + (IF job[w].pc = "save" THEN job[w].amount ELSE 0)
  PROVE  /\ Books' /\ job' \in [Workers -> Jobs] /\ rows' \in [Accounts -> Rows]
         /\ owed' \in Nat /\ overlapped' \in BOOLEAN
<1> DEFINE a == job[w].acct
<1>1. /\ job' \in [Workers -> Jobs] /\ job'[w] = j
      /\ \A v \in Workers : v # w => job'[v] = job[v]
  BY OneJob
<1>2. /\ rows' = [rows EXCEPT ![a] = job[w].row]
      /\ overlapped' <=> overlapped \/ (a = Org /\ \E v \in Workers \ {w} : Holds(v))
  BY DEF Store
<1>3. /\ rows \in [Accounts -> Rows] /\ a \in Accounts /\ job[w].row \in Rows
      /\ job[w].amount \in Nat /\ owed \in Nat /\ paid \in Nat /\ overlapped \in BOOLEAN
      /\ bill.amount \in Nat /\ rows[Org].used \in Nat /\ Org \in Accounts
  BY JobFacts, OrgRow DEF IInv, TypeOK
<1>4. rows' \in [Accounts -> Rows] /\ owed' \in Nat
  BY <1>2, <1>3
<1>5. overlapped' \in BOOLEAN
  BY Zenon DEF Store
<1>6. JobShape(w, job[w]) /\ GrantKnown(job[w]) /\ (~overlapped => Fresh(job[w]))
  BY JobFacts
<1>7. ASSUME NEW v \in Workers PROVE JobOK(v, job[v])'
  <2>1. CASE v = w
    BY <1>1, <2>1 DEF JobOK, JobShape, GrantKnown, Granted
  <2>2. CASE v # w
    <3>1. JobOK(v, job[v])
      BY DEF IInv, Books, JobsOK
    <3> QED
      BY <1>1, <2>2, <3>1 DEF JobOK, JobShape, GrantKnown, Granted
  <2> QED
    BY <2>1, <2>2
<1>8. CreditNeedsGrant'
  <2>1. CASE a = Org
    <3>1. rows'[Org] = job[w].row
      BY <1>2, <1>3, <2>1
    <3> QED
      BY <1>6, <2>1, <3>1 DEF CreditNeedsGrant, GrantKnown, Granted
  <2>2. CASE a # Org
    <3>1. rows'[Org] = rows[Org]
      BY <1>2, <1>3, <2>2
    <3> QED
      BY <3>1 DEF CreditNeedsGrant, IInv, Books
  <2> QED
    BY <2>1, <2>2
<1>9. BillCovered' /\ NotForgiven'
  BY DEF IInv, Books, BillCovered, NotForgiven
<1>10. ASSUME a # Org PROVE CopiesFresh' /\ CreditAccounted'
  <2>1. rows'[Org] = rows[Org] /\ (overlapped' <=> overlapped)
    BY <1>2, <1>3, <1>10
  <2>2. owed' = owed /\ job[w].pc # "reset"
    <3>1. job[w].pc = "save" => job[w].amount = 0
      BY <1>6, <1>10 DEF JobShape
    <3>2. job[w].pc # "reset"
      BY <1>6, <1>10 DEF JobShape
    <3> QED
      BY <1>3, <3>1, <3>2
  <2>3. CopiesFresh'
    <3> SUFFICES ASSUME ~overlapped', NEW v \in Workers PROVE Fresh(job[v])'
      BY DEF CopiesFresh
    <3>1. v # w => Fresh(job[v])
      BY <2>1 DEF IInv, Books, CopiesFresh
    <3> QED
      BY <1>1, <2>1, <3>1 DEF Fresh, HoldsRow
  <2>4. \A c \in Callers : At(c, "reset")' <=> At(c, "reset")
    BY <1>1, <2>2 DEF At, Workers
  <2>5. CreditAccounted'
    BY <2>1, <2>2, <2>4 DEF IInv, Books, CreditAccounted
  <2> QED
    BY <2>3, <2>5
<1>11. ASSUME a = Org PROVE CopiesFresh' /\ CreditAccounted'
  <2> SUFFICES ASSUME ~overlapped' PROVE CopiesFresh' /\ CreditAccounted'
    BY DEF CopiesFresh, CreditAccounted
  <2>1. ~overlapped /\ \A v \in Workers : v # w => ~Holds(v)
    BY <1>2, <1>11
  <2>2. CopiesFresh'
    BY <1>1, <2>1 DEF CopiesFresh, Fresh, HoldsRow, Holds
  <2>3. rows'[Org] = job[w].row /\ Fresh(job[w])
    BY <1>2, <1>3, <1>6, <1>11, <2>1
  <2>4. \A c \in Callers : c # w => job[c].pc # "reset"
    <3> SUFFICES ASSUME NEW c \in Callers, c # w, job[c].pc = "reset" PROVE FALSE
      OBVIOUS
    <3>1. c \in Workers /\ JobShape(c, job[c])
      BY JobFacts DEF Workers
    <3> QED
      BY <2>1, <3>1 DEF JobShape, Holds
  <2>5. \A c \in Callers : ~At(c, "reset")'
    BY <1>1, <2>4 DEF At, Workers
  <2>6. job[w].pc \in {"save", "reset"}
    BY <1>6, <1>11 DEF JobShape
  <2>7. CASE job[w].pc = "save"
    <3>1. job[w].row.used = rows[Org].used + job[w].amount
      BY <1>11, <2>3, <2>7 DEF Fresh, HoldsRow
    <3>2. \A c \in Callers : ~At(c, "reset")
      BY <2>4, <2>7 DEF At
    <3>3. rows[Org].used + bill.amount = owed
      BY <2>1, <3>2 DEF IInv, Books, CreditAccounted
    <3> QED
      BY <1>3, <2>2, <2>3, <2>5, <2>7, <3>1, <3>3 DEF CreditAccounted
  <2>8. CASE job[w].pc = "reset"
    <3>1. job[w].row.used = 0 /\ bill.amount = rows[Org].used
      BY <1>11, <2>3, <2>8 DEF Fresh, HoldsRow
    <3>2. \E c \in Callers : At(c, "reset")
      BY <1>6, <2>8 DEF JobShape, Workers, At
    <3>3. rows[Org].used + 0 = owed
      BY <2>1, <3>2 DEF IInv, Books, CreditAccounted
    <3> QED
      BY <1>3, <2>2, <2>3, <2>5, <2>8, <3>1, <3>3 DEF CreditAccounted
  <2> QED
    BY <2>6, <2>7, <2>8
<1>12. JobsOK'
  BY <1>7 DEF JobsOK
<1> QED
  BY <1>1, <1>4, <1>5, <1>8, <1>9, <1>10, <1>11, <1>12 DEF Books

(* What a job keeps through a change of its position, of what it holds of a    *)
(* row, or of an application.                                                  *)
SameRow(k, j) == k.acct = j.acct /\ k.row = j.row
SameApp(k, j) == k.app = j.app /\ k.appRow = j.appRow

LEMMA JobFields ==
  ASSUME NEW j \in Jobs
  PROVE  /\ j.pc \in Points /\ j.acct \in Accounts /\ j.row \in Rows
         /\ j.app \in 0..MaxApps /\ j.appRow \in AppRows /\ j.amount \in Int /\ j.total \in Nat
BY DEF Jobs

LEMMA JobChanges ==
  ASSUME NEW j \in Jobs
  PROVE  /\ \A pc \in Points : LET k == [j EXCEPT !.pc = pc] IN
              k \in Jobs /\ k.pc = pc /\ SameRow(k, j) /\ SameApp(k, j)
                /\ k.amount = j.amount /\ k.total = j.total
         /\ \A a \in Accounts : LET k == [j EXCEPT !.acct = a] IN
              k \in Jobs /\ k.pc = j.pc /\ k.acct = a /\ k.row = j.row /\ k.amount = j.amount
         /\ \A row \in Rows : LET k == [j EXCEPT !.row = row] IN
              k \in Jobs /\ k.pc = j.pc /\ k.acct = j.acct /\ k.row = row /\ k.amount = j.amount
         /\ \A b \in 0..MaxApps : LET k == [j EXCEPT !.app = b] IN
              k \in Jobs /\ k.pc = j.pc /\ SameRow(k, j)
         /\ \A r \in AppRows : LET k == [j EXCEPT !.appRow = r] IN
              k \in Jobs /\ k.pc = j.pc /\ SameRow(k, j)
         /\ \A n \in Int : LET k == [j EXCEPT !.amount = n] IN
              k \in Jobs /\ k.pc = j.pc /\ SameRow(k, j) /\ k.amount = n
         /\ \A t \in Nat : LET k == [j EXCEPT !.total = t] IN
              k \in Jobs /\ k.pc = j.pc /\ SameRow(k, j) /\ k.amount = j.amount /\ k.total = t
BY DEF Jobs, SameRow, SameApp

Reading(j, pc, a, row, n) == [j EXCEPT !.pc = pc, !.acct = a, !.row = row, !.amount = n]
Turning(pc, b, r, n) == [NoJob EXCEPT !.pc = pc, !.app = b, !.appRow = r, !.amount = n]

LEMMA JobReads ==
  ASSUME NEW j \in Jobs, NEW pc \in Points, NEW a \in Accounts, NEW row \in Rows, NEW n \in Int
  PROVE  LET k == Reading(j, pc, a, row, n) IN
         k \in Jobs /\ k.pc = pc /\ k.acct = a /\ k.row = row /\ k.amount = n
<1> DEFINE k1 == [j EXCEPT !.pc = pc]
           k2 == [k1 EXCEPT !.acct = a]
           k3 == [k2 EXCEPT !.row = row]
<1>1. k1 \in Jobs /\ k1.pc = pc
  BY JobChanges
<1> HIDE DEF k1
<1>2. k2 \in Jobs /\ k2.pc = pc /\ k2.acct = a
  BY <1>1, JobChanges
<1> HIDE DEF k2
<1>3. k3 \in Jobs /\ k3.pc = pc /\ k3.acct = a /\ k3.row = row
  BY <1>2, JobChanges
<1> HIDE DEF k3
<1>4. LET k == [k3 EXCEPT !.amount = n] IN
      k \in Jobs /\ k.pc = pc /\ k.acct = a /\ k.row = row /\ k.amount = n
  BY <1>3, JobChanges DEF SameRow
<1> QED
  BY <1>4 DEF k1, k2, k3, Reading

LEMMA JobTurns ==
  ASSUME NEW pc \in Points, NEW b \in 0..MaxApps, NEW r \in AppRows, NEW n \in Nat
  PROVE  LET k == Turning(pc, b, r, n) IN
         k \in Jobs /\ k.pc = pc /\ k.acct = Org /\ k.row = NoRow /\ k.amount = n
<1> DEFINE k1 == [NoJob EXCEPT !.pc = pc]
           k2 == [k1 EXCEPT !.app = b]
           k3 == [k2 EXCEPT !.appRow = r]
<1>1. k1 \in Jobs /\ k1.pc = pc /\ k1.acct = Org /\ k1.row = NoRow
  BY JobChanges, NoJobType DEF SameRow
<1> HIDE DEF k1
<1>2. k2 \in Jobs /\ k2.pc = pc /\ k2.acct = Org /\ k2.row = NoRow
  BY <1>1, JobChanges DEF SameRow
<1> HIDE DEF k2
<1>3. k3 \in Jobs /\ k3.pc = pc /\ k3.acct = Org /\ k3.row = NoRow
  BY <1>2, JobChanges DEF SameRow
<1> HIDE DEF k3
<1>4. LET k == [k3 EXCEPT !.amount = n] IN
      k \in Jobs /\ k.pc = pc /\ k.acct = Org /\ k.row = NoRow /\ k.amount = n
  BY <1>3, JobChanges DEF SameRow
<1> QED
  BY <1>4 DEF k1, k2, k3, Turning

(* A caller reads the row of an account, and is going to save a copy of it in  *)
(* which the credit used is the same.                                          *)
LEMMA ReadStep ==
  ASSUME IInv, NEW c \in Callers, NEW pc \in {"save", "insert"}, NEW a \in Accounts,
         NEW row \in Rows, Read(c, pc, a, row, 0), job[c].pc # "reset",
         pc = "insert" => a = Org,
         a = Org => row.used = rows[Org].used /\ Granted(row),
         UNCHANGED <<rows, bill, owed, paid, granted, overlapped>>
  PROVE  Books' /\ job' \in [Workers -> Jobs]
<1> DEFINE j == Reading(job[c], pc, a, row, 0)
<1>1. c \in Workers /\ c \notin Requests
  BY CreditAssumption DEF Workers
<1>2. job[c] \in Jobs
  BY <1>1, JobFacts
<1>3. j \in Jobs /\ j.pc = pc /\ j.acct = a /\ j.row = row /\ j.amount = 0
  <2>1. pc \in Points /\ 0 \in Int
    BY DEF Points
  <2> QED
    BY <1>2, <2>1, JobReads
<1>4. job' = [job EXCEPT ![c] = j]
  BY DEF Read, Reading
<1> HIDE DEF j
<1>5. JobShape(c, j)
  BY <1>1, <1>3 DEF JobShape
<1>6. GrantKnown(j) /\ j.pc # "reset"
  BY <1>3 DEF GrantKnown
<1>7. Fresh(j)
  BY <1>3, OrgRow DEF Fresh, HoldsRow
<1> QED
  BY <1>1, <1>3, <1>4, <1>5, <1>6, <1>7, JobStep

(* A caller turns to an application.                                           *)
LEMMA ForAppStep ==
  ASSUME IInv, NEW c \in Callers, NEW pc \in {"saveApp", "delete", "approve", "reject"},
         NEW a \in Apps, NEW n \in Nat, ForApp(c, pc, a, n), job[c].pc # "reset",
         UNCHANGED <<rows, bill, owed, paid, granted, overlapped>>
  PROVE  Books' /\ job' \in [Workers -> Jobs]
<1> DEFINE j == Turning(pc, a, apps[a], n)
<1>1. c \in Workers /\ c \notin Requests
  BY CreditAssumption DEF Workers
<1>2. apps[a] \in AppRows /\ a \in 0..MaxApps
  BY CreditAssumption DEF IInv, TypeOK, Apps
<1>3. j \in Jobs /\ j.pc = pc /\ j.acct = Org /\ j.row = NoRow /\ j.amount = n
  <2>1. pc \in Points
    BY DEF Points
  <2> QED
    BY <1>2, <2>1, JobTurns
<1>4. job' = [job EXCEPT ![c] = j]
  BY DEF ForApp, Turning
<1> HIDE DEF j
<1>5. JobShape(c, j)
  BY <1>1, <1>3 DEF JobShape
<1>6. GrantKnown(j) /\ j.pc # "reset"
  BY <1>3, NoJobType DEF GrantKnown, Granted
<1>7. Fresh(j)
  BY <1>3 DEF Fresh, HoldsRow
<1> QED
  BY <1>1, <1>3, <1>4, <1>5, <1>6, <1>7, JobStep

(* A caller goes on to read the tenant, or to be told whether to settle.       *)
LEMMA PcStep ==
  ASSUME IInv, NEW c \in Callers, NEW pc \in {"trigger", "overdue", "clear", "refuse", "adopt"},
         job' = [job EXCEPT ![c].pc = pc], job[c].pc # "reset",
         granted => granted', pc = "adopt" => granted',
         UNCHANGED <<rows, bill, owed, paid, overlapped>>
  PROVE  Books' /\ job' \in [Workers -> Jobs]
<1> DEFINE j == [job[c] EXCEPT !.pc = pc]
<1>1. c \in Workers /\ c \notin Requests
  BY CreditAssumption DEF Workers
<1>2. /\ job[c] \in Jobs /\ JobShape(c, job[c]) /\ GrantKnown(job[c])
  BY <1>1, JobFacts
<1>3. j \in Jobs /\ j.pc = pc /\ j.acct = job[c].acct /\ j.row = job[c].row
      /\ j.amount = job[c].amount
  BY <1>2 DEF Jobs, Points
<1>4. job' = [job EXCEPT ![c] = j]
  OBVIOUS
<1> HIDE DEF j
<1>5. JobShape(c, j) /\ (GrantKnown(j) \/ granted') /\ Fresh(j)
  BY <1>1, <1>2, <1>3 DEF JobShape, GrantKnown, Fresh, HoldsRow
<1>6. j.pc # "reset"
  BY <1>3
<1> QED
  BY <1>1, <1>3, <1>4, <1>5, <1>6, JobStep

(* A worker gives up, or is done.                                              *)
LEMMA NoJobOK ==
  ASSUME NEW w \in Workers
  PROVE  JobShape(w, NoJob) /\ GrantKnown(NoJob) /\ Fresh(NoJob)
BY NoJobType DEF JobShape, GrantKnown, Granted, Fresh, HoldsRow

LEMMA DoneStep ==
  ASSUME IInv, NEW w \in Workers, Done(w), job[w].pc # "reset",
         UNCHANGED <<rows, bill, owed, paid, granted, overlapped>>
  PROVE  Books' /\ job' \in [Workers -> Jobs]
BY NoJobType, NoJobOK, JobStep DEF Done

(* Nothing the books are about changes.                                        *)
LEMMA BooksFrame ==
  ASSUME Books, UNCHANGED <<rows, bill, job, owed, paid, granted, overlapped>>
  PROVE  Books'
BY DEF Books, JobsOK, JobOK, JobShape, GrantKnown, Granted, CopiesFresh, Fresh, HoldsRow,
       BillCovered, CreditAccounted, NotForgiven, CreditNeedsGrant, At

-----------------------------------------------------------------------------
(* Requests *)

LEMMA ChecksStep ==
  ASSUME IInv, NEW r \in Requests,
         \/ CheckMember(r) \/ CheckOrganization(r) \/ \E u \in Users : CheckIndividual(r, u)
  PROVE  IInv'
<1>1. UNCHANGED <<rows, member, apps, bill, job, calls, owed, paid, granted, overlapped>>
  BY DEF CheckMember, CheckOrganization, CheckIndividual, ghosts
<1>2. \E phase \in Phases : usage' = [usage EXCEPT ![r] = phase]
  BY DEF CheckMember, CheckOrganization, CheckIndividual, Becomes, Phases
<1>3. payer' = payer \/ \E a \in Accounts : payer' = [payer EXCEPT ![r] = a]
  BY DEF CheckMember, CheckOrganization, CheckIndividual, Accounts
<1>4. usage' \in [Requests -> Phases] /\ payer' \in [Requests -> Accounts]
  BY <1>2, <1>3 DEF IInv, TypeOK
<1>5. TypeOK'
  BY <1>1, <1>4 DEF IInv, TypeOK
<1> QED
  BY <1>1, <1>5, BooksFrame DEF IInv

LEMMA IncrementsStep ==
  ASSUME IInv, NEW r \in Requests, IncrementTokensUsed(r) \/ IncrementCostUsed(r)
  PROVE  IInv'
<1>1. UNCHANGED <<rows, apps, bill, job, calls, payer, owed, paid, granted, overlapped>>
  BY DEF IncrementTokensUsed, IncrementCostUsed, ghosts
<1>2. \E phase \in Phases : usage' = [usage EXCEPT ![r] = phase]
  BY DEF IncrementTokensUsed, IncrementCostUsed, Becomes, Phases
<1>3. member' \in MemberRows
  <2>1. member \in MemberRows /\ Tokens[r] \in Nat /\ Cost[r] \in Nat
    BY RequestTypes DEF IInv, TypeOK
  <2>2. [member EXCEPT !.tokens = @ + Tokens[r]] \in MemberRows
    BY <2>1 DEF MemberRows
  <2>3. [member EXCEPT !.cost = @ + Cost[r]] \in MemberRows
    BY <2>1 DEF MemberRows
  <2> QED
    BY <2>1, <2>2, <2>3 DEF IncrementTokensUsed, IncrementCostUsed
<1>4. usage' \in [Requests -> Phases]
  BY <1>2 DEF IInv, TypeOK
<1>5. TypeOK'
  BY <1>1, <1>3, <1>4 DEF IInv, TypeOK
<1> QED
  BY <1>1, <1>5, BooksFrame DEF IInv

(* A request holds a copy in which its cost is taken out of the account.       *)
LEMMA ReadsStep ==
  ASSUME IInv, NEW r \in Requests, NEW pc \in {"save", "saveCharge"}, NEW a \in Accounts,
         NEW row \in Rows, NEW n \in Nat, Read(r, pc, a, row, n),
         pc = "saveCharge" => a # Org, a # Org => n = 0,
         a = Org => row.used = rows[Org].used + n /\ Granted(row),
         UNCHANGED <<rows, bill, owed, paid, granted, overlapped>>
  PROVE  Books' /\ job' \in [Workers -> Jobs]
<1> DEFINE j == Reading(job[r], pc, a, row, n)
<1>1. r \in Workers /\ r \notin Callers
  BY CreditAssumption DEF Workers
<1>2. job[r] \in Jobs /\ job[r].pc # "reset"
  BY <1>1, JobFacts DEF JobShape
<1>3. j \in Jobs /\ j.pc = pc /\ j.acct = a /\ j.row = row /\ j.amount = n
  <2>1. pc \in Points /\ n \in Int
    BY DEF Points
  <2> QED
    BY <1>2, <2>1, JobReads
<1>4. job' = [job EXCEPT ![r] = j]
  BY DEF Read, Reading
<1> HIDE DEF j
<1>5. JobShape(r, j)
  BY <1>1, <1>3 DEF JobShape
<1>6. GrantKnown(j) /\ j.pc # "reset"
  BY <1>3 DEF GrantKnown
<1>7. Fresh(j)
  BY <1>3 DEF Fresh, HoldsRow
<1> QED
  BY <1>1, <1>2, <1>3, <1>4, <1>5, <1>6, <1>7, JobStep

LEMMA ReadOrganizationStep ==
  ASSUME IInv, NEW r \in Requests, ReadOrganization(r)
  PROVE  IInv'
<1> DEFINE t == DeductOrganization(rows[Org], r)
           n == t.used - rows[Org].used
<1>1. /\ rows[Org] \in Rows /\ rows[Org].used \in Nat /\ Org \in Accounts /\ Granted(rows[Org])
  BY OrgRow
<1>2. /\ t \in Rows /\ n \in {0, Cost[r]} /\ n >= 0 /\ SameCredit(t, rows[Org])
      /\ t.used \in Nat /\ Cost[r] \in Nat
  BY <1>1, DeductionOfOrganization, RowFields, RequestTypes
<1>3. /\ usage' = [usage EXCEPT ![r] = "saving"] /\ Read(r, "save", Org, t, n)
      /\ UNCHANGED <<payer, rows, member, apps, bill, calls, owed, paid, granted, overlapped>>
  BY DEF ReadOrganization, ghosts, Becomes
<1> HIDE DEF t
<1>4. n \in Nat /\ t.used = rows[Org].used + n
  BY <1>1, <1>2
<1>5. Granted(t)
  BY <1>1, <1>2 DEF Granted, SameCredit
<1> HIDE DEF n
<1>6. Books' /\ job' \in [Workers -> Jobs]
  BY <1>1, <1>2, <1>3, <1>4, <1>5, ReadsStep
<1>7. TypeOK'
  BY <1>3, <1>6 DEF IInv, TypeOK, Phases
<1> QED
  BY <1>6, <1>7 DEF IInv

LEMMA ReadIndividualStep ==
  ASSUME IInv, NEW r \in Requests, ReadIndividual(r)
  PROVE  IInv'
<1> DEFINE a == payer[r]
           q == DeductIndividual(rows[a], r)
           pc == IF FitsTokens(rows[a], r) THEN "save" ELSE "saveCharge"
<1>1. a \in Accounts /\ a # Org /\ rows[a] \in Rows
  BY OrgRow DEF ReadIndividual, IInv, TypeOK
<1>2. q \in Rows
  BY <1>1, DeductionOfIndividual
<1>3. /\ usage' = [usage EXCEPT ![r] = "saving"] /\ Read(r, pc, a, q, 0)
      /\ UNCHANGED <<payer, rows, member, apps, bill, calls, owed, paid, granted, overlapped>>
  BY DEF ReadIndividual, ghosts, Becomes
<1>4. pc \in {"save", "saveCharge"} /\ 0 \in Nat
  OBVIOUS
<1> HIDE DEF a, q, pc
<1>5. Books' /\ job' \in [Workers -> Jobs]
  BY <1>1, <1>2, <1>3, <1>4, ReadsStep
<1>6. TypeOK'
  BY <1>3, <1>5 DEF IInv, TypeOK, Phases
<1> QED
  BY <1>5, <1>6 DEF IInv

LEMMA SaveUsageStep ==
  ASSUME IInv, NEW r \in Requests, SaveUsage(r)
  PROVE  IInv'
<1>1. r \in Workers /\ job[r].pc = "save" /\ job[r].pc # "reset"
  BY DEF SaveUsage, At, Workers
<1>2. UNCHANGED <<payer, member, apps, bill, calls, paid, granted>> /\ Done(r)
  BY DEF SaveUsage
<1>3. \E phase \in Phases : usage' = [usage EXCEPT ![r] = phase]
  BY DEF SaveUsage, Becomes, Phases
<1>4. usage' \in [Requests -> Phases]
  BY <1>3 DEF IInv, TypeOK
<1>5. CASE Store(r) /\ owed' = owed + job[r].amount
  <2>1. job' = [job EXCEPT ![r] = NoJob] /\ NoJob \in Jobs /\ NoJob.pc \in {"idle", "suspend"}
    BY <1>2, NoJobType DEF Done
  <2>2. /\ Books' /\ job' \in [Workers -> Jobs] /\ rows' \in [Accounts -> Rows]
        /\ owed' \in Nat /\ overlapped' \in BOOLEAN
    BY <1>1, <1>2, <1>5, <2>1, NoJobOK, SaveStep
  <2>3. TypeOK'
    BY <1>2, <1>4, <2>2 DEF IInv, TypeOK
  <2> QED
    BY <2>2, <2>3 DEF IInv
<1>6. CASE UNCHANGED <<rows, overlapped, owed>>
  <2>1. Books' /\ job' \in [Workers -> Jobs]
    BY <1>1, <1>2, <1>6, DoneStep
  <2>2. TypeOK'
    BY <1>2, <1>4, <1>6, <2>1 DEF IInv, TypeOK
  <2> QED
    BY <2>1, <2>2 DEF IInv
<1> QED
  BY <1>5, <1>6 DEF SaveUsage

(* The copy of an individual that is saved a second time.                      *)
LEMMA SecondSave ==
  ASSUME IInv, NEW r \in Requests, job[r].pc = "saveCharge"
  PROVE  LET j == [job[r] EXCEPT !.pc = "suspend", !.row.status = "suspended"] IN
         j \in Jobs /\ j.pc = "suspend" /\ JobShape(r, j) /\ GrantKnown(j)
<1> DEFINE k1 == [job[r] EXCEPT !.pc = "suspend"]
           row == [job[r].row EXCEPT !.status = "suspended"]
           j == [k1 EXCEPT !.row = row]
<1>1. r \in Workers /\ r \notin Callers
  BY CreditAssumption DEF Workers
<1>2. /\ job[r] \in Jobs /\ job[r].row \in Rows /\ JobShape(r, job[r])
      /\ job[r].amount \in Nat /\ job[r].acct # Org
  BY <1>1, JobFacts DEF JobShape
<1>3. row \in Rows
  BY <1>2, RowUpdates
<1>4. k1 \in Jobs /\ k1.pc = "suspend" /\ k1.acct = job[r].acct /\ k1.amount = job[r].amount
      /\ k1.row = job[r].row
  <2>1. "suspend" \in Points
    BY DEF Points
  <2> QED
    BY <1>2, <2>1, JobChanges DEF SameRow
<1>5. [job[r] EXCEPT !.pc = "suspend", !.row.status = "suspended"] = j
  BY <1>2 DEF Jobs
<1> HIDE DEF k1, row
<1>6. j \in Jobs /\ j.pc = "suspend" /\ j.acct = job[r].acct /\ j.amount = job[r].amount
  BY <1>3, <1>4, JobChanges
<1> HIDE DEF j
<1>7. JobShape(r, j) /\ GrantKnown(j)
  BY <1>1, <1>2, <1>6 DEF JobShape, GrantKnown
<1> QED
  BY <1>5, <1>6, <1>7

LEMMA SaveChargeStep ==
  ASSUME IInv, NEW r \in Requests, SaveCharge(r)
  PROVE  IInv'
<1>1. r \in Workers /\ job[r].pc = "saveCharge" /\ job[r].pc # "reset"
  BY DEF SaveCharge, At, Workers
<1>2. UNCHANGED <<payer, member, apps, bill, calls, owed, paid, granted>>
  BY DEF SaveCharge, ghosts
<1>3. usage' = usage \/ \E phase \in Phases : usage' = [usage EXCEPT ![r] = phase]
  BY DEF SaveCharge, Becomes, Phases
<1>4. usage' \in [Requests -> Phases]
  BY <1>3 DEF IInv, TypeOK
<1>5. ASSUME Store(r), NEW j \in Jobs, job' = [job EXCEPT ![r] = j], j.pc \in {"idle", "suspend"},
             JobShape(r, j), GrantKnown(j)
      PROVE  IInv'
  <2>1. owed' = owed + (IF job[r].pc = "save" THEN job[r].amount ELSE 0)
    BY <1>1, <1>2 DEF IInv, TypeOK
  <2>2. /\ Books' /\ job' \in [Workers -> Jobs] /\ rows' \in [Accounts -> Rows]
        /\ owed' \in Nat /\ overlapped' \in BOOLEAN
    BY <1>1, <1>2, <1>5, <2>1, SaveStep
  <2>3. TypeOK'
    BY <1>2, <1>4, <2>2 DEF IInv, TypeOK
  <2> QED
    BY <2>2, <2>3 DEF IInv
<1>6. ASSUME Store(r), Done(r) PROVE IInv'
  BY <1>1, <1>5, <1>6, NoJobType, NoJobOK DEF Done
<1>7. ASSUME Store(r),
             job' = [job EXCEPT ![r].pc = "suspend", ![r].row.status = "suspended"]
      PROVE  IInv'
  <2> DEFINE j == [job[r] EXCEPT !.pc = "suspend", !.row.status = "suspended"]
  <2>1. job' = [job EXCEPT ![r] = j]
    BY <1>1, <1>7 DEF IInv, TypeOK
  <2>2. j \in Jobs /\ j.pc \in {"idle", "suspend"} /\ JobShape(r, j) /\ GrantKnown(j)
    BY <1>1, SecondSave
  <2> HIDE DEF j
  <2> QED
    BY <1>5, <1>7, <2>1, <2>2
<1>8. ASSUME Done(r), UNCHANGED <<rows, overlapped>> PROVE IInv'
  <2>1. Books' /\ job' \in [Workers -> Jobs]
    BY <1>1, <1>2, <1>8, DoneStep
  <2>2. TypeOK'
    BY <1>2, <1>4, <1>8, <2>1 DEF IInv, TypeOK
  <2> QED
    BY <2>1, <2>2 DEF IInv
<1> QED
  BY <1>6, <1>7, <1>8 DEF SaveCharge, Fail

LEMMA SaveSuspensionStep ==
  ASSUME IInv, NEW r \in Requests, SaveSuspension(r)
  PROVE  IInv'
<1>1. r \in Workers /\ job[r].pc = "suspend" /\ job[r].pc # "reset" /\ job[r].pc # "save"
  BY DEF SaveSuspension, At, Workers
<1>2. UNCHANGED <<payer, member, apps, bill, calls, owed, paid, granted>> /\ Done(r)
  BY DEF SaveSuspension, ghosts
<1>3. usage' \in [Requests -> Phases]
  BY DEF SaveSuspension, Becomes, Phases, IInv, TypeOK
<1>4. ASSUME Store(r) PROVE IInv'
  <2>1. job' = [job EXCEPT ![r] = NoJob] /\ NoJob \in Jobs /\ NoJob.pc \in {"idle", "suspend"}
    BY <1>2, NoJobType DEF Done
  <2>2. owed' = owed + (IF job[r].pc = "save" THEN job[r].amount ELSE 0)
    BY <1>1, <1>2 DEF IInv, TypeOK
  <2>3. /\ Books' /\ job' \in [Workers -> Jobs] /\ rows' \in [Accounts -> Rows]
        /\ owed' \in Nat /\ overlapped' \in BOOLEAN
    BY <1>1, <1>2, <1>4, <2>1, <2>2, NoJobOK, SaveStep
  <2>4. TypeOK'
    BY <1>2, <1>3, <2>3 DEF IInv, TypeOK
  <2> QED
    BY <2>3, <2>4 DEF IInv
<1>5. ASSUME UNCHANGED <<rows, overlapped>> PROVE IInv'
  <2>1. Books' /\ job' \in [Workers -> Jobs]
    BY <1>1, <1>2, <1>5, DoneStep
  <2>2. TypeOK'
    BY <1>2, <1>3, <1>5, <2>1 DEF IInv, TypeOK
  <2> QED
    BY <2>1, <2>2 DEF IInv
<1> QED
  BY <1>4, <1>5 DEF SaveSuspension

-----------------------------------------------------------------------------
(* Operations of callers: what they change of a row *)

LEMMA LimitCopy ==
  ASSUME NEW t \in Rows, NEW n \in Nat
  PROVE  LET d == [t EXCEPT !.limit = n] IN
         d \in Rows /\ d.used = t.used /\ d.credit = t.credit /\ d.limit = n
BY DEF Rows

LEMMA CreditCopy ==
  ASSUME NEW t \in Rows, NEW s \in {"none", "pending", "approved", "rejected"}
  PROVE  LET d == [t EXCEPT !.credit = s] IN
         d \in Rows /\ d.used = t.used /\ d.credit = s /\ d.limit = t.limit
BY DEF Rows

LEMMA CycleCopy ==
  ASSUME NEW t \in Rows, NEW y \in AllCycles
  PROVE  LET d == [t EXCEPT !.cycle = y] IN d \in Rows /\ d.used = t.used
BY DEF Rows

LEMMA PaymentOfRow ==
  ASSUME NEW t \in Rows, NEW n \in Amounts
  PROVE  LET d == [t EXCEPT !.balance = @ + n,
                            !.status = IF @ = "pending_payment" THEN "active" ELSE @] IN
         d \in Rows /\ d.used = t.used /\ SameCredit(d, t)
<1>1. t.balance + n \in Int
  BY CreditAssumption, RowFields
<1> DEFINE u == [t EXCEPT !.balance = t.balance + n]
           d == [u EXCEPT !.status = "active"]
<1>2. u \in Rows /\ u.used = t.used /\ SameCredit(u, t) /\ u.status = t.status
  BY <1>1 DEF Rows, SameCredit
<1>3. [t EXCEPT !.balance = @ + n, !.status = IF @ = "pending_payment" THEN "active" ELSE @]
        = IF t.status = "pending_payment" THEN d ELSE u
  BY DEF Rows
<1> HIDE DEF u
<1>4. d \in Rows /\ d.used = t.used /\ SameCredit(d, t)
  BY <1>2, RowUpdates DEF SameCredit
<1> QED
  BY <1>2, <1>3, <1>4

(* What the operations of callers leave alone.                                 *)
LEMMA CallerTypes ==
  ASSUME IInv, Books', job' \in [Workers -> Jobs], rows' \in [Accounts -> Rows],
         UNCHANGED <<member, requests>>, apps' \in [Apps -> AppRows], bill' \in Bills,
         calls' = calls \/ (calls' = calls + 1 /\ calls < MaxCalls),
         owed' \in Nat, paid' \in Nat, granted' \in BOOLEAN, overlapped' \in BOOLEAN
  PROVE  IInv'
<1>1. calls' \in 0..MaxCalls
  BY CreditAssumption DEF IInv, TypeOK
<1>2. TypeOK'
  BY <1>1 DEF IInv, TypeOK, requests
<1> QED
  BY <1>2 DEF IInv

(* An operation that only reads the tenant, an application or the bill.        *)
LEMMA BeginTypes ==
  ASSUME IInv, Books', job' \in [Workers -> Jobs],
         UNCHANGED <<rows, member, apps, bill, requests, ghosts, overlapped>>,
         calls' = calls \/ (calls' = calls + 1 /\ calls < MaxCalls)
  PROVE  IInv'
<1>1. /\ rows' \in [Accounts -> Rows] /\ apps' \in [Apps -> AppRows] /\ bill' \in Bills
      /\ owed' \in Nat /\ paid' \in Nat /\ granted' \in BOOLEAN /\ overlapped' \in BOOLEAN
  BY DEF ghosts, IInv, TypeOK
<1> QED
  BY <1>1, CallerTypes

LEMMA BeginReads ==
  ASSUME IInv, NEW c \in Callers, Begin(c), NEW pc \in {"save", "insert"}, NEW a \in Accounts,
         NEW row \in Rows, Read(c, pc, a, row, 0), pc = "insert" => a = Org,
         a = Org => row.used = rows[Org].used /\ Granted(row),
         UNCHANGED <<rows, member, apps, bill, requests, ghosts, overlapped>>
  PROVE  IInv'
<1>1. UNCHANGED <<rows, bill, owed, paid, granted, overlapped>> /\ job[c].pc # "reset"
      /\ calls' = calls + 1 /\ calls < MaxCalls
  BY DEF Begin, At, ghosts
<1>2. Books' /\ job' \in [Workers -> Jobs]
  BY <1>1, ReadStep
<1> QED
  BY <1>1, <1>2, BeginTypes

LEMMA AccountRoutesStep ==
  ASSUME IInv, NEW c \in Callers, AccountRoutes(c) \/ BudgetTool(c)
  PROVE  IInv'
<1> DEFINE t == rows[Org]
<1>1. t \in Rows /\ Granted(t) /\ Org \in Accounts
  BY OrgRow
<1>2. /\ "save" \in {"save", "insert"} /\ Begin(c)
      /\ UNCHANGED <<rows, member, apps, bill, requests, ghosts, overlapped>>
  BY DEF AccountRoutes, BudgetTool, SuspendTenant, ActivateTenant, AdjustCreditLimit,
         ProcessPayment, SetTenantBudget
<1>3. ASSUME NEW row \in Rows, row.used = t.used, Granted(row), Read(c, "save", Org, row, 0)
      PROVE  IInv'
  BY <1>1, <1>2, <1>3, BeginReads
<1>4. ASSUME NEW row \in Rows, row.used = t.used, SameCredit(row, t), Read(c, "save", Org, row, 0)
      PROVE  IInv'
  BY <1>1, <1>3, <1>4 DEF Granted, SameCredit
<1>5. ASSUME SuspendTenant(c) PROVE IInv'
  <2> DEFINE row == [t EXCEPT !.status = "suspended"]
  <2>1. row \in Rows /\ row.used = t.used /\ SameCredit(row, t) /\ Read(c, "save", Org, row, 0)
    BY <1>1, <1>5, RowUpdates DEF SuspendTenant
  <2> HIDE DEF row
  <2> QED
    BY <1>4, <2>1
<1>6. ASSUME ActivateTenant(c) PROVE IInv'
  <2> DEFINE row == [t EXCEPT !.status = "active"]
  <2>1. row \in Rows /\ row.used = t.used /\ SameCredit(row, t) /\ Read(c, "save", Org, row, 0)
    BY <1>1, <1>6, RowUpdates DEF ActivateTenant
  <2> HIDE DEF row
  <2> QED
    BY <1>4, <2>1
<1>7. ASSUME SetTenantBudget(c) PROVE IInv'
  <2> PICK n \in TokenLimits : Read(c, "save", Org, [t EXCEPT !.quota = n], 0)
    BY <1>7 DEF SetTenantBudget
  <2> DEFINE row == [t EXCEPT !.quota = n]
  <2>1. n \in Nat
    BY CreditAssumption
  <2>2. row \in Rows /\ row.used = t.used /\ SameCredit(row, t) /\ Read(c, "save", Org, row, 0)
    BY <1>1, <2>1, RowUpdates
  <2> HIDE DEF row
  <2> QED
    BY <1>4, <2>2
<1>8. ASSUME AdjustCreditLimit(c) PROVE IInv'
  <2>1. PICK n \in Limits : Read(c, "save", Org, [t EXCEPT !.limit = n], 0) /\ t.credit = "approved"
    BY <1>8 DEF AdjustCreditLimit
  <2> DEFINE row == [t EXCEPT !.limit = n]
  <2>2. n \in Nat /\ granted
    BY <1>1, <2>1, CreditAssumption DEF Granted
  <2>3. row \in Rows /\ row.used = t.used /\ Granted(row) /\ Read(c, "save", Org, row, 0)
    BY <1>1, <2>1, <2>2, LimitCopy DEF Granted
  <2> HIDE DEF row
  <2> QED
    BY <1>3, <2>3
<1>9. ASSUME ProcessPayment(c) PROVE IInv'
  <2> PICK a \in Accounts, n \in Amounts :
          Read(c, "save", a,
               [rows[a] EXCEPT !.balance = @ + n,
                               !.status = IF @ = "pending_payment" THEN "active" ELSE @], 0)
    BY <1>9 DEF ProcessPayment
  <2> DEFINE row == [rows[a] EXCEPT !.balance = @ + n,
                               !.status = IF @ = "pending_payment" THEN "active" ELSE @]
  <2>1. rows[a] \in Rows
    BY OrgRow
  <2>2. row \in Rows /\ row.used = rows[a].used /\ SameCredit(row, rows[a])
    BY <2>1, PaymentOfRow
  <2>3. Read(c, "save", a, row, 0) /\ (a = Org => row.used = rows[Org].used /\ Granted(row))
    BY <1>1, <2>2 DEF Granted, SameCredit
  <2> HIDE DEF row
  <2> QED
    BY <1>2, <2>2, <2>3, BeginReads
<1> QED
  BY <1>5, <1>6, <1>7, <1>8, <1>9 DEF AccountRoutes, BudgetTool

LEMMA SaveRowStep ==
  ASSUME IInv, NEW c \in Callers, SaveRow(c)
  PROVE  IInv'
<1>1. c \in Workers /\ job[c].pc = "save" /\ job[c].pc # "reset"
  BY DEF SaveRow, At, Workers
<1>2. /\ UNCHANGED <<member, apps, bill, requests, calls, owed, paid, granted, ghosts>> /\ Done(c)
  BY DEF SaveRow, ghosts
<1>3. apps' \in [Apps -> AppRows] /\ bill' \in Bills /\ paid' \in Nat /\ granted' \in BOOLEAN
  BY <1>2 DEF IInv, TypeOK
<1>4. ASSUME Store(c) PROVE IInv'
  <2>1. job' = [job EXCEPT ![c] = NoJob] /\ NoJob \in Jobs /\ NoJob.pc \in {"idle", "suspend"}
    BY <1>2, NoJobType DEF Done
  <2>2. owed' = owed + (IF job[c].pc = "save" THEN job[c].amount ELSE 0)
    <3>1. job[c].amount = 0 /\ owed \in Nat
      BY <1>1, JobFacts, OrgRow DEF JobShape
    <3> QED
      BY <1>2, <3>1
  <2>3. /\ Books' /\ job' \in [Workers -> Jobs] /\ rows' \in [Accounts -> Rows]
        /\ owed' \in Nat /\ overlapped' \in BOOLEAN
    BY <1>1, <1>2, <1>4, <2>1, <2>2, NoJobOK, SaveStep
  <2> QED
    BY <1>2, <1>3, <2>3, CallerTypes DEF requests
<1>5. ASSUME UNCHANGED <<rows, overlapped>> PROVE IInv'
  <2>1. Books' /\ job' \in [Workers -> Jobs]
    BY <1>1, <1>2, <1>5, DoneStep
  <2> QED
    BY <1>2, <1>5, <2>1, BeginTypes DEF requests, ghosts
<1> QED
  BY <1>4, <1>5 DEF SaveRow

(* A statement of an operation that does not touch rows or the bill.           *)
LEMMA AppTypes ==
  ASSUME IInv, Books', job' \in [Workers -> Jobs], apps' \in [Apps -> AppRows],
         UNCHANGED <<rows, member, bill, requests, calls, owed, paid, overlapped>>,
         granted' \in BOOLEAN
  PROVE  IInv'
<1>1. /\ rows' \in [Accounts -> Rows] /\ bill' \in Bills
      /\ owed' \in Nat /\ paid' \in Nat /\ overlapped' \in BOOLEAN
  BY DEF IInv, TypeOK
<1> QED
  BY <1>1, CallerTypes DEF requests

LEMMA TenantRoutesStep ==
  ASSUME IInv, NEW c \in Callers, TenantRoutes(c) \/ ReviewRoutes(c)
  PROVE  IInv'
<1>1. /\ Begin(c) /\ job[c].pc # "reset" /\ calls' = calls + 1 /\ calls < MaxCalls
      /\ UNCHANGED <<rows, member, apps, bill, requests, ghosts, overlapped>>
      /\ UNCHANGED <<rows, bill, owed, paid, granted, overlapped>>
  BY DEF TenantRoutes, ReviewRoutes, ApplyForCredit, UpdateApplication, CancelApplication,
         ApproveApplication, RejectApplication, Begin, At, ghosts
<1>2. ASSUME NEW pc \in {"saveApp", "delete", "approve", "reject"}, NEW a \in Apps, NEW n \in Nat,
             ForApp(c, pc, a, n)
      PROVE  IInv'
  <2>1. Books' /\ job' \in [Workers -> Jobs]
    BY <1>1, <1>2, ForAppStep
  <2> QED
    BY <1>1, <2>1, BeginTypes
<1>3. ASSUME ApplyForCredit(c) PROVE IInv'
  <2> DEFINE row == [rows[Org] EXCEPT !.credit = "pending"]
  <2>1. Granted(rows[Org]) /\ rows[Org] \in Rows /\ Org \in Accounts
    BY OrgRow
  <2>2. row \in Rows /\ row.used = rows[Org].used /\ row.credit = "pending"
        /\ row.limit = rows[Org].limit
    BY <2>1, CreditCopy
  <2>3. Granted(row) /\ Read(c, "insert", Org, row, 0)
    BY <1>3, <2>1, <2>2 DEF ApplyForCredit, Granted
  <2> HIDE DEF row
  <2> QED
    BY <1>1, <2>1, <2>2, <2>3, BeginReads
<1>4. ASSUME UpdateApplication(c) \/ CancelApplication(c) \/ RejectApplication(c) PROVE IInv'
  <2>1. 0 \in Nat
    OBVIOUS
  <2>2. ASSUME UpdateApplication(c) PROVE IInv'
    <3>1. PICK a \in Apps : ForApp(c, "saveApp", a, 0)
      BY <2>2 DEF UpdateApplication
    <3> QED
      BY <1>2, <2>1, <3>1
  <2>3. ASSUME CancelApplication(c) PROVE IInv'
    <3>1. PICK a \in Apps : ForApp(c, "delete", a, 0)
      BY <2>3 DEF CancelApplication
    <3> QED
      BY <1>2, <2>1, <3>1
  <2>4. ASSUME RejectApplication(c) PROVE IInv'
    <3>1. PICK a \in Apps : ForApp(c, "reject", a, 0)
      BY <2>4 DEF RejectApplication
    <3> QED
      BY <1>2, <2>1, <3>1
  <2> QED
    BY <1>4, <2>2, <2>3, <2>4
<1>5. ASSUME ApproveApplication(c) PROVE IInv'
  <2>1. PICK a \in Apps, n \in Limits : ForApp(c, "approve", a, n)
    BY <1>5 DEF ApproveApplication
  <2>2. n \in Nat
    BY CreditAssumption
  <2> QED
    BY <1>2, <2>1, <2>2
<1> QED
  BY <1>3, <1>4, <1>5 DEF TenantRoutes, ReviewRoutes

-----------------------------------------------------------------------------
(* Operations of callers: applications *)

LEMMA AppUpdates ==
  ASSUME IInv, NEW a
  PROVE  /\ \A row \in AppRows : [apps EXCEPT ![a] = row] \in [Apps -> AppRows]
         /\ \A s \in {"approved", "rejected", "deleted"} :
               [apps EXCEPT ![a].status = s] \in [Apps -> AppRows]
         /\ \A s \in {"approved", "rejected"} : Decided(a, s) \in [Apps -> AppRows]
<1>1. apps \in [Apps -> AppRows]
  BY DEF IInv, TypeOK
<1>2. ASSUME NEW row \in AppRows PROVE [apps EXCEPT ![a] = row] \in [Apps -> AppRows]
  BY <1>1
<1>3. ASSUME NEW s \in {"approved", "rejected", "deleted"}
      PROVE  [apps EXCEPT ![a].status = s] \in [Apps -> AppRows]
  <2>1. ASSUME a \in Apps PROVE [apps[a] EXCEPT !.status = s] \in AppRows
    BY <1>1, <2>1 DEF AppRows
  <2> QED
    BY <1>1, <2>1
<1>4. ASSUME NEW s \in {"approved", "rejected"} PROVE Decided(a, s) \in [Apps -> AppRows]
  <2>1. ASSUME a \in Apps
        PROVE  [apps[a] EXCEPT !.status = IF apps[a].status = "deleted" THEN apps[a].status ELSE s]
                 \in AppRows
    <3> DEFINE t == IF apps[a].status = "deleted" THEN apps[a].status ELSE s
    <3>1. apps[a] \in AppRows /\ t \in {"approved", "rejected", "deleted"}
      BY <1>1, <2>1
    <3> HIDE DEF t
    <3>2. [apps[a] EXCEPT !.status = t] \in AppRows
      BY <3>1 DEF AppRows
    <3> QED
      BY <3>2 DEF t
  <2> QED
    BY <1>1, <2>1 DEF Decided
<1> QED
  BY <1>2, <1>3, <1>4

LEMMA CreateApplicationStep ==
  ASSUME IInv, NEW c \in Callers, CreateApplication(c)
  PROVE  IInv'
<1>1. c \in Workers /\ job[c].pc = "insert" /\ job[c].pc # "reset" /\ c \notin Requests
  BY CreditAssumption DEF CreateApplication, At, Workers
<1>2. /\ UNCHANGED <<rows, member, bill, requests, calls, owed, paid, overlapped>>
      /\ UNCHANGED <<rows, bill, owed, paid, granted, overlapped>>
  BY DEF CreateApplication, ghosts
<1>3. granted' \in BOOLEAN
  BY <1>2 DEF IInv, TypeOK
<1>4. apps' \in [Apps -> AppRows]
  <2>1. ASSUME NEW a \in Apps, NEW y \in Cycles
        PROVE  [apps EXCEPT ![a] = [status |-> "pending", cycle |-> y]] \in [Apps -> AppRows]
    <3>1. [status |-> "pending", cycle |-> y] \in AppRows
      BY CreditAssumption DEF AppRows
    <3> QED
      BY <3>1, AppUpdates
  <2>2. apps \in [Apps -> AppRows]
    BY DEF IInv, TypeOK
  <2> QED
    BY <2>1, <2>2 DEF CreateApplication
<1>5. Books' /\ job' \in [Workers -> Jobs]
  <2>1. ASSUME job' = [job EXCEPT ![c].pc = "save"] PROVE Books' /\ job' \in [Workers -> Jobs]
    <3> DEFINE j == [job[c] EXCEPT !.pc = "save"]
    <3>1. /\ job[c] \in Jobs /\ JobShape(c, job[c]) /\ GrantKnown(job[c])
          /\ ~overlapped => Fresh(job[c])
      BY <1>1, JobFacts
    <3>2. j \in Jobs /\ j.pc = "save" /\ SameRow(j, job[c]) /\ j.amount = job[c].amount
      <4>1. "save" \in Points
        BY DEF Points
      <4> QED
        BY <3>1, <4>1, JobChanges
    <3>3. job' = [job EXCEPT ![c] = j]
      BY <2>1
    <3> HIDE DEF j
    <3>4. JobShape(c, j) /\ GrantKnown(j) /\ j.pc # "reset"
      BY <1>1, <3>1, <3>2 DEF JobShape, GrantKnown, SameRow
    <3>5. ~overlapped => Fresh(j)
      BY <1>1, <3>1, <3>2 DEF Fresh, HoldsRow, SameRow
    <3> QED
      BY <1>1, <1>2, <3>2, <3>3, <3>4, <3>5, JobStep
  <2>2. ASSUME Done(c) PROVE Books' /\ job' \in [Workers -> Jobs]
    BY <1>1, <1>2, <2>2, DoneStep
  <2> QED
    BY <2>1, <2>2 DEF CreateApplication, Fail
<1> QED
  BY <1>2, <1>3, <1>4, <1>5, AppTypes

LEMMA SaveApplicationStep ==
  ASSUME IInv, NEW c \in Callers, SaveApplication(c)
  PROVE  IInv'
<1>1. c \in Workers /\ job[c].pc = "saveApp" /\ job[c].pc # "reset" /\ Done(c)
  BY DEF SaveApplication, At, Workers
<1>2. /\ UNCHANGED <<rows, member, bill, requests, calls, owed, paid, overlapped>>
      /\ UNCHANGED <<rows, bill, owed, paid, granted, overlapped>>
  BY DEF SaveApplication, ghosts
<1>3. granted' \in BOOLEAN
  BY <1>2 DEF IInv, TypeOK
<1>4. apps' \in [Apps -> AppRows]
  <2>1. job[c].appRow \in AppRows
    BY <1>1, JobFacts
  <2>2. ASSUME NEW y \in Cycles \cup {job[c].appRow.cycle}
        PROVE  [apps EXCEPT ![job[c].app] = [job[c].appRow EXCEPT !.cycle = y]] \in [Apps -> AppRows]
    <3>1. y \in AllCycles
      BY <2>1, CreditAssumption DEF AppRows
    <3>2. [job[c].appRow EXCEPT !.cycle = y] \in AppRows
      BY <2>1, <3>1 DEF AppRows
    <3> QED
      BY <3>2, AppUpdates
  <2>3. apps \in [Apps -> AppRows]
    BY DEF IInv, TypeOK
  <2> QED
    BY <2>2, <2>3 DEF SaveApplication
<1>5. Books' /\ job' \in [Workers -> Jobs]
  BY <1>1, <1>2, DoneStep
<1> QED
  BY <1>2, <1>3, <1>4, <1>5, AppTypes

LEMMA DecisionsStep ==
  ASSUME IInv, NEW c \in Callers, DeleteApplication(c) \/ Approve(c) \/ Reject(c)
  PROVE  IInv'
<1>1. c \in Workers /\ job[c].pc # "reset"
  BY DEF DeleteApplication, Approve, Reject, At, Workers
<1>2. /\ UNCHANGED <<rows, member, bill, requests, calls, owed, paid, overlapped>>
      /\ UNCHANGED <<rows, bill, owed, paid, overlapped>>
  BY DEF DeleteApplication, Approve, Reject, ghosts
<1>3. granted' \in BOOLEAN /\ (granted => granted')
  BY DEF DeleteApplication, Approve, Reject, ghosts, IInv, TypeOK
<1>4. apps' \in [Apps -> AppRows]
  <2>1. apps \in [Apps -> AppRows]
    BY DEF IInv, TypeOK
  <2>2. [apps EXCEPT ![job[c].app].status = "deleted"] \in [Apps -> AppRows]
    BY AppUpdates
  <2>3. Decided(job[c].app, "approved") \in [Apps -> AppRows]
        /\ Decided(job[c].app, "rejected") \in [Apps -> AppRows]
    BY AppUpdates
  <2> QED
    BY <2>1, <2>2, <2>3 DEF DeleteApplication, Approve, Reject
<1>5. \/ Done(c) /\ UNCHANGED granted
      \/ \E pc \in {"clear", "refuse", "adopt"} :
            job' = [job EXCEPT ![c].pc = pc] /\ (pc = "adopt" => granted')
  BY DEF DeleteApplication, Approve, Reject, Fail, ghosts
<1>6. Books' /\ job' \in [Workers -> Jobs]
  <2>1. ASSUME Done(c), UNCHANGED granted PROVE Books' /\ job' \in [Workers -> Jobs]
    BY <1>1, <1>2, <2>1, DoneStep
  <2>2. ASSUME NEW pc \in {"clear", "refuse", "adopt"}, job' = [job EXCEPT ![c].pc = pc],
               pc = "adopt" => granted'
        PROVE  Books' /\ job' \in [Workers -> Jobs]
    <3>1. pc \in {"trigger", "overdue", "clear", "refuse", "adopt"}
      OBVIOUS
    <3> QED
      BY <1>1, <1>2, <1>3, <2>2, <3>1, PcStep
  <2> QED
    BY <1>5, <2>1, <2>2
<1> QED
  BY <1>2, <1>3, <1>4, <1>6, AppTypes

LEMMA CreditedRow ==
  ASSUME IInv, NEW c \in Callers, job[c].pc \in {"clear", "refuse", "adopt"}
  PROVE  LET d == Credited(c) IN d \in Rows /\ d.used = rows[Org].used /\ Granted(d)
<1> DEFINE t == rows[Org]
<1>1. t \in Rows /\ Granted(t)
  BY OrgRow
<1>2. /\ job[c].amount \in Nat /\ job[c].appRow \in AppRows /\ GrantKnown(job[c])
  BY JobFacts DEF Workers
<1>3. ASSUME job[c].pc = "clear" \/ job[c].pc = "refuse"
      PROVE  \E s \in {"none", "rejected"} : Credited(c) = [t EXCEPT !.credit = s]
  BY <1>3 DEF Credited, At
<1>4. ASSUME NEW s \in {"none", "rejected"}, Credited(c) = [t EXCEPT !.credit = s]
      PROVE  Credited(c) \in Rows /\ Credited(c).used = t.used /\ Granted(Credited(c))
  <2> DEFINE d == [t EXCEPT !.credit = s]
  <2>0. s \in {"none", "pending", "approved", "rejected"}
    OBVIOUS
  <2>1. d \in Rows /\ d.used = t.used /\ d.credit = s /\ d.limit = t.limit
    BY <1>1, <2>0, CreditCopy
  <2>2. Credited(c) = d
    BY <1>4
  <2> HIDE DEF d
  <2> QED
    BY <1>1, <2>1, <2>2 DEF Granted
<1>5. ASSUME job[c].pc = "adopt"
      PROVE  Credited(c) \in Rows /\ Credited(c).used = t.used /\ Granted(Credited(c))
  <2> DEFINE n == job[c].amount
             y == job[c].appRow.cycle
             d1 == [t EXCEPT !.credit = "approved"]
             d2 == [d1 EXCEPT !.limit = n]
             d3 == [d2 EXCEPT !.cycle = y]
  <2>1. Credited(c) = d3
    BY <1>1, <1>5 DEF Credited, At, Rows
  <2>2. n \in Nat /\ y \in AllCycles
    BY <1>2 DEF AppRows
  <2> HIDE DEF n, y
  <2>3. d1 \in Rows /\ d1.used = t.used
    BY <1>1, CreditCopy
  <2> HIDE DEF d1
  <2>4. d2 \in Rows /\ d2.used = t.used
    BY <2>2, <2>3, LimitCopy
  <2> HIDE DEF d2
  <2>5. d3 \in Rows /\ d3.used = t.used
    BY <2>2, <2>4, CycleCopy
  <2> HIDE DEF d3
  <2>6. granted
    BY <1>2, <1>5 DEF GrantKnown
  <2> QED
    BY <2>1, <2>5, <2>6 DEF Granted
<1> QED
  BY <1>3, <1>4, <1>5

(* The tenant is read by an operation that has decided what to change of it.   *)
LEMMA ReadTenantStep ==
  ASSUME IInv, NEW c \in Callers, ReadCreditTenant(c) \/ ReadOverdueTenant(c)
  PROVE  IInv'
<1>1. /\ UNCHANGED <<rows, member, apps, bill, requests, calls, ghosts, overlapped>>
      /\ UNCHANGED <<rows, bill, owed, paid, granted, overlapped>>
      /\ job[c].pc # "reset" /\ c \in Workers /\ calls' = calls
  BY DEF ReadCreditTenant, ReadOverdueTenant, At, ghosts, Workers
<1>2. Org \in Accounts /\ rows[Org] \in Rows /\ Granted(rows[Org])
  BY OrgRow
<1>3. ASSUME NEW row \in Rows, row.used = rows[Org].used, Granted(row), Read(c, "save", Org, row, 0)
      PROVE  Books' /\ job' \in [Workers -> Jobs]
  <2>1. "save" \in {"save", "insert"}
    OBVIOUS
  <2> QED
    BY <1>1, <1>2, <1>3, <2>1, ReadStep
<1>4. ASSUME Fail(c) PROVE Books' /\ job' \in [Workers -> Jobs]
  BY <1>1, <1>4, DoneStep DEF Fail
<1>5. ASSUME ReadCreditTenant(c) PROVE Books' /\ job' \in [Workers -> Jobs]
  <2>1. job[c].pc \in {"clear", "refuse", "adopt"}
        /\ (Read(c, "save", Org, Credited(c), 0) \/ Fail(c))
    BY <1>5 DEF ReadCreditTenant
  <2>2. Credited(c) \in Rows /\ Credited(c).used = rows[Org].used /\ Granted(Credited(c))
    BY <2>1, CreditedRow
  <2> QED
    BY <1>3, <1>4, <2>1, <2>2
<1>6. ASSUME ReadOverdueTenant(c) PROVE Books' /\ job' \in [Workers -> Jobs]
  <2> DEFINE row == [rows[Org] EXCEPT !.status = "suspended"]
  <2>1. row \in Rows /\ row.used = rows[Org].used /\ SameCredit(row, rows[Org])
    BY <1>2, RowUpdates
  <2>2. Read(c, "save", Org, row, 0) \/ Fail(c)
    BY <1>6 DEF ReadOverdueTenant
  <2> HIDE DEF row
  <2>3. Granted(row)
    BY <1>2, <2>1 DEF Granted, SameCredit
  <2> QED
    BY <1>3, <1>4, <2>1, <2>2, <2>3
<1>7. Books' /\ job' \in [Workers -> Jobs]
  BY <1>5, <1>6
<1> QED
  BY <1>1, <1>7, BeginTypes

-----------------------------------------------------------------------------
(* Operations of callers: settlement *)

LEMMA TriggerSettlementStep ==
  ASSUME IInv, NEW c \in Callers, TriggerSettlement(c)
  PROVE  IInv'
<1> DEFINE row == [rows[Org] EXCEPT !.used = 0]
           n == rows[Org].used
           j == Reading(job[c], "bill", Org, row, n)
<1>1. /\ UNCHANGED <<rows, member, apps, bill, requests, ghosts, overlapped>>
      /\ UNCHANGED <<rows, bill, owed, paid, granted, overlapped>>
      /\ calls' = calls \/ (calls' = calls + 1 /\ calls < MaxCalls)
      /\ job[c].pc # "reset" /\ c \in Workers /\ c \notin Requests
  BY CreditAssumption DEF TriggerSettlement, Begin, At, ghosts, Workers
<1>2. /\ Org \in Accounts /\ rows[Org] \in Rows /\ Granted(rows[Org]) /\ n \in Nat
      /\ job[c] \in Jobs
  BY <1>1, OrgRow, JobFacts
<1>3. row \in Rows /\ row.used = 0 /\ Granted(row)
  <2>1. row \in Rows /\ row.used = 0 /\ SameCredit(row, rows[Org])
    BY <1>2, RowUpdates
  <2> HIDE DEF row
  <2> QED
    BY <1>2, <2>1 DEF Granted, SameCredit
<1>4. Read(c, "bill", Org, row, n) \/ Done(c)
  BY DEF TriggerSettlement
<1> HIDE DEF row
<1>5. ASSUME Read(c, "bill", Org, row, n) PROVE Books' /\ job' \in [Workers -> Jobs]
  <2>1. "bill" \in Points /\ n \in Int
    BY <1>2 DEF Points
  <2>2. j \in Jobs /\ j.pc = "bill" /\ j.acct = Org /\ j.row = row /\ j.amount = n
    BY <1>2, <1>3, <2>1, JobReads
  <2>3. job' = [job EXCEPT ![c] = j]
    BY <1>5 DEF Read, Reading
  <2> HIDE DEF j
  <2>4. JobShape(c, j) /\ GrantKnown(j) /\ Fresh(j) /\ j.pc # "reset"
    BY <1>1, <1>2, <1>3, <2>2 DEF JobShape, GrantKnown, Fresh, HoldsRow
  <2> QED
    BY <1>1, <2>2, <2>3, <2>4, JobStep
<1>6. ASSUME Done(c) PROVE Books' /\ job' \in [Workers -> Jobs]
  BY <1>1, <1>6, DoneStep
<1>7. Books' /\ job' \in [Workers -> Jobs]
  BY <1>4, <1>5, <1>6
<1> QED
  BY <1>1, <1>7, BeginTypes

Paying(n, t) == [NoJob EXCEPT !.pc = "pay", !.amount = n, !.total = t]

LEMMA PaymentJob ==
  ASSUME NEW n \in Nat, NEW t \in Nat
  PROVE  LET k == Paying(n, t) IN
         k \in Jobs /\ k.pc = "pay" /\ k.acct = Org /\ k.row = NoRow /\ k.amount = n /\ k.total = t
<1> DEFINE k1 == [NoJob EXCEPT !.pc = "pay"]
           k2 == [k1 EXCEPT !.amount = n]
<1>0. "pay" \in Points /\ n \in Int
  BY DEF Points
<1>1. k1 \in Jobs /\ k1.pc = "pay" /\ k1.acct = Org /\ k1.row = NoRow
  BY <1>0, JobChanges, NoJobType DEF SameRow
<1> HIDE DEF k1
<1>2. k2 \in Jobs /\ k2.pc = "pay" /\ k2.acct = Org /\ k2.row = NoRow /\ k2.amount = n
  BY <1>0, <1>1, JobChanges DEF SameRow
<1> HIDE DEF k2
<1>3. LET k == [k2 EXCEPT !.total = t] IN
      k \in Jobs /\ k.pc = "pay" /\ k.acct = Org /\ k.row = NoRow /\ k.amount = n /\ k.total = t
  BY <1>2, JobChanges DEF SameRow
<1> QED
  BY <1>3 DEF k1, k2, Paying

(* The other operations of the settlement begin.                               *)
LEMMA SettlementBegins ==
  ASSUME IInv, NEW c \in Callers,
         RunScheduledSettlement(c) \/ ProcessSettlementBill(c) \/ CheckOverdueBills(c)
  PROVE  IInv'
<1>1. /\ UNCHANGED <<rows, member, apps, bill, requests, ghosts, overlapped>>
      /\ UNCHANGED <<rows, bill, owed, paid, granted, overlapped>>
      /\ calls' = calls + 1 /\ calls < MaxCalls
      /\ job[c].pc # "reset" /\ c \in Workers /\ c \notin Requests
  BY CreditAssumption DEF RunScheduledSettlement, ProcessSettlementBill, CheckOverdueBills,
                          Begin, At, ghosts, Workers
<1>2. ASSUME RunScheduledSettlement(c) PROVE Books' /\ job' \in [Workers -> Jobs]
  <2>1. job' = [job EXCEPT ![c].pc = "trigger"]
    BY <1>2 DEF RunScheduledSettlement
  <2> QED
    BY <1>1, <2>1, PcStep
<1>3. ASSUME CheckOverdueBills(c) PROVE Books' /\ job' \in [Workers -> Jobs]
  <2>1. job' = [job EXCEPT ![c].pc = "overdue"]
    BY <1>3 DEF CheckOverdueBills
  <2> QED
    BY <1>1, <2>1, PcStep
<1>4. ASSUME ProcessSettlementBill(c) PROVE Books' /\ job' \in [Workers -> Jobs]
  <2>1. PICK n \in Amounts :
           job' = [job EXCEPT ![c] = [NoJob EXCEPT !.pc = "pay", !.amount = n, !.total = bill.total]]
    BY <1>4 DEF ProcessSettlementBill
  <2> DEFINE j == Paying(n, bill.total)
  <2>2. n \in Nat /\ bill.total \in Nat /\ bill.status # "none"
    BY <1>4, OrgRow, CreditAssumption DEF ProcessSettlementBill
  <2>3. /\ j \in Jobs /\ j.pc = "pay" /\ j.acct = Org /\ j.row = NoRow /\ j.amount = n
        /\ j.total = bill.total
    BY <2>2, PaymentJob
  <2>4. job' = [job EXCEPT ![c] = j]
    BY <2>1 DEF Paying
  <2> HIDE DEF j
  <2>5. bill.amount <= j.total + paid
    BY <2>3 DEF IInv, Books, BillCovered
  <2>6. JobShape(c, j)
    BY <1>1, <2>2, <2>3, <2>5 DEF JobShape
  <2>7. GrantKnown(j) /\ Fresh(j) /\ j.pc # "reset"
    BY <2>3, NoJobType DEF GrantKnown, Granted, Fresh, HoldsRow
  <2> QED
    BY <1>1, <2>3, <2>4, <2>6, <2>7, JobStep
<1>5. Books' /\ job' \in [Workers -> Jobs]
  BY <1>2, <1>3, <1>4
<1> QED
  BY <1>1, <1>5, BeginTypes

(* The bill is created: nobody was paying or resetting, there was none; what   *)
(* it is for is in the bill now, and the one who resets the credit is known.   *)
LEMMA CreateBillStep ==
  ASSUME IInv, NEW c \in Callers, CreateBill(c)
  PROVE  IInv'
<1>1. /\ UNCHANGED <<rows, member, apps, requests, calls, ghosts, overlapped>>
      /\ UNCHANGED <<rows, owed, paid, granted, overlapped>>
      /\ job[c].pc = "bill" /\ job[c].pc # "reset" /\ c \in Workers /\ c \notin Requests
  BY CreditAssumption DEF CreateBill, At, ghosts, Workers
<1>2. /\ job[c] \in Jobs /\ JobShape(c, job[c]) /\ GrantKnown(job[c]) /\ job[c].amount \in Nat
      /\ ~overlapped => Fresh(job[c])
  BY <1>1, JobFacts
<1>3. /\ rows \in [Accounts -> Rows] /\ apps \in [Apps -> AppRows] /\ bill \in Bills
      /\ owed \in Nat /\ paid \in Nat /\ granted \in BOOLEAN /\ overlapped \in BOOLEAN
      /\ rows[Org].used \in Nat
  BY OrgRow DEF IInv, TypeOK
<1>4. ASSUME Fail(c), UNCHANGED bill PROVE IInv'
  <2>1. Books' /\ job' \in [Workers -> Jobs]
    BY <1>1, <1>4, DoneStep DEF Fail
  <2> QED
    BY <1>1, <1>4, <2>1, BeginTypes
<1>5. ASSUME bill.status = "none",
             bill' = [status |-> "pending", amount |-> job[c].amount, total |-> job[c].amount],
             job' = [job EXCEPT ![c].pc = "reset"]
      PROVE  IInv'
  <2> DEFINE j == [job[c] EXCEPT !.pc = "reset"]
  <2>1. j \in Jobs /\ j.pc = "reset" /\ SameRow(j, job[c]) /\ j.amount = job[c].amount
    <3>1. "reset" \in Points
      BY DEF Points
    <3> QED
      BY <1>2, <3>1, JobChanges
  <2>2. job' = [job EXCEPT ![c] = j]
    BY <1>5
  <2> HIDE DEF j
  <2>3. /\ job' \in [Workers -> Jobs] /\ job'[c] = j
        /\ \A v \in Workers : v # c => job'[v] = job[v]
    BY <1>1, <2>1, <2>2, OneJob
  <2>4. \A v \in Workers : job[v].pc \notin {"reset", "pay"}
    BY <1>5, JobFacts DEF JobShape
  <2>5. bill' \in Bills /\ bill'.status = "pending" /\ bill'.amount = job[c].amount
        /\ bill'.total = job[c].amount
    BY <1>2, <1>5 DEF Bills
  <2>6. JobsOK'
    <3> SUFFICES ASSUME NEW v \in Workers PROVE JobOK(v, job[v])'
      BY DEF JobsOK
    <3>1. CASE v = c
      BY <1>1, <1>2, <2>1, <2>3, <2>5, <3>1 DEF JobOK, JobShape, GrantKnown, Granted, SameRow
    <3>2. CASE v # c
      <4>1. JobOK(v, job[v])
        BY DEF IInv, Books, JobsOK
      <4> QED
        BY <1>1, <2>3, <2>4, <2>5, <3>2, <4>1 DEF JobOK, JobShape, GrantKnown, Granted
    <3> QED
      BY <3>1, <3>2
  <2>7. CopiesFresh'
    <3> SUFFICES ASSUME ~overlapped', NEW v \in Workers PROVE Fresh(job[v])'
      BY DEF CopiesFresh
    <3>1. CASE v = c
      <4>1. job[c].acct = Org /\ job[c].row.used = 0 /\ job[c].amount = rows[Org].used
        BY <1>1, <1>2 DEF Fresh, HoldsRow, JobShape
      <4> QED
        BY <1>1, <2>1, <2>3, <2>5, <3>1, <4>1 DEF Fresh, HoldsRow, SameRow
    <3>2. CASE v # c
      <4>1. Fresh(job[v])
        BY <1>1 DEF IInv, Books, CopiesFresh
      <4> QED
        BY <1>1, <2>3, <2>4, <3>2, <4>1 DEF Fresh, HoldsRow
    <3> QED
      BY <3>1, <3>2
  <2>8. BillCovered' /\ NotForgiven' /\ CreditNeedsGrant'
    BY <1>1, <1>2, <1>3, <2>5 DEF BillCovered, NotForgiven, CreditNeedsGrant, IInv, Books
  <2>9. CreditAccounted'
    <3>1. (\E v \in Callers : At(v, "reset"))'
      BY <2>1, <2>3 DEF At
    <3>2. bill.amount = 0 /\ ~\E v \in Callers : At(v, "reset")
      BY <1>5, <2>4 DEF At, Workers, IInv, Books, BillCovered
    <3>3. ~overlapped => rows[Org].used = owed
      BY <1>3, <3>2 DEF CreditAccounted, IInv, Books
    <3> QED
      BY <1>1, <1>3, <3>1, <3>3 DEF CreditAccounted
  <2>10. Books'
    BY <2>6, <2>7, <2>8, <2>9 DEF Books
  <2> QED
    BY <1>1, <1>3, <2>3, <2>5, <2>10, CallerTypes
<1> QED
  BY <1>4, <1>5 DEF CreateBill

LEMMA ResetCreditStep ==
  ASSUME IInv, NEW c \in Callers, ResetCredit(c)
  PROVE  IInv'
<1>1. /\ UNCHANGED <<member, apps, bill, requests, calls, ghosts>> /\ Done(c)
      /\ UNCHANGED <<bill, owed, paid, granted, apps>>
      /\ job[c].pc = "reset" /\ job[c].pc # "save" /\ c \in Workers
  BY DEF ResetCredit, At, ghosts, Workers
<1>2. job' = [job EXCEPT ![c] = NoJob] /\ NoJob \in Jobs /\ NoJob.pc = "idle"
  BY <1>1, NoJobType DEF Done
<1>3. /\ apps' \in [Apps -> AppRows] /\ bill' \in Bills
      /\ owed' \in Nat /\ paid' \in Nat /\ granted' \in BOOLEAN
  BY <1>1 DEF IInv, TypeOK
<1>4. ASSUME Store(c) PROVE IInv'
  <2>1. owed' = owed + (IF job[c].pc = "save" THEN job[c].amount ELSE 0)
    BY <1>1 DEF IInv, TypeOK
  <2>2. Books' /\ job' \in [Workers -> Jobs] /\ rows' \in [Accounts -> Rows] /\ overlapped' \in BOOLEAN
    BY <1>1, <1>2, <1>4, <2>1, NoJobOK, SaveStep
  <2> QED
    BY <1>1, <1>3, <2>2, CallerTypes
<1>5. ASSUME overlapped' = TRUE, UNCHANGED rows PROVE IInv'
  <2>1. /\ job' \in [Workers -> Jobs] /\ job'[c] = NoJob
        /\ \A v \in Workers : v # c => job'[v] = job[v]
    BY <1>1, <1>2, OneJob
  <2>2. JobsOK'
    <3> SUFFICES ASSUME NEW v \in Workers PROVE JobOK(v, job[v])'
      BY DEF JobsOK
    <3>1. CASE v = c
      BY <1>1, <2>1, <3>1, NoJobOK DEF JobOK, JobShape, GrantKnown, Granted
    <3>2. CASE v # c
      <4>1. JobOK(v, job[v])
        BY DEF IInv, Books, JobsOK
      <4> QED
        BY <1>1, <2>1, <3>2, <4>1 DEF JobOK, JobShape, GrantKnown, Granted
    <3> QED
      BY <3>1, <3>2
  <2>3. Books'
    BY <1>1, <1>5, <2>2
       DEF Books, CopiesFresh, BillCovered, CreditAccounted, NotForgiven, CreditNeedsGrant, IInv
  <2>4. rows' \in [Accounts -> Rows] /\ overlapped' \in BOOLEAN
    BY <1>5 DEF IInv, TypeOK
  <2> QED
    BY <1>1, <1>3, <2>1, <2>3, <2>4, CallerTypes
<1> QED
  BY <1>4, <1>5 DEF ResetCredit

(* A payment on the bill: what it held of the bill, with what was paid up to   *)
(* now, is not less than the bill.                                             *)
LEMMA SaveBillStep ==
  ASSUME IInv, NEW c \in Callers, SaveBill(c)
  PROVE  IInv'
<1> DEFINE n == job[c].amount
           t == job[c].total
<1>1. /\ UNCHANGED <<rows, member, apps, requests, calls, owed, granted, overlapped>> /\ Done(c)
      /\ job[c].pc = "pay" /\ c \in Workers
  BY DEF SaveBill, At, Workers
<1>2. n \in Nat /\ t \in Nat /\ bill.status # "none" /\ bill.amount <= t + paid
  BY <1>1, JobFacts DEF JobShape
<1>3. /\ rows' \in [Accounts -> Rows] /\ apps' \in [Apps -> AppRows] /\ bill \in Bills
      /\ owed' \in Nat /\ paid \in Nat /\ granted' \in BOOLEAN /\ overlapped' \in BOOLEAN
      /\ bill.amount \in Nat
  BY <1>1, OrgRow DEF IInv, TypeOK
<1>4. job' = [job EXCEPT ![c] = NoJob] /\ NoJob \in Jobs /\ NoJob.pc = "idle"
  BY <1>1, NoJobType DEF Done
<1>5. /\ job' \in [Workers -> Jobs] /\ job'[c] = NoJob
      /\ \A v \in Workers : v # c => job'[v] = job[v]
  BY <1>1, <1>4, OneJob
<1>6. ASSUME UNCHANGED <<bill, paid>> PROVE IInv'
  <2>1. UNCHANGED <<rows, bill, owed, paid, granted, overlapped>>
    BY <1>1, <1>6
  <2>2. Books'
    BY <1>1, <2>1, DoneStep
  <2> QED
    BY <1>1, <1>3, <1>5, <1>6, <2>2, CallerTypes
<1>7. ASSUME paid' = paid + n,
             bill' = IF t - n <= 0 THEN [bill EXCEPT !.status = "paid", !.total = t]
                     ELSE [bill EXCEPT !.status = "partial_paid", !.total = t - n]
      PROVE  IInv'
  <2>1. /\ bill' \in Bills /\ bill'.amount = bill.amount /\ bill'.status # "none"
        /\ bill'.total = (IF t - n <= 0 THEN t ELSE t - n)
        /\ bill'.status = "paid" => t - n <= 0
    <3>1. CASE t - n <= 0
      <4>1. bill' = [bill EXCEPT !.status = "paid", !.total = t]
        BY <1>7, <3>1
      <4> QED
        BY <1>2, <1>3, <3>1, <4>1 DEF Bills
    <3>2. CASE ~(t - n <= 0)
      <4>1. bill' = [bill EXCEPT !.status = "partial_paid", !.total = t - n] /\ t - n \in Nat
        BY <1>2, <1>7, <3>2
      <4> QED
        BY <1>2, <1>3, <3>2, <4>1 DEF Bills
    <3> QED
      BY <3>1, <3>2
  <2>2. paid' \in Nat /\ paid <= paid'
    BY <1>2, <1>3, <1>7
  <2> HIDE DEF n, t
  <2>3. bill'.amount <= bill'.total + paid' /\ (bill'.status = "paid" => paid' >= bill'.amount)
    BY <1>2, <1>3, <1>7, <2>1
  <2>4. JobsOK'
    <3> SUFFICES ASSUME NEW v \in Workers PROVE JobOK(v, job[v])'
      BY DEF JobsOK
    <3>1. CASE v = c
      BY <1>1, <1>5, <3>1, NoJobType DEF JobOK, JobShape, GrantKnown, Granted
    <3>2. CASE v # c
      <4>1. JobOK(v, job[v]) /\ job[v].total \in Nat
        BY JobFacts DEF JobOK
      <4>2. job[v].pc = "pay" => bill'.amount <= job[v].total + paid'
        BY <1>3, <2>1, <2>2, <4>1 DEF JobOK, JobShape
      <4> QED
        BY <1>1, <1>5, <2>1, <3>2, <4>1, <4>2 DEF JobOK, JobShape, GrantKnown, Granted
    <3> QED
      BY <3>1, <3>2
  <2>5. CopiesFresh'
    <3> SUFFICES ASSUME ~overlapped', NEW v \in Workers PROVE Fresh(job[v])'
      BY DEF CopiesFresh
    <3>1. Fresh(job[v])
      BY <1>1 DEF IInv, Books, CopiesFresh
    <3> QED
      BY <1>1, <1>4, <1>5, <2>1, <3>1 DEF Fresh, HoldsRow
  <2>6. \A v \in Callers : At(v, "reset")' <=> At(v, "reset")
    BY <1>1, <1>4, <1>5 DEF At, Workers
  <2>7. CreditAccounted'
    BY <1>1, <2>1, <2>6 DEF IInv, Books, CreditAccounted
  <2>8. BillCovered' /\ NotForgiven' /\ CreditNeedsGrant'
    BY <1>1, <2>1, <2>3 DEF BillCovered, NotForgiven, CreditNeedsGrant, IInv, Books
  <2>9. Books'
    BY <2>4, <2>5, <2>7, <2>8 DEF Books
  <2> QED
    BY <1>1, <1>3, <1>5, <2>1, <2>2, <2>9, CallerTypes
<1> QED
  BY <1>6, <1>7 DEF SaveBill

-----------------------------------------------------------------------------
(* The specification *)

LEMMA Initially == Init => IInv
<1> SUFFICES ASSUME Init PROVE IInv
  OBVIOUS
<1>1. /\ Start \in [Accounts -> Rows] /\ Org \in Accounts
      /\ Start[Org].used = 0 /\ Start[Org].credit = "none" /\ Start[Org].limit = NoLimit
      /\ MaxCalls \in Nat /\ NoApp \in AppRows /\ NoJob \in Jobs
  BY CreditAssumption, NoJobType DEF Accounts
<1>2. rows \in [Accounts -> Rows] /\ rows[Org].used = 0 /\ Granted(rows[Org])
      /\ apps \in [Apps -> AppRows] /\ granted \in BOOLEAN
  <2>1. CASE rows = Start /\ granted = FALSE /\ apps = [a \in Apps |-> NoApp]
    BY <1>1, <2>1 DEF Granted
  <2>2. ASSUME NEW n \in Limits, NEW y \in Cycles,
               rows = [Start EXCEPT ![Org].credit = "approved", ![Org].limit = n, ![Org].cycle = y],
               granted = TRUE,
               apps = [a \in Apps |-> IF a = 1 THEN [status |-> "approved", cycle |-> y] ELSE NoApp]
        PROVE  rows \in [Accounts -> Rows] /\ rows[Org].used = 0 /\ Granted(rows[Org])
               /\ apps \in [Apps -> AppRows] /\ granted \in BOOLEAN
    <3>1. n \in Nat /\ y \in AllCycles
      BY CreditAssumption
    <3> DEFINE d == [Start[Org] EXCEPT !.credit = "approved", !.limit = n, !.cycle = y]
    <3>2. d \in Rows /\ d.used = 0
      <4> DEFINE d1 == [Start[Org] EXCEPT !.credit = "approved"]
                 d2 == [d1 EXCEPT !.limit = n]
      <4>1. d1 \in Rows /\ d1.used = 0
        BY <1>1, CreditCopy
      <4>2. d = [d2 EXCEPT !.cycle = y]
        BY <1>1 DEF Rows
      <4> HIDE DEF d, d1
      <4>3. d2 \in Rows /\ d2.used = 0
        BY <3>1, <4>1, LimitCopy
      <4> HIDE DEF d2
      <4> QED
        BY <3>1, <4>2, <4>3, CycleCopy
    <3>3. rows = [Start EXCEPT ![Org] = d]
      BY <1>1, <2>2
    <3> HIDE DEF d
    <3>4. [status |-> "approved", cycle |-> y] \in AppRows
      BY <3>1 DEF AppRows
    <3>5. apps \in [Apps -> AppRows]
      BY <1>1, <2>2, <3>4
    <3>6. granted /\ granted \in BOOLEAN
      BY <2>2
    <3>7. rows \in [Accounts -> Rows] /\ rows[Org] = d
      BY <1>1, <3>2, <3>3
    <3> QED
      BY <3>2, <3>5, <3>6, <3>7 DEF Granted
  <2>3. \/ rows = Start /\ granted = FALSE /\ apps = [a \in Apps |-> NoApp]
        \/ \E n \in Limits, y \in Cycles :
              /\ rows = [Start EXCEPT ![Org].credit = "approved", ![Org].limit = n, ![Org].cycle = y]
              /\ granted = TRUE
              /\ apps = [a \in Apps |-> IF a = 1 THEN [status |-> "approved", cycle |-> y] ELSE NoApp]
    BY DEF Init
  <2> QED
    BY <2>1, <2>2, <2>3, Zenon
<1>3. /\ job = [w \in Workers |-> NoJob] /\ bill = NoBill /\ owed = 0 /\ paid = 0
      /\ overlapped = FALSE /\ calls = 0 /\ member = [tokens |-> 0, cost |-> 0]
      /\ usage = [r \in Requests |-> "new"] /\ payer = [r \in Requests |-> Org]
  BY DEF Init
<1>4. bill \in Bills /\ bill.status = "none" /\ bill.amount = 0 /\ bill.total = 0
  BY <1>3 DEF NoBill, Bills
<1>5. TypeOK
  <2>1. member \in MemberRows /\ calls \in 0..MaxCalls /\ owed \in Nat /\ paid \in Nat
    BY <1>1, <1>3 DEF MemberRows
  <2>3. overlapped \in BOOLEAN
    BY <1>3, Zenon
  <2>2. usage \in [Requests -> Phases] /\ payer \in [Requests -> Accounts]
        /\ job \in [Workers -> Jobs]
    BY <1>1, <1>3 DEF Phases
  <2> QED
    BY <1>2, <1>4, <2>1, <2>2, <2>3, Zenon DEF TypeOK
<1>6. JobsOK /\ CopiesFresh
  BY <1>3, NoJobOK DEF JobsOK, JobOK, CopiesFresh
<1>7. \A c \in Callers : ~At(c, "reset")
  BY <1>3, NoJobType DEF At, Workers
<1>8. BillCovered /\ NotForgiven /\ CreditNeedsGrant /\ CreditAccounted
  BY <1>2, <1>3, <1>4, <1>7 DEF BillCovered, NotForgiven, CreditNeedsGrant, Granted, CreditAccounted
<1> QED
  BY <1>5, <1>6, <1>8 DEF IInv, Books

LEMMA Step == IInv /\ [Next]_vars => IInv'
<1> SUFFICES ASSUME IInv, [Next]_vars PROVE IInv'
  OBVIOUS
<1>1. ASSUME NEW r \in Requests, Request(r) PROVE IInv'
  BY <1>1, ChecksStep, IncrementsStep, ReadOrganizationStep, ReadIndividualStep,
     SaveUsageStep, SaveChargeStep, SaveSuspensionStep DEF Request
<1>2. ASSUME NEW c \in Callers, TenantRoutes(c) \/ ReviewRoutes(c) PROVE IInv'
  BY <1>2, TenantRoutesStep
<1>3. ASSUME NEW c \in Callers, SettlementRoutes(c) PROVE IInv'
  BY <1>3, TriggerSettlementStep, SettlementBegins DEF SettlementRoutes
<1>4. ASSUME NEW c \in Callers, AccountRoutes(c) \/ BudgetTool(c) PROVE IInv'
  BY <1>4, AccountRoutesStep
<1>5. ASSUME NEW c \in Callers, Continue(c) PROVE IInv'
  BY <1>5, SaveRowStep, CreateApplicationStep, SaveApplicationStep, DecisionsStep,
     ReadTenantStep, CreateBillStep, ResetCreditStep, SaveBillStep DEF Continue
<1>6. ASSUME UNCHANGED vars PROVE IInv'
  <2>1. UNCHANGED <<rows, bill, job, owed, paid, granted, overlapped>>
    BY <1>6 DEF vars
  <2>2. Books'
    BY <2>1, BooksFrame DEF IInv
  <2>3. TypeOK'
    BY <1>6 DEF vars, IInv, TypeOK
  <2> QED
    BY <2>2, <2>3 DEF IInv
<1> QED
  BY <1>1, <1>2, <1>3, <1>4, <1>5, <1>6 DEF Next

LEMMA BooksKept == Spec => []IInv
BY Initially, Step, PTL DEF Spec

(* Every row, application, bill and job keeps its type: no deduction, late     *)
(* save or payment makes a counter of tokens, the credit used or the rest of a *)
(* bill negative.                                                              *)
THEOREM TypeCorrect == Spec => []TypeOK
<1>1. IInv => TypeOK
  BY DEF IInv
<1> QED
  BY <1>1, BooksKept, PTL

(* What deductOrganizationUsage charged to the credit is the credit used or on *)
(* the settlement bill, once: unless one save overtook another, or a           *)
(* settlement stopped between its two writes (TriggerSettlement).              *)
THEOREM CreditIsAccounted == Spec => []CreditAccounted
<1>1. IInv => CreditAccounted
  BY DEF IInv, Books
<1> QED
  BY <1>1, BooksKept, PTL

(* A bill that ProcessSettlementBill marked paid was paid in full, in whatever *)
(* parts and by however many callers at the same time.                         *)
THEOREM NothingForgiven == Spec => []NotForgiven
<1>1. IInv => NotForgiven
  BY DEF IInv, Books
<1> QED
  BY <1>1, BooksKept, PTL

(* Nobody has approved credit, or a limit, that ApproveApplication did not     *)
(* grant, however late a row is saved.                                         *)
THEOREM CreditIsGranted == Spec => []CreditNeedsGrant
<1>1. IInv => CreditNeedsGrant
  BY DEF IInv, Books
<1> QED
  BY <1>1, BooksKept, PTL

-----------------------------------------------------------------------------
(* The check and the deduction *)

(* An organization that OrganizationAllows, is charged as the check expects.   *)
LEMMA OrganizationCovered ==
  ASSUME NEW a \in Rows, NEW r \in Requests, OrganizationAllows(a, r)
  PROVE  LET t == DeductOrganization(a, r) IN
         /\ t.status = a.status
         /\ t.used # a.used => t.used <= a.limit /\ t.limit = a.limit
         /\ (t.tokens <= a.quota /\ t.quota = a.quota)
              \/ (a.balance - t.balance) + (t.used - a.used) >= Cost[r]
<1> DEFINE t == DeductOrganization(a, r)
           b == IF a.balance > 0 THEN 0 ELSE a.balance
<1>1. Cost[r] \in Nat /\ Tokens[r] \in Nat
  BY RequestTypes
<1>2. /\ a.balance \in Int /\ a.tokens \in Nat /\ a.used \in Nat /\ a.quota \in Int /\ a.limit \in Int
  BY DEF Rows
<1>3. CASE a.tokens + Tokens[r] <= a.quota
  <2>1. t = [a EXCEPT !.tokens = a.tokens + Tokens[r]]
    BY <1>3 DEF DeductOrganization, Rows
  <2>2. t.tokens = a.tokens + Tokens[r] /\ t.quota = a.quota /\ t.status = a.status
        /\ t.used = a.used
    BY <2>1 DEF Rows
  <2> HIDE DEF t
  <2> QED
    BY <1>3, <2>2 DEF t
<1>4. CASE ~(a.tokens + Tokens[r] <= a.quota) /\ Pays(a, r)
  <2>1. t = [a EXCEPT !.tokens = a.tokens + Tokens[r], !.balance = a.balance - Cost[r]]
    BY <1>4 DEF DeductOrganization, Pays, Rows
  <2>2. t.balance = a.balance - Cost[r] /\ t.status = a.status /\ t.used = a.used
    BY <2>1 DEF Rows
  <2> HIDE DEF t
  <2>3. (a.balance - t.balance) + (t.used - a.used) >= Cost[r]
    BY <1>1, <1>2, <2>2
  <2> QED
    BY <2>2, <2>3 DEF t
<1>5. CASE ~(a.tokens + Tokens[r] <= a.quota) /\ ~Pays(a, r)
  <2>1. Approved(a) /\ a.used + Cost[r] <= a.limit
    BY <1>5 DEF OrganizationAllows
  <2>2. t = [a EXCEPT !.tokens = a.tokens + Tokens[r], !.balance = b, !.used = a.used + Cost[r]]
    BY <1>5, <2>1 DEF DeductOrganization, Pays, Approved, Rows
  <2> HIDE DEF b
  <2>3. t.balance = b /\ t.status = a.status /\ t.used = a.used + Cost[r] /\ t.limit = a.limit
    BY <2>2 DEF Rows
  <2> HIDE DEF t
  <2>4. a.balance - b >= 0 /\ a.balance - b \in Int
    BY <1>2 DEF b
  <2>5. (a.balance - t.balance) + (t.used - a.used) >= Cost[r]
    BY <1>1, <1>2, <2>3, <2>4
  <2> QED
    BY <2>1, <2>3, <2>5 DEF t
<1> QED
  BY <1>3, <1>4, <1>5

LEMMA IndividualCovered ==
  ASSUME NEW q \in Rows, NEW r \in Requests, IndividualAllows(q, r)
  PROVE  DeductIndividual(q, r).balance >= 0 \/ q.balance < 0
<1> DEFINE d == DeductIndividual(q, r)
<1>1. Cost[r] \in Nat /\ Tokens[r] \in Nat /\ (Tokens[r] = 0 => Cost[r] = 0)
  BY RequestTypes
<1>2. q.balance \in Int /\ q.tokens \in Nat /\ q.quota \in Int
  BY RowFields
<1>3. d.balance = IF FitsTokens(q, r) THEN q.balance ELSE q.balance - Cost[r]
  BY DEF DeductIndividual, Rows
<1>4. ASSUME ~FitsTokens(q, r), ~Pays(q, r) PROVE Cost[r] = 0
  BY <1>1, <1>2, <1>4 DEF IndividualAllows, FitsTokens
<1>5. ASSUME ~FitsTokens(q, r), Pays(q, r) PROVE q.balance - Cost[r] >= 0
  BY <1>1, <1>2, <1>5 DEF Pays
<1> HIDE DEF d
<1>6. d.balance >= 0 \/ q.balance < 0
  BY <1>1, <1>2, <1>3, <1>4, <1>5
<1> QED
  BY <1>6 DEF d

(* What CheckUsageAllowance lets through, DeductUsage can charge to the row    *)
(* that the check saw: nobody is suspended, credit stays within its limit, the *)
(* cost is covered and no balance becomes negative.                            *)
THEOREM AllowanceIsCovered == Spec => []AllowanceCovers
<1>1. IInv => AllowanceCovers
  <2> SUFFICES ASSUME IInv, NEW r \in Requests
               PROVE  /\ LET a == rows[Org]
                             t == DeductOrganization(a, r)
                         IN  OrganizationAllows(a, r) =>
                                /\ t.status = a.status
                                /\ t.used # a.used => t.used <= t.limit
                                /\ t.tokens <= t.quota
                                     \/ (a.balance - t.balance) + (t.used - a.used) >= Cost[r]
                      /\ \A u \in Users :
                            IndividualAllows(rows[u], r) =>
                                DeductIndividual(rows[u], r).balance >= 0 \/ rows[u].balance < 0
    BY DEF AllowanceCovers
  <2>1. rows[Org] \in Rows /\ \A u \in Users : rows[u] \in Rows
    BY OrgRow DEF Accounts
  <2>2. ASSUME NEW u \in Users, IndividualAllows(rows[u], r)
        PROVE  DeductIndividual(rows[u], r).balance >= 0 \/ rows[u].balance < 0
    BY <2>1, <2>2, IndividualCovered
  <2> DEFINE a == rows[Org]
             t == DeductOrganization(a, r)
  <2> HIDE DEF a
  <2>3. ASSUME OrganizationAllows(a, r)
        PROVE  /\ t.status = a.status
               /\ t.used # a.used => t.used <= t.limit
               /\ t.tokens <= t.quota \/ (a.balance - t.balance) + (t.used - a.used) >= Cost[r]
    BY <2>1, <2>3, OrganizationCovered DEF a
  <2> QED
    BY <2>2, <2>3 DEF a
<1> QED
  BY <1>1, BooksKept, PTL
=============================================================================
