---------------------------- MODULE TenantCredit ----------------------------
(***************************************************************************)
(* How usage is paid for outside the balance of a user row: QuotaService   *)
(* checks and deducts tokens, balance and credit of a tenant or of an      *)
(* individual's quota, CreditApplicationService grants credit,             *)
(* SettlementService bills it.                                             *)
(*                                                                         *)
(* Every change of a row reads all of it, changes the copy and saves all   *)
(* of it (GORM Save); nothing orders two such changes.  job[w] is what     *)
(* worker w holds between its statements; a worker is a request that is    *)
(* being paid for, or a caller of an administrative operation.  Any        *)
(* statement may fail.  Money and tokens are whole numbers; the statistics *)
(* of the month other than tokens are left out.                            *)
(***************************************************************************)
EXTENDS Integers

CONSTANTS
    Org,                   \* the tenant
    Users,                 \* the quotas of individuals
    Requests,
    Cost, Tokens,          \* of a request
    Callers,               \* goroutines of administrative operations
    MaxCalls,              \* bound on the operations that are started
    MaxApps,               \* bound on the credit applications
    Cycles,                \* settlement cycles that tenants ask for
    Limits,                \* credit limits that reviewers grant
    TokenLimits,           \* token limits that administrators set
    Amounts,               \* amounts that are paid
    Threshold,             \* threshold of the threshold cycle
    MemberTokens, MemberCost,      \* limits of the member's quota
    Start                  \* the rows when the model starts, before any credit

Accounts == {Org} \cup Users
Apps == 1..MaxApps
NoLimit == -1              \* a nil limit
AllCycles == {"", "monthly", "weekly", "threshold", "custom"}

Rows == [status : {"active", "suspended", "pending_payment"}, balance : Int,
         tokens : Nat, quota : Int, limit : Int, used : Nat,
         credit : {"none", "pending", "approved", "rejected"}, cycle : AllCycles]

ASSUME CreditAssumption ==
    /\ Org \notin Users /\ Requests \cap Callers = {}
    /\ Cost \in [Requests -> Nat] /\ Tokens \in [Requests -> Nat]
    /\ \A r \in Requests : Tokens[r] = 0 => Cost[r] = 0
    /\ MaxCalls \in Nat /\ MaxApps \in Nat /\ Threshold \in Nat
    /\ Cycles \subseteq AllCycles
    /\ Limits \subseteq Nat \ {0} /\ TokenLimits \subseteq Nat \ {0}
    /\ Amounts \subseteq Nat \ {0}
    /\ MemberTokens \in Int /\ MemberCost \in Int
    /\ Start \in [Accounts -> Rows]
    /\ \A a \in Accounts : /\ Start[a].used = 0
                           /\ Start[a].credit = "none" /\ Start[a].limit = NoLimit

VARIABLES
    rows,          \* the tenant's row and the rows of user_quotas
    member,        \* counters of the member's quota row
    apps,          \* credit applications of the tenant, in the order of creation
    bill,          \* the settlement bill; all of them have the number ""
    usage,         \* how far a request is
    payer,         \* the account that pays for it, by the quota type of its API key
    job,
    calls,         \* the number of operations started
    owed,          \* history: what was charged to the tenant's credit
    paid,          \* history: payments recorded on the bill
    granted,       \* history: a limit was granted on an application
    overlapped     \* history: a tenant row was saved that another worker had read
                   \* before, or a settlement stopped between its two writes

vars == <<rows, member, apps, bill, usage, payer, job, calls, owed, paid, granted, overlapped>>
requests == <<usage, payer>>
ghosts == <<owed, paid, granted>>

Workers == Requests \cup Callers
AppRows == [status : {"none", "pending", "approved", "rejected", "deleted"}, cycle : AllCycles]
MemberRows == [tokens : Nat, cost : Nat]
Bills == [status : {"none", "pending", "paid", "partial_paid"}, amount : Nat, total : Nat]
NoBill == [status |-> "none", amount |-> 0, total |-> 0]
NoRow == [status |-> "active", balance |-> 0, tokens |-> 0, quota |-> NoLimit,
          limit |-> NoLimit, used |-> 0, credit |-> "none", cycle |-> ""]
NoApp == [status |-> "none", cycle |-> ""]

Points == {"idle", "save", "saveCharge", "suspend", "insert", "saveApp", "delete", "approve",
           "reject", "trigger", "adopt", "clear", "refuse", "bill", "reset", "pay", "overdue"}
Jobs == [pc : Points, acct : Accounts, row : Rows, app : 0..MaxApps, appRow : AppRows,
         amount : Int, total : Nat]
NoJob == [pc |-> "idle", acct |-> Org, row |-> NoRow, app |-> 0, appRow |-> NoApp,
          amount |-> 0, total |-> 0]

\* A tenant that is new, or one that was granted credit before.
Init ==
    /\ \/ /\ rows = Start /\ granted = FALSE
          /\ apps = [a \in Apps |-> NoApp]
       \/ \E n \in Limits, y \in Cycles :
             /\ rows = [Start EXCEPT ![Org].credit = "approved", ![Org].limit = n, ![Org].cycle = y]
             /\ granted = TRUE
             /\ apps = [a \in Apps |-> IF a = 1 THEN [status |-> "approved", cycle |-> y] ELSE NoApp]
    /\ member = [tokens |-> 0, cost |-> 0]
    /\ bill = NoBill
    /\ usage = [r \in Requests |-> "new"] /\ payer = [r \in Requests |-> Org]
    /\ job = [w \in Workers |-> NoJob]
    /\ calls = 0 /\ owed = 0 /\ paid = 0
    /\ overlapped = FALSE

-----------------------------------------------------------------------------
(* What the checks and the deductions decide, as functions of a row *)

Approved(t) == t.credit = "approved" /\ t.limit # NoLimit
Pays(t, r) == t.balance > 0 /\ t.balance >= Cost[r]

\* Mutant: the check forgets what is already used of the credit.
AllowsFreshCredit(t, r) ==
    /\ t.status # "suspended"
    /\ \/ t.tokens + Tokens[r] <= t.quota
       \/ Pays(t, r)
       \/ Approved(t) /\ Cost[r] <= t.limit

\* Tokens first, then the balance, then approved credit.
OrganizationAllows(t, r) ==
    /\ t.status # "suspended"
    /\ \/ t.tokens + Tokens[r] <= t.quota
       \/ Pays(t, r)
       \/ Approved(t) /\ t.used + Cost[r] <= t.limit

IndividualAllows(q, r) ==
    /\ q.status = "active"
    /\ \/ q.quota > 0 /\ q.tokens + Tokens[r] <= q.quota
       \/ Pays(q, r)

MemberAllows(r) ==
    /\ MemberTokens # NoLimit => member.tokens + Tokens[r] <= MemberTokens
    /\ MemberCost # NoLimit => member.cost + Cost[r] <= MemberCost

\* The row that deductOrganizationUsage saves.  When the balance pays a part,
\* the credit is charged the full cost all the same.
DeductOrganization(t, r) ==
    LET u == [t EXCEPT !.tokens = @ + Tokens[r]]
        b == IF t.balance > 0 THEN 0 ELSE t.balance
    IN  IF u.tokens <= t.quota THEN u
        ELSE IF Pays(t, r) THEN [u EXCEPT !.balance = @ - Cost[r]]
        ELSE IF Approved(t) THEN [u EXCEPT !.balance = b, !.used = @ + Cost[r]]
        ELSE [u EXCEPT !.balance = b, !.status = "suspended"]

FitsTokens(q, r) == q.tokens < q.quota /\ q.tokens + Tokens[r] <= q.quota

\* The row that deductIndividualUsage saves first: what does not fit in the
\* tokens left is paid from the balance, which may become negative.
DeductIndividual(q, r) ==
    IF FitsTokens(q, r)
    THEN [q EXCEPT !.tokens = @ + Tokens[r]]
    ELSE [q EXCEPT !.tokens = IF @ < q.quota THEN q.quota ELSE @,
                   !.balance = @ - Cost[r]]

\* CheckSettlementTrigger; today says whether it is the settlement day.
Triggered(t, today) ==
    /\ Approved(t)
    /\ \/ t.cycle \in {"monthly", "weekly"} /\ today /\ t.used > 0
       \/ t.cycle = "threshold" /\ t.used >= Threshold

-----------------------------------------------------------------------------
(* Statements *)

At(w, pc) == job[w].pc = pc
Done(w) == job' = [job EXCEPT ![w] = NoJob]

Fail(w) == Done(w)             \* a statement fails: the operation ends with an error

\* Worker w holds a copy of the tenant's row that it is going to save.
Holds(w) == job[w].acct = Org /\ job[w].pc \in {"save", "insert", "bill", "reset"}

\* Read the row of account a, change the copy, go on at pc.
Read(w, pc, a, row, amount) ==
    job' = [job EXCEPT ![w] = [@ EXCEPT !.pc = pc, !.acct = a, !.row = row, !.amount = amount]]

\* Save the copy: it overwrites what was saved since the copy was read.
Store(w) ==
    /\ rows' = [rows EXCEPT ![job[w].acct] = job[w].row]
    /\ overlapped' = (overlapped \/ /\ job[w].acct = Org
                                    /\ \E v \in Workers \ {w} : Holds(v))

-----------------------------------------------------------------------------
(* Requests: CheckUsageAllowance before, DeductUsage after the upstream call *)

Becomes(r, phase) == usage' = [usage EXCEPT ![r] = phase]

CheckMember(r) ==
    /\ usage[r] = "new" /\ payer' = [payer EXCEPT ![r] = Org]
    /\ Becomes(r, IF MemberAllows(r) THEN "checked" ELSE "refused")
    /\ UNCHANGED <<rows, member, apps, bill, job, calls, ghosts, overlapped>>

CheckOrganization(r) ==
    /\ usage[r] = "checked"
    /\ Becomes(r, IF OrganizationAllows(rows[Org], r) THEN "used" ELSE "refused")
    /\ UNCHANGED <<payer, rows, member, apps, bill, job, calls, ghosts, overlapped>>

CheckIndividual(r, u) ==
    /\ usage[r] = "new" /\ payer' = [payer EXCEPT ![r] = u]
    /\ Becomes(r, IF IndividualAllows(rows[u], r) THEN "used" ELSE "refused")
    /\ UNCHANGED <<rows, member, apps, bill, job, calls, ghosts, overlapped>>

\* Two increments of the member's row, then the tenant.
IncrementTokensUsed(r) ==
    /\ usage[r] = "used" /\ payer[r] = Org
    /\ \/ /\ member' = [member EXCEPT !.tokens = @ + Tokens[r]]
          /\ Becomes(r, "counted")
       \/ Becomes(r, "failed") /\ UNCHANGED member
    /\ UNCHANGED <<payer, rows, apps, bill, job, calls, ghosts, overlapped>>

IncrementCostUsed(r) ==
    /\ usage[r] = "counted"
    /\ \/ /\ member' = [member EXCEPT !.cost = @ + Cost[r]]
          /\ Becomes(r, "charged")
       \/ Becomes(r, "failed") /\ UNCHANGED member
    /\ UNCHANGED <<payer, rows, apps, bill, job, calls, ghosts, overlapped>>

ReadOrganization(r) ==
    /\ usage[r] = "charged"
    /\ Becomes(r, "saving")
    /\ LET t == DeductOrganization(rows[Org], r) IN Read(r, "save", Org, t, t.used - rows[Org].used)
    /\ UNCHANGED <<payer, rows, member, apps, bill, calls, ghosts, overlapped>>

ReadIndividual(r) ==
    /\ usage[r] = "used" /\ payer[r] # Org
    /\ Becomes(r, "saving")
    /\ LET q == rows[payer[r]] IN
       Read(r, IF FitsTokens(q, r) THEN "save" ELSE "saveCharge", payer[r], DeductIndividual(q, r), 0)
    /\ UNCHANGED <<payer, rows, member, apps, bill, calls, ghosts, overlapped>>

SaveUsage(r) ==
    /\ At(r, "save")
    /\ \/ Store(r) /\ owed' = owed + job[r].amount /\ Becomes(r, "done")
       \/ Becomes(r, "failed") /\ UNCHANGED <<rows, overlapped, owed>>
    /\ Done(r)
    /\ UNCHANGED <<payer, member, apps, bill, calls, paid, granted>>

\* Mutant: the status of an exhausted member's quota.
ChargeQuotaExceeded(r) ==
    /\ At(r, "saveCharge")
    /\ \/ /\ Store(r)
          /\ IF job[r].row.balance <= 0
             THEN /\ job' = [job EXCEPT ![r].pc = "suspend", ![r].row.status = "quota_exceeded"]
                  /\ UNCHANGED usage
             ELSE Done(r) /\ Becomes(r, "done")
       \/ Fail(r) /\ Becomes(r, "failed") /\ UNCHANGED <<rows, overlapped>>
    /\ UNCHANGED <<payer, member, apps, bill, calls, ghosts>>

\* An individual whose balance is used up is suspended by a second save.
SaveCharge(r) ==
    /\ At(r, "saveCharge")
    /\ \/ /\ Store(r)
          /\ IF job[r].row.balance <= 0
             THEN /\ job' = [job EXCEPT ![r].pc = "suspend", ![r].row.status = "suspended"]
                  /\ UNCHANGED usage
             ELSE Done(r) /\ Becomes(r, "done")
       \/ Fail(r) /\ Becomes(r, "failed") /\ UNCHANGED <<rows, overlapped>>
    /\ UNCHANGED <<payer, member, apps, bill, calls, ghosts>>

SaveSuspension(r) ==
    /\ At(r, "suspend")
    /\ Store(r) \/ UNCHANGED <<rows, overlapped>>
    /\ Done(r) /\ Becomes(r, "done")
    /\ UNCHANGED <<payer, member, apps, bill, calls, ghosts>>

-----------------------------------------------------------------------------
(* Operations that read a row and save it *)

Begin(c) == At(c, "idle") /\ calls < MaxCalls /\ calls' = calls + 1

\* By the platform or by an MCP tool.
SuspendTenant(c) ==
    /\ Begin(c)
    /\ Read(c, "save", Org, [rows[Org] EXCEPT !.status = "suspended"], 0)
    /\ UNCHANGED <<rows, member, apps, bill, requests, ghosts, overlapped>>

ActivateTenant(c) ==
    /\ Begin(c)
    /\ Read(c, "save", Org, [rows[Org] EXCEPT !.status = "active"], 0)
    /\ UNCHANGED <<rows, member, apps, bill, requests, ghosts, overlapped>>

SetTenantBudget(c) ==
    /\ Begin(c)
    /\ \E n \in TokenLimits : Read(c, "save", Org, [rows[Org] EXCEPT !.quota = n], 0)
    /\ UNCHANGED <<rows, member, apps, bill, requests, ghosts, overlapped>>

\* A paid recharge order is credited; it opens a quota that waited for it.
ProcessPayment(c) ==
    /\ Begin(c)
    /\ \E a \in Accounts, n \in Amounts :
          Read(c, "save", a,
               [rows[a] EXCEPT !.balance = @ + n,
                               !.status = IF @ = "pending_payment" THEN "active" ELSE @], 0)
    /\ UNCHANGED <<rows, member, apps, bill, requests, ghosts, overlapped>>

\* Mutant: the status of the credit is not looked at.
AdjustAnyLimit(c) ==
    /\ Begin(c)
    /\ \E n \in Limits : Read(c, "save", Org, [rows[Org] EXCEPT !.limit = n], 0)
    /\ UNCHANGED <<rows, member, apps, bill, requests, ghosts, overlapped>>

AdjustCreditLimit(c) ==
    /\ Begin(c)
    /\ rows[Org].credit = "approved"
    /\ \E n \in Limits : Read(c, "save", Org, [rows[Org] EXCEPT !.limit = n], 0)
    /\ UNCHANGED <<rows, member, apps, bill, requests, ghosts, overlapped>>

SaveRow(c) ==
    /\ c \in Callers /\ At(c, "save")
    /\ Store(c) \/ UNCHANGED <<rows, overlapped>>
    /\ Done(c)
    /\ UNCHANGED <<member, apps, bill, requests, calls, ghosts>>

-----------------------------------------------------------------------------
(* Credit applications *)

Kept == {a \in Apps : apps[a].status \notin {"none", "deleted"}}
Latest(a) == a \in Kept /\ \A b \in Kept : b <= a
Pending(a) == apps[a].status = "pending"

ForApp(c, pc, a, n) ==
    job' = [job EXCEPT ![c] = [NoJob EXCEPT !.pc = pc, !.app = a, !.appRow = apps[a], !.amount = n]]

\* The tenant's row is read first and saved after the application was inserted;
\* a tenant whose credit is approved may apply again.
ApplyForCredit(c) ==
    /\ Begin(c)
    /\ \A a \in Apps : Latest(a) => ~Pending(a)
    /\ Read(c, "insert", Org, [rows[Org] EXCEPT !.credit = "pending"], 0)
    /\ UNCHANGED <<rows, member, apps, bill, requests, ghosts, overlapped>>

CreateApplication(c) ==
    /\ At(c, "insert")
    /\ \/ \E a \in Apps, y \in Cycles :
             /\ apps[a] = NoApp /\ \A b \in 1..(a - 1) : apps[b] # NoApp
             /\ apps' = [apps EXCEPT ![a] = [status |-> "pending", cycle |-> y]]
             /\ job' = [job EXCEPT ![c].pc = "save"]
       \/ Fail(c) /\ UNCHANGED apps
    /\ UNCHANGED <<rows, member, bill, requests, calls, ghosts, overlapped>>

\* The tenant changes or withdraws its latest application while it is pending.
UpdateApplication(c) ==
    /\ Begin(c)
    /\ \E a \in Apps : Latest(a) /\ Pending(a) /\ ForApp(c, "saveApp", a, 0)
    /\ UNCHANGED <<rows, member, apps, bill, requests, ghosts, overlapped>>

\* The whole row is saved, with the status it had.
SaveApplication(c) ==
    /\ At(c, "saveApp")
    /\ \/ \E y \in Cycles \cup {job[c].appRow.cycle} :
             apps' = [apps EXCEPT ![job[c].app] = [job[c].appRow EXCEPT !.cycle = y]]
       \/ UNCHANGED apps
    /\ Done(c)
    /\ UNCHANGED <<rows, member, bill, requests, calls, ghosts, overlapped>>

CancelApplication(c) ==
    /\ Begin(c)
    /\ \E a \in Apps : Latest(a) /\ Pending(a) /\ ForApp(c, "delete", a, 0)
    /\ UNCHANGED <<rows, member, apps, bill, requests, ghosts, overlapped>>

DeleteApplication(c) ==
    /\ At(c, "delete")
    /\ \/ /\ apps' = [apps EXCEPT ![job[c].app].status = "deleted"]
          /\ job' = [job EXCEPT ![c].pc = "clear"]
       \/ Fail(c) /\ UNCHANGED apps
    /\ UNCHANGED <<rows, member, bill, requests, calls, ghosts, overlapped>>

\* ReviewApplication of the platform: approve with a limit, or reject.
ApproveApplication(c) ==
    /\ Begin(c)
    /\ \E a \in Apps, n \in Limits : Pending(a) /\ ForApp(c, "approve", a, n)
    /\ UNCHANGED <<rows, member, apps, bill, requests, ghosts, overlapped>>

RejectApplication(c) ==
    /\ Begin(c)
    /\ \E a \in Apps : Pending(a) /\ ForApp(c, "reject", a, 0)
    /\ UNCHANGED <<rows, member, apps, bill, requests, ghosts, overlapped>>

\* The statements do not look at the status; they pass over a deleted row.
Decided(a, s) == [apps EXCEPT ![a].status = IF @ = "deleted" THEN @ ELSE s]

Approve(c) ==
    /\ At(c, "approve")
    /\ \/ /\ apps' = Decided(job[c].app, "approved")
          /\ job' = [job EXCEPT ![c].pc = "adopt"]
          /\ granted' = TRUE
       \/ Fail(c) /\ UNCHANGED <<apps, granted>>
    /\ UNCHANGED <<rows, member, bill, requests, calls, owed, paid, overlapped>>

Reject(c) ==
    /\ At(c, "reject")
    /\ \/ /\ apps' = Decided(job[c].app, "rejected")
          /\ job' = [job EXCEPT ![c].pc = "refuse"]
       \/ Fail(c) /\ UNCHANGED apps
    /\ UNCHANGED <<rows, member, bill, requests, calls, ghosts, overlapped>>

\* Each of the three then reads the tenant and saves it.
Credited(c) ==
    CASE At(c, "clear")  -> [rows[Org] EXCEPT !.credit = "none"]
      [] At(c, "refuse") -> [rows[Org] EXCEPT !.credit = "rejected"]
      [] At(c, "adopt")  -> [rows[Org] EXCEPT !.credit = "approved", !.limit = job[c].amount,
                                              !.cycle = job[c].appRow.cycle]

ReadCreditTenant(c) ==
    /\ job[c].pc \in {"clear", "refuse", "adopt"}
    /\ Read(c, "save", Org, Credited(c), 0) \/ Fail(c)
    /\ UNCHANGED <<rows, member, apps, bill, requests, calls, ghosts, overlapped>>

-----------------------------------------------------------------------------
(* Settlement *)

\* RunScheduledSettlement asks CheckSettlementTrigger first, the tenant's own
\* request does not; TriggerSettlement reads the row again.
RunScheduledSettlement(c) ==
    /\ Begin(c)
    /\ \E today \in BOOLEAN : Triggered(rows[Org], today)
    /\ job' = [job EXCEPT ![c].pc = "trigger"]
    /\ UNCHANGED <<rows, member, apps, bill, requests, ghosts, overlapped>>

Settles(t) == t.credit = "approved" /\ t.used > 0

\* Mutant: the copy that is saved after the bill keeps the credit used.
TriggerKeepingCredit(c) ==
    /\ \/ Begin(c)
       \/ At(c, "trigger") /\ UNCHANGED calls
    /\ IF Settles(rows[Org]) THEN Read(c, "bill", Org, rows[Org], rows[Org].used) ELSE Done(c)
    /\ UNCHANGED <<rows, member, apps, bill, requests, ghosts, overlapped>>

TriggerSettlement(c) ==
    /\ \/ Begin(c)
       \/ At(c, "trigger") /\ UNCHANGED calls
    /\ IF Settles(rows[Org])
          THEN Read(c, "bill", Org, [rows[Org] EXCEPT !.used = 0], rows[Org].used)
          ELSE Done(c)
    /\ UNCHANGED <<rows, member, apps, bill, requests, ghosts, overlapped>>

\* The bill number is empty and has to be unique: there is never a second bill.
CreateBill(c) ==
    /\ At(c, "bill")
    /\ \/ /\ bill.status = "none"
          /\ bill' = [status |-> "pending", amount |-> job[c].amount, total |-> job[c].amount]
          /\ job' = [job EXCEPT ![c].pc = "reset"]
       \/ Fail(c) /\ UNCHANGED bill
    /\ UNCHANGED <<rows, member, apps, requests, calls, ghosts, overlapped>>

ResetCredit(c) ==
    /\ At(c, "reset")
    /\ Store(c) \/ (overlapped' = TRUE /\ UNCHANGED rows)
    /\ Done(c)
    /\ UNCHANGED <<member, apps, bill, requests, calls, ghosts>>

\* A payment on the bill, whatever its status; what is left becomes its total.
ProcessSettlementBill(c) ==
    /\ Begin(c)
    /\ bill.status # "none"
    /\ \E n \in Amounts : job' = [job EXCEPT ![c] = [NoJob EXCEPT !.pc = "pay", !.amount = n,
                                                       !.total = bill.total]]
    /\ UNCHANGED <<rows, member, apps, bill, requests, ghosts, overlapped>>

\* Mutant: the remaining total is what the payment is compared with.
PayComparingRest(c) ==
    /\ At(c, "pay")
    /\ LET rest == job[c].total - job[c].amount IN
       \/ /\ bill' = IF job[c].amount >= rest THEN [bill EXCEPT !.status = "paid"]
                      ELSE [bill EXCEPT !.status = "partial_paid", !.total = rest]
          /\ paid' = paid + job[c].amount
       \/ UNCHANGED <<bill, paid>>
    /\ Done(c)
    /\ UNCHANGED <<rows, member, apps, requests, calls, owed, granted, overlapped>>

SaveBill(c) ==
    /\ At(c, "pay")
    /\ LET rest == job[c].total - job[c].amount IN
       \/ /\ bill' = IF rest <= 0 THEN [bill EXCEPT !.status = "paid", !.total = job[c].total]
                      ELSE [bill EXCEPT !.status = "partial_paid", !.total = rest]
          /\ paid' = paid + job[c].amount
       \/ UNCHANGED <<bill, paid>>
    /\ Done(c)
    /\ UNCHANGED <<rows, member, apps, requests, calls, owed, granted, overlapped>>

\* A bill that is pending after its due date suspends the tenant.
CheckOverdueBills(c) ==
    /\ Begin(c)
    /\ bill.status = "pending"
    /\ job' = [job EXCEPT ![c].pc = "overdue"]
    /\ UNCHANGED <<rows, member, apps, bill, requests, ghosts, overlapped>>

ReadOverdueTenant(c) ==
    /\ At(c, "overdue")
    /\ Read(c, "save", Org, [rows[Org] EXCEPT !.status = "suspended"], 0) \/ Fail(c)
    /\ UNCHANGED <<rows, member, apps, bill, requests, calls, ghosts, overlapped>>

-----------------------------------------------------------------------------
Request(r) ==
    \/ CheckMember(r) \/ CheckOrganization(r) \/ (\E u \in Users : CheckIndividual(r, u))
    \/ IncrementTokensUsed(r) \/ IncrementCostUsed(r)
    \/ ReadOrganization(r) \/ ReadIndividual(r)
    \/ SaveUsage(r) \/ SaveCharge(r) \/ SaveSuspension(r)

\* What administrators and tenants may ask for.
TenantRoutes(c) == ApplyForCredit(c) \/ UpdateApplication(c) \/ CancelApplication(c)
ReviewRoutes(c) == ApproveApplication(c) \/ RejectApplication(c)
SettlementRoutes(c) ==
    \/ TriggerSettlement(c) \/ RunScheduledSettlement(c)
    \/ ProcessSettlementBill(c) \/ CheckOverdueBills(c)
AccountRoutes(c) ==
    \/ SuspendTenant(c) \/ ActivateTenant(c)
    \/ AdjustCreditLimit(c) \/ ProcessPayment(c)
BudgetTool(c) == SetTenantBudget(c)

Continue(c) ==
    \/ SaveRow(c) \/ CreateApplication(c) \/ SaveApplication(c) \/ DeleteApplication(c)
    \/ Approve(c) \/ Reject(c) \/ ReadCreditTenant(c)
    \/ CreateBill(c) \/ ResetCredit(c) \/ SaveBill(c) \/ ReadOverdueTenant(c)

Next ==
    \/ \E r \in Requests : Request(r)
    \/ \E c \in Callers :
          \/ TenantRoutes(c) \/ ReviewRoutes(c) \/ SettlementRoutes(c)
          \/ AccountRoutes(c) \/ BudgetTool(c) \/ Continue(c)

Spec == Init /\ [][Next]_vars

-----------------------------------------------------------------------------
Phases == {"new", "checked", "refused", "used", "counted", "charged", "saving", "done", "failed"}

TypeOK ==
    /\ rows \in [Accounts -> Rows]
    /\ member \in MemberRows
    /\ apps \in [Apps -> AppRows]
    /\ bill \in Bills
    /\ usage \in [Requests -> Phases] /\ payer \in [Requests -> Accounts]
    /\ job \in [Workers -> Jobs]
    /\ calls \in 0..MaxCalls /\ owed \in Nat /\ paid \in Nat
    /\ granted \in BOOLEAN /\ overlapped \in BOOLEAN

\* What requests charged to the tenant's credit (deductOrganizationUsage) is the
\* credit used or on the settlement bill, once, whatever fails or is refused
\* (TriggerSettlement) -- unless a row was saved that others had changed since it
\* was read, or the settlement stopped between the bill and the reset.
CreditAccounted ==
    ~overlapped =>
        rows[Org].used + (IF \E c \in Callers : At(c, "reset") THEN 0 ELSE bill.amount) = owed

\* A bill that is marked paid was paid in full (ProcessSettlementBill): payments in
\* parts, at the same time or after the bill was paid forgive nothing.
NotForgiven == bill.status = "paid" => paid >= bill.amount

\* A tenant has approved credit, or a credit limit, only after the platform
\* approved an application (ApproveApplication, AdjustCreditLimit), in spite of
\* rows that are saved late.
CreditNeedsGrant == rows[Org].credit = "approved" \/ rows[Org].limit # NoLimit => granted

\* Usage that the check lets through is paid for by the deduction, if the row did
\* not change in between: nobody is suspended, credit stays within its limit, the
\* cost is covered, an individual's balance does not become negative.
AllowanceCovers ==
    \A r \in Requests :
        /\ LET a == rows[Org]
               t == DeductOrganization(a, r)
           IN  OrganizationAllows(a, r) =>
                  /\ t.status = a.status
                  /\ t.used # a.used => t.used <= t.limit
                  /\ t.tokens <= t.quota \/ (a.balance - t.balance) + (t.used - a.used) >= Cost[r]
        /\ \A u \in Users :
              IndividualAllows(rows[u], r) =>
                  DeductIndividual(rows[u], r).balance >= 0 \/ rows[u].balance < 0
=============================================================================
