---------------------------- MODULE MemberQuotas ----------------------------
(* The quotas an organization gives its members (member_quota_service.go): a  *)
(* row of member_quotas for a user, and the reference to it in the user's row.*)
(*                                                                           *)
(* The operations of administrators read a row, change the copy and save all  *)
(* of it; creating and deleting a quota is a change of both rows, one after   *)
(* the other.  Requests count their usage in place, and what they pay is      *)
(* deducted from the user's balance in place.  A deleted row stays in the     *)
(* table, where it is unique per user as before; saving a copy of it brings   *)
(* it back.  Any statement may fail.  One request uses one token; cost, which *)
(* is checked and counted like tokens, is left out.                           *)
EXTENDS Integers, FiniteSets

CONSTANTS Users,      \* members of one organization
          Ids,        \* ids of member_quotas
          Callers,    \* requests handled at the same time
          Limits,     \* token limits that administrators set
          MaxUsed,    \* bound on the usage of a quota, above any that OvershootBounded allows
          MaxPaid,    \* bound on what a user pays
          None

ASSUME QuotaAssumption == /\ IsFiniteSet(Callers) /\ Limits \subseteq Nat
                          /\ None \notin Ids /\ None \notin Callers
                          /\ MaxUsed \in Nat /\ MaxPaid \in Nat

VARIABLES users,     \* user_mode, member_quota_id and what was paid, of each user
          quotas,    \* member_quotas
          jobs,      \* what each caller is doing
          counted,   \* history: the usage of a quota since it was created or reset,
                     \* kept until a row is saved late
          paid,      \* history: what a user has paid
          late,      \* history: a row was saved that had changed since it was read
          halfway    \* history: only one of two rows was changed

vars == <<users, quotas, jobs, counted, paid, late, halfway>>

UserRow  == [member : BOOLEAN, quota : Ids \cup {None}, paid : Nat]
QuotaRow == [live : BOOLEAN, user : Users, status : {"active", "suspended"},
             limit : Limits, used : Nat]

(* A caller holds the copy of the row it is going to save; overtaken says that *)
(* the row was written since.                                                 *)
Job == [at : {"insert", "link", "readUser", "unlink", "remove", "user", "quota", "use"},
        user : Users, id : Ids \cup {None}, userRow : UserRow \cup {None},
        quotaRow : QuotaRow \cup {None}, overtaken : BOOLEAN]

ASSUME NoneAssumption == None \notin UserRow /\ None \notin QuotaRow /\ None \notin Job

Init == /\ users = [u \in Users |-> [member |-> FALSE, quota |-> None, paid |-> 0]]
        /\ quotas = [i \in Ids |-> None]
        /\ jobs = [c \in Callers |-> None]
        /\ counted = [i \in Ids |-> 0] /\ paid = [u \in Users |-> 0]
        /\ late = FALSE /\ halfway = FALSE

Live(i) == quotas[i] # None /\ quotas[i].live
Has(u)  == \E i \in Ids : Live(i) /\ quotas[i].user = u
Busy(c, at) == jobs[c] # None /\ jobs[c].at = at

NewJob(at, u, i, userRow, quotaRow) ==
    [at |-> at, user |-> u, id |-> i, userRow |-> userRow, quotaRow |-> quotaRow,
     overtaken |-> FALSE]

(* Caller c goes on with job, having written the user's row or the quota.     *)
Overtake(d, wrote) == IF jobs[d] # None /\ wrote THEN [jobs[d] EXCEPT !.overtaken = TRUE] ELSE jobs[d]
WroteUser(c, u, job) ==
    jobs' = [d \in Callers |-> IF d = c THEN job
               ELSE Overtake(d, jobs[d].user = u /\ jobs[d].userRow # None)]
WroteQuota(c, i, job) ==
    jobs' = [d \in Callers |-> IF d = c THEN job
               ELSE Overtake(d, jobs[d].id = i /\ jobs[d].quotaRow # None)]
Goto(c, job) == jobs' = [jobs EXCEPT ![c] = job]

(* The copies are saved over whatever the rows have become.                   *)
SaveUserRow(c, row) == /\ users' = [users EXCEPT ![jobs[c].user] = row]
                       /\ late' = (late \/ jobs[c].overtaken)
SaveQuotaRow(c) == /\ quotas' = [quotas EXCEPT ![jobs[c].id] = jobs[c].quotaRow]
                   /\ late' = (late \/ jobs[c].overtaken)

-----------------------------------------------------------------------------
(* Creating and deleting a quota.                                            *)

CreateMemberQuota(c, u) ==
    /\ jobs[c] = None
    /\ ~Has(u)
    /\ Goto(c, NewJob("insert", u, None, users[u], None))
    /\ UNCHANGED <<users, quotas, counted, paid, late, halfway>>

(* The index on user_id counts deleted rows as well.                          *)
Create(c) ==
    /\ Busy(c, "insert")
    /\ LET u == jobs[c].user IN
       \/ /\ \A i \in Ids : quotas[i] # None => quotas[i].user # u
          /\ \E i \in Ids, n \in Limits :
                /\ quotas[i] = None
                /\ quotas' = [quotas EXCEPT ![i] = [live |-> TRUE, user |-> u, status |-> "active",
                                                    limit |-> n, used |-> 0]]
                /\ Goto(c, [jobs[c] EXCEPT !.at = "link", !.id = i])
       \/ Goto(c, None) /\ UNCHANGED quotas
    /\ UNCHANGED <<users, counted, paid, late, halfway>>

(* Mutant: the row that is saved holds nothing but the reference.             *)
LinkBareRow(c) ==
    /\ Busy(c, "link")
    /\ \/ /\ SaveUserRow(c, [member |-> TRUE, quota |-> jobs[c].id, paid |-> 0])
          /\ WroteUser(c, jobs[c].user, None)
          /\ UNCHANGED halfway
       \/ Goto(c, None) /\ halfway' = TRUE /\ UNCHANGED <<users, late>>
    /\ UNCHANGED <<quotas, counted, paid>>

LinkUser(c) ==
    /\ Busy(c, "link")
    /\ \/ /\ SaveUserRow(c, [jobs[c].userRow EXCEPT !.member = TRUE, !.quota = jobs[c].id])
          /\ WroteUser(c, jobs[c].user, None)
          /\ UNCHANGED halfway
       \/ Goto(c, None) /\ halfway' = TRUE /\ UNCHANGED <<users, late>>
    /\ UNCHANGED <<quotas, counted, paid>>

DeleteMemberQuota(c, i) ==
    /\ jobs[c] = None
    /\ Live(i)
    /\ Goto(c, NewJob("readUser", quotas[i].user, i, None, None))
    /\ UNCHANGED <<users, quotas, counted, paid, late, halfway>>

(* A user who cannot be read is passed over, and so is a failure to save.     *)
ReadUser(c) ==
    /\ Busy(c, "readUser")
    /\ \/ /\ Goto(c, NewJob("unlink", jobs[c].user, jobs[c].id, users[jobs[c].user], None))
          /\ UNCHANGED halfway
       \/ Goto(c, [jobs[c] EXCEPT !.at = "remove"]) /\ halfway' = TRUE
    /\ UNCHANGED <<users, quotas, counted, paid, late>>

(* Mutant: the mode of the user stays as it was.                              *)
UnlinkQuotaOnly(c) ==
    /\ Busy(c, "unlink")
    /\ SaveUserRow(c, [jobs[c].userRow EXCEPT !.quota = None])
    /\ WroteUser(c, jobs[c].user, [jobs[c] EXCEPT !.at = "remove", !.userRow = None])
    /\ UNCHANGED <<quotas, counted, paid, halfway>>

UnlinkUser(c) ==
    /\ Busy(c, "unlink")
    /\ \/ /\ SaveUserRow(c, [jobs[c].userRow EXCEPT !.member = FALSE, !.quota = None])
          /\ WroteUser(c, jobs[c].user, [jobs[c] EXCEPT !.at = "remove", !.userRow = None])
          /\ UNCHANGED halfway
       \/ /\ Goto(c, [jobs[c] EXCEPT !.at = "remove", !.userRow = None])
          /\ halfway' = TRUE /\ UNCHANGED <<users, late>>
    /\ UNCHANGED <<quotas, counted, paid>>

Delete(c) ==
    /\ Busy(c, "remove")
    /\ \/ /\ quotas' = [quotas EXCEPT ![jobs[c].id].live = FALSE]
          /\ WroteQuota(c, jobs[c].id, None)
          /\ UNCHANGED halfway
       \/ Goto(c, None) /\ halfway' = TRUE /\ UNCHANGED quotas
    /\ UNCHANGED <<users, counted, paid, late>>

-----------------------------------------------------------------------------
(* Changes of a quota, and of the budget of a user: read, change, save.      *)

UpdateMemberQuota(q)   == [live : {TRUE}, user : {q.user}, status : {"active", "suspended"},
                           limit : Limits, used : {q.used}]
SetTokenQuotaLimit(q)  == {[q EXCEPT !.limit = n] : n \in Limits}
SetCostLimit(q)        == {q}      \* cost limits are left out: the row is saved as read
ResetMemberQuota(q)    == [q EXCEPT !.used = 0, !.status = "active"]
SuspendMember(q)       == [q EXCEPT !.status = "suspended"]
ActivateMember(q)      == [q EXCEPT !.status = "active"]

ReadQuota(c, i) ==
    /\ jobs[c] = None
    /\ Live(i)
    /\ LET q == quotas[i] IN
       \E row \in UpdateMemberQuota(q) \cup SetTokenQuotaLimit(q) \cup SetCostLimit(q)
                    \cup {ResetMemberQuota(q), SuspendMember(q), ActivateMember(q)} :
          Goto(c, NewJob("quota", q.user, i, None, row))
    /\ UNCHANGED <<users, quotas, counted, paid, late, halfway>>

SaveQuota(c) ==
    /\ Busy(c, "quota")
    /\ \/ /\ SaveQuotaRow(c)
          /\ counted' = IF jobs[c].quotaRow.used = 0 THEN [counted EXCEPT ![jobs[c].id] = 0]
                        ELSE counted
          /\ WroteQuota(c, jobs[c].id, None)
       \/ Goto(c, None) /\ UNCHANGED <<quotas, counted, late>>
    /\ UNCHANGED <<users, paid, halfway>>

(* Budgets of a user are not modelled: the row is saved as it was read.       *)
SetUserBudget(c, u) ==
    /\ jobs[c] = None
    /\ Goto(c, NewJob("user", u, None, users[u], None))
    /\ UNCHANGED <<users, quotas, counted, paid, late, halfway>>

SaveUser(c) ==
    /\ Busy(c, "user")
    /\ \/ SaveUserRow(c, jobs[c].userRow) /\ WroteUser(c, jobs[c].user, None)
       \/ Goto(c, None) /\ UNCHANGED <<users, late>>
    /\ UNCHANGED <<quotas, counted, paid, halfway>>

-----------------------------------------------------------------------------
(* Requests of members: checked first, counted when they are served.         *)

(* Mutant: the request itself is not counted by the check.                    *)
ChecksUsed(q) == q.status = "active" /\ q.used <= q.limit

Allows(q) == q.status = "active" /\ q.used + 1 <= q.limit

CheckMemberQuota(c, i) ==
    /\ jobs[c] = None
    /\ Live(i) /\ Allows(quotas[i])
    /\ Goto(c, NewJob("use", quotas[i].user, i, None, None))
    /\ UNCHANGED <<users, quotas, counted, paid, late, halfway>>

(* A row that was deleted is not found.                                       *)
IncrementTokensUsed(c) ==
    /\ Busy(c, "use")
    /\ LET i == jobs[c].id IN
       \/ /\ Live(i) /\ quotas[i].used < MaxUsed
          /\ quotas' = [quotas EXCEPT ![i].used = @ + 1]
          /\ counted' = IF late THEN counted ELSE [counted EXCEPT ![i] = @ + 1]
          /\ WroteQuota(c, jobs[c].id, None)
       \/ Goto(c, None) /\ UNCHANGED <<quotas, counted>>
    /\ UNCHANGED <<users, paid, late, halfway>>

(* The billing of a request, in place (UserRepoImpl).                         *)
DeductBalance(u) ==
    /\ paid[u] < MaxPaid
    /\ users' = [users EXCEPT ![u].paid = @ + 1]
    /\ paid' = [paid EXCEPT ![u] = @ + 1]
    /\ WroteUser(None, u, None)
    /\ UNCHANGED <<quotas, counted, late, halfway>>

-----------------------------------------------------------------------------
MemberQuotaRoutes(c) ==
    \/ \E u \in Users : CreateMemberQuota(c, u)
    \/ \E i \in Ids : DeleteMemberQuota(c, i)
    \/ \E i \in Ids : ReadQuota(c, i)

(* The tool of the MCP server that sets the budget of a user.                 *)
BudgetTools(c) == \E u \in Users : SetUserBudget(c, u)

Continue(c) ==
    \/ Create(c) \/ LinkUser(c)
    \/ ReadUser(c) \/ UnlinkUser(c) \/ Delete(c)
    \/ SaveQuota(c) \/ SaveUser(c)

Next ==
    \/ \E c \in Callers :
          \/ MemberQuotaRoutes(c)
          \/ BudgetTools(c)
          \/ \E i \in Ids : CheckMemberQuota(c, i)
          \/ IncrementTokensUsed(c)
          \/ Continue(c)
    \/ \E u \in Users : DeductBalance(u)

Spec == Init /\ [][Next]_vars

-----------------------------------------------------------------------------
(* Properties.                                                               *)

TypeOK == /\ users \in [Users -> UserRow]
          /\ quotas \in [Ids -> QuotaRow \cup {None}]
          /\ jobs \in [Callers -> Job \cup {None}]
          /\ counted \in [Ids -> Nat] /\ paid \in [Users -> Nat]
          /\ late \in BOOLEAN /\ halfway \in BOOLEAN

Settled(u) == \A c \in Callers : jobs[c] # None => jobs[c].user # u

(* When nothing is under way for a user, the user is a member exactly of the  *)
(* quota that is there for them (CreateMemberQuota, DeleteMemberQuota), unless *)
(* one of the two rows could not be changed or a row was saved late.          *)
Linked ==
    ~late /\ ~halfway => \A u \in Users : Settled(u) =>
        /\ users[u].member <=> Has(u)
        /\ \A i \in Ids : users[u].quota = i <=> Live(i) /\ quotas[i].user = u

(* What requests have used and paid is neither lost nor counted again by the  *)
(* saves of administrators, unless a row was saved late.                      *)
UsageKept ==
    ~late => /\ \A i \in Ids : Live(i) => quotas[i].used = counted[i]
             /\ \A u \in Users : users[u].paid = paid[u]

(* Requests that were checked at the same time exceed the highest limit by    *)
(* less than one request each (checkMemberQuota, deductMemberUsage).          *)
OvershootBounded ==
    ~late => \A i \in Ids : Live(i) => \E n \in Limits :
        quotas[i].used + Cardinality({c \in Callers : Busy(c, "use") /\ jobs[c].id = i})
            < n + Cardinality(Callers)

=============================================================================
