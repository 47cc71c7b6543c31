---------------------------- MODULE Applications ----------------------------
(* From an application to a member.  A company applies for a tenant          *)
(* (tenant_application_service.go), a platform administrator decides, and    *)
(* approval creates the tenant.  People then join the tenant by a request, by *)
(* an invitation or by direct creation (user_application_service.go).        *)
(*                                                                           *)
(* Every decision is a read of the application, a check of its status on the *)
(* copy that was read, an UPDATE by id that looks at nothing, and, for an    *)
(* approval, an INSERT and a second UPDATE; there is no transaction.  A job  *)
(* is one request between these statements.  A fault is a statement that     *)
(* fails or a handler that dies; where the code ignores the error of a       *)
(* statement, the job goes on without its effect.                            *)
(*                                                                           *)
(* company_slug is unique and applications of companies are never deleted,   *)
(* so a slug stands for the application and for the tenant it asks for.      *)
(* Nothing calls StartReview, so no application is ever under review.        *)
(* invite_token is unique too, and a request or a direct creation stores the *)
(* empty string in it: only one row of those kinds can ever be inserted.     *)
(* The specification is AppSpec: names that every module here has are         *)
(* prefixed, so that one module can prove theorems about it and another one.  *)
EXTENDS Naturals, FiniteSets

CONSTANTS Slugs,      \* company_slug
          Contacts,   \* contact_email
          Emails,     \* users.email
          Ids,        \* ids of user_applications; bounds their number
          Handlers,   \* requests handled at the same time
          MaxUsers,   \* tenants.max_users
          MaxFaults,  \* bound on failed statements and lost handlers
          None

ASSUME BoundsAssumption ==
    /\ IsFiniteSet(Handlers) /\ IsFiniteSet(Emails)
    /\ MaxUsers \in Nat \ {0} /\ MaxFaults \in Nat
    /\ None \notin Ids \cup Slugs \cup Emails \cup Contacts

VARIABLES company,   \* tenant_applications by slug
          tenant,    \* status of the tenant of a slug
          apps,      \* user_applications by id
          users,     \* users by email
          jobs,      \* what each handler is doing
          faults     \* statements failed and handlers lost so far

appVars == <<company, tenant, apps, users, jobs, faults>>

CompanyStatus == {"pending", "approved", "rejected", "tenant_created"}
TenantStatus == {"none", "active", "suspended"}
Kind == {"request", "invitation", "direct_create"}
AppStatus     == {"pending", "approved", "rejected", "user_created", "expired",
                  "accepted", "deleted"}

CompanyApplication == [status : CompanyStatus, contact : Contacts]
UserApplication == [tenant : Slugs, email : Emails, kind : Kind,
                    status : AppStatus, late : BOOLEAN]
User == [tenant : Slugs, app : Ids \cup {None}, direct : BOOLEAN]

(* A handler's work: the operation, the row it is about, the status it read,  *)
(* the statement it is at and the parameters it carries along.                *)
Operation == {"submit", "approve", "reject",
              "request", "invitation", "direct_create",
              "accept", "admit", "refuse", "cancel", "expire"}
Job == [op : Operation, slug : Slugs, contact : Contacts \cup {None},
        id : Ids \cup {None}, email : Emails \cup {None},
        read : CompanyStatus \cup AppStatus, at : {"write", "create", "mark"}]

(* None is no row and no job.                                                 *)
ASSUME NoneAssumption ==
    None \notin CompanyApplication /\ None \notin UserApplication /\ None \notin User
    /\ None \notin Job

StoreOps == {"request", "invitation"}
RowOps == {"accept", "admit", "refuse", "cancel", "expire"}

AppTypeOK ==
    /\ company \in [Slugs -> CompanyApplication \cup {None}]
    /\ tenant \in [Slugs -> TenantStatus]
    /\ apps \in [Ids -> UserApplication \cup {None}]
    /\ users \in [Emails -> User \cup {None}]
    /\ jobs \in [Handlers -> Job \cup {None}]
    /\ faults \in 0..MaxFaults

AppInit ==
    /\ company = [s \in Slugs |-> None]
    /\ tenant = [s \in Slugs |-> "none"]
    /\ apps = [a \in Ids |-> None]
    /\ users = [e \in Emails |-> None]
    /\ jobs = [h \in Handlers |-> None]
    /\ faults = 0

-----------------------------------------------------------------------------
(* Jobs.                                                                     *)

StartJob(h, job) == jobs[h] = None /\ jobs' = [jobs EXCEPT ![h] = job]
Advance(h, to) == jobs' = [jobs EXCEPT ![h].at = to]
Finish(h) == jobs' = [jobs EXCEPT ![h] = None]
At(h, ops, at) == jobs[h] # None /\ jobs[h].op \in ops /\ jobs[h].at = at

CompanyJob(op, s, c, read) ==
    [op |-> op, slug |-> s, contact |-> c, id |-> None, email |-> None,
     read |-> read, at |-> "write"]
UserJob(op, s, e, a, read) ==
    [op |-> op, slug |-> s, contact |-> None, id |-> a, email |-> e,
     read |-> read, at |-> "write"]

-----------------------------------------------------------------------------
(* Applications for a tenant.                                                *)

(* GetByEmail returns one of the applications of the contact, the one whose  *)
(* random id sorts first.                                                    *)
ContactMayApply(c) ==
    LET earlier == {s \in Slugs : company[s] # None /\ company[s].contact = c}
    IN  earlier = {} \/ \E s \in earlier : company[s].status = "rejected"

Submit(h, s, c) ==
    /\ company[s] = None
    /\ ContactMayApply(c)
    /\ StartJob(h, CompanyJob("submit", s, c, "pending"))
    /\ UNCHANGED <<company, tenant, apps, users, faults>>

(* The unique slug refuses the second of two concurrent submissions.          *)
StoreCompany(h) ==
    /\ At(h, {"submit"}, "write")
    /\ LET s == jobs[h].slug
       IN  company' = IF company[s] = None
                      THEN [company EXCEPT ![s] =
                              [status |-> "pending", contact |-> jobs[h].contact]]
                      ELSE company
    /\ Finish(h)
    /\ UNCHANGED <<tenant, apps, users, faults>>

Undecided(s) == company[s] # None /\ company[s].status = "pending"

Approve(h, s) ==
    /\ Undecided(s)
    /\ StartJob(h, CompanyJob("approve", s, None, company[s].status))
    /\ UNCHANGED <<company, tenant, apps, users, faults>>

Reject(h, s) ==
    /\ Undecided(s)
    /\ StartJob(h, CompanyJob("reject", s, None, company[s].status))
    /\ UNCHANGED <<company, tenant, apps, users, faults>>

(* The UPDATE of the decision names the id only.                              *)
Decision == [approve |-> "approved", reject |-> "rejected"]

WriteDecision(h) ==
    /\ At(h, {"approve", "reject"}, "write")
    /\ company' = [company EXCEPT ![jobs[h].slug].status = Decision[jobs[h].op]]
    /\ IF jobs[h].op = "approve" THEN Advance(h, "create") ELSE Finish(h)
    /\ UNCHANGED <<tenant, apps, users, faults>>

CreateTenant(h) ==
    /\ At(h, {"approve"}, "create")
    /\ IF tenant[jobs[h].slug] = "none"
       THEN /\ tenant' = [tenant EXCEPT ![jobs[h].slug] = "active"]
            /\ Advance(h, "mark")
       ELSE Finish(h) /\ UNCHANGED tenant
    /\ UNCHANGED <<company, apps, users, faults>>

MarkTenantCreated(h) ==
    /\ At(h, {"approve"}, "mark")
    /\ company' = [company EXCEPT ![jobs[h].slug].status = "tenant_created"]
    /\ Finish(h)
    /\ UNCHANGED <<tenant, apps, users, faults>>

(* An owner registers a tenant of that slug without an application.           *)
RegisterTenant(s) ==
    /\ tenant[s] = "none"
    /\ tenant' = [tenant EXCEPT ![s] = "active"]
    /\ UNCHANGED <<company, apps, users, jobs, faults>>

SuspendTenant(s) ==
    /\ tenant[s] # "none"
    /\ tenant' = [tenant EXCEPT ![s] = "suspended"]
    /\ UNCHANGED <<company, apps, users, jobs, faults>>

ActivateTenant(s) ==
    /\ tenant[s] # "none"
    /\ tenant' = [tenant EXCEPT ![s] = "active"]
    /\ UNCHANGED <<company, apps, users, jobs, faults>>

-----------------------------------------------------------------------------
(* Applications and invitations of users.                                    *)

Exists(a) == apps[a] # None /\ apps[a].status # "deleted"
Members(t) == {e \in Emails : users[e] # None /\ users[e].tenant = t}

(* As for a contact: one of the rows of that tenant and email is looked at.   *)
NoRequestPending(t, e) ==
    LET earlier == {a \in Ids : Exists(a) /\ apps[a].tenant = t /\ apps[a].email = e}
    IN  earlier = {} \/ \E a \in earlier : apps[a].status # "pending"

SubmitRequest(h, t, e) ==
    /\ tenant[t] = "active"
    /\ users[e] = None
    /\ NoRequestPending(t, e)
    /\ StartJob(h, UserJob("request", t, e, None, "pending"))
    /\ UNCHANGED <<company, tenant, apps, users, faults>>

SendInvitation(h, t, e) ==
    /\ tenant[t] = "active"
    /\ users[e] = None
    /\ StartJob(h, UserJob("invitation", t, e, None, "pending"))
    /\ UNCHANGED <<company, tenant, apps, users, faults>>

(* Mutant: the number of users is not looked at.                              *)
CreateUncounted(h, t, e) ==
    /\ tenant[t] = "active"
    /\ users[e] = None
    /\ StartJob(h, UserJob("direct_create", t, e, None, "user_created"))
    /\ UNCHANGED <<company, tenant, apps, users, faults>>

(* Only direct creation looks at the number of users.                         *)
CreateDirect(h, t, e) ==
    /\ tenant[t] = "active"
    /\ Cardinality(Members(t)) < MaxUsers
    /\ users[e] = None
    /\ StartJob(h, UserJob("direct_create", t, e, None, "user_created"))
    /\ UNCHANGED <<company, tenant, apps, users, faults>>

(* The unique invite_token: the empty one can be stored once.                 *)
TokenFree(kind) ==
    kind = "invitation" \/ \A a \in Ids : apps[a] # None => apps[a].kind = "invitation"

Row(job) == [tenant |-> job.slug, email |-> job.email, kind |-> job.op,
             status |-> job.read, late |-> FALSE]

(* A request or an invitation ends with its insert, whether or not it fails.  *)
StoreApplication(h) ==
    /\ At(h, StoreOps, "write")
    /\ IF TokenFree(jobs[h].op)
       THEN \E a \in Ids : /\ apps[a] = None
                           /\ apps' = [apps EXCEPT ![a] = Row(jobs[h])]
       ELSE UNCHANGED apps
    /\ Finish(h)
    /\ UNCHANGED <<company, tenant, users, faults>>

(* Direct creation ignores that the insert of its row failed and goes on with *)
(* the zero id.                                                               *)
StoreDirect(h) ==
    /\ At(h, {"direct_create"}, "write")
    /\ IF TokenFree("direct_create")
       THEN \E a \in Ids : /\ apps[a] = None
                           /\ apps' = [apps EXCEPT ![a] = Row(jobs[h])]
                           /\ jobs' = [jobs EXCEPT ![h].id = a, ![h].at = "create"]
       ELSE UNCHANGED apps /\ Advance(h, "create")
    /\ UNCHANGED <<company, tenant, users, faults>>

Decide(h, op, a) == StartJob(h, UserJob(op, apps[a].tenant, apps[a].email, a, apps[a].status))

AcceptInvitation(h, a) ==
    /\ Exists(a) /\ apps[a].kind = "invitation"
    /\ apps[a].status = "pending"
    /\ \/ apps[a].late /\ Decide(h, "expire", a)
       \/ ~apps[a].late /\ tenant[apps[a].tenant] = "active" /\ Decide(h, "accept", a)
    /\ UNCHANGED <<company, tenant, apps, users, faults>>

(* Mutant: the status is not looked at.                                       *)
RejectAnyRequest(h, a) ==
    /\ Exists(a)
    /\ Decide(h, "refuse", a)
    /\ UNCHANGED <<company, tenant, apps, users, faults>>

(* An invitation can be approved or refused like a request, also a late one.  *)
ApproveRequest(h, a) ==
    /\ Exists(a) /\ apps[a].status = "pending"
    /\ tenant[apps[a].tenant] = "active"
    /\ Decide(h, "admit", a)
    /\ UNCHANGED <<company, tenant, apps, users, faults>>

RejectRequest(h, a) ==
    /\ Exists(a) /\ apps[a].status = "pending"
    /\ Decide(h, "refuse", a)
    /\ UNCHANGED <<company, tenant, apps, users, faults>>

CancelInvitation(h, a) ==
    /\ Exists(a) /\ apps[a].kind = "invitation" /\ apps[a].status = "pending"
    /\ Decide(h, "cancel", a)
    /\ UNCHANGED <<company, tenant, apps, users, faults>>

(* An UPDATE by id leaves a deleted row alone.                                *)
SetStatus(a, to) ==
    apps' = IF a # None /\ Exists(a) THEN [apps EXCEPT ![a].status = to] ELSE apps

(* Mutant: a status the entity does not know.                                 *)
OutcomeMisspelt == [accept |-> "accepted", admit |-> "approved", refuse |-> "rejected",
                    cancel |-> "cancelled", expire |-> "expired"]

Outcome == [accept |-> "accepted", admit |-> "approved", refuse |-> "rejected",
            cancel |-> "deleted", expire |-> "expired"]

WriteOutcome(h) ==
    /\ At(h, RowOps, "write")
    /\ SetStatus(jobs[h].id, Outcome[jobs[h].op])
    /\ IF jobs[h].op \in {"accept", "admit"} THEN Advance(h, "create") ELSE Finish(h)
    /\ UNCHANGED <<company, tenant, users, faults>>

JoinOps == {"accept", "admit", "direct_create"}

(* Mutant: the tenant is looked at again, after the outcome was written.      *)
CreateIfActive(h) ==
    /\ At(h, JoinOps, "create")
    /\ IF users[jobs[h].email] = None /\ tenant[jobs[h].slug] = "active"
       THEN /\ users' = [users EXCEPT ![jobs[h].email] =
                 [tenant |-> jobs[h].slug, app |-> jobs[h].id,
                  direct |-> jobs[h].op = "direct_create"]]
            /\ Advance(h, "mark")
       ELSE Finish(h) /\ UNCHANGED users
    /\ UNCHANGED <<company, tenant, apps, faults>>

(* The unique email refuses a second user.                                    *)
CreateUser(h) ==
    /\ At(h, JoinOps, "create")
    /\ IF users[jobs[h].email] = None
       THEN /\ users' = [users EXCEPT ![jobs[h].email] =
                 [tenant |-> jobs[h].slug, app |-> jobs[h].id,
                  direct |-> jobs[h].op = "direct_create"]]
            /\ Advance(h, "mark")
       ELSE Finish(h) /\ UNCHANGED users
    /\ UNCHANGED <<company, tenant, apps, faults>>

MarkUserCreated(h) ==
    /\ At(h, JoinOps, "mark")
    /\ SetStatus(jobs[h].id, "user_created")
    /\ Finish(h)
    /\ UNCHANGED <<company, tenant, users, faults>>

(* expires_at passes.                                                         *)
BecomeLate(a) ==
    /\ Exists(a) /\ apps[a].kind = "invitation" /\ apps[a].status = "pending"
    /\ ~apps[a].late
    /\ apps' = [apps EXCEPT ![a].late = TRUE]
    /\ UNCHANGED <<company, tenant, users, jobs, faults>>

-----------------------------------------------------------------------------
(* Faults.  The error of the first write of a join is ignored, and so is that *)
(* of its last; every other error, and the loss of the handler, ends the job. *)
(* For an operation of one write that is a request that never came.           *)
Ignored(h) == jobs[h].op \in JoinOps /\ jobs[h].at = "write"

Fail(h) ==
    /\ jobs[h] # None /\ jobs[h].op \in JoinOps \cup {"approve"}
    /\ faults < MaxFaults
    /\ faults' = faults + 1
    /\ Finish(h) \/ (Ignored(h) /\ Advance(h, "create"))
    /\ UNCHANGED <<company, tenant, apps, users>>

(* Routes without a login.                                                   *)
PublicRequest(h) ==
    \/ \E s \in Slugs, c \in Contacts : Submit(h, s, c)
    \/ \E t \in Slugs, e \in Emails : SubmitRequest(h, t, e)
    \/ \E a \in Ids : AcceptInvitation(h, a)

(* Operations of administrators.  The tools of the MCP server and the routes   *)
(* offer the same.  A route is about the tenant of the administrator, a tool   *)
(* about the first row of the table; neither compares it with the tenant of   *)
(* the application.                                                           *)
TenantsMeant == {t \in Slugs : tenant[t] # "none"}

UserApplicationTools(h) ==
    \/ \E t \in TenantsMeant, e \in Emails : SendInvitation(h, t, e) \/ CreateDirect(h, t, e)
    \/ \E a \in Ids : ApproveRequest(h, a) \/ RejectRequest(h, a) \/ CancelInvitation(h, a)

TenantApplicationTools(h) == \E s \in Slugs : Approve(h, s) \/ Reject(h, s)
TenantTools == \E s \in Slugs : SuspendTenant(s) \/ ActivateTenant(s)

TenantAdminRequest(h) == UserApplicationTools(h)
PlatformRequest(h)    == TenantApplicationTools(h)

Write(h) ==
    \/ StoreCompany(h) \/ WriteDecision(h) \/ CreateTenant(h) \/ MarkTenantCreated(h)
    \/ StoreApplication(h) \/ StoreDirect(h) \/ WriteOutcome(h)
    \/ CreateUser(h) \/ MarkUserCreated(h)

AppNext ==
    \/ \E h \in Handlers : PublicRequest(h) \/ TenantAdminRequest(h)
                           \/ PlatformRequest(h) \/ Write(h) \/ Fail(h)
    \/ \E s \in Slugs : RegisterTenant(s)
    \/ TenantTools
    \/ \E a \in Ids : BecomeLate(a)

AppSpec == AppInit /\ [][AppNext]_appVars

-----------------------------------------------------------------------------
(* Properties.                                                               *)

(* An application left between its decision and what the decision promised:   *)
(* a company approved without a tenant, a user approved or accepted without   *)
(* an account, and nobody working on it.  The status check then keeps anyone  *)
(* from deciding it again.                                                    *)
StrandedCompanies ==
    {s \in Slugs : /\ company[s] # None /\ company[s].status = "approved"
                   /\ tenant[s] = "none"
                   /\ \A h \in Handlers : ~(At(h, {"approve"}, "create") /\ jobs[h].slug = s)}

StrandedUsers ==
    {a \in Ids : /\ Exists(a) /\ apps[a].status \in {"approved", "accepted"}
                 /\ users[apps[a].email] = None
                 /\ \A h \in Handlers : ~(At(h, JoinOps, "create") /\ jobs[h].id = a)}

(* Stranding takes a fault, and one fault strands one application: an         *)
(* approval or an acceptance is written only when nothing but a failure or an *)
(* account that exists already can keep its second half from happening        *)
(* (Approve, ApproveRequest, AcceptInvitation).                               *)
StrandedByFaults ==
    Cardinality(StrandedCompanies) + Cardinality(StrandedUsers) <= faults

(* The users created directly and the direct creations under way never exceed  *)
(* the limit of a tenant by more than the requests that can have counted its  *)
(* users at the same time (CreateDirect).                                     *)
DirectMembers(t)  == {e \in Members(t) : users[e].direct}
DirectUnderWay(t) == {h \in Handlers : /\ jobs[h] # None /\ jobs[h].op = "direct_create"
                                       /\ jobs[h].slug = t /\ jobs[h].at # "mark"}
SeatsBounded ==
    \A t \in Slugs : Cardinality(DirectMembers(t)) + Cardinality(DirectUnderWay(t))
                        <= MaxUsers + Cardinality(Handlers) - 1

CompaniesStand ==
    \A s \in Slugs :
        (company[s] # None /\ company[s].status \in {"rejected", "tenant_created"}
            /\ company'[s] # company[s])
        => \E h \in Handlers : /\ jobs[h] # None /\ jobs[h].slug = s
                              /\ jobs[h].read = "pending"
UsersStand ==
    \A a \in Ids :
        (apps[a] # None /\ apps[a].status \in {"rejected", "expired", "deleted", "user_created"}
            /\ apps'[a] # apps[a])
        => \E h \in Handlers : /\ jobs[h] # None /\ jobs[h].id = a
                              /\ jobs[h].read \in {"pending", "user_created"}

(* A refusal, an expiry or a creation is changed afterwards only by a request *)
(* that had read the application while it was still open, never by one that   *)
(* came later (the status checks of every decision).                          *)
DecisionStands == [][CompaniesStand /\ UsersStand]_appVars

=============================================================================
