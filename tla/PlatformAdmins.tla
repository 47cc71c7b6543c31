--------------------------- MODULE PlatformAdmins ---------------------------
(* The administrators of the platform (platform_auth.go): sessions that live  *)
(* in a map of the process, a cache of administrators beside it, and super    *)
(* administrators who create, change and delete one another.                 *)
(*                                                                           *)
(* A request presents a token; the administrator it stands for comes from the *)
(* cache or, when the entry is missing or five minutes old, from the          *)
(* database, and is then stored.  A change reads the row, checks that a super *)
(* administrator remains, drops the cache entry and saves the whole row; a    *)
(* save of a row that is gone inserts it again.  Nothing holds a lock from    *)
(* one of these steps to the next.  A job is a request between two of them.   *)
EXTENDS Naturals, FiniteSets

CONSTANTS Admins,     \* ids of platform_admins
          Handlers,   \* requests handled at the same time
          None

ASSUME AdminsAssumption == IsFiniteSet(Admins) /\ Admins # {} /\ None \notin Admins

VARIABLES rows,     \* platform_admins
          cache,    \* PlatformAuthService.cache
          tokens,   \* administrators with a token in sessionTokens
          jobs,     \* what each handler is doing
          raced     \* whether a change was ever based on facts that had changed

vars == <<rows, cache, tokens, jobs, raced>>

Roles    == {"super_admin", "billing_admin"}   \* support stands with billing_admin
Statuses == {"active", "suspended"}            \* inactive stands with suspended
Row      == [role : Roles, status : Statuses]

(* An entry remembers whether it was stored while the row was being changed.  *)
Entry == [row : Row, raced : BOOLEAN]

(* A handler carries the administrator it acts for, as it was validated, the  *)
(* administrator it is about and the row it has read or is about to save.     *)
(* stale and overtaken record that the first, or the table, had changed.      *)
Job == [at : {"store", "admitted", "save", "delete"}, then : {"admitted", "done"},
        actor : Admins, on : Admins, row : Row \cup {None},
        stale : BOOLEAN, overtaken : BOOLEAN]

ASSUME NoneAssumption == None \notin Row /\ None \notin Entry /\ None \notin Job

TypeOK == /\ rows \in [Admins -> Row \cup {None}]
          /\ cache \in [Admins -> Entry \cup {None}]
          /\ tokens \subseteq Admins
          /\ jobs \in [Handlers -> Job \cup {None}]
          /\ raced \in BOOLEAN

Super  == [role |-> "super_admin", status |-> "active"]
IsActive(a) == rows[a] # None /\ rows[a].status = "active"
ActiveSupers == {a \in Admins : rows[a] = Super}

(* One super administrator to begin with.                                     *)
Init == /\ \E first \in Admins : rows = [a \in Admins |-> IF a = first THEN Super ELSE None]
        /\ cache = [a \in Admins |-> None]
        /\ tokens = {}
        /\ jobs = [h \in Handlers |-> None]
        /\ raced = FALSE

-----------------------------------------------------------------------------
(* Sessions.                                                                 *)

NewJob(at, then, actor, on, row) ==
    [at |-> at, then |-> then, actor |-> actor, on |-> on, row |-> row,
     stale |-> FALSE, overtaken |-> FALSE]
Finish(h) == jobs' = [jobs EXCEPT ![h] = None]
At(h, at) == jobs[h] # None /\ jobs[h].at = at

(* The password is right.                                                     *)
Login(h, a) ==
    /\ jobs[h] = None
    /\ IsActive(a)
    /\ jobs' = [jobs EXCEPT ![h] = NewJob("store", "done", a, a, rows[a])]
    /\ tokens' = tokens \cup {a}
    /\ UNCHANGED <<rows, cache, raced>>

(* The map entry goes with the process only: Logout has no route, and neither *)
(* a deletion nor a suspension looks for the tokens of the administrator.     *)
ValidateToken(h, a) ==
    /\ jobs[h] = None
    /\ a \in tokens
    /\ IF cache[a] # None
       THEN jobs' = [jobs EXCEPT ![h] = NewJob("admitted", "done", a, a, cache[a].row)]
       ELSE /\ IsActive(a)
            /\ jobs' = [jobs EXCEPT ![h] = NewJob("store", "admitted", a, a, rows[a])]
    /\ UNCHANGED <<rows, cache, tokens, raced>>

(* Reading an administrator goes through ValidateSession as well and fills    *)
(* the cache of the one that is read.                                         *)
GetAdmin(h, b) ==
    /\ At(h, "admitted")
    /\ cache[b] = None
    /\ IsActive(b)
    /\ jobs' = [jobs EXCEPT ![h] = NewJob("store", "done", jobs[h].actor, b, rows[b])]
    /\ UNCHANGED <<rows, cache, tokens, raced>>

Changing(b) == \E g \in Handlers : jobs[g] # None /\ jobs[g].on = b
                                     /\ jobs[g].at \in {"save", "delete"}

CacheAdmin(h) ==
    /\ At(h, "store")
    /\ LET b == jobs[h].on
       IN  cache' = [cache EXCEPT ![b] =
                       [row |-> jobs[h].row, raced |-> Changing(b) \/ jobs[h].row # rows[b]]]
    /\ IF jobs[h].then = "admitted"
       THEN jobs' = [jobs EXCEPT ![h].at = "admitted"]
       ELSE Finish(h)
    /\ UNCHANGED <<rows, tokens, raced>>

(* A route that changes no administrator.                                     *)
Leave(h) ==
    /\ At(h, "admitted")
    /\ Finish(h)
    /\ UNCHANGED <<rows, cache, tokens, raced>>

-----------------------------------------------------------------------------
(* Changes, for super administrators.                                        *)

ActsAsSuper(h) == At(h, "admitted") /\ jobs[h].row.role = "super_admin"

(* The ids of those who were deleted are not used again.                      *)
CreateAdmin(h, b, role) ==
    /\ ActsAsSuper(h)
    /\ rows[b] = None /\ b \notin tokens
    /\ \A g \in Handlers : jobs[g] # None => jobs[g].on # b
    /\ rows' = [rows EXCEPT ![b] = [role |-> role, status |-> "active"]]
    /\ Finish(h)
    /\ UNCHANGED <<cache, tokens, raced>>

(* superAdminCount counts the active ones.                                    *)
OneOfSeveral(b) == rows[b].role = "super_admin" => Cardinality(ActiveSupers) > 1

(* Mutant: the cache entry stays.                                             *)
ChangeCached(h, at, b, row) ==
    /\ jobs' = [jobs EXCEPT ![h] =
         [at |-> at, then |-> "done", actor |-> jobs[h].actor, on |-> b, row |-> row,
          stale |-> jobs[h].actor \notin ActiveSupers, overtaken |-> FALSE]]
    /\ UNCHANGED <<rows, cache, tokens, raced>>

Change(h, at, b, row) ==
    /\ cache' = [cache EXCEPT ![b] = None]
    /\ jobs' = [jobs EXCEPT ![h] =
         [at |-> at, then |-> "done", actor |-> jobs[h].actor, on |-> b, row |-> row,
          stale |-> jobs[h].actor \notin ActiveSupers, overtaken |-> FALSE]]
    /\ UNCHANGED <<rows, tokens, raced>>

(* Mutant: a role is changed without the count.                               *)
UpdateUncounted(h, b, new) ==
    /\ ActsAsSuper(h) /\ rows[b] # None
    /\ jobs[h].actor = b /\ new.status = "suspended" => rows[b].status = "suspended"
    /\ Change(h, "save", b, new)

(* new is the row that was read with the changes of the request, or that row  *)
(* itself: the columns that were not asked to change are saved as well.       *)
UpdateAdmin(h, b, new) ==
    /\ ActsAsSuper(h) /\ rows[b] # None
    /\ new.role # "super_admin" => OneOfSeveral(b)
    /\ jobs[h].actor = b /\ new.status = "suspended" => rows[b].status = "suspended"
    /\ Change(h, "save", b, new)

DeleteAdmin(h, b) ==
    /\ ActsAsSuper(h) /\ rows[b] # None
    /\ jobs[h].actor # b
    /\ OneOfSeveral(b)
    /\ Change(h, "delete", b, None)

(* The whole row is written, whatever has become of it since it was read.     *)
Write(h) ==
    /\ At(h, "save") \/ At(h, "delete")
    /\ rows' = [rows EXCEPT ![jobs[h].on] = jobs[h].row]
    /\ jobs' = [g \in Handlers |->
                  IF g = h \/ jobs[g] = None THEN None ELSE [jobs[g] EXCEPT !.overtaken = TRUE]]
    /\ raced' = (raced \/ jobs[h].stale \/ jobs[h].overtaken)
    /\ UNCHANGED <<cache, tokens>>

-----------------------------------------------------------------------------
(* Five minutes pass.                                                         *)
ExpireCache(a) ==
    /\ cache[a] # None
    /\ cache' = [cache EXCEPT ![a] = None]
    /\ UNCHANGED <<rows, tokens, jobs, raced>>

(* The process ends and starts again: the sessions, the cache and the         *)
(* requests under way are lost.                                               *)
Restart ==
    /\ cache' = [a \in Admins |-> None]
    /\ tokens' = {}
    /\ jobs' = [h \in Handlers |-> None]
    /\ UNCHANGED <<rows, raced>>

SuperRequest(h) ==
    \E b \in Admins :
       \/ \E role \in Roles : CreateAdmin(h, b, role)
       \/ \E new \in Row : UpdateAdmin(h, b, new)
       \/ DeleteAdmin(h, b)

Next ==
    \/ \E h \in Handlers :
          \/ \E a \in Admins : Login(h, a) \/ ValidateToken(h, a) \/ GetAdmin(h, a)
          \/ CacheAdmin(h)
          \/ Leave(h)
          \/ SuperRequest(h)
          \/ Write(h)
    \/ \E a \in Admins : ExpireCache(a)
    \/ Restart

Spec == Init /\ [][Next]_vars

-----------------------------------------------------------------------------
(* Properties.                                                               *)

(* An active super administrator remains, unless a change was saved after the *)
(* table it had counted had changed, or by someone who was no longer one (the *)
(* checks of UpdateAdmin and DeleteAdmin).                                    *)
SuperAdminRemains == ActiveSupers = {} => raced

(* The cache says of an administrator what the database says, unless the      *)
(* entry was stored while a change of that row was between its invalidation   *)
(* and its save, or from a read the change had overtaken (invalidateCache).   *)
CacheCurrent ==
    \A a \in Admins : cache[a] # None /\ cache[a].row # rows[a] => cache[a].raced

=============================================================================
