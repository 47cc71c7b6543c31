------------------------------ MODULE Admission ------------------------------
(***************************************************************************)
(* Letting a request in: SafeMiddleware with its SafeService, AuthService  *)
(* with its two caches, the key and tenant rate limits, MCP sessions, and  *)
(* the administrators who change or revoke the key meanwhile.  One client  *)
(* address, not whitelisted, and one API key.                              *)
(*                                                                         *)
(* job[w] is what caller w holds between the statements of its handler.  A *)
(* statement on the database may fail; one on Redis may fail in the        *)
(* behaviours with an outage.  Whether a rate is exceeded is left open, as *)
(* are the checks of the request itself, which change nothing.  grants     *)
(* stands for the permissions, models and providers of the key: "wide"     *)
(* covers what the requests ask for, "narrow" does not.                    *)
(***************************************************************************)
EXTENDS Integers, FiniteSets

CONSTANTS
    Callers,
    MaxConns,              \* max_concurrent_conns
    MaxAttempts,           \* failed authentications that block the address
    MaxViolations,         \* exceeded rates that block the address
    MaxCalls               \* bound on the requests

ASSUME AdmissionAssumption ==
    /\ IsFiniteSet(Callers) /\ MaxConns \in Nat \ {0} /\ MaxCalls \in Nat
    /\ MaxAttempts \in Nat \ {0} /\ MaxViolations \in Nat \ {0}

Grants == {"wide", "narrow"}
Rows == [status : {"active", "revoked"}, grants : Grants]
Requests == {"proxy", "wrongKey", "initialize", "tool", "admin"}
Points == {"idle", "acquire", "limit", "lookup", "fetchCached", "fetch", "fail", "store",
           "admit", "permit", "storePermissions", "serve", "release",
           "revoke", "edit", "saveEdit", "saveLimits"}
Jobs == [pc : Points, request : Requests, row : Rows, holds : BOOLEAN]

VARIABLES
    key,                           \* the row of the API key
    late,                          \* its expires_at has passed
    cached,                        \* Redis knows the key, for 5 minutes
    permissions,                   \* permissionsCache
    session,                       \* an MCP session that was opened with the key
    count, timed,                  \* connection counter of Redis, and whether it expires
    failures, violations, blocked,
    job, calls,
    outage,                        \* Redis may be out of reach at times
    leaked,                        \* history: connections counted that a crash has ended
    lapsed,                        \* history: the counter expired under open connections
    raced                          \* history: a copy of a row that had changed was stored

vars == <<key, late, cached, permissions, session, count, timed, failures, violations,
          blocked, job, calls, outage, leaked, lapsed, raced>>
keyVars == <<key, late, cached, permissions, session, raced>>
connVars == <<count, timed, leaked, lapsed>>
blockVars == <<failures, violations, blocked>>

Fresh == [status |-> "active", grants |-> "wide"]
Idle == [pc |-> "idle", request |-> "proxy", row |-> Fresh, holds |-> FALSE]

Init ==
    /\ key = Fresh /\ late = FALSE
    /\ cached = FALSE /\ permissions = "none" /\ session = FALSE
    /\ count = 0 /\ timed = FALSE
    /\ failures = 0 /\ violations = 0 /\ blocked = FALSE
    /\ job = [w \in Callers |-> Idle] /\ calls = 0
    /\ outage \in BOOLEAN /\ leaked = 0 /\ lapsed = FALSE /\ raced = FALSE

Start(w, j) ==
    /\ job[w].pc = "idle" /\ calls < MaxCalls
    /\ calls' = calls + 1
    /\ job' = [job EXCEPT ![w] = j]

Step(w, from, to) ==
    /\ job[w].pc = from
    /\ job' = [job EXCEPT ![w] = IF to = "idle" THEN Idle ELSE [@ EXCEPT !.pc = to]]
    /\ UNCHANGED calls

-----------------------------------------------------------------------------
(* SafeMiddleware *)

\* IsBlocked: a failure of Redis lets the request pass.
Arrive(w, r) ==
    /\ ~ blocked \/ outage
    /\ r # "admin"
    /\ Start(w, [Idle EXCEPT !.pc = "acquire", !.request = r])
    /\ UNCHANGED <<keyVars, connVars, blockVars, outage>>

\* Mutant: the count of a request that is refused is not taken back.
AcquireAndKeep(w) ==
    /\ \/ /\ count < MaxConns
          /\ job[w].pc = "acquire"
          /\ job' = [job EXCEPT ![w].pc = "limit", ![w].holds = TRUE]
          /\ UNCHANGED calls
       \/ /\ count >= MaxConns
          /\ Step(w, "acquire", "idle")
    /\ count' = count + 1 /\ timed' = TRUE
    /\ UNCHANGED <<keyVars, leaked, lapsed, blockVars, outage>>

\* The script counts, renews the expiry and takes the count back over the limit.
AcquireConnection(w) ==
    /\ \/ /\ count < MaxConns
          /\ job[w].pc = "acquire"
          /\ job' = [job EXCEPT ![w].pc = "limit", ![w].holds = TRUE]
          /\ count' = count + 1 /\ timed' = TRUE /\ UNCHANGED calls
       \/ /\ count >= MaxConns
          /\ Step(w, "acquire", "idle")
          /\ timed' = TRUE /\ UNCHANGED count
       \/ /\ outage
          /\ Step(w, "acquire", "limit") /\ UNCHANGED <<count, timed>>
    /\ UNCHANGED <<keyVars, leaked, lapsed, blockVars, outage>>

\* The deferred release.  Counting down a key that has expired makes one that
\* does not expire.
Release(w) ==
    /\ Step(w, "release", "idle")
    /\ \/ job[w].holds /\ count' = count - 1
       \/ ~ job[w].holds /\ UNCHANGED count
       \/ outage /\ UNCHANGED count
    /\ UNCHANGED <<keyVars, timed, leaked, lapsed, blockVars, outage>>

WithinRate(w) ==
    /\ Step(w, "limit", "lookup")
    /\ UNCHANGED <<keyVars, connVars, blockVars, outage>>

AutoBlockIP(w) ==
    /\ Step(w, "limit", "release")
    /\ blocked' = TRUE
    /\ UNCHANGED <<keyVars, connVars, failures, violations, outage>>

RecordRateViolation(w) ==
    /\ Step(w, "limit", "release")
    /\ \/ /\ violations + 1 < MaxViolations
          /\ violations' = violations + 1 /\ UNCHANGED blocked
       \/ /\ violations + 1 >= MaxViolations
          /\ violations' = 0 /\ blocked' = TRUE
       \/ outage /\ UNCHANGED <<violations, blocked>>
    /\ UNCHANGED <<keyVars, connVars, failures, outage>>

-----------------------------------------------------------------------------
(* ValidateAPIKey *)

\* A tool call of MCP shows its session and nothing else.
GetSession(w) ==
    /\ job[w].request = "tool"
    /\ Step(w, "lookup", IF session THEN "serve" ELSE "release")
    /\ UNCHANGED <<keyVars, connVars, blockVars, outage>>

LookupCache(w) ==
    /\ job[w].request # "tool"
    /\ \/ /\ cached /\ job[w].request # "wrongKey"
          /\ Step(w, "lookup", "fetchCached")
       \/ /\ ~ cached \/ outage \/ job[w].request = "wrongKey"
          /\ Step(w, "lookup", "fetch")
    /\ UNCHANGED <<keyVars, connVars, blockVars, outage>>

Hold(w, to) ==
    /\ job' = [job EXCEPT ![w].pc = to, ![w].row = key]
    /\ UNCHANGED calls

\* The row of a key that Redis knows is not looked at.
FetchCached(w) ==
    /\ job[w].pc = "fetchCached"
    /\ \/ Hold(w, "admit")
       \/ Step(w, "fetchCached", "fetch")
    /\ UNCHANGED <<keyVars, connVars, blockVars, outage>>

\* Mutant: the key is stored in Redis before its row is looked at.
FetchUnseen(w) ==
    /\ job[w].pc = "fetch"
    /\ \/ job[w].request # "wrongKey" /\ Hold(w, "store")
       \/ Step(w, "fetch", "fail")
    /\ UNCHANGED <<keyVars, connVars, blockVars, outage>>

Fetch(w) ==
    /\ job[w].pc = "fetch"
    /\ \/ /\ job[w].request # "wrongKey"
          /\ key.status = "active" /\ ~ late
          /\ Hold(w, "store")
       \/ Step(w, "fetch", "fail")
    /\ UNCHANGED <<keyVars, connVars, blockVars, outage>>

StoreCache(w) ==
    /\ Step(w, "store", "admit")
    /\ \/ cached' = TRUE
       \/ outage /\ UNCHANGED cached
    /\ UNCHANGED <<key, late, permissions, session, raced, connVars, blockVars, outage>>

\* MCP does not count the failure.
RecordAuthFailure(w) ==
    /\ Step(w, "fail", "release")
    /\ \/ /\ failures + 1 < MaxAttempts
          /\ failures' = failures + 1 /\ UNCHANGED blocked
       \/ /\ failures + 1 >= MaxAttempts
          /\ failures' = 0 /\ blocked' = TRUE
       \/ /\ outage \/ job[w].request = "initialize"
          /\ UNCHANGED <<failures, blocked>>
    /\ UNCHANGED <<keyVars, connVars, violations, outage>>

\* ResetAuthFailures, then the rate limits of the key and the tenant.
Admit(w) ==
    /\ job[w].request = "proxy"
    /\ \/ Step(w, "admit", "permit")
       \/ Step(w, "admit", "release")
    /\ \/ failures' = 0
       \/ outage /\ UNCHANGED failures
    /\ UNCHANGED <<keyVars, connVars, violations, blocked, outage>>

Initialize(w) ==
    /\ job[w].request = "initialize"
    /\ Step(w, "admit", "release")
    /\ session' = TRUE
    /\ UNCHANGED <<key, late, cached, permissions, raced, connVars, blockVars, outage>>

-----------------------------------------------------------------------------
(* The transparent proxy: what the key permits, and its usage *)

Permits(g) == g = "wide"

\* CheckProviderAccess, CheckModelAccess: parsed from the row at hand on a miss.
CheckAccess(w) ==
    /\ IF permissions = "none"
         THEN Step(w, "permit", "storePermissions")
         ELSE Step(w, "permit", IF Permits(permissions) THEN "serve" ELSE "release")
    /\ UNCHANGED <<keyVars, connVars, blockVars, outage>>

StorePermissions(w) ==
    /\ Step(w, "storePermissions", IF Permits(job[w].row.grants) THEN "serve" ELSE "release")
    /\ permissions' = job[w].row.grants
    /\ raced' = (raced \/ job[w].row.grants # key.grants \/ \E v \in Callers : job[v].pc = "saveEdit")
    /\ UNCHANGED <<key, late, cached, session, connVars, blockVars, outage>>

\* Recording usage drops the permissions; so does no tool of MCP.
Serve(w) ==
    /\ Step(w, "serve", "release")
    /\ \/ job[w].request = "proxy" /\ permissions' = "none"
       \/ UNCHANGED permissions
    /\ UNCHANGED <<key, late, cached, session, raced, connVars, blockVars, outage>>

-----------------------------------------------------------------------------
(* Administrators *)

RevokeAPIKey(w) ==
    /\ Start(w, [Idle EXCEPT !.pc = "revoke", !.request = "admin"])
    /\ permissions' = "none"
    /\ UNCHANGED <<key, late, cached, session, raced, connVars, blockVars, outage>>

Revoke(w) ==
    /\ Step(w, "revoke", "idle")
    /\ \/ key' = [key EXCEPT !.status = "revoked"]
       \/ UNCHANGED key
    /\ UNCHANGED <<late, cached, permissions, session, raced, connVars, blockVars, outage>>

\* The tool update_api_key reads the row, then UpdateAPIKey ...
ReadToEdit(w, g) ==
    /\ Start(w, [Idle EXCEPT !.pc = "edit", !.request = "admin", !.row = [key EXCEPT !.grants = g]])
    /\ UNCHANGED <<keyVars, connVars, blockVars, outage>>

\* Mutant: the permissions stay in the cache.
EditOnly(w) ==
    /\ Step(w, "edit", "saveEdit")
    /\ UNCHANGED <<keyVars, connVars, blockVars, outage>>

\* ... drops the permissions and saves the whole row.
UpdateAPIKey(w) ==
    /\ Step(w, "edit", "saveEdit")
    /\ permissions' = "none"
    /\ UNCHANGED <<key, late, cached, session, raced, connVars, blockVars, outage>>

SaveEdit(w) ==
    /\ Step(w, "saveEdit", "idle")
    /\ \/ key' = job[w].row
       \/ UNCHANGED key
    /\ UNCHANGED <<late, cached, permissions, session, raced, connVars, blockVars, outage>>

\* SetAPIKeyCostLimit reads and saves the row and knows no cache.
ReadToLimit(w) ==
    /\ Start(w, [Idle EXCEPT !.pc = "saveLimits", !.request = "admin", !.row = key])
    /\ UNCHANGED <<keyVars, connVars, blockVars, outage>>

SaveLimits(w) ==
    /\ Step(w, "saveLimits", "idle")
    /\ \/ /\ key' = job[w].row
          /\ raced' = (raced \/ job[w].row # key)
       \/ UNCHANGED <<key, raced>>
    /\ UNCHANGED <<late, cached, permissions, session, connVars, blockVars, outage>>

-----------------------------------------------------------------------------
(* Time *)

PassExpiry ==
    /\ ~ late /\ late' = TRUE
    /\ UNCHANGED <<key, cached, permissions, session, raced, connVars, blockVars, job, calls, outage>>

ExpireCache ==
    /\ cached /\ cached' = FALSE
    /\ UNCHANGED <<key, late, permissions, session, raced, connVars, blockVars, job, calls, outage>>

EndSession ==
    /\ session /\ session' = FALSE
    /\ UNCHANGED <<key, late, cached, permissions, raced, connVars, blockVars, job, calls, outage>>

Open == {w \in Callers : job[w].holds}

\* A minute after the last attempt to connect.
ExpireCount ==
    /\ timed /\ timed' = FALSE
    /\ count' = 0 /\ leaked' = 0
    /\ lapsed' = (lapsed \/ Open # {})
    /\ UNCHANGED <<keyVars, blockVars, job, calls, outage>>

\* The server stops and starts again; Redis and the database keep what they have.
Crash ==
    /\ job' = [w \in Callers |-> Idle]
    /\ permissions' = "none" /\ session' = FALSE
    /\ leaked' = leaked + Cardinality(Open)
    /\ UNCHANGED <<key, late, cached, raced, count, timed, lapsed, blockVars, calls, outage>>

Forget ==
    /\ failures + violations > 0
    /\ failures' = 0 /\ violations' = 0
    /\ UNCHANGED <<keyVars, connVars, blocked, job, calls, outage>>

Unblock ==
    /\ blocked /\ blocked' = FALSE
    /\ UNCHANGED <<keyVars, connVars, failures, violations, job, calls, outage>>

-----------------------------------------------------------------------------

SafeMiddleware(w) ==
    \/ \E r \in Requests : Arrive(w, r)
    \/ AcquireConnection(w) \/ Release(w)
    \/ WithinRate(w) \/ AutoBlockIP(w) \/ RecordRateViolation(w)

AuthMiddleware(w) ==
    \/ LookupCache(w) \/ FetchCached(w) \/ Fetch(w) \/ StoreCache(w)
    \/ RecordAuthFailure(w) \/ Admit(w)

HandleMCP(w) == GetSession(w) \/ Initialize(w)

HandleProxy(w) == CheckAccess(w) \/ StorePermissions(w) \/ Serve(w)

AdminRoutes(w) ==
    \/ RevokeAPIKey(w) \/ Revoke(w)
    \/ \E g \in Grants : ReadToEdit(w, g)
    \/ UpdateAPIKey(w) \/ SaveEdit(w) \/ ReadToLimit(w) \/ SaveLimits(w)

Time == PassExpiry \/ ExpireCache \/ EndSession \/ ExpireCount \/ Forget \/ Unblock \/ Crash

Next ==
    \/ \E w \in Callers :
          \/ SafeMiddleware(w) \/ AuthMiddleware(w) \/ HandleMCP(w)
          \/ HandleProxy(w) \/ AdminRoutes(w)
    \/ Time

Spec == Init /\ [][Next]_vars

-----------------------------------------------------------------------------
(* Properties *)

\* The rows, the counters and what the requests hold are well formed.
TypeOK ==
    /\ key \in Rows /\ late \in BOOLEAN /\ cached \in BOOLEAN /\ session \in BOOLEAN
    /\ permissions \in Grants \cup {"none"}
    /\ count \in Int /\ timed \in BOOLEAN
    /\ failures \in 0..(MaxAttempts - 1) /\ violations \in 0..(MaxViolations - 1)
    /\ blocked \in BOOLEAN
    /\ job \in [Callers -> Jobs] /\ calls \in 0..MaxCalls
    /\ outage \in BOOLEAN /\ leaked \in Nat /\ lapsed \in BOOLEAN /\ raced \in BOOLEAN

\* While Redis answers and the counter has not expired under open connections,
\* the counter is the number of open connections and of those a crash has ended,
\* and no more are open than max_concurrent_conns.
ConnectionsCounted ==
    ~ outage /\ ~ lapsed => count = Cardinality(Open) + leaked /\ count <= MaxConns

\* Permissions in the cache are those of the row, unless a copy of a row that
\* had changed, or was being changed, was stored.
PermissionsCurrent == raced \/ permissions \in {"none", key.grants}

\* Past the look at the row, or about to take the look that is not meant.
Using(w) ==
    job[w].pc \in {"fetchCached", "store", "admit", "permit", "storePermissions", "serve"}

Restoring(w) ==
    job[w].pc \in {"edit", "saveEdit", "saveLimits"} /\ job[w].row.status = "active"

ShutOut ==
    /\ \/ late
       \/ key.status = "revoked" /\ \A w \in Callers : ~ Restoring(w)
    /\ ~ cached /\ ~ session
    /\ \A w \in Callers : ~ Using(w)

\* A key that has expired, or is revoked with no copy of its active row left to
\* be saved, that Redis has forgotten, that has no MCP session and that no
\* request is using any more, lets nobody in again.
ShutOutForGood == [][ShutOut => ShutOut']_vars

=============================================================================
