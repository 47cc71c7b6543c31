--------------------------- MODULE AdmissionProofs ---------------------------
(* Theorems about Admission, for any finite set of callers and any limits;    *)
(* and at the end about Applications, from which the users who are admitted   *)
(* come: for any tenants, people, handlers and seats.                         *)
EXTENDS Admission, Applications, FiniteSetTheorems, TLAPS

-----------------------------------------------------------------------------
(* Jobs.                                                                     *)

LEMMA IdleFields ==
    /\ Idle \in Jobs /\ Idle.pc = "idle" /\ Idle.holds = FALSE
    /\ Idle.row = Fresh /\ Fresh \in Rows
  BY DEF Idle, Jobs, Points, Requests, Fresh, Rows, Grants

LEMMA JobFields ==
    ASSUME NEW j \in Jobs
    PROVE  /\ j.pc \in Points /\ j.request \in Requests /\ j.row \in Rows /\ j.holds \in BOOLEAN
           /\ j.row.grants \in Grants /\ j.row.status \in {"active", "revoked"}
  BY DEF Jobs, Rows

\* A job that goes on at another point.
LEMMA AtFields ==
    ASSUME NEW j \in Jobs, NEW to \in Points
    PROVE  /\ [j EXCEPT !.pc = to] \in Jobs
           /\ [j EXCEPT !.pc = to].pc = to /\ [j EXCEPT !.pc = to].holds = j.holds
           /\ [j EXCEPT !.pc = to].row = j.row /\ [j EXCEPT !.pc = to].request = j.request
  BY DEF Jobs

\* What a step of a handler does to the jobs.
LEMMA StepEffect ==
    ASSUME job \in [Callers -> Jobs], NEW w \in Callers, NEW from, NEW to \in Points,
           Step(w, from, to)
    PROVE  /\ job' \in [Callers -> Jobs] /\ calls' = calls /\ job[w].pc = from
           /\ \A v \in Callers : v # w => job'[v] = job[v]
           /\ job'[w].pc = to
           /\ to = "idle" => job'[w] = Idle
           /\ to # "idle" => job'[w].holds = job[w].holds /\ job'[w].row = job[w].row
<1>1. job[w] \in Jobs /\ calls' = calls /\ job[w].pc = from
  BY DEF Step
<1>2. CASE to = "idle"
  <2>1. job' = [job EXCEPT ![w] = Idle]
    BY <1>2 DEF Step
  <2> QED
    BY <1>1, <1>2, <2>1, IdleFields
<1>3. CASE to # "idle"
  <2> DEFINE j == [job[w] EXCEPT !.pc = to]
  <2>1. job' = [job EXCEPT ![w] = j]
    BY <1>3 DEF Step
  <2>2. j \in Jobs /\ j.pc = to /\ j.holds = job[w].holds /\ j.row = job[w].row
    BY <1>1, AtFields
  <2> HIDE DEF j
  <2> QED
    BY <1>1, <1>3, <2>1, <2>2
<1> QED
  BY <1>2, <1>3

LEMMA StartEffect ==
    ASSUME job \in [Callers -> Jobs], calls \in 0..MaxCalls,
           NEW w \in Callers, NEW j \in Jobs, Start(w, j)
    PROVE  /\ job' \in [Callers -> Jobs] /\ calls' \in 0..MaxCalls /\ job[w].pc = "idle"
           /\ \A v \in Callers : v # w => job'[v] = job[v]
           /\ job'[w] = j
  BY AdmissionAssumption DEF Start

LEMMA HoldEffect ==
    ASSUME job \in [Callers -> Jobs], key \in Rows,
           NEW w \in Callers, NEW to \in Points, Hold(w, to)
    PROVE  /\ job' \in [Callers -> Jobs] /\ calls' = calls
           /\ \A v \in Callers : v # w => job'[v] = job[v]
           /\ job'[w].pc = to /\ job'[w].holds = job[w].holds /\ job'[w].row = key
<1> DEFINE j == [job[w] EXCEPT !.pc = to, !.row = key]
<1>1. job' = [job EXCEPT ![w] = j] /\ calls' = calls
  BY DEF Hold
<1>2. j \in Jobs
  BY DEF Jobs
<1>3. j.pc = to /\ j.holds = job[w].holds /\ j.row = key
  BY DEF Jobs
<1> HIDE DEF j
<1> QED
  BY <1>1, <1>2, <1>3

\* The jobs that requests and administrators begin with.
LEMMA NewRequest ==
    ASSUME NEW r \in Requests, NEW at \in Points
    PROVE  LET j == [Idle EXCEPT !.pc = at, !.request = r] IN
           /\ j \in Jobs /\ j.pc = at /\ j.holds = FALSE
           /\ j.row = Fresh
  BY IdleFields DEF Jobs

LEMMA NewCopy ==
    ASSUME NEW row \in Rows, NEW at \in Points
    PROVE  LET j == [Idle EXCEPT !.pc = at, !.request = "admin", !.row = row] IN
           j \in Jobs /\ j.pc = at /\ j.holds = FALSE /\ j.row = row
  BY IdleFields DEF Jobs, Requests

\* The points at which a connection may be held.
Held == {"limit", "lookup", "fetchCached", "fetch", "fail", "store", "admit", "permit",
         "storePermissions", "serve", "release"}

HoldersServed == \A w \in Callers : job[w].holds => job[w].pc \in Held

\* A handler changes its own job, ...
Moves(w) ==
    /\ job' \in [Callers -> Jobs] /\ calls' \in 0..MaxCalls /\ outage' = outage
    /\ \A v \in Callers : v # w => job'[v] = job[v]
    /\ job'[w].holds => job'[w].pc \in Held

\* ... and the connection counter only where it takes or gives back a connection.
Keeps(w) == Moves(w) /\ job'[w].holds = job[w].holds /\ UNCHANGED connVars

LEMMA StepKeeps ==
    ASSUME TypeOK, HoldersServed, NEW w \in Callers, NEW from, NEW to \in Points,
           Step(w, from, to), UNCHANGED <<connVars, outage>>,
           \/ from \in Held /\ to \in Held
           \/ from \notin Held
    PROVE  Keeps(w) /\ job'[w].pc = to
<1>1. /\ job \in [Callers -> Jobs] /\ calls \in 0..MaxCalls /\ job[w] \in Jobs
      /\ job[w].holds \in BOOLEAN /\ (job[w].holds => job[w].pc \in Held)
  BY JobFields DEF TypeOK, HoldersServed
<1>2. /\ job' \in [Callers -> Jobs] /\ calls' = calls /\ job[w].pc = from
      /\ \A v \in Callers : v # w => job'[v] = job[v]
      /\ job'[w].pc = to
      /\ to = "idle" => job'[w] = Idle
      /\ to # "idle" => job'[w].holds = job[w].holds /\ job'[w].row = job[w].row
  BY <1>1, StepEffect
<1>3. job'[w].holds = job[w].holds /\ (job'[w].holds => to \in Held)
  BY <1>1, <1>2, IdleFields DEF Held
<1> QED
  BY <1>1, <1>2, <1>3 DEF Keeps, Moves

LEMMA StartKeeps ==
    ASSUME TypeOK, HoldersServed, NEW w \in Callers, NEW j \in Jobs, j.holds = FALSE,
           Start(w, j), UNCHANGED <<connVars, outage>>
    PROVE  Keeps(w) /\ job'[w] = j
<1>1. /\ job \in [Callers -> Jobs] /\ calls \in 0..MaxCalls /\ job[w] \in Jobs
      /\ job[w].holds \in BOOLEAN /\ (job[w].holds => job[w].pc \in Held)
  BY JobFields DEF TypeOK, HoldersServed
<1>2. /\ job' \in [Callers -> Jobs] /\ calls' \in 0..MaxCalls /\ job[w].pc = "idle"
      /\ \A v \in Callers : v # w => job'[v] = job[v]
      /\ job'[w] = j
  BY <1>1, StartEffect
<1>3. job[w].holds = FALSE
  BY <1>1, <1>2 DEF Held
<1> QED
  BY <1>2, <1>3 DEF Keeps, Moves

LEMMA HoldKeeps ==
    ASSUME TypeOK, HoldersServed, NEW w \in Callers, NEW to \in Held,
           Hold(w, to), UNCHANGED <<connVars, outage>>
    PROVE  Keeps(w) /\ job'[w].pc = to /\ job'[w].row = key
<1>1. to \in Points
  BY DEF Held, Points
<1>2. job \in [Callers -> Jobs] /\ calls \in 0..MaxCalls /\ key \in Rows
  BY DEF TypeOK
<1>3. /\ job' \in [Callers -> Jobs] /\ calls' = calls
      /\ \A v \in Callers : v # w => job'[v] = job[v]
      /\ job'[w].pc = to /\ job'[w].holds = job[w].holds /\ job'[w].row = key
  BY <1>1, <1>2, HoldEffect
<1> QED
  BY <1>2, <1>3 DEF Keeps, Moves

-----------------------------------------------------------------------------
(* What each handler does to its job and to the connection counter.          *)

LEMMA AcquireMoves ==
    ASSUME TypeOK, HoldersServed, NEW w \in Callers, AcquireConnection(w)
    PROVE  /\ Moves(w) /\ job'[w].pc \in {"limit", "idle"}
           /\ job[w].holds = FALSE /\ count' \in Int /\ timed' \in {timed, TRUE}
           /\ UNCHANGED <<leaked, lapsed>>
           /\ \/ UNCHANGED count /\ job'[w].holds = FALSE
              \/ count < MaxConns /\ count' = count + 1 /\ job'[w].holds = TRUE
<1>1. /\ job \in [Callers -> Jobs] /\ calls \in 0..MaxCalls /\ job[w] \in Jobs
      /\ job[w].holds \in BOOLEAN /\ (job[w].holds => job[w].pc \in Held)
      /\ count \in Int /\ outage' = outage
  BY JobFields DEF TypeOK, HoldersServed, AcquireConnection
<1>2. job[w].pc = "acquire"
  BY DEF AcquireConnection, Step
<1>3. job[w].holds = FALSE
  BY <1>1, <1>2 DEF Held
<1>4. "limit" \in Points /\ "idle" \in Points /\ "limit" \in Held
  BY DEF Points, Held
<1>5. CASE /\ count < MaxConns
           /\ job' = [job EXCEPT ![w].pc = "limit", ![w].holds = TRUE]
           /\ count' = count + 1 /\ timed' = TRUE /\ UNCHANGED calls
           /\ UNCHANGED <<leaked, lapsed>>
  <2> DEFINE j == [job[w] EXCEPT !.pc = "limit", !.holds = TRUE]
  <2>1. job' = [job EXCEPT ![w] = j]
    BY <1>5
  <2>2. j \in Jobs /\ j.pc = "limit" /\ j.holds = TRUE
    BY <1>1, <1>4 DEF Jobs
  <2> HIDE DEF j
  <2>3. job' \in [Callers -> Jobs] /\ job'[w] = j /\ \A v \in Callers : v # w => job'[v] = job[v]
    BY <1>1, <2>1, <2>2
  <2>4. Moves(w)
    BY <1>1, <1>4, <1>5, <2>2, <2>3 DEF Moves
  <2>5. count' \in Int
    BY <1>1, <1>5
  <2> QED
    BY <1>3, <1>5, <2>2, <2>3, <2>4, <2>5
<1>6. ASSUME NEW to \in {"limit", "idle"}, Step(w, "acquire", to), UNCHANGED count,
             timed' \in {timed, TRUE}, UNCHANGED <<leaked, lapsed>>
      PROVE  /\ Moves(w) /\ job'[w].pc = to /\ job'[w].holds = FALSE
  <2>1. /\ job' \in [Callers -> Jobs] /\ calls' = calls
        /\ \A v \in Callers : v # w => job'[v] = job[v]
        /\ job'[w].pc = to
        /\ to = "idle" => job'[w] = Idle
        /\ to # "idle" => job'[w].holds = job[w].holds
    BY <1>1, <1>4, <1>6, StepEffect
  <2> QED
    BY <1>1, <1>3, <2>1, IdleFields DEF Moves
<1> QED
  BY <1>1, <1>3, <1>5, <1>6 DEF AcquireConnection

LEMMA ReleaseMoves ==
    ASSUME TypeOK, HoldersServed, NEW w \in Callers, Release(w)
    PROVE  /\ Moves(w) /\ job'[w] = Idle /\ count' \in Int
           /\ ~ outage => count' = (IF job[w].holds THEN count - 1 ELSE count)
           /\ UNCHANGED <<leaked, lapsed>>
<1>1. /\ job \in [Callers -> Jobs] /\ calls \in 0..MaxCalls /\ count \in Int /\ outage \in BOOLEAN
      /\ job[w] \in Jobs /\ job[w].holds \in BOOLEAN
  BY JobFields DEF TypeOK
<1>2. "idle" \in Points
  BY DEF Points
<1>3. Step(w, "release", "idle") /\ outage' = outage /\ UNCHANGED <<leaked, lapsed>>
  BY DEF Release
<1>4. /\ job' \in [Callers -> Jobs] /\ calls' = calls
      /\ \A v \in Callers : v # w => job'[v] = job[v]
      /\ job'[w] = Idle
  BY <1>1, <1>2, <1>3, StepEffect
<1>5. Moves(w)
  BY <1>1, <1>3, <1>4, IdleFields DEF Moves
<1>6. count' \in Int /\ (~ outage => count' = IF job[w].holds THEN count - 1 ELSE count)
  BY <1>1 DEF Release
<1> QED
  BY <1>3, <1>4, <1>5, <1>6

\* The steps that neither take nor give back a connection.
Others(w) ==
    \/ \E r \in Requests : Arrive(w, r)
    \/ WithinRate(w) \/ AutoBlockIP(w) \/ RecordRateViolation(w)
    \/ AuthMiddleware(w) \/ HandleMCP(w) \/ HandleProxy(w) \/ AdminRoutes(w)

LEMMA OthersKeep ==
    ASSUME TypeOK, HoldersServed, NEW w \in Callers, Others(w)
    PROVE  Keeps(w) /\ (job'[w].pc = "saveEdit" => UpdateAPIKey(w))
<1> USE DEF Points, Held
<1>1. ASSUME NEW r \in Requests, Arrive(w, r) PROVE Keeps(w) /\ job'[w].pc # "saveEdit"
  <2> DEFINE j == [Idle EXCEPT !.pc = "acquire", !.request = r]
  <2>1. j \in Jobs /\ j.pc = "acquire" /\ j.holds = FALSE
    BY NewRequest
  <2>2. Start(w, j) /\ UNCHANGED <<connVars, outage>>
    BY <1>1 DEF Arrive
  <2> HIDE DEF j
  <2> QED
    BY <2>1, <2>2, StartKeeps
<1>2. CASE WithinRate(w) \/ AutoBlockIP(w) \/ RecordRateViolation(w)
  <2>1. \E to \in {"lookup", "release"} : Step(w, "limit", to) /\ UNCHANGED <<connVars, outage>>
    BY <1>2 DEF WithinRate, AutoBlockIP, RecordRateViolation
  <2> QED
    BY <2>1, StepKeeps
<1>3. CASE LookupCache(w)
  <2>1. \E to \in {"fetchCached", "fetch"} : Step(w, "lookup", to) /\ UNCHANGED <<connVars, outage>>
    BY <1>3 DEF LookupCache
  <2> QED
    BY <2>1, StepKeeps
<1>4. CASE FetchCached(w) \/ Fetch(w)
  <2>1. /\ UNCHANGED <<connVars, outage>>
        /\ \/ Hold(w, "admit") \/ Hold(w, "store")
           \/ Step(w, "fetchCached", "fetch") \/ Step(w, "fetch", "fail")
    BY <1>4 DEF FetchCached, Fetch
  <2>2. CASE Hold(w, "admit") \/ Hold(w, "store")
    BY <2>1, <2>2, HoldKeeps
  <2>3. CASE Step(w, "fetchCached", "fetch") \/ Step(w, "fetch", "fail")
    BY <2>1, <2>3, StepKeeps
  <2> QED
    BY <2>1, <2>2, <2>3
<1>5. CASE StoreCache(w)
  BY <1>5, StepKeeps DEF StoreCache, connVars
<1>6. CASE RecordAuthFailure(w)
  BY <1>6, StepKeeps DEF RecordAuthFailure
<1>7. CASE Admit(w)
  BY <1>7, StepKeeps DEF Admit
<1>8. CASE GetSession(w)
  <2>1. \E to \in {"serve", "release"} : Step(w, "lookup", to) /\ UNCHANGED <<connVars, outage>>
    BY <1>8 DEF GetSession
  <2> QED
    BY <2>1, StepKeeps
<1>9. CASE Initialize(w)
  BY <1>9, StepKeeps DEF Initialize
<1>10. CASE CheckAccess(w) \/ StorePermissions(w) \/ Serve(w)
  <2>1. \E from \in {"permit", "storePermissions", "serve"},
           to \in {"storePermissions", "serve", "release"} :
           Step(w, from, to) /\ UNCHANGED <<connVars, outage>>
    BY <1>10 DEF CheckAccess, StorePermissions, Serve
  <2> QED
    BY <2>1, StepKeeps
<1>11. CASE Revoke(w) \/ SaveEdit(w) \/ SaveLimits(w)
  <2>1. \E from \in {"revoke", "saveEdit", "saveLimits"} :
           Step(w, from, "idle") /\ UNCHANGED <<connVars, outage>>
    BY <1>11 DEF Revoke, SaveEdit, SaveLimits
  <2> QED
    BY <2>1, StepKeeps
<1>12. CASE UpdateAPIKey(w)
  BY <1>12, StepKeeps DEF UpdateAPIKey
<1>13. CASE RevokeAPIKey(w)
  <2> DEFINE j == [Idle EXCEPT !.pc = "revoke", !.request = "admin"]
  <2>1. j \in Jobs /\ j.pc = "revoke" /\ j.holds = FALSE
    BY NewRequest DEF Requests
  <2>2. Start(w, j) /\ UNCHANGED <<connVars, outage>>
    BY <1>13 DEF RevokeAPIKey
  <2> HIDE DEF j
  <2> QED
    BY <2>1, <2>2, StartKeeps
<1>14. ASSUME NEW row \in Rows, NEW at \in {"edit", "saveLimits"},
             Start(w, [Idle EXCEPT !.pc = at, !.request = "admin", !.row = row]),
             UNCHANGED <<connVars, outage>>
       PROVE  Keeps(w) /\ job'[w].pc # "saveEdit"
  <2> DEFINE j == [Idle EXCEPT !.pc = at, !.request = "admin", !.row = row]
  <2>0. at \in Points
    OBVIOUS
  <2> HIDE DEF Points
  <2>1. j \in Jobs /\ j.pc = at /\ j.holds = FALSE
    BY <2>0, NewCopy
  <2>2. Start(w, j)
    BY <1>14
  <2> HIDE DEF j
  <2> QED
    BY <1>14, <2>1, <2>2, StartKeeps
<1>15. key \in Rows /\ \A g \in Grants : [key EXCEPT !.grants = g] \in Rows
  BY DEF TypeOK, Rows
<1>16. ASSUME NEW g \in Grants, ReadToEdit(w, g) PROVE Keeps(w) /\ job'[w].pc # "saveEdit"
  BY <1>14, <1>15, <1>16 DEF ReadToEdit
<1>17. CASE ReadToLimit(w)
  BY <1>14, <1>15, <1>17 DEF ReadToLimit
<1> QED
  BY <1>1, <1>2, <1>3, <1>4, <1>5, <1>6, <1>7, <1>8, <1>9, <1>10, <1>11, <1>12, <1>13, <1>16, <1>17
     DEF Others, AuthMiddleware, HandleMCP, HandleProxy, AdminRoutes

-----------------------------------------------------------------------------
(* Types.                                                                    *)

DataOK ==
    /\ key \in Rows /\ late \in BOOLEAN /\ cached \in BOOLEAN /\ session \in BOOLEAN
    /\ permissions \in Grants \cup {"none"} /\ raced \in BOOLEAN
    /\ failures \in 0..(MaxAttempts - 1) /\ violations \in 0..(MaxViolations - 1)
    /\ blocked \in BOOLEAN

LEMMA DataTyped == ASSUME TypeOK, Next PROVE DataOK'
<1> USE DEF DataOK, keyVars, blockVars
<1>1. DataOK /\ outage \in BOOLEAN /\ \A w \in Callers : job[w] \in Jobs
  BY DEF TypeOK
<1>2. \A w \in Callers : job[w].row \in Rows /\ job[w].row.grants \in Grants
  BY <1>1, JobFields
<1>3. /\ 0 \in 0..(MaxAttempts - 1) /\ 0 \in 0..(MaxViolations - 1)
      /\ failures + 1 < MaxAttempts => failures + 1 \in 0..(MaxAttempts - 1)
      /\ violations + 1 < MaxViolations => violations + 1 \in 0..(MaxViolations - 1)
  BY <1>1, AdmissionAssumption
<1>4. [key EXCEPT !.status = "revoked"] \in Rows
  BY <1>1 DEF Rows
<1>5. ASSUME NEW w \in Callers, SafeMiddleware(w) PROVE DataOK'
  <2>1. UNCHANGED <<keyVars, failures>>
    BY <1>5 DEF SafeMiddleware, Arrive, AcquireConnection, Release, WithinRate, AutoBlockIP,
                RecordRateViolation
  <2>2. /\ blocked' \in {blocked, TRUE}
        /\ \/ violations' \in {0, violations}
           \/ violations + 1 < MaxViolations /\ violations' = violations + 1
    BY <1>5 DEF SafeMiddleware, Arrive, AcquireConnection, Release, WithinRate, AutoBlockIP,
                RecordRateViolation
  <2> QED
    BY <1>1, <1>3, <2>1, <2>2
<1>6. ASSUME NEW w \in Callers, AuthMiddleware(w) PROVE DataOK'
  <2>1. UNCHANGED <<key, late, permissions, session, raced, violations>> /\ cached' \in {cached, TRUE}
    BY <1>6 DEF AuthMiddleware, LookupCache, FetchCached, Fetch, StoreCache, RecordAuthFailure, Admit
  <2>2. /\ blocked' \in {blocked, TRUE}
        /\ \/ failures' \in {0, failures}
           \/ failures + 1 < MaxAttempts /\ failures' = failures + 1
    BY <1>6 DEF AuthMiddleware, LookupCache, FetchCached, Fetch, StoreCache, RecordAuthFailure, Admit
  <2> QED
    BY <1>1, <1>3, <2>1, <2>2
<1>7. ASSUME NEW w \in Callers, HandleMCP(w) PROVE DataOK'
  BY <1>1, <1>7 DEF HandleMCP, GetSession, Initialize
<1>8. ASSUME NEW w \in Callers, HandleProxy(w) PROVE DataOK'
  <2>1. UNCHANGED <<key, late, cached, session, blockVars>>
    BY <1>8 DEF HandleProxy, CheckAccess, StorePermissions, Serve
  <2>2. permissions' \in {permissions, "none", job[w].row.grants} /\ raced' \in BOOLEAN
    BY <1>1, <1>8 DEF HandleProxy, CheckAccess, StorePermissions, Serve
  <2> QED
    BY <1>1, <1>2, <2>1, <2>2
<1>9. ASSUME NEW w \in Callers, AdminRoutes(w) PROVE DataOK'
  <2>1. UNCHANGED <<late, cached, session, blockVars>>
    BY <1>9 DEF AdminRoutes, RevokeAPIKey, Revoke, ReadToEdit, UpdateAPIKey, SaveEdit, ReadToLimit,
                SaveLimits
  <2>2. /\ key' \in {key, [key EXCEPT !.status = "revoked"], job[w].row}
        /\ permissions' \in {permissions, "none"} /\ raced' \in BOOLEAN
    BY <1>1, <1>9 DEF AdminRoutes, RevokeAPIKey, Revoke, ReadToEdit, UpdateAPIKey, SaveEdit,
                ReadToLimit, SaveLimits
  <2> QED
    BY <1>1, <1>2, <1>4, <2>1, <2>2
<1>10. ASSUME Time PROVE DataOK'
  BY <1>1, <1>3, <1>10 DEF Time, PassExpiry, ExpireCache, EndSession, ExpireCount, Crash, Forget, Unblock
<1> QED
  BY <1>5, <1>6, <1>7, <1>8, <1>9, <1>10 DEF Next

LEMMA OpenFinite == Open \subseteq Callers /\ IsFiniteSet(Open) /\ Cardinality(Open) \in Nat
  BY AdmissionAssumption, FS_Subset, FS_CardinalityType DEF Open

\* The invariant of the connections.
ConnInv == TypeOK /\ HoldersServed /\ ConnectionsCounted

\* A caller's step changes what it alone holds.
LEMMA OpenMoves ==
    ASSUME TypeOK, NEW w \in Callers, Moves(w)
    PROVE  Open' = IF job'[w].holds THEN Open \cup {w} ELSE Open \ {w}
  BY DEF Open, Moves

LEMMA HoldersMove ==
    ASSUME HoldersServed, NEW w \in Callers, Moves(w) PROVE HoldersServed'
  BY DEF HoldersServed, Moves

LEMMA CallerSteps ==
    Next => Time \/ \E w \in Callers : AcquireConnection(w) \/ Release(w) \/ Others(w)
  BY DEF Next, SafeMiddleware, Others

LEMMA InitConn == Init => ConnInv
<1>1. ASSUME Init PROVE ConnInv
  <2>1. Open = {} /\ \A w \in Callers : job[w] = Idle
    BY <1>1, IdleFields DEF Init, Open
  <2>2. Cardinality(Open) = 0
    BY <2>1, FS_EmptySet
  <2>2a. job \in [Callers -> Jobs] /\ key \in Rows
    BY <1>1, IdleFields DEF Init
  <2>2b. /\ late \in BOOLEAN /\ cached \in BOOLEAN /\ session \in BOOLEAN /\ timed \in BOOLEAN
        /\ blocked \in BOOLEAN /\ outage \in BOOLEAN /\ lapsed \in BOOLEAN /\ raced \in BOOLEAN
    BY <1>1 DEF Init
  <2>2c. /\ permissions = "none" /\ count \in Int /\ failures \in 0..(MaxAttempts - 1)
        /\ violations \in 0..(MaxViolations - 1) /\ calls \in 0..MaxCalls /\ leaked \in Nat
    BY <1>1, AdmissionAssumption DEF Init
  <2>3. TypeOK
    BY <2>2a, <2>2b, <2>2c DEF TypeOK
  <2>4. HoldersServed
    BY <2>1, IdleFields DEF HoldersServed
  <2>5. ConnectionsCounted
    BY <1>1, <2>2, AdmissionAssumption DEF Init, ConnectionsCounted
  <2> QED
    BY <2>3, <2>4, <2>5 DEF ConnInv
<1> QED
  BY <1>1

\* The counter follows what is held.
LEMMA AcquireCounts ==
    ASSUME ConnInv, NEW w \in Callers, AcquireConnection(w)
    PROVE  TypeOK' /\ HoldersServed' /\ ConnectionsCounted'
<1>1. TypeOK /\ HoldersServed /\ ConnectionsCounted
  BY DEF ConnInv
<1>2. /\ Moves(w) /\ job[w].holds = FALSE /\ count' \in Int /\ timed' \in {timed, TRUE}
      /\ UNCHANGED <<leaked, lapsed>>
      /\ \/ UNCHANGED count /\ job'[w].holds = FALSE
         \/ count < MaxConns /\ count' = count + 1 /\ job'[w].holds = TRUE
  BY <1>1, AcquireMoves
<1>3. DataOK'
  BY <1>1, DataTyped DEF Next, SafeMiddleware
<1>4. TypeOK'
  BY <1>1, <1>2, <1>3 DEF TypeOK, Moves, DataOK
<1>5. HoldersServed'
  BY <1>1, <1>2, HoldersMove
<1>6. w \notin Open /\ Open' = IF job'[w].holds THEN Open \cup {w} ELSE Open \ {w}
  BY <1>1, <1>2, OpenMoves DEF Open
<1>7. Cardinality(Open \cup {w}) = Cardinality(Open) + 1 /\ Cardinality(Open) \in Nat
  BY <1>6, OpenFinite, FS_AddElement
<1>8. outage' = outage /\ lapsed' = lapsed /\ leaked' = leaked
  BY <1>2 DEF Moves
<1>9. ConnectionsCounted'
  <2>1. CASE UNCHANGED count /\ job'[w].holds = FALSE
    <3>1. Open' = Open
      BY <1>6, <2>1
    <3> QED
      BY <1>1, <1>8, <2>1, <3>1 DEF ConnectionsCounted
  <2>2. CASE count < MaxConns /\ count' = count + 1 /\ job'[w].holds = TRUE
    <3>1. Open' = Open \cup {w}
      BY <1>6, <2>2
    <3>2. Cardinality(Open') = Cardinality(Open) + 1
      BY <1>7, <3>1
    <3>3. count \in Int /\ leaked \in Nat
      BY <1>1 DEF TypeOK
    <3> QED
      BY <1>1, <1>7, <1>8, <2>2, <3>2, <3>3, AdmissionAssumption DEF ConnectionsCounted
  <2> QED
    BY <1>2, <2>1, <2>2
<1> QED
  BY <1>4, <1>5, <1>9

LEMMA ReleaseCounts ==
    ASSUME ConnInv, NEW w \in Callers, Release(w)
    PROVE  TypeOK' /\ HoldersServed' /\ ConnectionsCounted'
<1>1. TypeOK /\ HoldersServed /\ ConnectionsCounted
  BY DEF ConnInv
<1>2. /\ Moves(w) /\ job'[w] = Idle /\ count' \in Int
      /\ ~ outage => count' = (IF job[w].holds THEN count - 1 ELSE count)
      /\ UNCHANGED <<leaked, lapsed>>
  BY <1>1, ReleaseMoves
<1>3. DataOK' /\ timed' = timed
  BY <1>1, DataTyped DEF Next, SafeMiddleware, Release
<1>4. TypeOK'
  BY <1>1, <1>2, <1>3 DEF TypeOK, Moves, DataOK
<1>5. HoldersServed'
  BY <1>1, <1>2, HoldersMove
<1>6. job'[w].holds = FALSE
  BY <1>2, IdleFields
<1>7. Open' = Open \ {w} /\ (w \in Open <=> job[w].holds)
  BY <1>1, <1>2, <1>6, OpenMoves DEF Open
<1>8. outage' = outage /\ lapsed' = lapsed /\ leaked' = leaked
  BY <1>2 DEF Moves
<1>9. Cardinality(Open') = (IF job[w].holds THEN Cardinality(Open) - 1 ELSE Cardinality(Open))
  BY <1>7, OpenFinite, FS_RemoveElement
<1>10. Cardinality(Open) \in Nat /\ count \in Int /\ leaked \in Nat
  BY <1>1, OpenFinite DEF TypeOK
<1>11. ConnectionsCounted'
  BY <1>1, <1>2, <1>8, <1>9, <1>10, AdmissionAssumption DEF ConnectionsCounted
<1> QED
  BY <1>4, <1>5, <1>11

LEMMA OthersCount ==
    ASSUME ConnInv, NEW w \in Callers, Others(w)
    PROVE  TypeOK' /\ HoldersServed' /\ ConnectionsCounted'
<1>1. TypeOK /\ HoldersServed /\ ConnectionsCounted
  BY DEF ConnInv
<1>2. Moves(w) /\ job'[w].holds = job[w].holds /\ UNCHANGED connVars
  BY <1>1, OthersKeep DEF Keeps
<1>3. DataOK'
  BY <1>1, DataTyped DEF Next, SafeMiddleware, Others
<1>4. TypeOK'
  BY <1>1, <1>2, <1>3 DEF TypeOK, Moves, DataOK, connVars
<1>5. HoldersServed'
  BY <1>1, <1>2, HoldersMove
<1>6. Open' = Open
  BY <1>1, <1>2, OpenMoves DEF Open
<1>7. ConnectionsCounted'
  BY <1>1, <1>2, <1>6 DEF ConnectionsCounted, Moves, connVars
<1> QED
  BY <1>4, <1>5, <1>7

LEMMA TimeCounts ==
    ASSUME ConnInv, Time
    PROVE  TypeOK' /\ HoldersServed' /\ ConnectionsCounted'
<1>1. TypeOK /\ HoldersServed /\ ConnectionsCounted
  BY DEF ConnInv
<1>2. DataOK'
  BY <1>1, DataTyped DEF Next
<1>3. Cardinality(Open) \in Nat /\ count \in Int /\ leaked \in Nat
  BY <1>1, OpenFinite DEF TypeOK
<1>4. CASE Crash
  <2>1. /\ job' = [v \in Callers |-> Idle] /\ leaked' = leaked + Cardinality(Open)
        /\ UNCHANGED <<count, timed, lapsed, calls, outage>>
    BY <1>4 DEF Crash
  <2>2. \A v \in Callers : job'[v] = Idle
    BY <2>1
  <2>3. Open' = {} /\ HoldersServed'
    BY <2>2, IdleFields DEF Open, HoldersServed
  <2>4. Cardinality(Open') = 0
    BY <2>3, FS_EmptySet
  <2>5. leaked' \in Nat /\ leaked' = leaked + Cardinality(Open)
    BY <1>3, <2>1
  <2>6. job' \in [Callers -> Jobs]
    BY <2>1, IdleFields
  <2>7. TypeOK'
    BY <1>1, <1>2, <2>1, <2>5, <2>6 DEF TypeOK, DataOK
  <2>8. ConnectionsCounted'
    BY <1>1, <1>3, <2>1, <2>4, <2>5 DEF ConnectionsCounted
  <2> QED
    BY <2>3, <2>7, <2>8
<1>5. CASE ExpireCount
  <2>1. /\ count' = 0 /\ leaked' = 0 /\ timed' = FALSE /\ lapsed' = (lapsed \/ Open # {})
        /\ UNCHANGED <<job, calls, outage>>
    BY <1>5 DEF ExpireCount
  <2>2. Open' = Open /\ HoldersServed'
    BY <1>1, <2>1 DEF Open, HoldersServed
  <2>3. lapsed' \in BOOLEAN /\ (~ lapsed' => Open = {})
    BY <1>1, <2>1 DEF TypeOK
  <2>2a. timed' \in BOOLEAN
    BY <1>5, Zenon DEF ExpireCount
  <2>2b. count' = 0 /\ leaked' = 0 /\ UNCHANGED <<job, calls, outage>>
    BY <1>5, Zenon DEF ExpireCount
  <2>4. TypeOK'
    BY <1>1, <1>2, <2>2a, <2>2b, <2>3 DEF TypeOK, DataOK
  <2>5. ConnectionsCounted'
    BY <2>1, <2>2, <2>3, FS_EmptySet, AdmissionAssumption DEF ConnectionsCounted
  <2> QED
    BY <2>2, <2>4, <2>5
<1>6. CASE PassExpiry \/ ExpireCache \/ EndSession \/ Forget \/ Unblock
  <2>1. UNCHANGED <<connVars, job, calls, outage>>
    BY <1>6 DEF PassExpiry, ExpireCache, EndSession, Forget, Unblock
  <2>2. Open' = Open /\ HoldersServed'
    BY <1>1, <2>1 DEF Open, HoldersServed
  <2>3. TypeOK'
    BY <1>1, <1>2, <2>1 DEF TypeOK, DataOK, connVars
  <2>4. ConnectionsCounted'
    BY <1>1, <2>1, <2>2 DEF ConnectionsCounted, connVars
  <2> QED
    BY <2>2, <2>3, <2>4
<1> QED
  BY <1>4, <1>5, <1>6 DEF Time

LEMMA ConnStep == ConnInv /\ [Next]_vars => ConnInv'
<1>1. ASSUME ConnInv, Next PROVE ConnInv'
  <2>1. TypeOK' /\ HoldersServed' /\ ConnectionsCounted'
    BY <1>1, CallerSteps, AcquireCounts, ReleaseCounts, OthersCount, TimeCounts
  <2> QED
    BY <2>1 DEF ConnInv
<1>2. ASSUME ConnInv, UNCHANGED vars PROVE ConnInv'
  BY <1>2 DEF ConnInv, TypeOK, HoldersServed, ConnectionsCounted, Open, vars
<1> QED
  BY <1>1, <1>2

\* Every state of the model is well formed, and only a request that is being
\* served holds a connection.
THEOREM TypeCorrect == Spec => [](TypeOK /\ HoldersServed)
<1>1. ConnInv => TypeOK /\ HoldersServed
  BY DEF ConnInv
<1> QED
  BY InitConn, ConnStep, <1>1, PTL DEF Spec

\* For any number of callers and any limit: while Redis answers and the counter
\* has not expired under open connections, it is the number of the connections
\* that are open or were open when the server crashed, and stays in the limit.
THEOREM CountKept == Spec => []ConnectionsCounted
<1>1. ConnInv => ConnectionsCounted
  BY DEF ConnInv
<1> QED
  BY InitConn, ConnStep, <1>1, PTL DEF Spec

-----------------------------------------------------------------------------
(* Permissions.                                                              *)

\* Somebody is about to save a row with other permissions.
Saving == \E v \in Callers : job[v].pc = "saveEdit"

\* Until a stale copy was stored the cache holds what the row says, and nothing
\* while a change of the row is about to be saved.
PermInv ==
    \/ raced
    \/ permissions = "none"
    \/ permissions = key.grants /\ ~ Saving

LEMMA SavingMoves ==
    ASSUME ConnInv, NEW w \in Callers, AcquireConnection(w) \/ Release(w) \/ Others(w),
           ~ UpdateAPIKey(w), ~ Saving
    PROVE  ~ Saving'
<1>1. TypeOK /\ HoldersServed
  BY DEF ConnInv
<1>2. Moves(w) /\ job'[w].pc # "saveEdit"
  BY <1>1, AcquireMoves, ReleaseMoves, OthersKeep, IdleFields DEF Keeps
<1> QED
  BY <1>2 DEF Saving, Moves

LEMMA PermStep == ASSUME ConnInv, PermInv, [Next]_vars PROVE PermInv'
<1>0. TypeOK /\ HoldersServed /\ raced \in BOOLEAN /\ key \in Rows
  BY DEF ConnInv, TypeOK
<1>1. CASE UNCHANGED vars
  BY <1>1 DEF PermInv, Saving, vars
<1>2. ASSUME NEW w \in Callers, AcquireConnection(w) \/ Release(w) \/ Others(w),
             UNCHANGED <<key, permissions, raced>>, ~ UpdateAPIKey(w)
      PROVE  PermInv'
  BY <1>2, SavingMoves DEF PermInv
<1>3. ASSUME NEW w \in Callers, SafeMiddleware(w) PROVE PermInv'
  <2>1. UNCHANGED <<key, permissions, raced>>
    BY <1>3 DEF SafeMiddleware, Arrive, AcquireConnection, Release, WithinRate, AutoBlockIP,
                RecordRateViolation, keyVars
  <2>2. ~ UpdateAPIKey(w)
    BY <1>3 DEF SafeMiddleware, Arrive, AcquireConnection, Release, WithinRate, AutoBlockIP,
                RecordRateViolation, UpdateAPIKey, Start, Step
  <2> QED
    BY <1>2, <1>3, <2>1, <2>2 DEF SafeMiddleware, Others
<1>4. ASSUME NEW w \in Callers, AuthMiddleware(w) \/ HandleMCP(w) \/ CheckAccess(w) PROVE PermInv'
  <2>1. UNCHANGED <<key, permissions, raced>>
    BY <1>4 DEF AuthMiddleware, LookupCache, FetchCached, Fetch, StoreCache, RecordAuthFailure,
                Admit, HandleMCP, GetSession, Initialize, CheckAccess, keyVars
  <2>2. ~ UpdateAPIKey(w)
    BY <1>4 DEF AuthMiddleware, LookupCache, FetchCached, Fetch, StoreCache, RecordAuthFailure,
                Admit, HandleMCP, GetSession, Initialize, CheckAccess, UpdateAPIKey, Step, Hold
  <2> QED
    BY <1>2, <1>4, <2>1, <2>2 DEF Others, HandleProxy
<1>5. ASSUME NEW w \in Callers, StorePermissions(w) PROVE PermInv'
  <2>1. /\ key' = key /\ permissions' = job[w].row.grants
        /\ raced' = (raced \/ job[w].row.grants # key.grants \/ Saving)
    BY <1>5 DEF StorePermissions, Saving
  <2>2. ~ UpdateAPIKey(w)
    BY <1>5 DEF StorePermissions, UpdateAPIKey, Step
  <2>3. ~ Saving => ~ Saving'
    BY <1>5, <2>2, SavingMoves DEF Others, HandleProxy
  <2> QED
    BY <1>0, <2>1, <2>3 DEF PermInv
<1>6. ASSUME NEW w \in Callers, Serve(w) PROVE PermInv'
  <2>1. key' = key /\ raced' = raced /\ permissions' \in {"none", permissions}
    BY <1>6 DEF Serve
  <2>2. ~ UpdateAPIKey(w)
    BY <1>6 DEF Serve, UpdateAPIKey, Step
  <2>3. ~ Saving => ~ Saving'
    BY <1>6, <2>2, SavingMoves DEF Others, HandleProxy
  <2> QED
    BY <1>0, <2>1, <2>3 DEF PermInv
<1>7. ASSUME NEW w \in Callers, RevokeAPIKey(w) \/ UpdateAPIKey(w) PROVE PermInv'
  <2>1. permissions' = "none"
    BY <1>7 DEF RevokeAPIKey, UpdateAPIKey
  <2> QED
    BY <2>1 DEF PermInv
<1>8. ASSUME NEW w \in Callers, Revoke(w) PROVE PermInv'
  <2>1. UNCHANGED <<permissions, raced>> /\ ~ UpdateAPIKey(w)
    BY <1>8 DEF Revoke, UpdateAPIKey, Step
  <2>2. key'.grants = key.grants
    BY <1>0, <1>8 DEF Revoke, Rows
  <2>3. ~ Saving => ~ Saving'
    BY <1>8, <2>1, SavingMoves DEF Others, AdminRoutes
  <2> QED
    BY <2>1, <2>2, <2>3 DEF PermInv
<1>9. ASSUME NEW w \in Callers, NEW g \in Grants, ReadToEdit(w, g) PROVE PermInv'
  <2>1. UNCHANGED <<key, permissions, raced>> /\ ~ UpdateAPIKey(w)
    BY <1>9 DEF ReadToEdit, UpdateAPIKey, Start, Step, keyVars
  <2> QED
    BY <1>2, <1>9, <2>1 DEF Others, AdminRoutes
<1>10. ASSUME NEW w \in Callers, SaveEdit(w) PROVE PermInv'
  <2>1. UNCHANGED <<permissions, raced>> /\ Saving
    BY <1>10 DEF SaveEdit, Step, Saving
  <2> QED
    BY <2>1 DEF PermInv
<1>11. ASSUME NEW w \in Callers, ReadToLimit(w) PROVE PermInv'
  <2>1. UNCHANGED <<key, permissions, raced>> /\ ~ UpdateAPIKey(w)
    BY <1>11 DEF ReadToLimit, UpdateAPIKey, Start, Step, keyVars
  <2> QED
    BY <1>2, <1>11, <2>1 DEF Others, AdminRoutes
<1>12. ASSUME NEW w \in Callers, SaveLimits(w) PROVE PermInv'
  <2>1. permissions' = permissions /\ ~ UpdateAPIKey(w)
    BY <1>12 DEF SaveLimits, UpdateAPIKey, Step
  <2>2. (raced' = raced /\ key' = key) \/ raced'
    BY <1>0, <1>12 DEF SaveLimits
  <2>3. ~ Saving => ~ Saving'
    BY <1>12, <2>1, SavingMoves DEF Others, AdminRoutes
  <2> QED
    BY <2>1, <2>2, <2>3 DEF PermInv
<1>13. CASE Time
  <2>1. CASE Crash
    BY <2>1 DEF Crash, PermInv
  <2>2. CASE ~ Crash
    <3>1. UNCHANGED <<key, permissions, raced, job>>
      BY <1>13, <2>2 DEF Time, PassExpiry, ExpireCache, EndSession, ExpireCount, Forget, Unblock, keyVars
    <3> QED
      BY <3>1 DEF PermInv, Saving
  <2> QED
    BY <2>1, <2>2
<1> QED
  BY <1>1, <1>3, <1>4, <1>5, <1>6, <1>7, <1>8, <1>9, <1>10, <1>11, <1>12, <1>13
     DEF Next, HandleProxy, AdminRoutes

\* Unless a row that had changed, or was being changed, was stored, a request is
\* never judged by permissions other than those the key has.
THEOREM PermissionsKept == Spec => []PermissionsCurrent
<1>1. Init => PermInv
  BY DEF Init, PermInv
<1>2. ConnInv /\ PermInv => PermissionsCurrent
  BY DEF PermInv, PermissionsCurrent
<1>3. ConnInv /\ PermInv /\ [Next]_vars => PermInv'
  BY PermStep
<1> QED
  BY InitConn, ConnStep, <1>1, <1>2, <1>3, PTL DEF Spec

-----------------------------------------------------------------------------
(* A key that was shut out.                                                  *)

\* What the step of w has to keep for the key to stay shut out.
Quiet(w) ==
    /\ ~ Using(w)' /\ ~ cached' /\ ~ session' /\ late' = late
    /\ key.status = "revoked" /\ ~ Restoring(w) => key'.status = "revoked" /\ ~ Restoring(w)'

\* Points from which nothing leads on without a look at the key.
Outside == {"idle", "acquire", "limit", "lookup", "fetch", "fail", "release", "revoke"}

LEMMA OutsideQuiet ==
    ASSUME NEW w \in Callers, job'[w].pc \in Outside, ~ cached, ~ session,
           UNCHANGED <<key, late, cached, session>>
    PROVE  Quiet(w)
  BY DEF Quiet, Outside, Using, Restoring

LEMMA StepOutside ==
    ASSUME TypeOK, NEW w \in Callers, NEW from, NEW to \in Outside, Step(w, from, to)
    PROVE  job'[w].pc \in Outside
<1>1. to \in Points /\ job \in [Callers -> Jobs]
  BY DEF Points, Outside, TypeOK
<1> QED
  BY <1>1, StepEffect

\* A copy of the row, taken or carried on, restores nothing.
LEMMA CopyQuiet ==
    ASSUME NEW w \in Callers, ~ cached, ~ session, UNCHANGED <<key, late, cached, session>>,
           job'[w].pc \in {"edit", "saveEdit", "saveLimits"},
           \/ job'[w].row.status = key.status
           \/ job[w].pc = "edit" /\ job'[w].row = job[w].row
    PROVE  Quiet(w)
  BY DEF Quiet, Using, Restoring

LEMMA QuietStep ==
    ASSUME TypeOK, HoldersServed, ShutOut, NEW w \in Callers,
           AcquireConnection(w) \/ Release(w) \/ Others(w)
    PROVE  Quiet(w)
<1> USE DEF Outside
<1>0. /\ job \in [Callers -> Jobs] /\ calls \in 0..MaxCalls /\ key \in Rows /\ job[w] \in Jobs
      /\ ~ cached /\ ~ session /\ ~ Using(w)
      /\ ~ (key.status = "active" /\ ~ late)
  BY DEF TypeOK, ShutOut
<1>1. ASSUME SafeMiddleware(w) PROVE Quiet(w)
  <2>1. UNCHANGED <<key, late, cached, session>>
    BY <1>1 DEF SafeMiddleware, Arrive, AcquireConnection, Release, WithinRate, AutoBlockIP,
                RecordRateViolation, keyVars
  <2>2. job'[w].pc \in Outside
    <3>1. ASSUME NEW r \in Requests, Arrive(w, r) PROVE job'[w].pc = "acquire"
      <4> DEFINE j == [Idle EXCEPT !.pc = "acquire", !.request = r]
      <4>1. j \in Jobs /\ j.pc = "acquire"
        BY NewRequest DEF Points
      <4>2. Start(w, j)
        BY <3>1 DEF Arrive
      <4> HIDE DEF j
      <4> QED
        BY <1>0, <4>1, <4>2, StartEffect
    <3>2. CASE AcquireConnection(w)
      BY <3>2, AcquireMoves
    <3>3. CASE Release(w)
      BY <3>3, ReleaseMoves, IdleFields
    <3>4. CASE WithinRate(w) \/ AutoBlockIP(w) \/ RecordRateViolation(w)
      BY <3>4, StepOutside DEF WithinRate, AutoBlockIP, RecordRateViolation
    <3> QED
      BY <1>1, <3>1, <3>2, <3>3, <3>4 DEF SafeMiddleware
  <2> QED
    BY <1>0, <2>1, <2>2, OutsideQuiet
<1>2. CASE LookupCache(w) \/ Fetch(w) \/ RecordAuthFailure(w) \/ GetSession(w)
  <2>1. UNCHANGED <<key, late, cached, session>>
    BY <1>2 DEF LookupCache, Fetch, RecordAuthFailure, GetSession, keyVars
  <2>2. \E from \in Points, to \in {"fetch", "fail", "release"} : Step(w, from, to)
    BY <1>0, <1>2 DEF LookupCache, Fetch, RecordAuthFailure, GetSession, Points
  <2> QED
    BY <1>0, <2>1, <2>2, StepOutside, OutsideQuiet
<1>3. CASE \/ FetchCached(w) \/ StoreCache(w) \/ Admit(w) \/ Initialize(w)
           \/ CheckAccess(w) \/ StorePermissions(w) \/ Serve(w)
  BY <1>0, <1>3 DEF FetchCached, StoreCache, Admit, Initialize, CheckAccess, StorePermissions,
                    Serve, Step, Using
<1>4. CASE RevokeAPIKey(w)
  <2> DEFINE j == [Idle EXCEPT !.pc = "revoke", !.request = "admin"]
  <2>1. j \in Jobs /\ j.pc = "revoke"
    BY NewRequest DEF Points, Requests
  <2>2. Start(w, j) /\ UNCHANGED <<key, late, cached, session>>
    BY <1>4 DEF RevokeAPIKey
  <2> HIDE DEF j
  <2>3. job'[w].pc \in Outside
    BY <1>0, <2>1, <2>2, StartEffect
  <2> QED
    BY <1>0, <2>2, <2>3, OutsideQuiet
<1>5. CASE Revoke(w) \/ SaveEdit(w) \/ SaveLimits(w)
  <2>1. UNCHANGED <<late, cached, session>>
    BY <1>5 DEF Revoke, SaveEdit, SaveLimits
  <2>2. \E from \in Points : Step(w, from, "idle")
    BY <1>5 DEF Revoke, SaveEdit, SaveLimits, Points
  <2>3. job'[w].pc = "idle"
    BY <1>0, <2>2, StepEffect DEF Points
  <2>4. job[w].row.status \in {"active", "revoked"} /\ [key EXCEPT !.status = "revoked"].status = "revoked"
    BY <1>0, JobFields DEF Rows
  <2>5. \/ key' = key \/ key' = [key EXCEPT !.status = "revoked"]
        \/ key' = job[w].row /\ job[w].pc \in {"saveEdit", "saveLimits"}
    BY <1>5 DEF Revoke, SaveEdit, SaveLimits, Step
  <2>6. key.status = "revoked" /\ ~ Restoring(w) => key'.status = "revoked"
    BY <2>4, <2>5 DEF Restoring
  <2> QED
    BY <1>0, <2>1, <2>3, <2>6 DEF Quiet, Using, Restoring
<1>6. ASSUME NEW row \in Rows, row.status = key.status, NEW at \in {"edit", "saveLimits"},
             Start(w, [Idle EXCEPT !.pc = at, !.request = "admin", !.row = row]), UNCHANGED keyVars
      PROVE  Quiet(w)
  <2> DEFINE j == [Idle EXCEPT !.pc = at, !.request = "admin", !.row = row]
  <2>1. at \in Points
    BY DEF Points
  <2>2. j \in Jobs /\ j.pc = at /\ j.row = row
    BY <2>1, NewCopy
  <2>3. Start(w, j)
    BY <1>6
  <2> HIDE DEF j
  <2>4. job'[w].pc = at /\ job'[w].row.status = key.status
    BY <1>0, <1>6, <2>2, <2>3, StartEffect
  <2> QED
    BY <1>0, <1>6, <2>4, CopyQuiet DEF keyVars
<1>7. /\ key.status = key.status
      /\ \A g \in Grants : [key EXCEPT !.grants = g] \in Rows /\ [key EXCEPT !.grants = g].status = key.status
  BY <1>0 DEF Rows
<1>8. ASSUME NEW g \in Grants, ReadToEdit(w, g) PROVE Quiet(w)
  BY <1>6, <1>7, <1>8 DEF ReadToEdit
<1>9. CASE ReadToLimit(w)
  BY <1>0, <1>6, <1>9 DEF ReadToLimit
<1>10. CASE UpdateAPIKey(w)
  <2>1. Step(w, "edit", "saveEdit") /\ UNCHANGED <<key, late, cached, session>>
    BY <1>10 DEF UpdateAPIKey
  <2>2. job[w].pc = "edit" /\ job'[w].pc = "saveEdit" /\ job'[w].row = job[w].row
    BY <1>0, <2>1, StepEffect DEF Points
  <2> QED
    BY <1>0, <2>1, <2>2, CopyQuiet
<1> QED
  BY <1>1, <1>2, <1>3, <1>4, <1>5, <1>8, <1>9, <1>10
     DEF SafeMiddleware, Others, AuthMiddleware, HandleMCP, HandleProxy, AdminRoutes

LEMMA ShutStep == ASSUME TypeOK, HoldersServed, ShutOut, [Next]_vars PROVE ShutOut'
<1>1. CASE UNCHANGED vars
  BY <1>1 DEF ShutOut, Using, Restoring, vars
<1>2. ASSUME NEW w \in Callers, AcquireConnection(w) \/ Release(w) \/ Others(w) PROVE ShutOut'
  <2>1. Quiet(w)
    BY <1>2, QuietStep
  <2>2. \A v \in Callers : v # w => job'[v] = job[v]
    BY <1>2, AcquireMoves, ReleaseMoves, OthersKeep DEF Keeps, Moves
  <2>3. \A v \in Callers : ~ Using(v)'
    BY <2>1, <2>2 DEF Quiet, Using, ShutOut
  <2>4. \/ late'
        \/ key'.status = "revoked" /\ \A v \in Callers : ~ Restoring(v)'
    BY <2>1, <2>2 DEF Quiet, Restoring, ShutOut
  <2> QED
    BY <2>1, <2>3, <2>4 DEF ShutOut, Quiet
<1>3. CASE Crash
  <2>1. UNCHANGED <<key, late, cached>> /\ session' = FALSE /\ \A v \in Callers : job'[v] = Idle
    BY <1>3 DEF Crash
  <2> QED
    BY <2>1, IdleFields DEF ShutOut, Using, Restoring
<1>4. CASE Time /\ ~ Crash
  <2>1. UNCHANGED <<key, job>> /\ ~ cached' /\ ~ session' /\ (late => late')
    BY <1>4 DEF ShutOut, Time, PassExpiry, ExpireCache, EndSession, ExpireCount, Forget, Unblock, keyVars
  <2> QED
    BY <2>1 DEF ShutOut, Using, Restoring
<1> QED
  BY <1>1, <1>2, <1>3, <1>4, CallerSteps

\* For any number of callers, whatever fails and whenever the server crashes: a
\* key that was shut out lets nobody in again.
THEOREM ShutOutKept == Spec => ShutOutForGood
<1>1. ConnInv /\ [Next]_vars => (ShutOut => ShutOut')
  BY ShutStep DEF ConnInv
<1>2. ConnInv /\ [Next]_vars => [ShutOut => ShutOut']_vars
  BY <1>1
<1> QED
  BY InitConn, ConnStep, <1>2, PTL DEF Spec, ShutOutForGood

-----------------------------------------------------------------------------
(* Applications *)

\* What a job carries: the status it read, and the row it is about, which exists.
Doable(j, C, A) ==
    /\ j.op \in {"submit", "approve", "reject"} \cup StoreOps \cup RowOps => j.read = "pending"
    /\ j.op = "submit" => j.contact \in Contacts
    /\ j.op \in {"approve", "reject"} => C[j.slug] # None
    /\ j.op \in StoreOps \cup {"direct_create"} => j.email \in Emails
    /\ j.op = "direct_create" => j.read = "user_created"
    /\ j.op \in RowOps => j.id \in Ids
    /\ j.id \in Ids => A[j.id] # None /\ A[j.id].email = j.email /\ j.email \in Emails
AppJobsOK == \A h \in Handlers : jobs[h] # None => Doable(jobs[h], company, apps)

FewStranded == IsFiniteSet(StrandedCompanies) /\ IsFiniteSet(StrandedUsers) /\ StrandedByFaults

AppInv == AppTypeOK /\ AppJobsOK /\ FewStranded /\ SeatsBounded

\* A company, a user that was decided on and has no tenant, no account yet.
AwaitsTenant(s) == company[s] # None /\ company[s].status = "approved" /\ tenant[s] = "none"
AwaitsAccount(a) ==
    Exists(a) /\ apps[a].status \in {"approved", "accepted"} /\ users[apps[a].email] = None

LEMMA AppFacts ==
  ASSUME AppInv, NEW h \in Handlers
  PROVE  /\ jobs[h] \in Job \cup {None}
         /\ jobs[h] # None => jobs[h] \in Job /\ Doable(jobs[h], company, apps)
         /\ \A j : [jobs EXCEPT ![h] = j][h] = j
         /\ \A j, g \in Handlers : g # h => [jobs EXCEPT ![h] = j][g] = jobs[g]
BY DEF AppInv, AppTypeOK, AppJobsOK

\* Rows stay, with their e-mail: what the other jobs carry is still right.
LEMMA AppJobsKept ==
  ASSUME AppInv, NEW h \in Handlers, NEW j \in Job \cup {None}, jobs' = [jobs EXCEPT ![h] = j],
         j # None => Doable(j, company', apps'),
         \A s \in Slugs : company[s] # None => company'[s] # None,
         \A a \in Ids : apps[a] # None => apps'[a] # None /\ apps'[a].email = apps[a].email
  PROVE  jobs' \in [Handlers -> Job \cup {None}] /\ AppJobsOK'
<1>1. jobs' \in [Handlers -> Job \cup {None}]
  BY DEF AppInv, AppTypeOK
<1>2. ASSUME NEW g \in Handlers, jobs'[g] # None
      PROVE  Doable(jobs'[g], company', apps')
  <2>1. CASE g = h
    BY <1>2, <2>1, AppFacts
  <2>2. CASE g # h
    <3>1. jobs'[g] = jobs[g] /\ jobs[g] \in Job /\ Doable(jobs[g], company, apps)
      BY <1>2, <2>2, AppFacts
    <3> QED
      BY <3>1 DEF Doable, Job
  <2> QED
    BY <2>1, <2>2
<1> QED
  BY <1>1, <1>2 DEF AppJobsOK

LEMMA NoMoreStranded ==
  ASSUME AppInv, StrandedCompanies' \subseteq StrandedCompanies,
         StrandedUsers' \subseteq StrandedUsers, faults' = faults
  PROVE  FewStranded'
<1>1. IsFiniteSet(StrandedCompanies) /\ IsFiniteSet(StrandedUsers) /\ StrandedByFaults
  BY DEF AppInv, FewStranded
<1>2. /\ IsFiniteSet(StrandedCompanies') /\ IsFiniteSet(StrandedUsers')
      /\ Cardinality(StrandedCompanies') <= Cardinality(StrandedCompanies)
      /\ Cardinality(StrandedUsers') <= Cardinality(StrandedUsers)
  BY <1>1, FS_Subset
<1>3. /\ Cardinality(StrandedCompanies) \in Nat /\ Cardinality(StrandedUsers) \in Nat
      /\ Cardinality(StrandedCompanies') \in Nat /\ Cardinality(StrandedUsers') \in Nat
      /\ faults \in Nat
  BY <1>1, <1>2, FS_CardinalityType DEF AppInv, AppTypeOK
<1>4. StrandedByFaults'
  <2> DEFINE c == Cardinality(StrandedCompanies)
             u == Cardinality(StrandedUsers)
             cc == Cardinality(StrandedCompanies')
             uu == Cardinality(StrandedUsers')
  <2>1. c + u <= faults
    BY <1>1 DEF StrandedByFaults
  <2>2. cc + uu <= faults'
    <3>1. cc <= c /\ uu <= u /\ c \in Nat /\ u \in Nat /\ cc \in Nat /\ uu \in Nat
      BY <1>2, <1>3
    <3> HIDE DEF c, u, cc, uu
    <3> QED
      BY <1>3, <2>1, <3>1
  <2> QED
    BY <2>2 DEF StrandedByFaults
<1> QED
  BY <1>2, <1>4 DEF FewStranded

LEMMA OneMore ==
  ASSUME NEW S, NEW T, NEW x, IsFiniteSet(S), T \subseteq S \cup {x}
  PROVE  IsFiniteSet(T) /\ Cardinality(T) \in Nat /\ Cardinality(S) \in Nat
         /\ Cardinality(T) <= Cardinality(S) + 1
<1>1. IsFiniteSet(S \cup {x}) /\ Cardinality(S \cup {x}) <= Cardinality(S) + 1
  <2>1. /\ IsFiniteSet(S \cup {x})
        /\ Cardinality(S \cup {x}) = IF x \in S THEN Cardinality(S) ELSE Cardinality(S) + 1
    BY FS_AddElement, Zenon
  <2>2. Cardinality(S) \in Nat
    BY FS_CardinalityType
  <2> QED
    BY <2>1, <2>2
<1>2. IsFiniteSet(T) /\ Cardinality(T) <= Cardinality(S \cup {x})
  BY <1>1, FS_Subset
<1> QED
  BY <1>1, <1>2, FS_CardinalityType

LEMMA OneMoreStranded ==
  ASSUME AppInv, NEW x, faults' = faults + 1,
         \/ /\ StrandedCompanies' \subseteq StrandedCompanies \cup {x}
            /\ StrandedUsers' \subseteq StrandedUsers
         \/ /\ StrandedCompanies' \subseteq StrandedCompanies
            /\ StrandedUsers' \subseteq StrandedUsers \cup {x}
  PROVE  FewStranded'
<1>1. IsFiniteSet(StrandedCompanies) /\ IsFiniteSet(StrandedUsers) /\ StrandedByFaults
      /\ faults \in Nat
  BY DEF AppInv, FewStranded, AppTypeOK
<1> DEFINE c == Cardinality(StrandedCompanies)
           u == Cardinality(StrandedUsers)
           cc == Cardinality(StrandedCompanies')
           uu == Cardinality(StrandedUsers')
<1>2. c + u <= faults /\ c \in Nat /\ u \in Nat
  BY <1>1, FS_CardinalityType DEF StrandedByFaults
<1>3. IsFiniteSet(StrandedCompanies') /\ IsFiniteSet(StrandedUsers') /\ cc \in Nat /\ uu \in Nat
      /\ ((cc <= c + 1 /\ uu <= u) \/ (cc <= c /\ uu <= u + 1))
  <2>1. CASE /\ StrandedCompanies' \subseteq StrandedCompanies \cup {x}
             /\ StrandedUsers' \subseteq StrandedUsers
    BY <1>1, <2>1, OneMore, FS_Subset, FS_CardinalityType
  <2>2. CASE /\ StrandedCompanies' \subseteq StrandedCompanies
             /\ StrandedUsers' \subseteq StrandedUsers \cup {x}
    BY <1>1, <2>2, OneMore, FS_Subset, FS_CardinalityType
  <2> QED
    BY <2>1, <2>2
<1>4. cc + uu <= faults'
  <2> HIDE DEF c, u, cc, uu
  <2> QED
    BY <1>1, <1>2, <1>3
<1> QED
  BY <1>3, <1>4 DEF FewStranded, StrandedByFaults

\* A job that was not about to create anything gives way to job j.
LEMMA StrandedKept ==
  ASSUME AppInv, NEW h \in Handlers, NEW j, jobs' = [jobs EXCEPT ![h] = j],
         jobs[h] = None \/ jobs[h].at # "create" \/ jobs[h].op \notin JoinOps \cup {"approve"},
         \A s \in Slugs : AwaitsTenant(s)' =>
            AwaitsTenant(s) \/ (j # None /\ j.op = "approve" /\ j.at = "create" /\ j.slug = s),
         \A a \in Ids : AwaitsAccount(a)' =>
            AwaitsAccount(a) \/ (j # None /\ j.op \in JoinOps /\ j.at = "create" /\ j.id = a)
  PROVE  StrandedCompanies' \subseteq StrandedCompanies /\ StrandedUsers' \subseteq StrandedUsers
<1>1. jobs'[h] = j /\ \A g \in Handlers : g # h => jobs'[g] = jobs[g]
  BY AppFacts
<1>2. ASSUME NEW s \in StrandedCompanies' PROVE s \in StrandedCompanies
  <2>1. s \in Slugs /\ AwaitsTenant(s)'
    BY DEF StrandedCompanies, AwaitsTenant
  <2>2. \A g \in Handlers : ~(At(g, {"approve"}, "create")' /\ jobs'[g].slug = s)
    BY DEF StrandedCompanies
  <2>3. AwaitsTenant(s)
    BY <1>1, <2>1, <2>2 DEF At
  <2>4. \A g \in Handlers : ~(At(g, {"approve"}, "create") /\ jobs[g].slug = s)
    BY <1>1, <2>2 DEF At
  <2> QED
    BY <2>1, <2>3, <2>4 DEF StrandedCompanies, AwaitsTenant
<1>3. ASSUME NEW a \in StrandedUsers' PROVE a \in StrandedUsers
  <2>1. a \in Ids /\ AwaitsAccount(a)'
    BY DEF StrandedUsers, AwaitsAccount
  <2>2. \A g \in Handlers : ~(At(g, JoinOps, "create")' /\ jobs'[g].id = a)
    BY DEF StrandedUsers, JoinOps
  <2>3. AwaitsAccount(a)
    BY <1>1, <2>1, <2>2 DEF At
  <2>4. \A g \in Handlers : ~(At(g, JoinOps, "create") /\ jobs[g].id = a)
    BY <1>1, <2>2 DEF At
  <2> QED
    BY <2>1, <2>3, <2>4 DEF StrandedUsers, AwaitsAccount
<1> QED
  BY <1>2, <1>3

LEMMA SeatsKept ==
  ASSUME AppInv,
         \A t \in Slugs : DirectMembers(t)' \subseteq DirectMembers(t)
                          /\ DirectUnderWay(t)' \subseteq DirectUnderWay(t)
  PROVE  SeatsBounded'
<1> SUFFICES ASSUME NEW t \in Slugs
             PROVE  Cardinality(DirectMembers(t)') + Cardinality(DirectUnderWay(t)')
                      <= MaxUsers + Cardinality(Handlers) - 1
  BY DEF SeatsBounded
<1>1. IsFiniteSet(DirectMembers(t)) /\ IsFiniteSet(DirectUnderWay(t))
  <2>1. DirectMembers(t) \subseteq Emails /\ DirectUnderWay(t) \subseteq Handlers
    BY DEF DirectMembers, Members, DirectUnderWay
  <2> QED
    BY <2>1, FS_Subset, BoundsAssumption
<1>2. /\ Cardinality(DirectMembers(t)') <= Cardinality(DirectMembers(t))
      /\ Cardinality(DirectUnderWay(t)') <= Cardinality(DirectUnderWay(t))
      /\ IsFiniteSet(DirectMembers(t)') /\ IsFiniteSet(DirectUnderWay(t)')
  BY <1>1, FS_Subset
<1>3. Cardinality(DirectMembers(t)) + Cardinality(DirectUnderWay(t))
        <= MaxUsers + Cardinality(Handlers) - 1
  BY DEF AppInv, SeatsBounded
<1> QED
  BY <1>1, <1>2, <1>3, FS_CardinalityType, BoundsAssumption

\* A job that is not of a direct creation begins.
LEMMA AppBegins ==
  ASSUME AppInv, NEW h \in Handlers, NEW j \in Job, StartJob(h, j), Doable(j, company, apps),
         j.op # "direct_create", j.at = "write",
         UNCHANGED <<company, tenant, apps, users, faults>>
  PROVE  AppInv'
<1>1. jobs[h] = None /\ jobs' = [jobs EXCEPT ![h] = j]
  BY DEF StartJob
<1>2. AppTypeOK' /\ AppJobsOK'
  BY <1>1, AppJobsKept DEF AppInv, AppTypeOK
<1>3. FewStranded'
  <2>1. /\ \A s \in Slugs : AwaitsTenant(s)' => AwaitsTenant(s)
        /\ \A a \in Ids : AwaitsAccount(a)' => AwaitsAccount(a)
    BY DEF AwaitsTenant, AwaitsAccount, Exists
  <2> QED
    BY <1>1, <2>1, StrandedKept, NoMoreStranded
<1>4. SeatsBounded'
  BY <1>1, AppFacts, SeatsKept DEF DirectMembers, Members, DirectUnderWay
<1> QED
  BY <1>2, <1>3, <1>4 DEF AppInv

LEMMA BeginSteps ==
  ASSUME AppInv, NEW h \in Handlers,
         \/ \E s \in Slugs, c \in Contacts : Submit(h, s, c)
         \/ \E s \in Slugs : Approve(h, s) \/ Reject(h, s)
         \/ \E t \in Slugs, e \in Emails : SubmitRequest(h, t, e) \/ SendInvitation(h, t, e)
         \/ \E a \in Ids : \/ AcceptInvitation(h, a) \/ ApproveRequest(h, a)
                           \/ RejectRequest(h, a) \/ CancelInvitation(h, a)
  PROVE  AppInv'
<1>1. ASSUME NEW s \in Slugs, NEW c \in Contacts, Submit(h, s, c) PROVE AppInv'
  <2> DEFINE j == CompanyJob("submit", s, c, "pending")
  <2>1. j \in Job /\ j.op = "submit" /\ j.read = "pending" /\ j.contact = c /\ j.id = None
        /\ j.at = "write"
    BY DEF CompanyJob, Job, Operation, CompanyStatus
  <2>2. StartJob(h, j) /\ UNCHANGED <<company, tenant, apps, users, faults>>
    BY <1>1 DEF Submit
  <2> HIDE DEF j
  <2>3. Doable(j, company, apps)
    BY <2>1, BoundsAssumption DEF Doable, StoreOps, RowOps
  <2> QED
    BY <2>1, <2>2, <2>3, AppBegins
<1>2. ASSUME NEW s \in Slugs, Approve(h, s) \/ Reject(h, s) PROVE AppInv'
  <2>1. PICK o \in {"approve", "reject"} : StartJob(h, CompanyJob(o, s, None, "pending"))
    BY <1>2 DEF Approve, Reject, Undecided
  <2> DEFINE j == CompanyJob(o, s, None, "pending")
  <2>2. j \in Job /\ j.op = o /\ j.read = "pending" /\ j.slug = s /\ j.id = None /\ j.at = "write"
    BY DEF CompanyJob, Job, Operation, CompanyStatus
  <2>3. StartJob(h, j) /\ company[s] # None /\ UNCHANGED <<company, tenant, apps, users, faults>>
    BY <1>2, <2>1 DEF Approve, Reject, Undecided
  <2> HIDE DEF j
  <2>4. Doable(j, company, apps)
    BY <2>2, <2>3, BoundsAssumption DEF Doable, StoreOps, RowOps
  <2> QED
    BY <2>2, <2>3, <2>4, AppBegins
<1>3. ASSUME NEW t \in Slugs, NEW e \in Emails, SubmitRequest(h, t, e) \/ SendInvitation(h, t, e)
      PROVE  AppInv'
  <2>1. PICK o \in StoreOps : StartJob(h, UserJob(o, t, e, None, "pending"))
    BY <1>3 DEF SubmitRequest, SendInvitation, StoreOps
  <2> DEFINE j == UserJob(o, t, e, None, "pending")
  <2>2. j \in Job /\ j.op = o /\ j.read = "pending" /\ j.email = e /\ j.id = None /\ j.at = "write"
    BY DEF UserJob, Job, Operation, AppStatus, StoreOps
  <2>3. StartJob(h, j) /\ UNCHANGED <<company, tenant, apps, users, faults>>
    BY <1>3, <2>1 DEF SubmitRequest, SendInvitation
  <2> HIDE DEF j
  <2>4. Doable(j, company, apps)
    BY <2>2, BoundsAssumption DEF Doable, StoreOps, RowOps
  <2> QED
    BY <2>2, <2>3, <2>4, AppBegins DEF StoreOps
<1>4. ASSUME NEW a \in Ids,
             \/ AcceptInvitation(h, a) \/ ApproveRequest(h, a)
             \/ RejectRequest(h, a) \/ CancelInvitation(h, a)
      PROVE  AppInv'
  <2>1. apps[a] # None /\ apps[a].status = "pending" /\ UNCHANGED <<company, tenant, apps, users, faults>>
    BY <1>4 DEF AcceptInvitation, ApproveRequest, RejectRequest, CancelInvitation, Exists
  <2>2. PICK o \in RowOps : Decide(h, o, a)
    BY <1>4 DEF AcceptInvitation, ApproveRequest, RejectRequest, CancelInvitation, RowOps
  <2>3. apps[a] \in UserApplication
    BY <2>1 DEF AppInv, AppTypeOK
  <2> DEFINE j == UserJob(o, apps[a].tenant, apps[a].email, a, "pending")
  <2>4. /\ j \in Job /\ j.op = o /\ j.read = "pending" /\ j.email = apps[a].email /\ j.id = a
        /\ j.at = "write" /\ j.email \in Emails
    BY <2>3 DEF UserJob, Job, Operation, AppStatus, RowOps, UserApplication
  <2>5. StartJob(h, j)
    BY <2>1, <2>2 DEF Decide
  <2> HIDE DEF j
  <2>6. Doable(j, company, apps)
    BY <2>1, <2>4 DEF Doable, StoreOps, RowOps
  <2> QED
    BY <2>1, <2>4, <2>5, <2>6, AppBegins DEF RowOps
<1> QED
  BY <1>1, <1>2, <1>3, <1>4

\* The users were fewer than the seats when they were counted; whatever other direct
\* creations are under way, each is a handler's.
LEMMA CreateDirectStep ==
  ASSUME AppInv, NEW h \in Handlers, NEW t \in Slugs, NEW e \in Emails, CreateDirect(h, t, e)
  PROVE  AppInv'
<1> DEFINE j == UserJob("direct_create", t, e, None, "user_created")
<1>1. /\ j \in Job /\ j.op = "direct_create" /\ j.read = "user_created" /\ j.email = e
      /\ j.id = None /\ j.at = "write" /\ j.slug = t
  BY DEF UserJob, Job, Operation, AppStatus
<1>2. /\ jobs[h] = None /\ jobs' = [jobs EXCEPT ![h] = j]
      /\ UNCHANGED <<company, tenant, apps, users, faults>>
      /\ Cardinality(Members(t)) < MaxUsers
  BY DEF CreateDirect, StartJob
<1> HIDE DEF j
<1>3. Doable(j, company, apps)
  BY <1>1, BoundsAssumption DEF Doable, StoreOps, RowOps
<1>4. AppTypeOK' /\ AppJobsOK'
  BY <1>1, <1>2, <1>3, AppJobsKept DEF AppInv, AppTypeOK
<1>5. FewStranded'
  <2>1. /\ \A s \in Slugs : AwaitsTenant(s)' => AwaitsTenant(s)
        /\ \A a \in Ids : AwaitsAccount(a)' => AwaitsAccount(a)
    BY <1>2 DEF AwaitsTenant, AwaitsAccount, Exists
  <2> QED
    BY <1>2, <2>1, StrandedKept, NoMoreStranded
<1>6. SeatsBounded'
  <2> SUFFICES ASSUME NEW s \in Slugs
               PROVE  Cardinality(DirectMembers(s)') + Cardinality(DirectUnderWay(s)')
                        <= MaxUsers + Cardinality(Handlers) - 1
    BY DEF SeatsBounded
  <2>1. DirectMembers(s)' = DirectMembers(s)
    BY <1>2 DEF DirectMembers, Members
  <2>2. CASE s = t
    <3>1. DirectMembers(t) \subseteq Members(t) /\ Members(t) \subseteq Emails
          /\ DirectUnderWay(t)' \subseteq Handlers
      BY DEF DirectMembers, Members, DirectUnderWay
    <3>2. IsFiniteSet(Members(t)) /\ IsFiniteSet(Handlers)
      BY <3>1, FS_Subset, BoundsAssumption
    <3>3. /\ IsFiniteSet(DirectMembers(t)) /\ Cardinality(DirectMembers(t)) <= Cardinality(Members(t))
          /\ IsFiniteSet(DirectUnderWay(t)')
          /\ Cardinality(DirectUnderWay(t)') <= Cardinality(Handlers)
      BY <3>1, <3>2, FS_Subset
    <3> QED
      BY <1>2, <2>1, <2>2, <3>2, <3>3, FS_CardinalityType, BoundsAssumption
  <2>3. CASE s # t
    <3>1. DirectUnderWay(s)' = DirectUnderWay(s)
      BY <1>1, <1>2, <2>3, AppFacts DEF DirectUnderWay
    <3> QED
      BY <2>1, <3>1 DEF AppInv, SeatsBounded
  <2> QED
    BY <2>2, <2>3
<1> QED
  BY <1>4, <1>5, <1>6 DEF AppInv

-----------------------------------------------------------------------------
(* The statements of a decision *)

\* Job j of handler h ends or goes on, and touches neither direct members nor seats.
LEMMA AppGoes ==
  ASSUME AppInv, NEW h \in Handlers, jobs[h] # None, NEW j \in Job \cup {None},
         jobs' = [jobs EXCEPT ![h] = j],
         j # None => /\ Doable(j, company', apps') /\ j.op = jobs[h].op /\ j.slug = jobs[h].slug
                     /\ jobs[h].at # "mark",
         company' \in [Slugs -> CompanyApplication \cup {None}],
         tenant' \in [Slugs -> TenantStatus],
         apps' \in [Ids -> UserApplication \cup {None}],
         \A s \in Slugs : company[s] # None => company'[s] # None,
         \A a \in Ids : apps[a] # None => apps'[a] # None /\ apps'[a].email = apps[a].email,
         UNCHANGED <<users, faults>>,
         StrandedCompanies' \subseteq StrandedCompanies, StrandedUsers' \subseteq StrandedUsers
  PROVE  AppInv'
<1>1. AppTypeOK' /\ AppJobsOK'
  BY AppJobsKept DEF AppInv, AppTypeOK
<1>2. FewStranded'
  BY NoMoreStranded
<1>3. SeatsBounded'
  <2> SUFFICES ASSUME NEW t \in Slugs
               PROVE  DirectMembers(t)' \subseteq DirectMembers(t)
                      /\ DirectUnderWay(t)' \subseteq DirectUnderWay(t)
    BY SeatsKept
  <2>1. DirectMembers(t)' = DirectMembers(t)
    BY DEF DirectMembers, Members
  <2>2. DirectUnderWay(t)' \subseteq DirectUnderWay(t)
    BY AppFacts DEF DirectUnderWay
  <2> QED
    BY <2>1, <2>2
<1> QED
  BY <1>1, <1>2, <1>3 DEF AppInv

\* The job at another statement.
LEMMA Elsewhere ==
  ASSUME NEW j \in Job, NEW C, NEW A, Doable(j, C, A), NEW to \in {"write", "create", "mark"}
  PROVE  LET k == [j EXCEPT !.at = to] IN
         /\ k \in Job /\ Doable(k, C, A) /\ k.at = to /\ k.op = j.op /\ k.slug = j.slug
         /\ k.id = j.id /\ k.email = j.email /\ k # None
<1> DEFINE k == [j EXCEPT !.at = to]
<1>1. /\ k \in Job /\ k.at = to /\ k.op = j.op /\ k.slug = j.slug /\ k.id = j.id
      /\ k.email = j.email /\ k.contact = j.contact /\ k.read = j.read
  BY DEF Job
<1> HIDE DEF k
<1>2. Doable(k, C, A) /\ k # None
  BY <1>1, NoneAssumption DEF Doable
<1> QED
  BY <1>1, <1>2 DEF k

LEMMA CompanyStep ==
  ASSUME AppInv, NEW h \in Handlers,
         \/ StoreCompany(h) \/ WriteDecision(h) \/ CreateTenant(h) \/ MarkTenantCreated(h)
  PROVE  AppInv'
<1>1. /\ jobs[h] # None /\ jobs[h] \in Job /\ Doable(jobs[h], company, apps)
      /\ UNCHANGED <<apps, users, faults>>
  BY AppFacts DEF StoreCompany, WriteDecision, CreateTenant, MarkTenantCreated, At
<1> DEFINE s == jobs[h].slug
<1>2. s \in Slugs /\ company \in [Slugs -> CompanyApplication \cup {None}]
      /\ tenant \in [Slugs -> TenantStatus] /\ apps \in [Ids -> UserApplication \cup {None}]
  BY <1>1 DEF Job, AppInv, AppTypeOK
<1>3. \A a \in Ids : AwaitsAccount(a)' => AwaitsAccount(a)
  BY <1>1 DEF AwaitsAccount, Exists
<1>4. CASE StoreCompany(h)
  <2>1. /\ jobs[h].op = "submit" /\ jobs[h].at = "write" /\ jobs[h].contact \in Contacts
        /\ jobs' = [jobs EXCEPT ![h] = None] /\ tenant' = tenant
    BY <1>1, <1>4 DEF StoreCompany, At, Finish, Doable
  <2> DEFINE r == [status |-> "pending", contact |-> jobs[h].contact]
  <2>2. r \in CompanyApplication /\ r # None /\ r.status = "pending"
    BY <2>1, NoneAssumption DEF CompanyApplication, CompanyStatus
  <2>3. company' = IF company[s] = None THEN [company EXCEPT ![s] = r] ELSE company
    BY <1>4 DEF StoreCompany
  <2> HIDE DEF r
  <2>4. company' \in [Slugs -> CompanyApplication \cup {None}]
        /\ \A t \in Slugs : /\ company[t] # None => company'[t] # None
                            /\ company'[t] = company[t] \/ company'[t].status = "pending"
    BY <1>2, <2>2, <2>3
  <2>5. \A t \in Slugs : AwaitsTenant(t)' => AwaitsTenant(t)
    BY <2>1, <2>4 DEF AwaitsTenant
  <2>6. StrandedCompanies' \subseteq StrandedCompanies /\ StrandedUsers' \subseteq StrandedUsers
    BY <1>3, <2>1, <2>5, StrandedKept
  <2> QED
    BY <1>1, <1>2, <2>1, <2>4, <2>6, AppGoes
<1>5. CASE WriteDecision(h)
  <2>1. /\ jobs[h].op \in {"approve", "reject"} /\ jobs[h].at = "write" /\ company[s] # None
        /\ tenant' = tenant
    BY <1>1, <1>5 DEF WriteDecision, At, Doable
  <2> DEFINE r == [company[s] EXCEPT !.status = Decision[jobs[h].op]]
  <2>2. company[s] \in CompanyApplication
    BY <1>2, <2>1
  <2>3. /\ r \in CompanyApplication /\ r # None
        /\ r.status = "approved" => jobs[h].op = "approve"
    BY <2>1, <2>2, NoneAssumption DEF CompanyApplication, CompanyStatus, Decision
  <2>4. company' = [company EXCEPT ![s] = r]
    BY <1>5 DEF WriteDecision
  <2> HIDE DEF r
  <2>5. company' \in [Slugs -> CompanyApplication \cup {None}]
        /\ \A t \in Slugs : company[t] # None => company'[t] # None
    BY <1>2, <2>3, <2>4
  <2>6. \A t \in Slugs : AwaitsTenant(t)' => AwaitsTenant(t) \/ (jobs[h].op = "approve" /\ t = s)
    BY <1>2, <2>1, <2>3, <2>4 DEF AwaitsTenant
  <2>7. CASE jobs[h].op = "approve"
    <3> DEFINE k == [jobs[h] EXCEPT !.at = "create"]
    <3>1. jobs' = [jobs EXCEPT ![h] = k]
      BY <1>5, <2>7 DEF WriteDecision, Advance
    <3>2. /\ k \in Job /\ k.at = "create" /\ k.op = "approve" /\ k.slug = s /\ k # None
          /\ Doable(k, company, apps)
      BY <1>1, <2>7, Elsewhere
    <3> HIDE DEF k
    <3>3. Doable(k, company', apps')
      BY <1>1, <3>2, <1>2, <2>5 DEF Doable, StoreOps, RowOps
    <3>4. StrandedCompanies' \subseteq StrandedCompanies /\ StrandedUsers' \subseteq StrandedUsers
      BY <1>3, <2>1, <2>6, <3>1, <3>2, StrandedKept
    <3> QED
      BY <1>1, <1>2, <2>1, <2>5, <2>7, <3>1, <3>2, <3>3, <3>4, AppGoes
  <2>8. CASE jobs[h].op = "reject"
    <3>1. jobs' = [jobs EXCEPT ![h] = None]
      BY <1>5, <2>8 DEF WriteDecision, Finish
    <3>2. StrandedCompanies' \subseteq StrandedCompanies /\ StrandedUsers' \subseteq StrandedUsers
      BY <1>3, <2>1, <2>6, <2>8, <3>1, StrandedKept
    <3> QED
      BY <1>1, <1>2, <2>1, <2>5, <3>1, <3>2, AppGoes
  <2> QED
    BY <2>1, <2>7, <2>8
<1>6. CASE CreateTenant(h)
  <2>1. jobs[h].op = "approve" /\ jobs[h].at = "create" /\ company' = company
    BY <1>6 DEF CreateTenant, At
  <2>2. /\ tenant' \in [Slugs -> TenantStatus] /\ tenant'[s] # "none"
        /\ \A t \in Slugs : tenant'[t] = "none" => tenant[t] = "none"
    BY <1>2, <1>6 DEF CreateTenant, TenantStatus
  <2> DEFINE k == [jobs[h] EXCEPT !.at = "mark"]
  <2>3. /\ k \in Job /\ k.op = "approve" /\ k.slug = s /\ k # None
        /\ Doable(k, company, apps) /\ k.at = "mark"
    BY <1>1, <2>1, Elsewhere
  <2>4. jobs' = [jobs EXCEPT ![h] = k] \/ jobs' = [jobs EXCEPT ![h] = None]
    BY <1>6 DEF CreateTenant, Advance, Finish
  <2> HIDE DEF k
  <2>5. StrandedCompanies' \subseteq StrandedCompanies
    <3> SUFFICES ASSUME NEW t \in StrandedCompanies' PROVE t \in StrandedCompanies
      OBVIOUS
    <3>1. t \in Slugs /\ company[t] # None /\ company[t].status = "approved" /\ tenant[t] = "none"
          /\ t # s
      BY <2>1, <2>2 DEF StrandedCompanies
    <3>2. \A g \in Handlers : ~(At(g, {"approve"}, "create")' /\ jobs'[g].slug = t)
      BY DEF StrandedCompanies
    <3>3. \A g \in Handlers : ~(At(g, {"approve"}, "create") /\ jobs[g].slug = t)
      BY <2>4, <3>1, <3>2, AppFacts DEF At
    <3> QED
      BY <3>1, <3>3 DEF StrandedCompanies
  <2>6. StrandedUsers' \subseteq StrandedUsers
    <3> SUFFICES ASSUME NEW a \in StrandedUsers' PROVE a \in StrandedUsers
      OBVIOUS
    <3>1. a \in Ids /\ AwaitsAccount(a)
      BY <1>3 DEF StrandedUsers, AwaitsAccount
    <3>2. \A g \in Handlers : ~(At(g, JoinOps, "create")' /\ jobs'[g].id = a)
      BY DEF StrandedUsers, JoinOps
    <3>3. \A g \in Handlers : ~(At(g, JoinOps, "create") /\ jobs[g].id = a)
      BY <2>1, <2>4, <3>2, AppFacts DEF At, JoinOps
    <3> QED
      BY <3>1, <3>3 DEF StrandedUsers, AwaitsAccount
  <2> QED
    BY <1>1, <1>2, <2>1, <2>2, <2>3, <2>4, <2>5, <2>6, AppGoes
<1>7. CASE MarkTenantCreated(h)
  <2>1. /\ jobs[h].op = "approve" /\ jobs[h].at = "mark" /\ company[s] # None
        /\ jobs' = [jobs EXCEPT ![h] = None] /\ tenant' = tenant
    BY <1>1, <1>7 DEF MarkTenantCreated, At, Finish, Doable
  <2> DEFINE r == [company[s] EXCEPT !.status = "tenant_created"]
  <2>2. company[s] \in CompanyApplication
    BY <1>2, <2>1
  <2>3. r \in CompanyApplication /\ r # None /\ r.status = "tenant_created"
    BY <2>2, NoneAssumption DEF CompanyApplication, CompanyStatus
  <2>4. company' = [company EXCEPT ![s] = r]
    BY <1>7 DEF MarkTenantCreated
  <2> HIDE DEF r
  <2>5. company' \in [Slugs -> CompanyApplication \cup {None}]
        /\ \A t \in Slugs : company[t] # None => company'[t] # None
    BY <1>2, <2>3, <2>4
  <2>6. \A t \in Slugs : AwaitsTenant(t)' => AwaitsTenant(t)
    BY <1>2, <2>1, <2>3, <2>4 DEF AwaitsTenant
  <2>7. StrandedCompanies' \subseteq StrandedCompanies /\ StrandedUsers' \subseteq StrandedUsers
    BY <1>3, <2>1, <2>6, StrandedKept
  <2> QED
    BY <1>1, <1>2, <2>1, <2>5, <2>7, AppGoes
<1> QED
  BY <1>4, <1>5, <1>6, <1>7

-----------------------------------------------------------------------------
(* The statements about users *)

LEMMA StatusSet ==
  ASSUME AppInv, NEW a \in Ids \cup {None}, NEW to \in AppStatus, SetStatus(a, to)
  PROVE  /\ apps' \in [Ids -> UserApplication \cup {None}]
         /\ \A b \in Ids : apps[b] # None => apps'[b] # None /\ apps'[b].email = apps[b].email
         /\ \A b \in Ids : apps'[b] = apps[b] \/ (b = a /\ Exists(b) /\ apps'[b].status = to)
<1>1. apps \in [Ids -> UserApplication \cup {None}]
  BY DEF AppInv, AppTypeOK
<1>2. CASE a # None /\ Exists(a)
  <2> DEFINE r == [apps[a] EXCEPT !.status = to]
  <2>1. a \in Ids /\ apps[a] # None /\ apps[a] \in UserApplication
    BY <1>1, <1>2 DEF Exists
  <2>2. r \in UserApplication /\ r.status = to /\ r.email = apps[a].email /\ r # None
    BY <2>1, NoneAssumption DEF UserApplication
  <2>3. apps' = [apps EXCEPT ![a] = r]
    BY <1>2 DEF SetStatus
  <2> HIDE DEF r
  <2> QED
    BY <1>1, <1>2, <2>1, <2>2, <2>3
<1>3. CASE ~(a # None /\ Exists(a))
  BY <1>1, <1>3 DEF SetStatus
<1> QED
  BY <1>2, <1>3

\* Row is what the job asks for: never decided on, but by a direct creation.
LEMMA RowStored ==
  ASSUME AppInv, NEW h \in Handlers, jobs[h] # None, jobs[h].op \in StoreOps \cup {"direct_create"},
         NEW a \in Ids, apps[a] = None, apps' = [apps EXCEPT ![a] = Row(jobs[h])]
  PROVE  /\ apps' \in [Ids -> UserApplication \cup {None}]
         /\ apps'[a] # None /\ apps'[a].email = jobs[h].email
         /\ apps'[a].status \notin {"approved", "accepted"}
         /\ \A b \in Ids : b # a => apps'[b] = apps[b]
<1>1. /\ jobs[h] \in Job /\ jobs[h].email \in Emails /\ jobs[h].read \in {"pending", "user_created"}
  BY AppFacts DEF Doable
<1>2. Row(jobs[h]) \in UserApplication /\ Row(jobs[h]).email = jobs[h].email
      /\ Row(jobs[h]).status = jobs[h].read
  BY <1>1 DEF Row, UserApplication, Job, Kind, StoreOps, AppStatus
<1>3. apps \in [Ids -> UserApplication \cup {None}]
  BY DEF AppInv, AppTypeOK
<1> QED
  BY <1>1, <1>2, <1>3, NoneAssumption

LEMMA StoreApplicationStep ==
  ASSUME AppInv, NEW h \in Handlers, StoreApplication(h)
  PROVE  AppInv'
<1>1. /\ jobs[h] # None /\ jobs[h].op \in StoreOps /\ jobs[h].at = "write"
      /\ jobs' = [jobs EXCEPT ![h] = None]
      /\ UNCHANGED <<company, tenant, users, faults>>
  BY DEF StoreApplication, At, Finish
<1>2. /\ apps' \in [Ids -> UserApplication \cup {None}]
      /\ \A b \in Ids : apps[b] # None => apps'[b] # None /\ apps'[b].email = apps[b].email
      /\ \A b \in Ids : apps'[b] = apps[b] \/ apps'[b].status \notin {"approved", "accepted"}
  <2>1. CASE UNCHANGED apps
    BY <2>1 DEF AppInv, AppTypeOK
  <2>2. ASSUME NEW a \in Ids, apps[a] = None, apps' = [apps EXCEPT ![a] = Row(jobs[h])]
        PROVE  /\ apps' \in [Ids -> UserApplication \cup {None}]
               /\ apps'[a].status \notin {"approved", "accepted"}
               /\ \A b \in Ids : b # a => apps'[b] = apps[b]
    BY <1>1, <2>2, RowStored
  <2> QED
    BY <2>1, <2>2 DEF StoreApplication
<1>3. /\ \A s \in Slugs : AwaitsTenant(s)' => AwaitsTenant(s)
      /\ \A b \in Ids : AwaitsAccount(b)' => AwaitsAccount(b)
  BY <1>1, <1>2 DEF AwaitsTenant, AwaitsAccount, Exists
<1>4. StrandedCompanies' \subseteq StrandedCompanies /\ StrandedUsers' \subseteq StrandedUsers
  BY <1>1, <1>3, StrandedKept
<1>5. company' \in [Slugs -> CompanyApplication \cup {None}] /\ tenant' \in [Slugs -> TenantStatus]
  BY <1>1 DEF AppInv, AppTypeOK
<1> QED
  BY <1>1, <1>2, <1>4, <1>5, AppGoes

LEMMA StoreDirectStep ==
  ASSUME AppInv, NEW h \in Handlers, StoreDirect(h)
  PROVE  AppInv'
<1>1. /\ jobs[h] # None /\ jobs[h].op = "direct_create" /\ jobs[h].at = "write"
      /\ jobs[h] \in Job /\ Doable(jobs[h], company, apps)
      /\ UNCHANGED <<company, tenant, users, faults>>
      /\ company' \in [Slugs -> CompanyApplication \cup {None}] /\ tenant' \in [Slugs -> TenantStatus]
  BY AppFacts DEF StoreDirect, At, AppInv, AppTypeOK
<1>2. ASSUME NEW k \in Job, k # None, jobs' = [jobs EXCEPT ![h] = k], Doable(k, company', apps'),
             k.op = "direct_create", k.slug = jobs[h].slug,
             apps' \in [Ids -> UserApplication \cup {None}],
             \A b \in Ids : apps[b] # None => apps'[b] = apps[b],
             \A b \in Ids : apps'[b] = apps[b] \/ apps'[b].status \notin {"approved", "accepted"}
      PROVE  AppInv'
  <2>1. /\ \A s \in Slugs : AwaitsTenant(s)' => AwaitsTenant(s)
        /\ \A b \in Ids : AwaitsAccount(b)' => AwaitsAccount(b)
    BY <1>1, <1>2 DEF AwaitsTenant, AwaitsAccount, Exists
  <2>2. StrandedCompanies' \subseteq StrandedCompanies /\ StrandedUsers' \subseteq StrandedUsers
    BY <1>1, <1>2, <2>1, StrandedKept
  <2> QED
    BY <1>1, <1>2, <2>2, AppGoes
<1>3. CASE UNCHANGED apps /\ Advance(h, "create")
  <2> DEFINE k == [jobs[h] EXCEPT !.at = "create"]
  <2>1. jobs' = [jobs EXCEPT ![h] = k]
    BY <1>3 DEF Advance
  <2>2. /\ k \in Job /\ k.op = "direct_create" /\ k.slug = jobs[h].slug /\ k # None
        /\ Doable(k, company, apps)
    BY <1>1, Elsewhere
  <2> HIDE DEF k
  <2>3. Doable(k, company', apps') /\ apps' \in [Ids -> UserApplication \cup {None}]
    BY <1>1, <1>3, <2>2 DEF Doable, AppInv, AppTypeOK
  <2> QED
    BY <1>2, <1>3, <2>1, <2>2, <2>3
<1>4. ASSUME NEW a \in Ids, apps[a] = None, apps' = [apps EXCEPT ![a] = Row(jobs[h])],
             jobs' = [jobs EXCEPT ![h].id = a, ![h].at = "create"]
      PROVE  AppInv'
  <2> DEFINE k == [jobs[h] EXCEPT !.id = a, !.at = "create"]
  <2>1. jobs' = [jobs EXCEPT ![h] = k]
    BY <1>4 DEF AppInv, AppTypeOK
  <2>2. /\ k \in Job /\ k.op = "direct_create" /\ k.slug = jobs[h].slug /\ k.id = a
        /\ k.email = jobs[h].email /\ k.read = jobs[h].read /\ k # None
    BY <1>1, NoneAssumption DEF Job
  <2> HIDE DEF k
  <2>3. /\ apps' \in [Ids -> UserApplication \cup {None}]
        /\ apps'[a] # None /\ apps'[a].email = jobs[h].email
        /\ apps'[a].status \notin {"approved", "accepted"}
        /\ \A b \in Ids : b # a => apps'[b] = apps[b]
    BY <1>1, <1>4, RowStored
  <2>4. Doable(k, company', apps')
    BY <1>1, <2>2, <2>3 DEF Doable, StoreOps, RowOps
  <2> QED
    BY <1>2, <1>4, <2>1, <2>2, <2>3, <2>4
<1> QED
  BY <1>3, <1>4 DEF StoreDirect

LEMMA WriteOutcomeStep ==
  ASSUME AppInv, NEW h \in Handlers, WriteOutcome(h)
  PROVE  AppInv'
<1> DEFINE a == jobs[h].id
           to == Outcome[jobs[h].op]
<1>1. /\ jobs[h] # None /\ jobs[h].op \in RowOps /\ jobs[h].at = "write"
      /\ jobs[h] \in Job /\ Doable(jobs[h], company, apps) /\ a \in Ids
      /\ UNCHANGED <<company, tenant, users, faults>>
      /\ company' \in [Slugs -> CompanyApplication \cup {None}] /\ tenant' \in [Slugs -> TenantStatus]
  BY AppFacts DEF WriteOutcome, At, AppInv, AppTypeOK, Doable
<1>2. SetStatus(a, to)
  BY DEF WriteOutcome
<1>3. to \in AppStatus /\ (to \in {"approved", "accepted"} => jobs[h].op \in {"accept", "admit"})
  BY <1>1 DEF Outcome, RowOps, AppStatus
<1> HIDE DEF to
<1>4. /\ apps' \in [Ids -> UserApplication \cup {None}]
      /\ \A b \in Ids : apps[b] # None => apps'[b] # None /\ apps'[b].email = apps[b].email
      /\ \A b \in Ids : apps'[b] = apps[b] \/ (b = a /\ Exists(b) /\ apps'[b].status = to)
  BY <1>1, <1>2, <1>3, StatusSet
<1>5. /\ \A s \in Slugs : AwaitsTenant(s)' => AwaitsTenant(s)
      /\ \A b \in Ids : AwaitsAccount(b)' =>
           AwaitsAccount(b) \/ (b = a /\ jobs[h].op \in {"accept", "admit"})
  BY <1>1, <1>3, <1>4 DEF AwaitsTenant, AwaitsAccount, Exists
<1>6. CASE jobs[h].op \in {"accept", "admit"}
  <2> DEFINE k == [jobs[h] EXCEPT !.at = "create"]
  <2>1. jobs' = [jobs EXCEPT ![h] = k]
    BY <1>6 DEF WriteOutcome, Advance
  <2>2. /\ k \in Job /\ k.op = jobs[h].op /\ k.slug = jobs[h].slug /\ k # None /\ k.id = a
        /\ k.at = "create" /\ Doable(k, company, apps)
    BY <1>1, Elsewhere
  <2> HIDE DEF k
  <2>3. Doable(k, company', apps')
    BY <1>1, <1>4, <1>6, <2>2 DEF Doable, StoreOps, RowOps
  <2>4. StrandedCompanies' \subseteq StrandedCompanies /\ StrandedUsers' \subseteq StrandedUsers
    BY <1>1, <1>5, <1>6, <2>1, <2>2, StrandedKept DEF JoinOps
  <2> QED
    BY <1>1, <1>4, <2>1, <2>2, <2>3, <2>4, AppGoes
<1>7. CASE jobs[h].op \notin {"accept", "admit"}
  <2>1. jobs' = [jobs EXCEPT ![h] = None]
    BY <1>7 DEF WriteOutcome, Finish
  <2>2. StrandedCompanies' \subseteq StrandedCompanies /\ StrandedUsers' \subseteq StrandedUsers
    BY <1>1, <1>5, <1>7, <2>1, StrandedKept
  <2> QED
    BY <1>1, <1>4, <2>1, <2>2, AppGoes
<1> QED
  BY <1>6, <1>7

LEMMA MarkUserStep ==
  ASSUME AppInv, NEW h \in Handlers, MarkUserCreated(h)
  PROVE  AppInv'
<1> DEFINE a == jobs[h].id
<1>1. /\ jobs[h] # None /\ jobs[h].at = "mark" /\ jobs' = [jobs EXCEPT ![h] = None]
      /\ jobs[h] \in Job /\ a \in Ids \cup {None} /\ SetStatus(a, "user_created")
      /\ UNCHANGED <<company, tenant, users, faults>>
      /\ company' \in [Slugs -> CompanyApplication \cup {None}] /\ tenant' \in [Slugs -> TenantStatus]
  BY AppFacts DEF MarkUserCreated, At, Finish, AppInv, AppTypeOK, Job
<1>2. "user_created" \in AppStatus
  BY DEF AppStatus
<1> HIDE DEF a
<1>3. /\ apps' \in [Ids -> UserApplication \cup {None}]
      /\ \A b \in Ids : apps[b] # None => apps'[b] # None /\ apps'[b].email = apps[b].email
      /\ \A b \in Ids : apps'[b] = apps[b] \/ (b = a /\ Exists(b) /\ apps'[b].status = "user_created")
  BY <1>1, <1>2, StatusSet
<1>4. /\ \A s \in Slugs : AwaitsTenant(s)' => AwaitsTenant(s)
      /\ \A b \in Ids : AwaitsAccount(b)' => AwaitsAccount(b)
  BY <1>1, <1>3 DEF AwaitsTenant, AwaitsAccount, Exists
<1>5. StrandedCompanies' \subseteq StrandedCompanies /\ StrandedUsers' \subseteq StrandedUsers
  BY <1>1, <1>4, StrandedKept
<1> QED
  BY <1>1, <1>3, <1>5, AppGoes

\* A direct creation under way becomes a direct member: the seats taken stay the same.
LEMMA CreateUserStep ==
  ASSUME AppInv, NEW h \in Handlers, CreateUser(h)
  PROVE  AppInv'
<1> DEFINE e == jobs[h].email
           u == [tenant |-> jobs[h].slug, app |-> jobs[h].id,
                 direct |-> jobs[h].op = "direct_create"]
<1>1. /\ jobs[h] # None /\ jobs[h].op \in JoinOps /\ jobs[h].at = "create"
      /\ jobs[h] \in Job /\ Doable(jobs[h], company, apps)
      /\ UNCHANGED <<company, tenant, apps, faults>>
  BY AppFacts DEF CreateUser, At
<1>2. /\ e \in Emails /\ u \in User /\ u # None
      /\ u.direct <=> jobs[h].op = "direct_create"
  <2>1. e \in Emails
    BY <1>1 DEF Doable, JoinOps, RowOps, StoreOps
  <2>2. (jobs[h].op = "direct_create") \in BOOLEAN
    OBVIOUS
  <2>3. u \in User
    BY <1>1, <2>2 DEF User, Job
  <2> QED
    BY <2>1, <2>3, NoneAssumption
<1>3. u.tenant = jobs[h].slug
  OBVIOUS
<1>4. \/ users[e] = None /\ users' = [users EXCEPT ![e] = u] /\ Advance(h, "mark")
      \/ users[e] # None /\ users' = users /\ Finish(h)
  BY DEF CreateUser
<1> DEFINE k == [jobs[h] EXCEPT !.at = "mark"]
<1>5. /\ k \in Job /\ k.at = "mark" /\ k.op = jobs[h].op /\ k.slug = jobs[h].slug /\ k # None
      /\ Doable(k, company, apps)
  BY <1>1, Elsewhere
<1>6. jobs' = [jobs EXCEPT ![h] = k] \/ jobs' = [jobs EXCEPT ![h] = None]
  BY <1>4 DEF Advance, Finish
<1> HIDE DEF e, u, k
<1>7. users \in [Emails -> User \cup {None}] /\ users' \in [Emails -> User \cup {None}]
      /\ users'[e] # None /\ \A f \in Emails : users[f] # None => users'[f] = users[f]
  BY <1>2, <1>4 DEF AppInv, AppTypeOK
<1>8. AppTypeOK' /\ AppJobsOK'
  <2>1. jobs' \in [Handlers -> Job \cup {None}] /\ AppJobsOK'
    BY <1>1, <1>5, <1>6, AppJobsKept
  <2> QED
    BY <1>1, <1>7, <2>1 DEF AppInv, AppTypeOK
<1>9. FewStranded'
  <2>1. StrandedCompanies' \subseteq StrandedCompanies
    <3> SUFFICES ASSUME NEW t \in StrandedCompanies' PROVE t \in StrandedCompanies
      OBVIOUS
    <3>1. t \in Slugs /\ AwaitsTenant(t)
      BY <1>1 DEF StrandedCompanies, AwaitsTenant
    <3>2. \A g \in Handlers : ~(At(g, {"approve"}, "create")' /\ jobs'[g].slug = t)
      BY DEF StrandedCompanies
    <3>3. \A g \in Handlers : ~(At(g, {"approve"}, "create") /\ jobs[g].slug = t)
      BY <1>1, <1>6, <3>2, AppFacts DEF At, JoinOps
    <3> QED
      BY <3>1, <3>3 DEF StrandedCompanies, AwaitsTenant
  <2>2. StrandedUsers' \subseteq StrandedUsers
    <3> SUFFICES ASSUME NEW a \in StrandedUsers' PROVE a \in StrandedUsers
      OBVIOUS
    <3>1. a \in Ids /\ apps[a] # None /\ users'[apps[a].email] = None
      BY <1>1 DEF StrandedUsers, Exists
    <3>2. apps[a].email \in Emails /\ apps[a].email # e
      BY <1>7, <3>1 DEF AppInv, AppTypeOK, UserApplication
    <3>3. AwaitsAccount(a)
      BY <1>1, <1>7, <3>1, <3>2 DEF StrandedUsers, AwaitsAccount, Exists
    <3>4. jobs[h].id # a
      BY <1>1, <3>1, <3>2 DEF Doable, e
    <3>5. \A g \in Handlers : ~(At(g, JoinOps, "create")' /\ jobs'[g].id = a)
      BY DEF StrandedUsers, JoinOps
    <3>6. \A g \in Handlers : ~(At(g, JoinOps, "create") /\ jobs[g].id = a)
      BY <1>6, <3>4, <3>5, AppFacts DEF At
    <3> QED
      BY <3>1, <3>3, <3>6 DEF StrandedUsers, AwaitsAccount
  <2> QED
    BY <1>1, <2>1, <2>2, NoMoreStranded
<1>10. SeatsBounded'
  <2>1. ASSUME NEW t \in Slugs
        PROVE  \/ /\ DirectMembers(t)' \subseteq DirectMembers(t)
                  /\ DirectUnderWay(t)' \subseteq DirectUnderWay(t)
               \/ /\ DirectMembers(t)' \subseteq DirectMembers(t) \cup {e}
                  /\ DirectUnderWay(t)' \subseteq DirectUnderWay(t) \ {h}
                  /\ h \in DirectUnderWay(t)
    <3>1. DirectUnderWay(t)' \subseteq DirectUnderWay(t) \ {h}
      BY <1>5, <1>6, AppFacts DEF DirectUnderWay
    <3>2. DirectMembers(t)' \subseteq DirectMembers(t) \cup {e}
      BY <1>2, <1>4, <1>7 DEF DirectMembers, Members
    <3>3. CASE e \in DirectMembers(t)' /\ e \notin DirectMembers(t)
      <4>1. users' = [users EXCEPT ![e] = u]
        BY <1>4, <3>3 DEF DirectMembers, Members
      <4>2. u.tenant = t /\ u.direct
        BY <1>2, <1>7, <3>3, <4>1 DEF DirectMembers, Members
      <4>3. h \in DirectUnderWay(t)
        BY <1>1, <1>2, <1>3, <4>2 DEF DirectUnderWay
      <4> QED
        BY <3>1, <3>2, <4>3
    <3>4. CASE ~(e \in DirectMembers(t)' /\ e \notin DirectMembers(t))
      BY <3>1, <3>2, <3>4
    <3> QED
      BY <3>3, <3>4
  <2> SUFFICES ASSUME NEW t \in Slugs
               PROVE  Cardinality(DirectMembers(t)') + Cardinality(DirectUnderWay(t)')
                        <= MaxUsers + Cardinality(Handlers) - 1
    BY DEF SeatsBounded
  <2>2. IsFiniteSet(DirectMembers(t)) /\ IsFiniteSet(DirectUnderWay(t))
    <3>1. DirectMembers(t) \subseteq Emails /\ DirectUnderWay(t) \subseteq Handlers
      BY DEF DirectMembers, Members, DirectUnderWay
    <3> QED
      BY <3>1, FS_Subset, BoundsAssumption
  <2> DEFINE m == Cardinality(DirectMembers(t))
             w == Cardinality(DirectUnderWay(t))
             mm == Cardinality(DirectMembers(t)')
             ww == Cardinality(DirectUnderWay(t)')
  <2>3. m + w <= MaxUsers + Cardinality(Handlers) - 1
    BY DEF AppInv, SeatsBounded
  <2>4. m \in Nat /\ w \in Nat /\ Cardinality(Handlers) \in Nat /\ MaxUsers \in Nat
    BY <2>2, FS_CardinalityType, BoundsAssumption
  <2>5. mm \in Nat /\ ww \in Nat /\ mm + ww <= m + w
    <3>1. CASE /\ DirectMembers(t)' \subseteq DirectMembers(t)
               /\ DirectUnderWay(t)' \subseteq DirectUnderWay(t)
      <4>1. mm \in Nat /\ ww \in Nat /\ mm <= m /\ ww <= w
        BY <2>2, <3>1, FS_Subset, FS_CardinalityType
      <4> HIDE DEF m, w, mm, ww
      <4> QED
        BY <2>4, <4>1
    <3>2. CASE /\ DirectMembers(t)' \subseteq DirectMembers(t) \cup {e}
               /\ DirectUnderWay(t)' \subseteq DirectUnderWay(t) \ {h}
               /\ h \in DirectUnderWay(t)
      <4>1. mm \in Nat /\ mm <= m + 1
        BY <2>2, <3>2, OneMore
      <4>2. IsFiniteSet(DirectUnderWay(t) \ {h}) /\ Cardinality(DirectUnderWay(t) \ {h}) = w - 1
        BY <2>2, <3>2, FS_RemoveElement, Zenon
      <4>3. ww \in Nat /\ ww <= w - 1
        BY <3>2, <4>2, FS_Subset, FS_CardinalityType
      <4> HIDE DEF m, w, mm, ww
      <4> QED
        BY <2>4, <4>1, <4>3
    <3> QED
      BY <2>1, <3>1, <3>2
  <2> HIDE DEF m, w, mm, ww
  <2>6. mm + ww <= MaxUsers + Cardinality(Handlers) - 1
    BY <2>3, <2>4, <2>5
  <2> QED
    BY <2>6 DEF mm, ww
<1> QED
  BY <1>8, <1>9, <1>10 DEF AppInv

-----------------------------------------------------------------------------
(* Faults, and the world around *)

\* What a lost or failed job leaves behind is one application at most.
LEMMA FailStep ==
  ASSUME AppInv, NEW h \in Handlers, Fail(h)
  PROVE  AppInv'
<1>1. /\ jobs[h] # None /\ jobs[h].op \in JoinOps \cup {"approve"}
      /\ jobs[h] \in Job /\ Doable(jobs[h], company, apps)
      /\ faults' = faults + 1 /\ faults' \in 0..MaxFaults
      /\ UNCHANGED <<company, tenant, apps, users>>
  BY AppFacts, BoundsAssumption DEF Fail, AppInv, AppTypeOK
<1> DEFINE k == [jobs[h] EXCEPT !.at = "create"]
<1>2. /\ k \in Job /\ k.at = "create" /\ k.op = jobs[h].op /\ k.slug = jobs[h].slug /\ k # None
      /\ k.id = jobs[h].id /\ Doable(k, company, apps)
  BY <1>1, Elsewhere
<1>3. \/ jobs' = [jobs EXCEPT ![h] = None]
      \/ jobs' = [jobs EXCEPT ![h] = k] /\ jobs[h].at = "write"
  BY DEF Fail, Finish, Advance, Ignored
<1> HIDE DEF k
<1>4. /\ \A g \in Handlers : g # h => jobs'[g] = jobs[g]
      /\ jobs'[h] = None \/ (jobs'[h] = k /\ jobs[h].at = "write")
  BY <1>3, AppFacts
<1>5. AppTypeOK' /\ AppJobsOK'
  <2>1. jobs' \in [Handlers -> Job \cup {None}] /\ AppJobsOK'
    BY <1>1, <1>2, <1>3, AppJobsKept
  <2> QED
    BY <1>1, <2>1 DEF AppInv, AppTypeOK
<1>6. FewStranded'
  <2>1. jobs[h].op = "approve" => StrandedCompanies' \subseteq StrandedCompanies \cup {jobs[h].slug}
    <3> SUFFICES ASSUME jobs[h].op = "approve",
                        NEW t \in StrandedCompanies', t # jobs[h].slug
                 PROVE  t \in StrandedCompanies
      OBVIOUS
    <3>1. t \in Slugs /\ AwaitsTenant(t)
      BY <1>1 DEF StrandedCompanies, AwaitsTenant
    <3>2. \A g \in Handlers : ~(At(g, {"approve"}, "create")' /\ jobs'[g].slug = t)
      BY DEF StrandedCompanies
    <3>3. \A g \in Handlers : ~(At(g, {"approve"}, "create") /\ jobs[g].slug = t)
      BY <1>4, <3>2 DEF At
    <3> QED
      BY <3>1, <3>3 DEF StrandedCompanies, AwaitsTenant
  <2>2. jobs[h].op # "approve" => StrandedCompanies' \subseteq StrandedCompanies
    <3> SUFFICES ASSUME jobs[h].op # "approve", NEW t \in StrandedCompanies'
                 PROVE  t \in StrandedCompanies
      OBVIOUS
    <3>1. t \in Slugs /\ AwaitsTenant(t)
      BY <1>1 DEF StrandedCompanies, AwaitsTenant
    <3>2. \A g \in Handlers : ~(At(g, {"approve"}, "create")' /\ jobs'[g].slug = t)
      BY DEF StrandedCompanies
    <3>3. \A g \in Handlers : ~(At(g, {"approve"}, "create") /\ jobs[g].slug = t)
      BY <1>4, <3>2 DEF At
    <3> QED
      BY <3>1, <3>3 DEF StrandedCompanies, AwaitsTenant
  <2>3. jobs[h].op \in JoinOps => StrandedUsers' \subseteq StrandedUsers \cup {jobs[h].id}
    <3> SUFFICES ASSUME NEW a \in StrandedUsers', a # jobs[h].id PROVE a \in StrandedUsers
      OBVIOUS
    <3>1. a \in Ids /\ AwaitsAccount(a)
      BY <1>1 DEF StrandedUsers, AwaitsAccount, Exists
    <3>2. \A g \in Handlers : ~(At(g, JoinOps, "create")' /\ jobs'[g].id = a)
      BY DEF StrandedUsers, JoinOps
    <3>3. \A g \in Handlers : ~(At(g, JoinOps, "create") /\ jobs[g].id = a)
      BY <1>4, <3>1, <3>2 DEF At
    <3> QED
      BY <3>1, <3>3 DEF StrandedUsers, AwaitsAccount
  <2>4. jobs[h].op = "approve" => StrandedUsers' \subseteq StrandedUsers
    <3> SUFFICES ASSUME jobs[h].op = "approve", NEW a \in StrandedUsers' PROVE a \in StrandedUsers
      OBVIOUS
    <3>1. a \in Ids /\ AwaitsAccount(a)
      BY <1>1 DEF StrandedUsers, AwaitsAccount, Exists
    <3>2. \A g \in Handlers : ~(At(g, JoinOps, "create")' /\ jobs'[g].id = a)
      BY DEF StrandedUsers, JoinOps
    <3>3. \A g \in Handlers : ~(At(g, JoinOps, "create") /\ jobs[g].id = a)
      BY <1>4, <3>2 DEF At, JoinOps
    <3> QED
      BY <3>1, <3>3 DEF StrandedUsers, AwaitsAccount
  <2>5. CASE jobs[h].op = "approve"
    BY <1>1, <2>1, <2>4, <2>5, OneMoreStranded
  <2>6. CASE jobs[h].op # "approve"
    BY <1>1, <2>2, <2>3, <2>6, OneMoreStranded
  <2> QED
    BY <2>5, <2>6
<1>7. SeatsBounded'
  <2> SUFFICES ASSUME NEW t \in Slugs
               PROVE  DirectMembers(t)' \subseteq DirectMembers(t)
                      /\ DirectUnderWay(t)' \subseteq DirectUnderWay(t)
    BY SeatsKept
  <2>1. DirectMembers(t)' = DirectMembers(t)
    BY <1>1 DEF DirectMembers, Members
  <2>2. DirectUnderWay(t)' \subseteq DirectUnderWay(t)
    BY <1>1, <1>2, <1>4 DEF DirectUnderWay
  <2> QED
    BY <2>1, <2>2
<1> QED
  BY <1>5, <1>6, <1>7 DEF AppInv

\* Steps that no job takes: no tenant disappears, and no decision is made.
LEMMA OutsideStep ==
  ASSUME AppInv,
         \/ \E s \in Slugs : RegisterTenant(s) \/ SuspendTenant(s) \/ ActivateTenant(s)
         \/ \E a \in Ids : BecomeLate(a)
         \/ UNCHANGED appVars
  PROVE  AppInv'
<1>1. /\ UNCHANGED <<company, users, jobs, faults>>
      /\ tenant' \in [Slugs -> TenantStatus]
      /\ \A s \in Slugs : tenant'[s] = "none" => tenant[s] = "none"
  <2>1. tenant \in [Slugs -> TenantStatus]
    BY DEF AppInv, AppTypeOK
  <2>2. tenant' = tenant \/ \E s \in Slugs : tenant' = [tenant EXCEPT ![s] = "active"]
                                             \/ tenant' = [tenant EXCEPT ![s] = "suspended"]
    BY DEF RegisterTenant, SuspendTenant, ActivateTenant, BecomeLate, appVars
  <2> QED
    BY <2>1, <2>2 DEF RegisterTenant, SuspendTenant, ActivateTenant, BecomeLate, appVars, TenantStatus
<1>2. /\ apps' \in [Ids -> UserApplication \cup {None}]
      /\ \A b \in Ids : apps[b] # None => apps'[b] # None /\ apps'[b].email = apps[b].email
                                          /\ apps'[b].status = apps[b].status
      /\ \A b \in Ids : apps[b] = None => apps'[b] = None
  <2>1. CASE UNCHANGED apps
    BY <2>1 DEF AppInv, AppTypeOK
  <2>2. ASSUME NEW a \in Ids, BecomeLate(a)
        PROVE  /\ apps' \in [Ids -> UserApplication \cup {None}]
               /\ \A b \in Ids : apps[b] # None => apps'[b] # None /\ apps'[b].email = apps[b].email
                                                   /\ apps'[b].status = apps[b].status
               /\ \A b \in Ids : apps[b] = None => apps'[b] = None
    <3> DEFINE r == [apps[a] EXCEPT !.late = TRUE]
    <3>1. apps \in [Ids -> UserApplication \cup {None}] /\ apps[a] # None
      BY <2>2 DEF BecomeLate, Exists, AppInv, AppTypeOK
    <3>2. r \in UserApplication /\ r # None /\ r.email = apps[a].email /\ r.status = apps[a].status
      BY <3>1, NoneAssumption DEF UserApplication
    <3>3. apps' = [apps EXCEPT ![a] = r]
      BY <2>2 DEF BecomeLate
    <3> HIDE DEF r
    <3> QED
      BY <3>1, <3>2, <3>3
  <2> QED
    BY <2>1, <2>2 DEF RegisterTenant, SuspendTenant, ActivateTenant, appVars
<1>3. AppTypeOK'
  BY <1>1, <1>2 DEF AppInv, AppTypeOK
<1>4. AppJobsOK'
  <2> SUFFICES ASSUME NEW h \in Handlers, jobs[h] # None
               PROVE  Doable(jobs[h], company, apps')
    BY <1>1 DEF AppJobsOK
  <2> QED
    BY <1>2, AppFacts DEF Doable
<1>5. FewStranded'
  <2>1. StrandedCompanies' \subseteq StrandedCompanies
    BY <1>1 DEF StrandedCompanies, At
  <2>2. StrandedUsers' \subseteq StrandedUsers
    BY <1>1, <1>2 DEF StrandedUsers, At, Exists, JoinOps
  <2> QED
    BY <1>1, <2>1, <2>2, NoMoreStranded
<1>6. SeatsBounded'
  BY <1>1, SeatsKept DEF DirectMembers, Members, DirectUnderWay
<1> QED
  BY <1>3, <1>4, <1>5, <1>6 DEF AppInv

-----------------------------------------------------------------------------
(* What applications promise *)

LEMMA AppInitially == AppInit => AppInv
<1> SUFFICES ASSUME AppInit PROVE AppInv
  OBVIOUS
<1> USE DEF AppInit
<1>1. AppTypeOK /\ AppJobsOK
  BY BoundsAssumption DEF AppTypeOK, AppJobsOK, TenantStatus
<1>2. FewStranded
  <2>1. StrandedCompanies = {} /\ StrandedUsers = {}
    BY DEF StrandedCompanies, StrandedUsers, Exists
  <2> QED
    BY <2>1, FS_EmptySet DEF FewStranded, StrandedByFaults
<1>3. SeatsBounded
  <2>1. \A t \in Slugs : DirectMembers(t) = {} /\ DirectUnderWay(t) = {}
    BY DEF DirectMembers, Members, DirectUnderWay
  <2>2. Cardinality({}) = 0 /\ Cardinality(Handlers) \in Nat
    BY FS_EmptySet, FS_CardinalityType, BoundsAssumption
  <2>3. 0 <= MaxUsers + Cardinality(Handlers) - 1
    BY <2>2, BoundsAssumption
  <2> SUFFICES ASSUME NEW t \in Slugs
               PROVE  Cardinality(DirectMembers(t)) + Cardinality(DirectUnderWay(t))
                        <= MaxUsers + Cardinality(Handlers) - 1
    BY DEF SeatsBounded
  <2>4. Cardinality(DirectMembers(t)) = 0 /\ Cardinality(DirectUnderWay(t)) = 0
    BY <2>1, <2>2
  <2> QED
    BY <2>3, <2>4
<1> QED
  BY <1>1, <1>2, <1>3 DEF AppInv

LEMMA AppStep == AppInv /\ [AppNext]_appVars => AppInv'
<1> SUFFICES ASSUME AppInv, [AppNext]_appVars PROVE AppInv'
  OBVIOUS
<1>1. ASSUME NEW h \in Handlers, PublicRequest(h) \/ TenantAdminRequest(h) \/ PlatformRequest(h)
      PROVE  AppInv'
  <2>1. TenantsMeant \subseteq Slugs
    BY DEF TenantsMeant
  <2> QED
    BY <1>1, <2>1, BeginSteps, CreateDirectStep
       DEF PublicRequest, TenantAdminRequest, PlatformRequest, UserApplicationTools,
           TenantApplicationTools
<1>2. ASSUME NEW h \in Handlers, Write(h) PROVE AppInv'
  BY <1>2, CompanyStep, StoreApplicationStep, StoreDirectStep, WriteOutcomeStep, CreateUserStep,
     MarkUserStep DEF Write
<1>3. ASSUME NEW h \in Handlers, Fail(h) PROVE AppInv'
  BY <1>3, FailStep
<1>4. CASE \/ \E s \in Slugs : RegisterTenant(s)
           \/ TenantTools
           \/ \E a \in Ids : BecomeLate(a)
           \/ UNCHANGED appVars
  BY <1>4, OutsideStep DEF TenantTools
<1> QED
  BY <1>1, <1>2, <1>3, <1>4 DEF AppNext

LEMMA AppInvariant == AppSpec => []AppInv
BY AppInitially, AppStep, PTL DEF AppSpec

\* Every row and every job keeps its type, though decisions are updates by id that
\* look at nothing.
THEOREM AppTypeCorrect == AppSpec => []AppTypeOK
<1>1. AppInv => AppTypeOK
  BY DEF AppInv
<1> QED
  BY <1>1, AppInvariant, PTL

\* Approve, ApproveRequest and AcceptInvitation store the outcome before they create
\* what it promises: the applications left between the two are never more than the
\* statements that failed and the handlers that were lost.
THEOREM StrandingTakesFaults == AppSpec => []StrandedByFaults
<1>1. AppInv => StrandedByFaults
  BY DEF AppInv, FewStranded
<1> QED
  BY <1>1, AppInvariant, PTL

\* CreateDirect counts the users before it inserts one: the direct users of a tenant
\* exceed its seats by less than the number of handlers.
THEOREM SeatsAreBounded == AppSpec => []SeatsBounded
<1>1. AppInv => SeatsBounded
  BY DEF AppInv
<1> QED
  BY <1>1, AppInvariant, PTL

\* A refusal, an expiry or a creation is changed only by a request that read the
\* application while it was open.
THEOREM DecisionsStand == AppSpec => DecisionStands
<1>1. AppInv /\ [AppNext]_appVars => [CompaniesStand /\ UsersStand]_appVars
  <2> SUFFICES ASSUME AppInv, [AppNext]_appVars PROVE CompaniesStand /\ UsersStand
    OBVIOUS
  <2>1. CompaniesStand
    <3> SUFFICES ASSUME NEW s \in Slugs, company[s] # None, company'[s] # company[s]
                 PROVE  \E h \in Handlers : /\ jobs[h] # None /\ jobs[h].slug = s
                                           /\ jobs[h].read = "pending"
      BY DEF CompaniesStand
    <3>1. PICK h \in Handlers : WriteDecision(h) \/ MarkTenantCreated(h) \/ StoreCompany(h)
      BY DEF AppNext, PublicRequest, TenantAdminRequest, PlatformRequest, UserApplicationTools,
             TenantApplicationTools, TenantTools, Write, Submit, SubmitRequest, AcceptInvitation,
             SendInvitation, CreateDirect, ApproveRequest, RejectRequest, CancelInvitation, Approve,
             Reject, CreateTenant, StoreApplication, StoreDirect, WriteOutcome, CreateUser,
             MarkUserCreated, Fail, RegisterTenant, SuspendTenant, ActivateTenant, BecomeLate, appVars
    <3>2. company \in [Slugs -> CompanyApplication \cup {None}]
      BY DEF AppInv, AppTypeOK
    <3>3. jobs[h] # None /\ jobs[h].slug = s
      BY <3>1, <3>2 DEF WriteDecision, MarkTenantCreated, StoreCompany, At
    <3>4. jobs[h].read = "pending"
      BY <3>1, <3>3, AppFacts DEF WriteDecision, MarkTenantCreated, StoreCompany, At, Doable
    <3> QED
      BY <3>3, <3>4
  <2>2. UsersStand
    <3> SUFFICES ASSUME NEW a \in Ids, apps[a] # None, apps'[a] # apps[a],
                        apps[a].status # "pending"
                 PROVE  \E h \in Handlers : /\ jobs[h] # None /\ jobs[h].id = a
                                           /\ jobs[h].read \in {"pending", "user_created"}
      BY DEF UsersStand
    <3>1. apps \in [Ids -> UserApplication \cup {None}]
      BY DEF AppInv, AppTypeOK
    <3>2. \A b \in Ids : BecomeLate(b) => apps'[a] = apps[a]
      BY <3>1 DEF BecomeLate
    <3>3. \A h \in Handlers : StoreApplication(h) \/ StoreDirect(h) => apps'[a] = apps[a]
      BY <3>1 DEF StoreApplication, StoreDirect
    <3>4. PICK h \in Handlers : WriteOutcome(h) \/ MarkUserCreated(h)
      BY <3>2, <3>3
         DEF AppNext, PublicRequest, TenantAdminRequest, PlatformRequest, UserApplicationTools,
             TenantApplicationTools, TenantTools, Write, Submit, SubmitRequest, AcceptInvitation,
             SendInvitation, CreateDirect, ApproveRequest, RejectRequest, CancelInvitation, Approve,
             Reject, StoreCompany, WriteDecision, CreateTenant, MarkTenantCreated, CreateUser,
             Fail, RegisterTenant, SuspendTenant, ActivateTenant, appVars
    <3>5. jobs[h] # None /\ jobs[h].op \in RowOps \cup JoinOps /\ SetStatus(jobs[h].id, apps'[a].status)
          /\ jobs[h].id = a
      BY <3>1, <3>4 DEF WriteOutcome, MarkUserCreated, At, SetStatus
    <3>6. jobs[h].read \in {"pending", "user_created"}
      BY <3>5, AppFacts DEF Doable, JoinOps, RowOps
    <3> QED
      BY <3>5, <3>6
  <2> QED
    BY <2>1, <2>2
<1> QED
  BY <1>1, AppInvariant, PTL DEF AppSpec, DecisionStands
=============================================================================
