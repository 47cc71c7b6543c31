------------------------ MODULE AccountManagerProofs ------------------------
(***************************************************************************)
(* Theorems about AccountManager and, at the end, about CircuitBreaker,    *)
(* which guards one provider: for every number of goroutines, accounts and *)
(* owners, every strategy and every positive setting.                      *)
(*                                                                         *)
(* RefreshTakesEffect is not inductive: a copy of a row travels from the   *)
(* statement that read it to the one that stores it.  While it does, the   *)
(* account it names is in service, or no refresh has seen its retirement   *)
(* (JobsOK); the copy of a refresh names no account it saw retired.        *)
(***************************************************************************)
EXTENDS AccountManager, CircuitBreaker, TLAPS

\* The points from which the job's copy goes into the cache.
Carries(j) == j.pc \in {"store", "clear", "set", "install", "replace"}

\* A copy of an account out of service is of one that no refresh has seen retired.
Noticed(k) == k.id # NoAccount /\ Retired(rows[k.id]) => k.id \in unseen

JobOK(j) ==
    /\ j.pc = "idle" => j = NoJob
    /\ j.pc = "refresh" => j.copy = NoCopy
    /\ j.pc \in {"store", "clear", "set", "install", "status", "error", "next"}
         => j.copy.id \in Accounts
    /\ Carries(j) => Noticed(j.copy)
    /\ j.pc = "replace" => j.copy.id \notin j.gone
JobsOK == \A c \in Callers : JobOK(job[c])

\* Two switches under way, or one within the cooldown of another, are crowded.
SwitchesCounted ==
    \A c \in Callers : Switching(c) =>
        /\ switched => crowded
        /\ \A d \in Callers : d # c /\ Switching(d) => crowded

IInv == TypeOK /\ JobsOK /\ RefreshTakesEffect /\ SwitchesCounted /\ CooldownKept

-----------------------------------------------------------------------------
(* The vocabulary of the module *)

LEMMA NoneTypes ==
  /\ NoRow \in Rows /\ NewRow \in Rows /\ NoCopy \in Copies /\ NoJob \in Jobs
  /\ NoJob.pc = "idle" /\ NoJob.op = "none" /\ NoJob.copy = NoCopy /\ NoCopy.id = NoAccount
  /\ NoRow.status = "none"
<1>1. NewRow \in Rows
  BY ManagerAssumption DEF NewRow, Rows, Statuses, Ages
<1>2. NoRow \in Rows /\ NoRow.status = "none"
  BY <1>1 DEF NoRow, NewRow, Rows, Statuses
<1>3. NoCopy \in Copies /\ NoCopy.id = NoAccount
  BY <1>2 DEF NoCopy, Copies
<1>4. NoJob \in Jobs
  BY <1>3 DEF NoJob, Jobs, Points, Statuses
<1> QED
  BY <1>1, <1>2, <1>3, <1>4 DEF NoJob

LEMMA RowChanges ==
  ASSUME NEW r \in Rows
  PROVE  /\ \A s \in Statuses : Marked(r, s) \in Rows
         /\ Failed(r) \in Rows /\ Aged(r) \in Rows /\ Aged(r).status = r.status
         /\ \A b \in BOOLEAN : [r EXCEPT !.default = b] \in Rows
         /\ \A b \in BOOLEAN : [r EXCEPT !.default = b].status = r.status
<1>1. ErrorLimit \in Nat \ {0}
  BY ManagerAssumption
<1>2. ASSUME NEW s \in Statuses PROVE Marked(r, s) \in Rows
  <2> DEFINE n == IF s = "active" THEN 0 ELSE r.errors
  <2>1. n \in 0..ErrorLimit
    BY <1>1 DEF Rows
  <2>2. Marked(r, s) = r \/ Marked(r, s) = [r EXCEPT !.status = s, !.errors = n]
    BY DEF Marked, Rows
  <2> HIDE DEF n
  <2> QED
    BY <2>1, <2>2 DEF Rows
<1>3. Failed(r) \in Rows
  <2> DEFINE n == IF r.errors < ErrorLimit THEN r.errors + 1 ELSE r.errors
  <2>1. n \in 0..ErrorLimit
    BY <1>1 DEF Rows
  <2>2. Failed(r) = r \/ Failed(r) = [r EXCEPT !.errors = n, !.last = "cooling"]
    BY DEF Failed, Rows
  <2> HIDE DEF n
  <2> QED
    BY <2>1, <2>2 DEF Rows, Ages
<1>4. Aged(r) \in Rows /\ Aged(r).status = r.status
  <2> DEFINE l == IF r.last = "cooling" THEN "recent" ELSE "no"
  <2>1. l \in Ages /\ Aged(r) = [r EXCEPT !.last = l]
    BY DEF Aged, Ages, Rows
  <2> HIDE DEF l
  <2> QED
    BY <2>1 DEF Rows
<1>5. ASSUME NEW b \in BOOLEAN
      PROVE  [r EXCEPT !.default = b] \in Rows /\ [r EXCEPT !.default = b].status = r.status
  BY DEF Rows
<1> QED
  BY <1>2, <1>3, <1>4, <1>5

\* What a job is may change in these ways.
LEMMA JobChanges ==
  ASSUME NEW j \in Jobs
  PROVE  /\ j.copy \in Copies /\ j.pc \in Points /\ j.gone \subseteq Accounts
         /\ j.mark \in Statuses /\ j.user \in Users \cup {NoUser}
         /\ \A p \in Points : [j EXCEPT !.pc = p] \in Jobs
BY DEF Jobs

\* Whatever strategy there is, the account that it selects is one of those that may be.
LEMMA Selects ==
  ASSUME NEW S
  PROVE  SelectAccount(S) \subseteq S /\ First(S) \subseteq S
<1>1. \A T : First(T) \subseteq T
  BY DEF First
<1>2. Nth(S, (turn + 1) % Cardinality(S)) \subseteq S
  BY DEF Nth
<1>3. LeastStarted(S) \subseteq S /\ Healthiest(S) \subseteq S
  BY DEF LeastStarted, Healthiest
<1>4. Fastest(S) \subseteq S
  BY <1>1 DEF Fastest
<1> QED
  BY <1>1, <1>2, <1>3, <1>4 DEF SelectAccount, AnyByScore, AnyByWeight

LEMMA JobFacts ==
  ASSUME IInv, NEW c \in Callers
  PROVE  job[c] \in Jobs /\ JobOK(job[c]) /\ job[c].copy \in Copies /\ job[c].gone \subseteq Accounts
         /\ job[c].pc \in Points
<1>1. job[c] \in Jobs /\ JobOK(job[c])
  BY DEF IInv, TypeOK, JobsOK
<1> QED
  BY <1>1, JobChanges

-----------------------------------------------------------------------------
(* Steps of one goroutine *)

\* Accounts that leave service are unseen, as Rewrite records; no refresh ends.
StillNoticed ==
    /\ unseen \subseteq unseen'
    /\ \A a \in Accounts : Retired(rows'[a]) => Retired(rows[a]) \/ a \in unseen'

LEMMA NoticeKept ==
  ASSUME StillNoticed, NEW k \in Copies, Noticed(k)
  PROVE  k.id # NoAccount /\ Retired(rows'[k.id]) => k.id \in unseen'
BY DEF StillNoticed, Noticed, Copies

LEMMA Rewrites ==
  ASSUME NEW R \in [Accounts -> Rows], Rewrite(R), unseen \subseteq Accounts
  PROVE  /\ StillNoticed /\ rows' \in [Accounts -> Rows] /\ unseen' \subseteq Accounts
         /\ UNCHANGED <<hasty, crowded>>
BY DEF Rewrite, StillNoticed

LEMMA RowsKept ==
  ASSUME IInv, UNCHANGED <<rows, unseen>>
  PROVE  StillNoticed /\ rows' \in [Accounts -> Rows] /\ unseen' \subseteq Accounts
BY DEF StillNoticed, IInv, TypeOK

\* A goroutine goes on with job j, and puts k into the cache or leaves it.
LEMMA Goes ==
  ASSUME IInv, NEW c \in Callers, NEW j \in Jobs, job' = [job EXCEPT ![c] = j], JobOK(j),
         j.op = "switch" => Switching(c),
         NEW k \in Copies, cache' = k, Noticed(k),
         StillNoticed, rows' \in [Accounts -> Rows], unseen' \subseteq Accounts,
         UNCHANGED <<switched, hasty, crowded, changes>>,
         strategy' \in Strategies, turn' \in Nat, started' \in [Accounts -> Nat],
         calls' \in 0..MaxCalls
  PROVE  IInv'
<1>1. /\ job' \in [Callers -> Jobs] /\ job'[c] = j
      /\ \A d \in Callers : d # c => job'[d] = job[d]
  BY DEF IInv, TypeOK
<1>2. TypeOK'
  BY <1>1 DEF IInv, TypeOK
<1>3. JobsOK'
  <2> SUFFICES ASSUME NEW d \in Callers PROVE JobOK(job[d])'
    BY DEF JobsOK
  <2>1. job'[d] \in Jobs /\ JobOK(job'[d]) /\ job'[d].copy \in Copies
    <3>1. job[d] \in Jobs /\ JobOK(job[d])
      BY JobFacts
    <3>2. job'[d] \in Jobs /\ JobOK(job'[d])
      BY <1>1, <3>1
    <3> QED
      BY <3>2, JobChanges
  <2>2. Carries(job'[d]) => Noticed(job'[d].copy)
    BY <2>1 DEF JobOK
  <2>3. Carries(job'[d]) => Noticed(job[d].copy)'
    BY <2>1, <2>2, NoticeKept DEF Noticed
  <2> QED
    BY <2>1, <2>3 DEF JobOK, Carries
<1>4. RefreshTakesEffect'
  BY NoticeKept DEF RefreshTakesEffect
<1>5. \A d \in Callers : Switching(d)' => Switching(d)
  BY <1>1 DEF Switching
<1>6. SwitchesCounted' /\ CooldownKept'
  BY <1>5 DEF SwitchesCounted, CooldownKept, IInv
<1> QED
  BY <1>2, <1>3, <1>4, <1>6 DEF IInv

-----------------------------------------------------------------------------
(* Operations that serve a request *)

\* What a goroutine knows when only its job, the balancer and the calls change.
LEMMA GoesOn ==
  ASSUME IInv, NEW c \in Callers, NEW j \in Jobs, job' = [job EXCEPT ![c] = j], JobOK(j),
         j.op = "switch" => Switching(c),
         UNCHANGED <<rows, cache, switched, strategy, changes, history>>,
         turn' \in Nat, started' \in [Accounts -> Nat],
         calls' = calls \/ (calls < MaxCalls /\ calls' = calls + 1)
  PROVE  IInv'
<1>1. UNCHANGED <<rows, unseen>> /\ UNCHANGED <<switched, hasty, crowded, changes>>
  BY DEF history
<1>2. cache \in Copies /\ cache' = cache /\ Noticed(cache)
  BY DEF IInv, TypeOK, RefreshTakesEffect, Noticed
<1>3. strategy' \in Strategies /\ calls' \in 0..MaxCalls
  BY ManagerAssumption DEF IInv, TypeOK
<1> QED
  BY <1>1, <1>2, <1>3, Goes, RowsKept

LEMMA GivesUp ==
  ASSUME IInv, NEW c \in Callers, Done(c),
         UNCHANGED <<rows, cache, switched, balancer, changes, history>>,
         calls' = calls \/ (calls < MaxCalls /\ calls' = calls + 1)
  PROVE  IInv'
<1>1. JobOK(NoJob) /\ NoJob.op # "switch"
  BY NoneTypes DEF JobOK, Carries
<1>2. strategy' = strategy /\ turn' \in Nat /\ started' \in [Accounts -> Nat]
  BY DEF balancer, IInv, TypeOK
<1> QED
  BY <1>1, <1>2, NoneTypes, GoesOn DEF Done

\* A goroutine takes its job to another point, where the job is as good.
LEMMA MovesOn ==
  ASSUME IInv, NEW c \in Callers, NEW p \in Points, Goto(c, p),
         JobOK([job[c] EXCEPT !.pc = p]),
         UNCHANGED <<rows, cache, switched, balancer, calls, changes, history>>
  PROVE  IInv'
<1> DEFINE j == [job[c] EXCEPT !.pc = p]
<1>1. j \in Jobs /\ j.op = job[c].op
  BY JobFacts DEF Jobs
<1>2. job' = [job EXCEPT ![c] = j]
  BY DEF Goto, IInv, TypeOK
<1>3. strategy' = strategy /\ turn' \in Nat /\ started' \in [Accounts -> Nat] /\ calls' = calls
  BY DEF balancer, IInv, TypeOK
<1>4. UNCHANGED <<rows, cache, switched, strategy, changes, history>>
  BY <1>3
<1> HIDE DEF j
<1>5. JobOK(j) /\ (j.op = "switch" => Switching(c))
  BY <1>1 DEF Switching, j
<1> QED
  BY <1>1, <1>2, <1>3, <1>4, <1>5, GoesOn

LEMMA GetStep ==
  ASSUME IInv, NEW c \in Callers, GetUpstreamConfig(c) \/ GetForTenant(c) \/ ReadCache(c)
  PROVE  IInv'
<1>1. ASSUME NEW u \in Users, GetForUser(c, u) PROVE IInv'
  <2> DEFINE j == [NoJob EXCEPT !.op = "get", !.pc = "tenant", !.user = u]
  <2>1. j \in Jobs /\ j.op = "get" /\ j.pc = "tenant"
    BY NoneTypes DEF Jobs, Points
  <2>2. Done(c) \/ job' = [job EXCEPT ![c] = j]
    BY <1>1 DEF GetForUser
  <2>3. /\ UNCHANGED <<rows, cache, switched, balancer, changes, history>>
        /\ calls < MaxCalls /\ calls' = calls + 1
    BY <1>1 DEF GetForUser
  <2>4. ASSUME job' = [job EXCEPT ![c] = j] PROVE IInv'
    <3>1. strategy' = strategy /\ turn' \in Nat /\ started' \in [Accounts -> Nat]
      BY <2>3 DEF balancer, IInv, TypeOK
    <3> HIDE DEF j
    <3>2. JobOK(j)
      BY <2>1 DEF JobOK, Carries
    <3> QED
      BY <2>1, <2>3, <2>4, <3>1, <3>2, GoesOn
  <2> QED
    BY <2>2, <2>3, <2>4, GivesUp
<1>2. ASSUME GetPublic(c) PROVE IInv'
  <2> DEFINE j == [job[c] EXCEPT !.op = "get", !.pc = "cache"]
  <2>1. j \in Jobs /\ j.op = "get" /\ j.pc = "cache"
    BY JobFacts DEF Jobs, Points
  <2>2. /\ job' = [job EXCEPT ![c] = j] /\ calls < MaxCalls /\ calls' = calls + 1
        /\ UNCHANGED <<rows, cache, switched, balancer, changes, history>>
    BY <1>2 DEF GetPublic, Begin, IInv, TypeOK
  <2>3. strategy' = strategy /\ turn' \in Nat /\ started' \in [Accounts -> Nat]
    BY <2>2 DEF balancer, IInv, TypeOK
  <2> HIDE DEF j
  <2>4. JobOK(j)
    BY <2>1 DEF JobOK, Carries
  <2> QED
    BY <2>1, <2>2, <2>3, <2>4, GoesOn
<1>3. ASSUME GetForTenant(c) \/ ReadCache(c) PROVE IInv'
  <2>1. /\ (Done(c) \/ Goto(c, "cache") \/ Goto(c, "select")) /\ calls' = calls
        /\ UNCHANGED <<rows, cache, switched, balancer, calls, changes, history>>
        /\ UNCHANGED <<rows, cache, switched, balancer, changes, history>>
    BY <1>3 DEF GetForTenant, ReadCache
  <2>2. ASSUME NEW p \in {"cache", "select"} PROVE p \in Points /\ JobOK([job[c] EXCEPT !.pc = p])
    <3>1. [job[c] EXCEPT !.pc = p].pc = p /\ p \in Points
      BY JobFacts DEF Jobs, Points
    <3> QED
      BY <3>1 DEF JobOK, Carries
  <2> QED
    BY <2>1, <2>2, GivesUp, MovesOn
<1> QED
  BY <1>1, <1>2, <1>3 DEF GetUpstreamConfig

\* A goroutine takes with it the copy of a row in service.
LEMMA CopyInService ==
  ASSUME IInv, NEW a \in Accounts, rows[a].status \in {"active", "limited"}
  PROVE  Copy(a) \in Copies /\ Copy(a).id = a /\ Noticed(Copy(a))
<1>1. Copy(a) \in Copies /\ Copy(a).id = a
  BY DEF Copy, Copies, IInv, TypeOK
<1> QED
  BY <1>1 DEF Noticed, Retired

Carrying(j, p, k) == [j EXCEPT !.pc = p, !.copy = k]

LEMMA CarryingJob ==
  ASSUME NEW j \in Jobs, NEW p \in {"store", "clear"}, NEW k \in Copies,
         k.id \in Accounts, Noticed(k)
  PROVE  LET h == Carrying(j, p, k) IN
         h \in Jobs /\ h.pc = p /\ h.copy = k /\ h.op = j.op /\ JobOK(h)
<1> DEFINE h == Carrying(j, p, k)
<1>1. h \in Jobs /\ h.pc = p /\ h.copy = k /\ h.op = j.op
  BY DEF Carrying, Jobs, Points
<1> HIDE DEF h
<1>2. JobOK(h)
  BY <1>1 DEF JobOK
<1> QED
  BY <1>1, <1>2 DEF h

LEMMA SelectStep ==
  ASSUME IInv, NEW c \in Callers, SelectBestAccount(c)
  PROVE  IInv'
<1> DEFINE S == {a \in GetActiveByProvider : Eligible(rows[a])}
           fallback == First({a \in GetActiveByProvider : Usable(rows[a])})
           T == IF S # {} THEN SelectAccount(S) ELSE fallback
<1>1. /\ UNCHANGED <<rows, cache, switched, strategy, changes, history>> /\ calls' = calls
      /\ started \in [Accounts -> Nat] /\ turn \in Nat
  BY DEF SelectBestAccount, IInv, TypeOK
<1>2. \A a \in T : a \in Accounts /\ rows[a].status \in {"active", "limited"}
  <2>1. SelectAccount(S) \subseteq S /\ fallback \subseteq GetActiveByProvider
    BY Selects DEF First
  <2> QED
    BY <2>1 DEF GetActiveByProvider
<1>3. ASSUME NEW a \in T, job' = [job EXCEPT ![c].pc = "store", ![c].copy = Copy(a)],
             \/ /\ started' = [started EXCEPT ![a] = @ + 1]
                /\ turn' = turn + (IF strategy = "round_robin" THEN 1 ELSE 0)
             \/ UNCHANGED <<started, turn>>
      PROVE  IInv'
  <2> DEFINE j == Carrying(job[c], "store", Copy(a))
  <2>1. a \in Accounts /\ Copy(a) \in Copies /\ Copy(a).id = a /\ Noticed(Copy(a))
    BY <1>2, <1>3, CopyInService
  <2>2. j \in Jobs /\ JobOK(j) /\ j.op = job[c].op
    BY <2>1, JobFacts, CarryingJob
  <2>3. job' = [job EXCEPT ![c] = j]
    BY <1>3 DEF Carrying, IInv, TypeOK
  <2>4. turn' \in Nat /\ started' \in [Accounts -> Nat]
    BY <1>1, <1>3, <2>1
  <2> HIDE DEF j
  <2> QED
    BY <1>1, <2>2, <2>3, <2>4, GoesOn DEF Switching
<1>4. ASSUME Done(c), UNCHANGED <<started, turn>> PROVE IInv'
  BY <1>1, <1>4, GivesUp DEF balancer
<1>5. \/ \E a \in T :
            /\ job' = [job EXCEPT ![c].pc = "store", ![c].copy = Copy(a)]
            /\ \/ /\ started' = [started EXCEPT ![a] = @ + 1]
                  /\ turn' = turn + (IF strategy = "round_robin" THEN 1 ELSE 0)
               \/ UNCHANGED <<started, turn>>
      \/ Done(c) /\ UNCHANGED <<started, turn>>
  BY Zenon DEF SelectBestAccount
<1> QED
  BY <1>3, <1>4, <1>5

-----------------------------------------------------------------------------
(* Switching and failing over *)

LEMMA NoJobOK == JobOK(NoJob) /\ NoJob \in Jobs /\ NoJob.op # "switch"
BY NoneTypes DEF JobOK, Carries

LEMMA StoreStep ==
  ASSUME IInv, NEW c \in Callers, StoreSelected(c)
  PROVE  IInv'
<1>1. /\ job[c].pc = "store" /\ cache' = job[c].copy /\ job' = [job EXCEPT ![c] = NoJob]
      /\ UNCHANGED <<rows, switched, balancer, calls, changes, unseen, hasty, crowded>>
  BY DEF StoreSelected, At, Done, history
<1>2. job[c].copy \in Copies /\ Noticed(job[c].copy)
  BY <1>1, JobFacts DEF JobOK, Carries
<1>3. strategy' \in Strategies /\ turn' \in Nat /\ started' \in [Accounts -> Nat]
      /\ calls' \in 0..MaxCalls
  BY <1>1 DEF balancer, IInv, TypeOK
<1>4. UNCHANGED <<rows, unseen>> /\ UNCHANGED <<switched, hasty, crowded, changes>>
  BY <1>1
<1> QED
  BY <1>1, <1>2, <1>3, <1>4, NoJobOK, RowsKept, Goes

LEMMA InstallStep ==
  ASSUME IInv, NEW c \in Callers, Install(c)
  PROVE  IInv'
<1>1. /\ job[c].pc = "install" /\ cache' = job[c].copy /\ job' = [job EXCEPT ![c] = NoJob]
      /\ UNCHANGED <<rows, balancer, calls, changes, unseen, crowded>>
      /\ switched' = (switched \/ Switching(c))
      /\ hasty' = (hasty \/ (switched /\ Switching(c)))
  BY DEF Install, At, Done
<1>2. job[c].copy \in Copies /\ Noticed(job[c].copy)
  BY <1>1, JobFacts DEF JobOK, Carries
<1>3. /\ job' \in [Callers -> Jobs] /\ job'[c] = NoJob
      /\ \A d \in Callers : d # c => job'[d] = job[d]
  BY <1>1, NoJobOK DEF IInv, TypeOK
<1>4. TypeOK'
  <2>1. switched' \in BOOLEAN /\ hasty' \in BOOLEAN
    BY <1>1, Zenon
  <2>2. UNCHANGED <<strategy, turn, started>>
    BY <1>1 DEF balancer
  <2> QED
    BY <1>1, <1>2, <1>3, <2>1, <2>2 DEF IInv, TypeOK
<1>5. JobsOK'
  BY <1>1, <1>3, NoJobOK DEF IInv, JobsOK, JobOK, Carries, Noticed
<1>6. RefreshTakesEffect'
  BY <1>1, <1>2 DEF RefreshTakesEffect, Noticed
<1>7. SwitchesCounted'
  <2> SUFFICES ASSUME NEW d \in Callers, Switching(d)'
               PROVE  (switched' => crowded') /\ \A e \in Callers : e # d /\ Switching(e)' => crowded'
    BY DEF SwitchesCounted
  <2>1. d # c /\ Switching(d) /\ \A e \in Callers : Switching(e)' => Switching(e)
    BY <1>3, NoJobOK DEF Switching
  <2>2. switched => crowded
    BY <2>1 DEF IInv, SwitchesCounted
  <2>3. \A e \in Callers : e # d /\ Switching(e) => crowded
    BY <2>1 DEF IInv, SwitchesCounted
  <2> QED
    BY <1>1, <2>1, <2>2, <2>3
<1>8. CooldownKept'
  <2>1. hasty => crowded
    BY DEF IInv, CooldownKept
  <2>2. switched /\ Switching(c) => crowded
    BY DEF IInv, SwitchesCounted
  <2> QED
    BY <1>1, <2>1, <2>2 DEF CooldownKept
<1> QED
  BY <1>4, <1>5, <1>6, <1>7, <1>8 DEF IInv

LEMMA SwitchAccountStep ==
  ASSUME IInv, NEW c \in Callers, SwitchAccount(c)
  PROVE  IInv'
<1> DEFINE j == [job[c] EXCEPT !.op = "switch", !.pc = "target"]
<1>1. /\ ~switched /\ calls' = calls + 1 /\ calls < MaxCalls
      /\ UNCHANGED <<rows, cache, switched, balancer, changes, unseen, hasty>>
      /\ job' = [job EXCEPT ![c] = j]
  BY DEF SwitchAccount, Begin, IInv, TypeOK
<1>2. crowded' = (crowded \/ \E d \in Callers : Switching(d))
  BY DEF SwitchAccount
<1>3. j \in Jobs /\ j.pc = "target" /\ j.op = "switch"
  BY JobFacts DEF Jobs, Points
<1> HIDE DEF j
<1>4. /\ job' \in [Callers -> Jobs] /\ job'[c] = j
      /\ \A d \in Callers : d # c => job'[d] = job[d]
  BY <1>1, <1>3 DEF IInv, TypeOK
<1>5. TypeOK'
  <2>1. crowded' \in BOOLEAN
    BY <1>2, Zenon
  <2>2. UNCHANGED <<strategy, turn, started>> /\ calls' \in 0..MaxCalls
    BY <1>1, ManagerAssumption DEF balancer, IInv, TypeOK
  <2> QED
    BY <1>1, <1>4, <2>1, <2>2 DEF IInv, TypeOK
<1>6. JobsOK' /\ RefreshTakesEffect'
  BY <1>1, <1>3, <1>4 DEF IInv, JobsOK, JobOK, Carries, Noticed, RefreshTakesEffect
<1>7. SwitchesCounted'
  <2> SUFFICES ASSUME NEW d \in Callers, NEW e \in Callers, d # e, Switching(d)', Switching(e)'
               PROVE  crowded'
    BY <1>1 DEF SwitchesCounted
  <2>1. Switching(d) \/ Switching(e)
    BY <1>4 DEF Switching
  <2> QED
    BY <1>2, <2>1
<1>8. CooldownKept'
  BY <1>1, <1>2 DEF IInv, CooldownKept
<1> QED
  BY <1>5, <1>6, <1>7, <1>8 DEF IInv

\* The account to switch to, or to fall back on, is in service when it is read.
LEMMA TargetStep ==
  ASSUME IInv, NEW c \in Callers, ReadTarget(c) \/ GetNextAvailable(c)
  PROVE  IInv'
<1>1. /\ UNCHANGED <<rows, cache, switched, balancer, calls, changes, history>>
      /\ UNCHANGED <<rows, cache, switched, balancer, changes, history>>
      /\ UNCHANGED <<rows, cache, switched, strategy, changes, history>> /\ calls' = calls
      /\ turn' \in Nat /\ started' \in [Accounts -> Nat]
  BY DEF ReadTarget, GetNextAvailable, balancer, IInv, TypeOK
<1>2. Done(c) \/ \E a \in Active : job' = [job EXCEPT ![c].pc = "clear", ![c].copy = Copy(a)]
  <2>1. First(Active \ {job[c].copy.id}) \subseteq Active
    BY DEF First
  <2> QED
    BY <2>1 DEF ReadTarget, GetNextAvailable
<1>3. ASSUME NEW a \in Active, job' = [job EXCEPT ![c].pc = "clear", ![c].copy = Copy(a)]
      PROVE  IInv'
  <2> DEFINE j == Carrying(job[c], "clear", Copy(a))
  <2>1. a \in Accounts /\ Copy(a) \in Copies /\ Copy(a).id = a /\ Noticed(Copy(a))
    BY <1>3, CopyInService DEF Active
  <2>2. j \in Jobs /\ JobOK(j) /\ j.op = job[c].op
    BY <2>1, JobFacts, CarryingJob
  <2>3. job' = [job EXCEPT ![c] = j]
    BY <1>3 DEF Carrying, IInv, TypeOK
  <2> HIDE DEF j
  <2> QED
    BY <1>1, <2>2, <2>3, GoesOn DEF Switching
<1> QED
  BY <1>1, <1>2, <1>3, GivesUp

\* The rows are rewritten, or the statement fails; the job goes on or ends.
LEMMA RewritesAndGoes ==
  ASSUME IInv, NEW c \in Callers, NEW j \in Jobs, job' = [job EXCEPT ![c] = j], JobOK(j),
         j.op = "switch" => Switching(c),
         NEW R \in [Accounts -> Rows], Rewrite(R) \/ UNCHANGED <<rows, history>>,
         UNCHANGED <<cache, switched, balancer, changes>>,
         calls' = calls \/ (calls < MaxCalls /\ calls' = calls + 1)
  PROVE  IInv'
<1>1. StillNoticed /\ rows' \in [Accounts -> Rows] /\ unseen' \subseteq Accounts
      /\ UNCHANGED <<hasty, crowded>>
  <2>1. CASE Rewrite(R)
    BY <2>1, Rewrites DEF IInv, TypeOK
  <2>2. CASE UNCHANGED <<rows, history>>
    BY <2>2, RowsKept DEF history
  <2> QED
    BY <2>1, <2>2
<1>2. cache \in Copies /\ cache' = cache /\ Noticed(cache)
  BY DEF IInv, TypeOK, RefreshTakesEffect, Noticed
<1>3. /\ strategy' \in Strategies /\ turn' \in Nat /\ started' \in [Accounts -> Nat]
      /\ calls' \in 0..MaxCalls
  BY ManagerAssumption DEF balancer, IInv, TypeOK
<1> QED
  BY <1>1, <1>2, <1>3, Goes

\* The job after a statement of SetDefault, or of a failure.
LEMMA NextPoint ==
  ASSUME IInv, NEW c \in Callers, NEW p \in {"set", "install", "error", "next"},
         job[c].pc \in {"clear", "set", "status", "error"},
         p \in {"set", "install"} => job[c].pc \in {"clear", "set"}
  PROVE  LET j == [job[c] EXCEPT !.pc = p] IN
         j \in Jobs /\ JobOK(j) /\ (j.op = "switch" => Switching(c))
<1> DEFINE j == [job[c] EXCEPT !.pc = p]
<1>1. j \in Jobs /\ j.pc = p /\ j.copy = job[c].copy /\ j.op = job[c].op
  BY JobFacts DEF Jobs, Points
<1> HIDE DEF j
<1>2. job[c].copy.id \in Accounts
  BY JobFacts DEF JobOK
<1>3. p \in {"set", "install"} => Noticed(job[c].copy)
  BY JobFacts DEF JobOK, Carries
<1>4. JobOK(j)
  BY <1>1, <1>2, <1>3 DEF JobOK, Carries
<1> QED
  BY <1>1, <1>4 DEF Switching, j

LEMMA SetDefaultStep ==
  ASSUME IInv, NEW c \in Callers, ClearDefaults(c) \/ SetDefault(c)
  PROVE  IInv'
<1>1. /\ UNCHANGED <<cache, switched, balancer, calls, changes>>
      /\ UNCHANGED <<cache, switched, balancer, changes>> /\ calls' = calls
      /\ job[c].pc \in {"clear", "set"} /\ job[c].copy.id \in Accounts
      /\ rows \in [Accounts -> Rows]
  BY JobFacts DEF ClearDefaults, SetDefault, At, JobOK, IInv, TypeOK
<1>2. ASSUME NEW R \in [Accounts -> Rows], Rewrite(R) \/ UNCHANGED <<rows, history>>, Done(c)
      PROVE  IInv'
  BY <1>1, <1>2, NoJobOK, RewritesAndGoes DEF Done
<1>3. ASSUME NEW R \in [Accounts -> Rows], Rewrite(R) \/ UNCHANGED <<rows, history>>,
             NEW p \in {"set", "install"}, Goto(c, p)
      PROVE  IInv'
  <2> DEFINE j == [job[c] EXCEPT !.pc = p]
  <2>1. j \in Jobs /\ JobOK(j) /\ (j.op = "switch" => Switching(c))
    BY <1>1, <1>3, NextPoint
  <2>2. job' = [job EXCEPT ![c] = j]
    BY <1>3 DEF Goto
  <2> HIDE DEF j
  <2> QED
    BY <1>1, <1>3, <2>1, <2>2, RewritesAndGoes
<1>4. ASSUME ClearDefaults(c) PROVE IInv'
  <2> DEFINE R == [a \in Accounts |-> [rows[a] EXCEPT !.default = FALSE]]
  <2>1. R \in [Accounts -> Rows]
    BY <1>1, RowChanges
  <2>2. \/ Rewrite(R) /\ Goto(c, "set")
        \/ UNCHANGED <<rows, history>> /\ (Done(c) \/ Goto(c, "install"))
    BY <1>4 DEF ClearDefaults
  <2> HIDE DEF R
  <2> QED
    BY <1>2, <1>3, <2>1, <2>2
<1>5. ASSUME SetDefault(c) PROVE IInv'
  <2> DEFINE a == job[c].copy.id
             R == [rows EXCEPT ![a].default = TRUE]
  <2>1. R \in [Accounts -> Rows]
    BY <1>1, RowChanges
  <2>2. \/ (Rewrite(R) \/ UNCHANGED <<rows, history>>) /\ Goto(c, "install")
        \/ UNCHANGED <<rows, history>> /\ (Done(c) \/ Goto(c, "install"))
    BY <1>5 DEF SetDefault
  <2> HIDE DEF R
  <2> QED
    BY <1>2, <1>3, <2>1, <2>2
<1> QED
  BY <1>4, <1>5

-----------------------------------------------------------------------------
(* Failures and refreshes *)

LEMMA HandleFailureStep ==
  ASSUME IInv, NEW c \in Callers, HandleAccountFailure(c)
  PROVE  IInv'
<1>1. /\ calls < MaxCalls /\ calls' = calls + 1
      /\ UNCHANGED <<rows, cache, switched, balancer, changes, history>>
  BY DEF HandleAccountFailure
<1>2. PICK a \in Accounts, s \in {"limited", "exhausted", "active"} :
        job' = [job EXCEPT ![c] = [NoJob EXCEPT !.op = "fail", !.pc = "status",
                                                !.copy = [NoCopy EXCEPT !.id = a], !.mark = s]]
  BY Zenon DEF HandleAccountFailure, Kinds
<1> DEFINE k == [NoCopy EXCEPT !.id = a]
           j == [NoJob EXCEPT !.op = "fail", !.pc = "status", !.copy = k, !.mark = s]
<1>3. k \in Copies /\ k.id = a
  BY NoneTypes DEF Copies
<1>4. job' = [job EXCEPT ![c] = j]
  BY <1>2
<1> HIDE DEF k
<1>5. j \in Jobs /\ j.op = "fail" /\ j.pc = "status" /\ j.copy = k
  BY <1>3, NoneTypes DEF Jobs, Points, Statuses
<1> HIDE DEF j
<1>6. JobOK(j)
  BY <1>3, <1>5 DEF JobOK, Carries
<1>7. strategy' = strategy /\ turn' \in Nat /\ started' \in [Accounts -> Nat]
  BY <1>1 DEF balancer, IInv, TypeOK
<1> QED
  BY <1>1, <1>4, <1>5, <1>6, <1>7, GoesOn

LEMMA MarkStep ==
  ASSUME IInv, NEW c \in Callers, MarkFailed(c) \/ RecordError(c)
  PROVE  IInv'
<1>1. /\ UNCHANGED <<cache, switched, balancer, changes>> /\ calls' = calls
      /\ job[c].pc \in {"status", "error"} /\ job[c].copy.id \in Accounts
      /\ job[c].mark \in Statuses /\ rows \in [Accounts -> Rows]
  BY JobFacts, JobChanges DEF MarkFailed, RecordError, At, JobOK, IInv, TypeOK
<1> DEFINE a == job[c].copy.id
<1>2. ASSUME NEW r \in Rows, Rewrite([rows EXCEPT ![a] = r]) \/ UNCHANGED <<rows, history>>,
             NEW p \in {"error", "next"}, Goto(c, p)
      PROVE  IInv'
  <2> DEFINE j == [job[c] EXCEPT !.pc = p]
             R == [rows EXCEPT ![a] = r]
  <2>1. j \in Jobs /\ JobOK(j) /\ (j.op = "switch" => Switching(c))
    BY <1>1, <1>2, NextPoint
  <2>2. job' = [job EXCEPT ![c] = j]
    BY <1>2 DEF Goto
  <2>3. R \in [Accounts -> Rows]
    BY <1>1
  <2>4. Rewrite(R) \/ UNCHANGED <<rows, history>>
    BY <1>2
  <2> HIDE DEF j, R
  <2> QED
    BY <1>1, <2>1, <2>2, <2>3, <2>4, RewritesAndGoes
<1>3. Marked(rows[a], job[c].mark) \in Rows /\ Failed(rows[a]) \in Rows
  BY <1>1, RowChanges
<1>4. \/ /\ Rewrite([rows EXCEPT ![a] = Marked(rows[a], job[c].mark)]) \/ UNCHANGED <<rows, history>>
         /\ Goto(c, "error")
      \/ /\ Rewrite([rows EXCEPT ![a] = Failed(rows[a])]) \/ UNCHANGED <<rows, history>>
         /\ Goto(c, "next")
  BY DEF MarkFailed, RecordError
<1> HIDE DEF a
<1> QED
  BY <1>2, <1>3, <1>4

\* A refresh begins with nothing in hand.
LEMMA RefreshBegins ==
  ASSUME IInv, NEW c \in Callers, Begin(c, "refresh", "refresh")
  PROVE  \E j \in Jobs : job' = [job EXCEPT ![c] = j] /\ JobOK(j) /\ j.op # "switch"
<1> DEFINE j == [job[c] EXCEPT !.op = "refresh", !.pc = "refresh"]
<1>1. job[c] = NoJob
  BY JobFacts DEF Begin, At, JobOK
<1>2. j \in Jobs /\ j.op = "refresh" /\ j.pc = "refresh" /\ j.copy = NoCopy
  BY <1>1, NoneTypes DEF Jobs, Points
<1>3. job' = [job EXCEPT ![c] = j]
  BY DEF Begin, IInv, TypeOK
<1> HIDE DEF j
<1>4. JobOK(j)
  BY <1>2 DEF JobOK, Carries
<1> QED
  BY <1>2, <1>3, <1>4

LEMMA RefreshStep ==
  ASSUME IInv, NEW c \in Callers, ForceRefreshCache(c) \/ ManualRecoverAccount(c)
  PROVE  IInv'
<1>1. Begin(c, "refresh", "refresh") /\ calls < MaxCalls /\ calls' = calls + 1
      /\ UNCHANGED <<cache, switched, balancer, changes>>
  BY DEF ForceRefreshCache, ManualRecoverAccount, Begin
<1>2. PICK j \in Jobs : job' = [job EXCEPT ![c] = j] /\ JobOK(j) /\ j.op # "switch"
  BY <1>1, RefreshBegins
<1>3. \E R \in [Accounts -> Rows] : Rewrite(R) \/ UNCHANGED <<rows, history>>
  <2>1. rows \in [Accounts -> Rows] /\ "active" \in Statuses
    BY DEF IInv, TypeOK, Statuses
  <2>2. CASE ForceRefreshCache(c)
    BY <2>1, <2>2 DEF ForceRefreshCache
  <2>3. CASE ManualRecoverAccount(c)
    <3>1. PICK a \in Accounts : Rewrite([rows EXCEPT ![a] = Marked(rows[a], "active")])
      BY <2>3 DEF ManualRecoverAccount
    <3>2. Marked(rows[a], "active") \in Rows
      BY <2>1, RowChanges
    <3> QED
      BY <2>1, <3>1, <3>2
  <2> QED
    BY <2>2, <2>3
<1> QED
  BY <1>1, <1>2, <1>3, RewritesAndGoes

\* What a refresh reads is not among the accounts that it saw retired.
LEMMA ReadDefaultStep ==
  ASSUME IInv, NEW c \in Callers, ReadDefault(c)
  PROVE  IInv'
<1> DEFINE gone == {b \in Accounts : Retired(rows[b])}
<1>1. /\ job[c].pc = "refresh" /\ job[c].copy = NoCopy /\ job[c] \in Jobs
      /\ UNCHANGED <<rows, cache, switched, strategy, changes, history>> /\ calls' = calls
      /\ turn' \in Nat /\ started' \in [Accounts -> Nat]
  BY JobFacts DEF ReadDefault, At, JobOK, balancer, IInv, TypeOK
<1>2. ASSUME NEW k \in Copies, k.id \notin gone, Noticed(k),
             job' = [job EXCEPT ![c] = [job[c] EXCEPT !.pc = "replace", !.copy = k, !.gone = gone]]
      PROVE  IInv'
  <2> DEFINE j == [job[c] EXCEPT !.pc = "replace", !.copy = k, !.gone = gone]
  <2>1. gone \subseteq Accounts
    OBVIOUS
  <2>2. job' = [job EXCEPT ![c] = j]
    BY <1>2
  <2>3. k.id \notin gone
    BY <1>2
  <2> HIDE DEF gone
  <2>4. j \in Jobs /\ j.pc = "replace" /\ j.copy = k /\ j.gone = gone /\ j.op = job[c].op
    BY <1>1, <2>1 DEF Jobs, Points
  <2> HIDE DEF j
  <2>5. JobOK(j)
    BY <1>2, <2>3, <2>4 DEF JobOK, Carries
  <2> QED
    BY <1>1, <2>2, <2>4, <2>5, GoesOn DEF Switching
<1>3. ASSUME NEW a \in GetDefaultByProvider,
             job' = [job EXCEPT ![c].pc = "replace", ![c].copy = Copy(a), ![c].gone = gone]
      PROVE  IInv'
  <2>1. a \in Active
    BY DEF GetDefaultByProvider, First
  <2>2. a \in Accounts /\ rows[a].status = "active"
    BY <2>1 DEF Active
  <2>3. Copy(a) \in Copies /\ Copy(a).id = a /\ Noticed(Copy(a))
    BY <2>2, CopyInService
  <2>4. Copy(a).id \notin gone
    BY <2>2, <2>3 DEF Retired
  <2>5. job' = [job EXCEPT ![c] = [job[c] EXCEPT !.pc = "replace", !.copy = Copy(a), !.gone = gone]]
    BY <1>3 DEF IInv, TypeOK
  <2> HIDE DEF gone
  <2> QED
    BY <1>2, <2>3, <2>4, <2>5
<1>4. ASSUME job' = [job EXCEPT ![c].pc = "replace", ![c].gone = gone]
      PROVE  IInv'
  <2>1. NoCopy.id \notin gone /\ NoCopy \in Copies /\ Noticed(NoCopy)
    BY NoneTypes, ManagerAssumption DEF Noticed
  <2>2. [job[c] EXCEPT !.pc = "replace", !.gone = gone]
          = [job[c] EXCEPT !.pc = "replace", !.copy = NoCopy, !.gone = gone]
    BY <1>1 DEF Jobs
  <2>3. job' = [job EXCEPT ![c] = [job[c] EXCEPT !.pc = "replace", !.gone = gone]]
    BY <1>4 DEF IInv, TypeOK
  <2> HIDE DEF gone
  <2> QED
    BY <1>2, <2>1, <2>2, <2>3
<1> QED
  BY <1>3, <1>4, Zenon DEF ReadDefault

\* No other copy is on its way when the refresh's own takes its place.
LEMMA ReplaceStep ==
  ASSUME IInv, NEW c \in Callers, ReplaceCache(c)
  PROVE  IInv'
<1>1. /\ job[c].pc = "replace" /\ cache' = job[c].copy /\ job' = [job EXCEPT ![c] = NoJob]
      /\ UNCHANGED <<rows, switched, strategy, turn, started, calls, changes, hasty, crowded>>
      /\ unseen' = IF Racing(c) THEN unseen ELSE unseen \ job[c].gone
  BY DEF ReplaceCache, At, Done, Seen, balancer
<1>2. /\ job[c].copy \in Copies /\ Noticed(job[c].copy) /\ job[c].copy.id \notin job[c].gone
      /\ job[c].gone \subseteq Accounts
  BY <1>1, JobFacts DEF JobOK, Carries
<1>3. /\ job' \in [Callers -> Jobs] /\ job'[c] = NoJob
      /\ \A d \in Callers : d # c => job'[d] = job[d]
  BY <1>1, NoJobOK DEF IInv, TypeOK
<1>4. TypeOK'
  BY <1>1, <1>2, <1>3 DEF IInv, TypeOK
<1>5. JobsOK'
  <2> SUFFICES ASSUME NEW d \in Callers PROVE JobOK(job[d])'
    BY DEF JobsOK
  <2>1. CASE d = c
    BY <1>3, <2>1, NoneTypes DEF JobOK, Carries
  <2>2. CASE d # c /\ Carries(job[d])
    <3>1. Racing(c)
      BY <2>2 DEF Racing, Carries
    <3> QED
      BY <1>1, <1>3, <2>2, <3>1 DEF IInv, JobsOK, JobOK, Carries, Noticed
  <2>3. CASE d # c /\ ~Carries(job[d])
    BY <1>3, <2>3, JobFacts DEF JobOK, Carries
  <2> QED
    BY <2>1, <2>2, <2>3
<1>6. RefreshTakesEffect'
  BY <1>1, <1>2 DEF RefreshTakesEffect, Noticed
<1>7. \A d \in Callers : Switching(d)' => Switching(d)
  BY <1>3, NoJobOK DEF Switching
<1>8. SwitchesCounted' /\ CooldownKept'
  BY <1>1, <1>7 DEF SwitchesCounted, CooldownKept, IInv
<1> QED
  BY <1>4, <1>5, <1>6, <1>8 DEF IInv

-----------------------------------------------------------------------------
(* Changes behind the manager *)

LEMMA ChangeStep ==
  ASSUME IInv, NEW R \in [Accounts -> Rows], Change(R)
  PROVE  IInv'
<1>1. /\ StillNoticed /\ rows' \in [Accounts -> Rows] /\ unseen' \subseteq Accounts
      /\ UNCHANGED <<hasty, crowded>>
  BY Rewrites DEF Change, IInv, TypeOK
<1>2. /\ UNCHANGED <<cache, switched, strategy, turn, started, job, calls>>
      /\ changes' \in 0..MaxChanges
  BY ManagerAssumption DEF Change, balancer, IInv, TypeOK
<1>3. TypeOK'
  BY <1>1, <1>2 DEF IInv, TypeOK
<1>4. JobsOK'
  <2> SUFFICES ASSUME NEW c \in Callers PROVE JobOK(job[c])'
    BY DEF JobsOK
  <2>1. Carries(job[c]) => Noticed(job[c].copy)'
    BY <1>1, <1>2, JobFacts, NoticeKept DEF JobOK, Noticed
  <2> QED
    BY <1>2, <2>1, JobFacts DEF JobOK, Carries
<1>5. RefreshTakesEffect'
  <2>1. cache \in Copies /\ Noticed(cache)
    BY DEF IInv, TypeOK, RefreshTakesEffect, Noticed
  <2> QED
    BY <1>1, <1>2, <2>1, NoticeKept DEF RefreshTakesEffect
<1>6. SwitchesCounted' /\ CooldownKept'
  BY <1>1, <1>2 DEF SwitchesCounted, CooldownKept, Switching, IInv
<1> QED
  BY <1>3, <1>4, <1>5, <1>6 DEF IInv

LEMMA ChangesStep ==
  ASSUME IInv, NEW a \in Accounts,
         \/ CreateDedicatedAccount(a) \/ DeleteAccount(a) \/ Fail(a) \/ IncrementUsage(a)
         \/ \E s \in Statuses \ {"none", "deleted"} : UpdateStatus(a, s)
  PROVE  IInv'
<1>1. rows \in [Accounts -> Rows] /\ rows[a] \in Rows
  BY DEF IInv, TypeOK
<1>2. ASSUME NEW r \in Rows, Change([rows EXCEPT ![a] = r]) PROVE IInv'
  <2>1. [rows EXCEPT ![a] = r] \in [Accounts -> Rows]
    BY <1>1
  <2> QED
    BY <1>2, <2>1, ChangeStep
<1>3. CASE CreateDedicatedAccount(a)
  <2>1. [NewRow EXCEPT !.default = TRUE] \in Rows
    BY NoneTypes, RowChanges
  <2> QED
    BY <1>2, <1>3, <2>1 DEF CreateDedicatedAccount
<1>4. CASE DeleteAccount(a)
  <2>1. [NoRow EXCEPT !.status = "deleted"] \in Rows
    BY NoneTypes DEF Rows, Statuses
  <2> QED
    BY <1>2, <1>4, <2>1 DEF DeleteAccount
<1>5. CASE Fail(a)
  BY <1>1, <1>2, <1>5, RowChanges DEF Fail
<1>6. CASE IncrementUsage(a)
  <2> DEFINE r == [rows[a] EXCEPT !.spent = rows[a].spent + 1, !.errors = 0]
  <2>1. r \in Rows
    BY <1>1, <1>6, ManagerAssumption DEF IncrementUsage, Rows
  <2>2. Change([rows EXCEPT ![a] = r])
    <3>1. [rows EXCEPT ![a].spent = @ + 1, ![a].errors = 0] = [rows EXCEPT ![a] = r]
      BY <1>1
    <3> QED
      BY <1>6, <3>1 DEF IncrementUsage
  <2> HIDE DEF r
  <2> QED
    BY <1>2, <2>1, <2>2
<1>7. ASSUME NEW s \in Statuses, UpdateStatus(a, s) PROVE IInv'
  <2>1. Marked(rows[a], s) \in Rows
    BY <1>1, RowChanges
  <2> QED
    BY <1>2, <1>7, <2>1 DEF UpdateStatus
<1> QED
  BY <1>3, <1>4, <1>5, <1>6, <1>7

LEMMA StrategyStep ==
  ASSUME IInv, NEW s \in Strategies, SetLoadBalancerStrategy(s)
  PROVE  IInv'
<1>1. /\ UNCHANGED <<rows, cache, switched, turn, started, job, calls, unseen, hasty, crowded>>
      /\ strategy' = s /\ changes' \in 0..MaxChanges
  BY ManagerAssumption DEF SetLoadBalancerStrategy, history, IInv, TypeOK
<1> QED
  BY <1>1 DEF IInv, TypeOK, JobsOK, JobOK, Carries, Noticed, RefreshTakesEffect, SwitchesCounted,
              CooldownKept, Switching

LEMMA CooldownStep ==
  ASSUME IInv, CooldownEnds
  PROVE  IInv'
<1>1. /\ UNCHANGED <<rows, cache, strategy, turn, started, job, calls, changes, unseen, hasty, crowded>>
      /\ switched' = FALSE
  BY DEF CooldownEnds, history, balancer
<1> QED
  BY <1>1 DEF IInv, TypeOK, JobsOK, JobOK, Carries, Noticed, RefreshTakesEffect, SwitchesCounted,
              CooldownKept, Switching

\* A copy that grows older names the same account, and nothing is not an account.
LEMMA AgedCopies ==
  ASSUME NEW k \in Copies, NEW a \in Accounts
  PROVE  /\ AgedCopy(k, a) \in Copies /\ AgedCopy(k, a).id = k.id
         /\ k = NoCopy => AgedCopy(k, a) = NoCopy
<1>1. Aged(k.row) \in Rows
  BY RowChanges DEF Copies
<1>2. NoCopy.id # a
  BY NoneTypes, ManagerAssumption
<1> QED
  BY <1>1, <1>2 DEF AgedCopy, Copies

LEMMA AgeStep ==
  ASSUME IInv, NEW a \in Accounts, Age(a)
  PROVE  IInv'
<1>1. /\ rows' = [rows EXCEPT ![a] = Aged(rows[a])] /\ cache' = AgedCopy(cache, a)
      /\ job' = [c \in Callers |-> [job[c] EXCEPT !.copy = AgedCopy(job[c].copy, a)]]
      /\ UNCHANGED <<switched, strategy, turn, started, calls, changes, unseen, hasty, crowded>>
  BY DEF Age, history, balancer
<1>2. /\ rows \in [Accounts -> Rows] /\ rows' \in [Accounts -> Rows]
      /\ \A b \in Accounts : Retired(rows'[b]) <=> Retired(rows[b])
  BY <1>1, RowChanges DEF Retired, IInv, TypeOK
<1>3. cache' \in Copies /\ cache'.id = cache.id
  BY <1>1, AgedCopies DEF IInv, TypeOK
<1>4. ASSUME NEW c \in Callers
      PROVE  /\ job'[c] \in Jobs /\ job'[c].pc = job[c].pc /\ job'[c].op = job[c].op
             /\ job'[c].gone = job[c].gone /\ job'[c].copy.id = job[c].copy.id
             /\ job[c].copy = NoCopy => job'[c].copy = NoCopy
             /\ job[c] = NoJob => job'[c] = NoJob
  <2> DEFINE k == AgedCopy(job[c].copy, a)
  <2>1. k \in Copies /\ k.id = job[c].copy.id /\ (job[c].copy = NoCopy => k = NoCopy)
    BY AgedCopies, JobFacts
  <2>2. job'[c] = [job[c] EXCEPT !.copy = k]
    BY <1>1
  <2> HIDE DEF k
  <2>3. job[c] = NoJob => job'[c] = NoJob
    BY <2>1, <2>2, NoneTypes DEF NoJob
  <2> QED
    BY <2>1, <2>2, <2>3, JobFacts DEF Jobs
<1>5. TypeOK'
  <2>1. job' \in [Callers -> Jobs]
    BY <1>1, <1>4
  <2> QED
    BY <1>1, <1>2, <1>3, <2>1 DEF IInv, TypeOK
<1>6. JobsOK'
  <2> SUFFICES ASSUME NEW c \in Callers PROVE JobOK(job[c])'
    BY DEF JobsOK
  <2>1. Noticed(job[c].copy) => Noticed(job[c].copy)'
    BY <1>1, <1>2, <1>4, JobFacts DEF Noticed, Copies
  <2> QED
    BY <1>4, <2>1, JobFacts DEF JobOK, Carries
<1>7. RefreshTakesEffect'
  BY <1>1, <1>2, <1>3 DEF RefreshTakesEffect, IInv, TypeOK, Copies
<1>8. SwitchesCounted' /\ CooldownKept'
  BY <1>1, <1>4 DEF SwitchesCounted, CooldownKept, Switching, IInv
<1> QED
  BY <1>5, <1>6, <1>7, <1>8 DEF IInv

-----------------------------------------------------------------------------
(* The invariant *)

LEMMA Initially == Init => IInv
<1> SUFFICES ASSUME Init PROVE IInv
  OBVIOUS
<1>1. /\ cache = NoCopy /\ switched = FALSE /\ strategy \in Strategies /\ turn = 0
      /\ started = [a \in Accounts |-> 0] /\ job = [c \in Callers |-> NoJob]
      /\ calls = 0 /\ changes = 0 /\ unseen = {} /\ hasty = FALSE /\ crowded = FALSE
  BY DEF Init
<1>2. rows \in [Accounts -> Rows]
  <2>1. PICK D \in SUBSET {a \in Accounts : Owner[a] # Public} :
          rows = [a \in Accounts |->
                    IF Owner[a] = Public
                    THEN [NewRow EXCEPT !.default = \A b \in Accounts : Owner[b] = Public => Rank[a] <= Rank[b]]
                    ELSE IF a \in D THEN [NewRow EXCEPT !.default = TRUE] ELSE NoRow]
    BY DEF Init
  <2>2. \A b \in BOOLEAN : [NewRow EXCEPT !.default = b] \in Rows
    BY NoneTypes, RowChanges
  <2>3. \A a \in Accounts :
          (\A b \in Accounts : Owner[b] = Public => Rank[a] <= Rank[b]) \in BOOLEAN
    BY Zenon
  <2>4. \A a \in Accounts : rows[a] \in Rows
    BY <2>1, <2>2, <2>3, NoneTypes
  <2> QED
    BY <2>1, <2>4
<1>3. TypeOK
  <2>1. job \in [Callers -> Jobs] /\ started \in [Accounts -> Nat] /\ turn \in Nat
    BY <1>1, NoneTypes
  <2>2. calls \in 0..MaxCalls /\ changes \in 0..MaxChanges
    BY <1>1, ManagerAssumption
  <2>3. cache \in Copies /\ strategy \in Strategies /\ unseen \subseteq Accounts
    BY <1>1, NoneTypes
  <2>4. switched \in BOOLEAN /\ hasty \in BOOLEAN /\ crowded \in BOOLEAN
    BY <1>1
  <2> QED
    BY <1>2, <2>1, <2>2, <2>3, <2>4 DEF TypeOK
<1>4. JobsOK
  BY <1>1, NoJobOK DEF JobsOK
<1>5. RefreshTakesEffect /\ SwitchesCounted /\ CooldownKept
  BY <1>1, NoneTypes, NoJobOK DEF RefreshTakesEffect, SwitchesCounted, CooldownKept, Switching
<1> QED
  BY <1>3, <1>4, <1>5 DEF IInv

LEMMA Step == IInv /\ [Next]_vars => IInv'
<1> SUFFICES ASSUME IInv, [Next]_vars PROVE IInv'
  OBVIOUS
<1>1. ASSUME NEW c \in Callers, GetUpstreamConfig(c) \/ GetForTenant(c) \/ ReadCache(c)
      PROVE  IInv'
  BY <1>1, GetStep
<1>2. ASSUME NEW c \in Callers, SelectBestAccount(c) \/ StoreSelected(c) PROVE IInv'
  BY <1>2, SelectStep, StoreStep
<1>3. ASSUME NEW c \in Callers, SwitchAccount(c) \/ Install(c) PROVE IInv'
  BY <1>3, SwitchAccountStep, InstallStep
<1>4. ASSUME NEW c \in Callers, ReadTarget(c) \/ GetNextAvailable(c) PROVE IInv'
  BY <1>4, TargetStep
<1>5. ASSUME NEW c \in Callers, ClearDefaults(c) \/ SetDefault(c) PROVE IInv'
  BY <1>5, SetDefaultStep
<1>6. ASSUME NEW c \in Callers, HandleAccountFailure(c) PROVE IInv'
  BY <1>6, HandleFailureStep
<1>7. ASSUME NEW c \in Callers, MarkFailed(c) \/ RecordError(c) PROVE IInv'
  BY <1>7, MarkStep
<1>8. ASSUME NEW c \in Callers, ForceRefreshCache(c) \/ ManualRecoverAccount(c) PROVE IInv'
  BY <1>8, RefreshStep
<1>9. ASSUME NEW c \in Callers, ReadDefault(c) \/ ReplaceCache(c) PROVE IInv'
  BY <1>9, ReadDefaultStep, ReplaceStep
<1>10. ASSUME NEW a \in Accounts,
              \/ CreateDedicatedAccount(a) \/ DeleteAccount(a) \/ Fail(a) \/ IncrementUsage(a)
              \/ \E s \in Statuses \ {"none", "deleted"} : UpdateStatus(a, s)
       PROVE  IInv'
  BY <1>10, ChangesStep
<1>11. ASSUME NEW a \in Accounts, Age(a) PROVE IInv'
  BY <1>11, AgeStep
<1>12. ASSUME NEW s \in Strategies, SetLoadBalancerStrategy(s) PROVE IInv'
  BY <1>12, StrategyStep
<1>13. CASE CooldownEnds
  BY <1>13, CooldownStep
<1>14. CASE UNCHANGED vars
  BY <1>14 DEF vars, balancer, history, IInv, TypeOK, JobsOK, JobOK, Carries, Noticed,
               RefreshTakesEffect, SwitchesCounted, CooldownKept, Switching
<1> QED
  BY <1>1, <1>2, <1>3, <1>4, <1>5, <1>6, <1>7, <1>8, <1>9, <1>10, <1>11, <1>12, <1>13, <1>14
     DEF Next, AdminRoutes, Continue

LEMMA Invariant == Spec => []IInv
BY Initially, Step, PTL DEF Spec

\* Rows, copies of them in the cache and in the goroutines' hands, and the balancer's
\* counters keep their types through every interleaving of requests, switches,
\* failovers and refreshes.
THEOREM TypeCorrect == Spec => []TypeOK
<1>1. IInv => TypeOK
  BY DEF IInv
<1> QED
  BY <1>1, Invariant, PTL

\* RefreshCache reads the default account and stores it without a lock held across
\* the two; what it removes can come back only in the hands of an operation that had
\* read the row before.
THEOREM RefreshesTakeEffect == Spec => []RefreshTakesEffect
<1>1. IInv => RefreshTakesEffect
  BY DEF IInv
<1> QED
  BY <1>1, Invariant, PTL

\* SwitchAccount checks the cooldown under a lock that it releases before it reads and
\* writes the rows: only switches under way together can both be made in one cooldown.
THEOREM CooldownIsKept == Spec => []CooldownKept
<1>1. IInv => CooldownKept
  BY DEF IInv
<1> QED
  BY <1>1, Invariant, PTL

-----------------------------------------------------------------------------
(* CircuitBreaker *)

\* The counters the code keeps agree with what really happened: a trial has let
\* through the request that started it and those it counted; the failures
\* (successes) counted are all in the current run of failures (successes).
CountersJustified ==
    /\ state = "half-open" => probes = halfOpenReq + 1
    /\ state = "half-open" => successes <= good
    /\ state = "closed" => failures <= bad

BreakerInv == BreakerTypeOK /\ CountersJustified

USE SettingsAssumption DEF breakerVars, counters, tallies

LEMMA BreakerInitially == BreakerInit => BreakerInv
<1> SUFFICES ASSUME BreakerInit PROVE BreakerInv
  OBVIOUS
<1>1. BreakerTypeOK
  BY DEF BreakerInit, BreakerTypeOK
<1>2. CountersJustified
  BY DEF BreakerInit, CountersJustified
<1> QED
  BY <1>1, <1>2 DEF BreakerInv

LEMMA BreakerStep == BreakerInv /\ [BreakerNext]_breakerVars => BreakerInv'
<1> SUFFICES ASSUME BreakerInv, [BreakerNext]_breakerVars PROVE BreakerInv'
  OBVIOUS
<1> USE DEF BreakerInv, BreakerTypeOK, CountersJustified
<1>1. ASSUME NEW c \in Clients, Allow(c)
      PROVE  BreakerInv'
  <2>1. CASE AllowClosed(c)
    BY <2>1 DEF AllowClosed, Proceed
  <2>2. CASE Try(c)
    BY <2>2 DEF Try, Proceed
  <2>3. CASE Probe(c)
    <3>1. probes' = probes + 1 /\ probes' \in 0..(HalfOpenMaxRequests + 2)
      BY <2>3 DEF Probe, Capped
    <3> QED
      BY <2>3, <3>1 DEF Probe, Proceed
  <2> QED
    BY <1>1, <2>1, <2>2, <2>3 DEF Allow
<1>2. ASSUME NEW c \in Clients, RecordSuccess(c)
      PROVE  BreakerInv'
  <2>1. good' \in 0..SuccessThreshold /\ (good' = good + 1 \/ good' = SuccessThreshold)
    BY <1>2 DEF RecordSuccess, Capped
  <2>2. CASE state = "half-open"
    BY <1>2, <2>1, <2>2 DEF RecordSuccess, Reported
  <2>3. CASE state # "half-open"
    BY <1>2, <2>1, <2>3 DEF RecordSuccess, Reported
  <2> QED
    BY <2>2, <2>3
<1>3. ASSUME NEW c \in Clients, RecordFailure(c)
      PROVE  BreakerInv'
  <2>1. bad' \in 0..FailureThreshold /\ (bad' = bad + 1 \/ bad' = FailureThreshold)
    BY <1>3 DEF RecordFailure, Capped
  <2>2. CASE state = "closed"
    <3>1. failures' = failures + 1 /\ successes' = 0 /\ failures' \in 0..FailureThreshold
          /\ halfOpenReq' = halfOpenReq /\ inFlight' \in SUBSET Clients
      BY <1>3, <2>2 DEF RecordFailure, Reported
    <3>2. failures' <= bad'
      BY <2>1, <2>2, <3>1
    <3>3. CASE failures' >= FailureThreshold
      BY <1>3, <2>1, <2>2, <3>1, <3>3 DEF RecordFailure
    <3>4. CASE failures' < FailureThreshold
      BY <1>3, <2>1, <2>2, <3>1, <3>2, <3>4 DEF RecordFailure
    <3> QED
      BY <3>1, <3>3, <3>4
  <2>3. CASE state # "closed"
    <3>1. state' = "open" /\ successes' = 0 /\ timer' = "running" /\ failures' = failures
          /\ halfOpenReq' \in 0..HalfOpenMaxRequests /\ inFlight' \in SUBSET Clients
          /\ good' = 0 /\ probes' = probes /\ forgotten' = forgotten
      BY <1>3, <2>3 DEF RecordFailure, Reported
    <3> QED
      BY <2>1, <3>1
  <2> QED
    BY <2>2, <2>3
<1>4. ASSUME NEW c \in Clients, Forget(c)
      PROVE  BreakerInv'
  BY <1>4 DEF Forget, Reported
<1>5. CASE Cool
  BY <1>5 DEF Cool
<1>6. CASE Reset
  BY <1>6 DEF Reset
<1>7. CASE UNCHANGED breakerVars
  BY <1>7
<1> QED
  BY <1>1, <1>2, <1>3, <1>4, <1>5, <1>6, <1>7 DEF BreakerNext

\* Every counter stays within its threshold, whatever interleaving of reports.
THEOREM BreakerTypeCorrect == BreakerSpec => []BreakerTypeOK
<1>1. BreakerInv => BreakerTypeOK
  BY DEF BreakerInv
<1> QED
  BY BreakerInitially, BreakerStep, <1>1, PTL DEF BreakerSpec

\* A half-open trial lets through at most HalfOpenMaxRequests + 1 requests.
THEOREM TrialIsBounded == BreakerSpec => []ProbesBounded
<1>1. BreakerInv => ProbesBounded
  BY DEF BreakerInv, BreakerTypeOK, CountersJustified, ProbesBounded
<1> QED
  BY BreakerInitially, BreakerStep, <1>1, PTL DEF BreakerSpec

\* The breaker opens from closed only on FailureThreshold failures in a row.
THEOREM OpensJustified == BreakerSpec => OpensOnConsecutiveFailures
<1>1. BreakerInv /\ [BreakerNext]_breakerVars =>
        [state = "closed" /\ state' = "open" => bad' >= FailureThreshold]_breakerVars
  <2> SUFFICES ASSUME BreakerInv, [BreakerNext]_breakerVars, state = "closed", state' = "open"
               PROVE  bad' >= FailureThreshold
    OBVIOUS
  <2>1. PICK c \in Clients : RecordFailure(c)
    BY DEF BreakerNext, Allow, AllowClosed, Try, Probe, RecordSuccess, Forget, Cool, Reset
  <2>2. failures + 1 >= FailureThreshold /\ failures <= bad
    BY <2>1 DEF RecordFailure, BreakerInv, BreakerTypeOK, CountersJustified
  <2> QED
    BY <2>1, <2>2 DEF RecordFailure, Capped, BreakerInv, BreakerTypeOK
<1> QED
  BY BreakerInitially, BreakerStep, <1>1, PTL DEF BreakerSpec, OpensOnConsecutiveFailures

\* A report ends a trial well only when the last SuccessThreshold reports were
\* successes.
THEOREM ClosesJustified == BreakerSpec => ClosesOnConsecutiveSuccesses
<1>1. BreakerInv /\ [BreakerNext]_breakerVars =>
        [state = "half-open" /\ state' = "closed" /\ inFlight' # inFlight
         => good' >= SuccessThreshold]_breakerVars
  <2> SUFFICES ASSUME BreakerInv, [BreakerNext]_breakerVars, state = "half-open", state' = "closed",
                      inFlight' # inFlight
               PROVE  good' >= SuccessThreshold
    OBVIOUS
  <2>1. PICK c \in Clients : RecordSuccess(c)
    BY DEF BreakerNext, Allow, AllowClosed, Try, Probe, RecordFailure, Forget, Cool, Reset
  <2>2. successes + 1 >= SuccessThreshold /\ successes <= good
    BY <2>1 DEF RecordSuccess, BreakerInv, BreakerTypeOK, CountersJustified
  <2> QED
    BY <2>1, <2>2 DEF RecordSuccess, Capped, BreakerInv, BreakerTypeOK
<1> QED
  BY BreakerInitially, BreakerStep, <1>1, PTL DEF BreakerSpec, ClosesOnConsecutiveSuccesses
=============================================================================
