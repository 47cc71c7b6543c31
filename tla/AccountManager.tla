--------------------------- MODULE AccountManager ---------------------------
(***************************************************************************)
(* ProviderAccountManager: which account of one provider serves a request. *)
(* Dedicated accounts come first, then the account in the cache, then what *)
(* the load balancer selects among the rows.  The cache holds a copy of a  *)
(* row; administrators, failures and other services change the rows behind *)
(* it (ProviderAccounts models those operations statement by statement).   *)
(*                                                                         *)
(* An account's last error is "cooling" for the load balancer's cooldown   *)
(* (10 s) and "recent" up to five minutes; copies age with their row.      *)
(***************************************************************************)
EXTENDS Integers, FiniteSets

CONSTANTS
    Accounts,
    Rank,                 \* the order of priorities
    Owner,                \* the user or tenant an account is dedicated to, or Public
    Users, TenantOf,
    Public, NoAccount, NoUser,
    Callers,              \* goroutines
    Strategies,           \* strategies the load balancer is configured with
    ErrorLimit,           \* 5 in the code
    MaxCalls,             \* bound on the operations of the manager
    MaxChanges            \* bound on the changes behind it

AllStrategies == {"priority", "round_robin", "weighted_round_robin", "least_connections",
                  "least_response_time", "health_score", "random", "adaptive"}

ASSUME ManagerAssumption ==
    /\ Rank \in [Accounts -> Nat] /\ \A a, b \in Accounts : Rank[a] = Rank[b] => a = b
    /\ Owner \in [Accounts -> {Public} \cup Users \cup {TenantOf[u] : u \in Users}]
    /\ NoAccount \notin Accounts /\ NoUser \notin Users
    /\ Public \notin Users /\ \A u \in Users : TenantOf[u] # Public
    /\ Strategies \subseteq AllStrategies
    /\ ErrorLimit \in Nat \ {0} /\ MaxCalls \in Nat /\ MaxChanges \in Nat

VARIABLES
    rows,
    cache,        \* accountCache[provider]
    switched,     \* lastSwitchTime[provider] is less than the cooldown ago
    strategy,
    turn,         \* roundRobinIndex[provider]
    started,      \* AccountStats.ActiveConns; nothing ends a connection
    job,          \* what a goroutine holds between its statements
    calls, changes,
    unseen,       \* history: accounts whose retirement no refresh has seen
    hasty,        \* history: a switch was made in the cooldown of another one
    crowded       \* history: two switches were under way at once

balancer == <<strategy, turn, started>>
history == <<unseen, hasty, crowded>>
vars == <<rows, cache, switched, balancer, job, calls, changes, history>>

Statuses == {"none", "active", "limited", "exhausted", "disabled", "deleted"}
Ages == {"no", "cooling", "recent"}

\* spent: below half of the monthly limit, above it, above 80 %, all of it.
Rows == [status : Statuses, default : BOOLEAN, errors : 0..ErrorLimit, last : Ages, spent : 0..3]
NewRow == [status |-> "active", default |-> FALSE, errors |-> 0, last |-> "no", spent |-> 0]
NoRow == [NewRow EXCEPT !.status = "none"]

Copies == [id : Accounts \cup {NoAccount}, row : Rows]
NoCopy == [id |-> NoAccount, row |-> NoRow]
Copy(a) == [id |-> a, row |-> rows[a]]

Points == {"idle", "tenant", "cache", "select", "store", "target", "clear", "set", "install",
           "status", "error", "next", "refresh", "replace"}
Jobs == [op : {"none", "get", "switch", "fail", "refresh"}, pc : Points, user : Users \cup {NoUser},
         copy : Copies, mark : Statuses, gone : SUBSET Accounts]
NoJob == [op |-> "none", pc |-> "idle", user |-> NoUser, copy |-> NoCopy,
          mark |-> "none", gone |-> {}]

\* The public accounts exist, the first of them is the default; dedicated ones may exist.
Init ==
    /\ \E D \in SUBSET {a \in Accounts : Owner[a] # Public} :
          rows = [a \in Accounts |->
                    IF Owner[a] = Public
                    THEN [NewRow EXCEPT !.default = \A b \in Accounts : Owner[b] = Public => Rank[a] <= Rank[b]]
                    ELSE IF a \in D THEN [NewRow EXCEPT !.default = TRUE] ELSE NoRow]
    /\ cache = NoCopy /\ switched = FALSE
    /\ strategy \in Strategies /\ turn = 0 /\ started = [a \in Accounts |-> 0]
    /\ job = [c \in Callers |-> NoJob] /\ calls = 0 /\ changes = 0
    /\ unseen = {} /\ hasty = FALSE /\ crowded = FALSE

-----------------------------------------------------------------------------
(* Which accounts may be used *)

First(S) == {a \in S : \A b \in S : Rank[a] <= Rank[b]}

\* The manager's rule, for a row or a copy of one.
Usable(r) == r.status = "active" /\ r.spent < 3 /\ r.errors < ErrorLimit /\ r.last = "no"

\* The load balancer's rule: a rate-limited account will do after the cooldown.
Eligible(r) ==
    r.status \in {"active", "limited"} /\ r.spent < 3 /\ r.errors < ErrorLimit /\ r.last # "cooling"

Active == {a \in Accounts : rows[a].status = "active"}
GetActiveByProvider == {a \in Accounts : rows[a].status \in {"active", "limited"}}
GetDefaultByProvider ==
    LET D == {a \in Active : rows[a].default} IN IF D # {} THEN First(D) ELSE First(Active)
GetDedicated(owner) == First({a \in Active : Owner[a] = owner})

\* Errors, usage and recent errors each lower the health score.
HealthScore(r) ==
    LET usage == CASE r.spent = 0 -> 0 [] r.spent = 1 -> 10 [] OTHER -> 30
        score == 100 - 10 * r.errors - usage - (IF r.last = "no" THEN 0 ELSE 20)
    IN  IF score < 0 THEN 0 ELSE score

Healthiest(S) == {a \in S : \A b \in S : HealthScore(rows[b]) <= HealthScore(rows[a])}
LeastStarted(S) == {a \in S : \A b \in S : started[a] <= started[b]}

\* In the order of priority, the n-th of S, counted from 0.
Nth(S, n) == {a \in S : Cardinality({b \in S : Rank[b] < Rank[a]}) = n}

\* An account without requests, or else any: no latency is ever recorded.
Fastest(S) == LET fresh == {a \in S : started[a] = 0} IN First(IF fresh = {} THEN S ELSE fresh)

\* Random by weights that are at least 1, or by a score whose weights are left out.
AnyByWeight(S) == S
AnyByScore(S) == S

\* The accounts that the strategy may select.
SelectAccount(S) ==
    CASE strategy = "round_robin"         -> Nth(S, (turn + 1) % Cardinality(S))
      [] strategy = "least_connections"   -> First(LeastStarted(S))
      [] strategy = "least_response_time" -> Fastest(S)
      [] strategy = "health_score"        -> First(Healthiest(S))
      [] strategy = "adaptive"            -> AnyByScore(S)
      [] strategy \in {"weighted_round_robin", "random"} -> AnyByWeight(S)
      [] OTHER                            -> First(S)

-----------------------------------------------------------------------------
(* Steps *)

At(c, pc) == job[c].pc = pc
Goto(c, pc) == job' = [job EXCEPT ![c].pc = pc]
Done(c) == job' = [job EXCEPT ![c] = NoJob]
Begin(c, op, pc) ==
    /\ At(c, "idle") /\ calls < MaxCalls /\ calls' = calls + 1
    /\ job' = [job EXCEPT ![c].op = op, ![c].pc = pc]

Retired(r) == r.status \notin {"active", "limited"}
\* The rows become R; accounts that leave service are unseen by any refresh.
Rewrite(R) ==
    /\ rows' = R
    /\ unseen' = unseen \cup {a \in Accounts : Retired(R[a]) /\ ~Retired(rows[a])}
    /\ UNCHANGED <<hasty, crowded>>

\* Another goroutine will put a row that it read before into the cache.
Racing(c) == \E d \in Callers \ {c} : job[d].pc \in {"store", "clear", "set", "install", "replace"}

-----------------------------------------------------------------------------
(* GetActiveAccountWithDedicated and GetActiveAccount *)

\* With dedicated accounts the user's own comes first; a query that fails counts as none.
GetForUser(c, u) ==
    /\ At(c, "idle") /\ calls < MaxCalls /\ calls' = calls + 1
    /\ \/ \E a \in GetDedicated(u) : Usable(rows[a]) /\ Done(c)
       \/ job' = [job EXCEPT ![c] = [NoJob EXCEPT !.op = "get", !.pc = "tenant", !.user = u]]
    /\ UNCHANGED <<rows, cache, switched, balancer, changes, history>>

GetForTenant(c) ==
    /\ At(c, "tenant")
    /\ \/ \E a \in GetDedicated(TenantOf[job[c].user]) : Usable(rows[a]) /\ Done(c)
       \/ Goto(c, "cache")
    /\ UNCHANGED <<rows, cache, switched, balancer, calls, changes, history>>

GetPublic(c) ==
    /\ Begin(c, "get", "cache")
    /\ UNCHANGED <<rows, cache, switched, balancer, changes, history>>

ReadCache(c) ==
    /\ At(c, "cache")
    /\ IF cache.id # NoAccount /\ Usable(cache.row)
       THEN Done(c)
       ELSE Goto(c, "select")
    /\ UNCHANGED <<rows, cache, switched, balancer, calls, changes, history>>

\* When the load balancer accepts none, the first usable one by priority is taken.
SelectBestAccount(c) ==
    /\ At(c, "select")
    /\ LET S == {a \in GetActiveByProvider : Eligible(rows[a])}
           fallback == First({a \in GetActiveByProvider : Usable(rows[a])})
       IN  \/ \E a \in IF S # {} THEN SelectAccount(S) ELSE fallback :
                 /\ job' = [job EXCEPT ![c].pc = "store", ![c].copy = Copy(a)]
                 /\ IF S # {}
                    THEN /\ started' = [started EXCEPT ![a] = @ + 1]
                         /\ turn' = turn + (IF strategy = "round_robin" THEN 1 ELSE 0)
                    ELSE UNCHANGED <<started, turn>>
           \/ Done(c) /\ UNCHANGED <<started, turn>>      \* none, or the query fails
    /\ UNCHANGED <<rows, cache, switched, strategy, calls, changes, history>>

StoreSelected(c) ==
    /\ At(c, "store")
    /\ cache' = job[c].copy
    /\ Done(c)
    /\ UNCHANGED <<rows, switched, balancer, calls, changes, history>>

-----------------------------------------------------------------------------
(* SwitchAccount and HandleAccountFailure *)

Switching(d) == job[d].op = "switch"

\* Mutant: the cooldown is not looked at.
SwitchAtOnce(c) ==
    /\ Begin(c, "switch", "target")
    /\ crowded' = (crowded \/ \E d \in Callers : Switching(d))
    /\ UNCHANGED <<rows, cache, switched, balancer, changes, unseen, hasty>>

\* The cooldown is checked first, under the lock that is then released.
SwitchAccount(c) ==
    /\ ~switched
    /\ Begin(c, "switch", "target")
    /\ crowded' = (crowded \/ \E d \in Callers : Switching(d))
    /\ UNCHANGED <<rows, cache, switched, balancer, changes, unseen, hasty>>

ReadTarget(c) ==
    /\ At(c, "target")
    /\ \/ \E a \in Active : job' = [job EXCEPT ![c].pc = "clear", ![c].copy = Copy(a)]
       \/ Done(c)                             \* not found, not active, of another provider
    /\ UNCHANGED <<rows, cache, switched, balancer, calls, changes, history>>

\* SetDefault is two statements; only SwitchAccount stops when one of them fails.
ClearDefaults(c) ==
    /\ At(c, "clear")
    /\ \/ /\ Rewrite([a \in Accounts |-> [rows[a] EXCEPT !.default = FALSE]])
          /\ Goto(c, "set")
       \/ /\ UNCHANGED <<rows, history>>
          /\ IF Switching(c) THEN Done(c) ELSE Goto(c, "install")
    /\ UNCHANGED <<cache, switched, balancer, calls, changes>>

SetDefault(c) ==
    /\ At(c, "set")
    /\ LET a == job[c].copy.id IN
       \/ /\ IF rows[a].status = "deleted" THEN UNCHANGED <<rows, history>>
             ELSE Rewrite([rows EXCEPT ![a].default = TRUE])
          /\ Goto(c, "install")
       \/ /\ UNCHANGED <<rows, history>>
          /\ IF Switching(c) THEN Done(c) ELSE Goto(c, "install")
    /\ UNCHANGED <<cache, switched, balancer, calls, changes>>

Install(c) ==
    /\ At(c, "install")
    /\ cache' = job[c].copy
    /\ switched' = (switched \/ Switching(c))
    /\ hasty' = (hasty \/ (switched /\ Switching(c)))
    /\ Done(c)
    /\ UNCHANGED <<rows, balancer, calls, changes, unseen, crowded>>

\* What the error message says: a rate limit, a used-up quota, or something else.
Kinds == {"limited", "exhausted", "other"}

HandleAccountFailure(c) ==
    /\ At(c, "idle") /\ calls < MaxCalls /\ calls' = calls + 1
    /\ \E a \in Accounts, kind \in Kinds :
          /\ rows[a].status \notin {"none", "deleted"}
          /\ job' = [job EXCEPT ![c] =
                [NoJob EXCEPT !.op = "fail", !.pc = "status", !.copy = [NoCopy EXCEPT !.id = a],
                              !.mark = IF kind # "other" THEN kind
                                       ELSE IF rows[a].errors >= ErrorLimit - 1 THEN "limited"
                                       ELSE "active"]]
    /\ UNCHANGED <<rows, cache, switched, balancer, changes, history>>

Marked(r, s) == IF r.status \in {"none", "deleted"} THEN r
                ELSE [r EXCEPT !.status = s, !.errors = IF s = "active" THEN 0 ELSE @]
\* Mutant: the count goes beyond what any reader compares it with.
FailedOn(r) == IF r.status \in {"none", "deleted"} THEN r
               ELSE [r EXCEPT !.errors = @ + 1, !.last = "cooling"]
Failed(r) == IF r.status \in {"none", "deleted"} THEN r
             ELSE [r EXCEPT !.errors = IF @ < ErrorLimit THEN @ + 1 ELSE @, !.last = "cooling"]

\* The errors of these two statements are ignored.
MarkFailed(c) ==
    /\ At(c, "status")
    /\ LET a == job[c].copy.id IN
       Rewrite([rows EXCEPT ![a] = Marked(@, job[c].mark)]) \/ UNCHANGED <<rows, history>>
    /\ Goto(c, "error")
    /\ UNCHANGED <<cache, switched, balancer, calls, changes>>

RecordError(c) ==
    /\ At(c, "error")
    /\ LET a == job[c].copy.id IN
       Rewrite([rows EXCEPT ![a] = Failed(@)]) \/ UNCHANGED <<rows, history>>
    /\ Goto(c, "next")
    /\ UNCHANGED <<cache, switched, balancer, calls, changes>>

GetNextAvailable(c) ==
    /\ At(c, "next")
    /\ \/ \E a \in First(Active \ {job[c].copy.id}) :
             job' = [job EXCEPT ![c].pc = "clear", ![c].copy = Copy(a)]
       \/ Done(c)                                         \* none, or the query fails
    /\ UNCHANGED <<rows, cache, switched, balancer, calls, changes, history>>

-----------------------------------------------------------------------------
(* RefreshCache *)

ForceRefreshCache(c) ==
    /\ Begin(c, "refresh", "refresh")
    /\ UNCHANGED <<rows, cache, switched, balancer, changes, history>>

\* EnableAccount, then RefreshCache.
ManualRecoverAccount(c) ==
    /\ Begin(c, "refresh", "refresh")
    /\ \E a \in Accounts : Rewrite([rows EXCEPT ![a] = Marked(@, "active")])
    /\ UNCHANGED <<cache, switched, balancer, changes>>

ReadDefault(c) ==
    /\ At(c, "refresh")
    /\ \/ \E a \in GetDefaultByProvider :
             job' = [job EXCEPT ![c].pc = "replace", ![c].copy = Copy(a),
                                ![c].gone = {b \in Accounts : Retired(rows[b])}]
       \/ job' = [job EXCEPT ![c].pc = "replace",         \* none, or the query fails
                             ![c].gone = {b \in Accounts : Retired(rows[b])}]
    /\ UNCHANGED <<rows, cache, switched, balancer, calls, changes, history>>

\* What the refresh saw is no longer unseen, unless an older copy is on its way.
Seen(c) == unseen' = IF Racing(c) THEN unseen ELSE unseen \ job[c].gone

\* Mutant: the entry stays when there is no account to replace it with.
ReplaceFound(c) ==
    /\ At(c, "replace")
    /\ cache' = IF job[c].copy.id = NoAccount THEN cache ELSE job[c].copy
    /\ Seen(c) /\ Done(c)
    /\ UNCHANGED <<rows, switched, balancer, calls, changes, hasty, crowded>>

\* The entry is replaced, or deleted when there is no active account.
ReplaceCache(c) ==
    /\ At(c, "replace")
    /\ cache' = job[c].copy
    /\ Seen(c) /\ Done(c)
    /\ UNCHANGED <<rows, switched, balancer, calls, changes, hasty, crowded>>

-----------------------------------------------------------------------------
(* Changes behind the manager *)

Change(R) ==
    /\ changes < MaxChanges /\ changes' = changes + 1
    /\ Rewrite(R)
    /\ UNCHANGED <<cache, switched, balancer, job, calls>>

CreateDedicatedAccount(a) ==
    /\ rows[a].status = "none" /\ Owner[a] # Public
    /\ Change([rows EXCEPT ![a] = [NewRow EXCEPT !.default = TRUE]])
UpdateStatus(a, s) ==
    /\ rows[a].status \notin {"none", "deleted"}
    /\ Change([rows EXCEPT ![a] = Marked(@, s)])
DeleteAccount(a) ==
    /\ rows[a].status \notin {"none", "deleted"}
    /\ Change([rows EXCEPT ![a] = [NoRow EXCEPT !.status = "deleted"]])
Fail(a) == rows[a].status \notin {"none", "deleted"} /\ Change([rows EXCEPT ![a] = Failed(@)])
IncrementUsage(a) ==
    /\ rows[a].status \notin {"none", "deleted"} /\ rows[a].spent < 3
    /\ Change([rows EXCEPT ![a].spent = @ + 1, ![a].errors = 0])
SetLoadBalancerStrategy(s) ==
    /\ changes < MaxChanges /\ changes' = changes + 1
    /\ strategy' = s
    /\ UNCHANGED <<rows, cache, switched, turn, started, job, calls, history>>

\* Time passes: the copies of a row grow older with it.
Aged(r) == [r EXCEPT !.last = IF @ = "cooling" THEN "recent" ELSE "no"]
AgedCopy(k, a) == IF k.id = a THEN [k EXCEPT !.row = Aged(k.row)] ELSE k
Age(a) ==
    /\ rows[a].last # "no" \/ (cache.id = a /\ cache.row.last # "no")
    /\ rows' = [rows EXCEPT ![a] = Aged(@)]
    /\ cache' = AgedCopy(cache, a)
    /\ job' = [c \in Callers |-> [job[c] EXCEPT !.copy = AgedCopy(@, a)]]
    /\ UNCHANGED <<switched, balancer, calls, changes, history>>
CooldownEnds ==
    /\ switched /\ switched' = FALSE
    /\ UNCHANGED <<rows, cache, balancer, job, calls, changes, history>>

-----------------------------------------------------------------------------
\* What a request or an administrator asks for.
GetUpstreamConfig(c) == GetPublic(c) \/ \E u \in Users : GetForUser(c, u)
AdminRoutes(c) == SwitchAccount(c) \/ ForceRefreshCache(c) \/ ManualRecoverAccount(c)

Continue(c) ==
    \/ GetForTenant(c) \/ ReadCache(c) \/ SelectBestAccount(c) \/ StoreSelected(c)
    \/ ReadTarget(c) \/ ClearDefaults(c) \/ SetDefault(c) \/ Install(c)
    \/ MarkFailed(c) \/ RecordError(c) \/ GetNextAvailable(c)
    \/ ReadDefault(c) \/ ReplaceCache(c)

Next ==
    \/ \E c \in Callers :
          GetUpstreamConfig(c) \/ AdminRoutes(c) \/ HandleAccountFailure(c) \/ Continue(c)
    \/ \E a \in Accounts :
          \/ CreateDedicatedAccount(a) \/ DeleteAccount(a) \/ Fail(a) \/ IncrementUsage(a)
          \/ \E s \in Statuses \ {"none", "deleted"} : UpdateStatus(a, s)
          \/ Age(a)
    \/ \E s \in Strategies : SetLoadBalancerStrategy(s)
    \/ CooldownEnds

Spec == Init /\ [][Next]_vars

-----------------------------------------------------------------------------
\* Every variable keeps its type.
TypeOK ==
    /\ rows \in [Accounts -> Rows] /\ cache \in Copies /\ switched \in BOOLEAN
    /\ strategy \in Strategies /\ turn \in Nat /\ started \in [Accounts -> Nat]
    /\ job \in [Callers -> Jobs]
    /\ calls \in 0..MaxCalls /\ changes \in 0..MaxChanges
    /\ unseen \subseteq Accounts /\ hasty \in BOOLEAN /\ crowded \in BOOLEAN

\* An account that was taken out of service (disabled, exhausted, deleted) is in the
\* cache no longer than to the next RefreshCache, unless another operation had read
\* its row before and stores it after.
RefreshTakesEffect == cache.id # NoAccount /\ Retired(rows[cache.id]) => cache.id \in unseen

\* Two switches are made within the cooldown only if they were under way at the same
\* time (SwitchAccount checks the cooldown before it reads and writes the rows).
CooldownKept == hasty => crowded

=============================================================================
