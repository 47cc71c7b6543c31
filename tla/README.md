# Verification of open-station

open-station is a multi-tenant gateway to AI providers: it authenticates API keys,
proxies requests to a provider account, bills the user for what was used, and takes
payments. Its hard parts are not the individual functions but what happens between
them: a balance that is checked by one goroutine and charged by another, rows that are
read, changed in memory and saved whole, caches that know what the database has
forgotten, notices from payment providers that come twice, and background work that a
stop or a crash cuts short. This directory holds TLA+ models of those parts, the TLC runs
that check them on small instances, and theorems about them, proved with TLAPS for every
value of their parameters.

## Inventory

| Part | State | Operations | Talks to | What is hard |
|---|---|---|---|---|
| Usage billing (`async_billing.go`, `billing_service.go`, the proxy handler) | `users.balance`, usage rows, the `billingEvents` channel, worker goroutines, `stopCh` | admit on the balance, enqueue, take, deduct / create / refund, stop | database, proxy handler, container | check then charge, full channel, three statements that may fail or be cut by a crash, stop |
| API key usage (`finalizeBilling`, `UpdateProviderUsage`, `UpdateTokenUsage`) | counters and a JSON column of `api_keys` | add usage, save a whole row (administration) | database | read-modify-write next to atomic increments, double counting |
| Payment orders (`payment_service.go`, `payment_handler.go`, gateways) | order status, `UserQuota` and `Tenant` balances | create, cancel, expire, callback, credit, recharge by hand | payment providers | repeated and simultaneous notices, stale saves, restarts |
| Circuit breaker (`pkg/circuit`) | state, counters, last failure time | allow, record success / failure, reset | callers | reports that arrive in another state than the one they were allowed in |
| Tenant credit (`quota_service.go`, `settlement_service.go`, `credit_application_service.go`) | `Tenant` balance, credit, status; bills; applications | deduct, settle, pay, suspend, apply, approve, reject | payment orders, platform administration | whole-row saves by many writers, two-step changes |
| Provider accounts (`provider_account_service.go`) | account status, default flags, recovery timers | create, set default, disable, fail, recover | proxy handler, account manager | timers that fire after the account changed, two defaults |
| Account manager (`provider_account_manager.go`) and load balancer (`pkg/loadbalancer`) | a cached account per provider, cooldown, strategy, counters of connections | select, switch, fail over, refresh | provider accounts, proxy handler | a cache beside rows that change, switches that overlap |
| API key authentication (`auth_service.go`), MCP sessions (`mcp_service.go`) | Redis entry of a key, permission cache, sessions | validate, revoke, change, open a session | database, Redis, middleware | caches and sessions that outlive a revocation |
| Abuse protection (`safe.go`, `rate_limit.go`) | connection counter, failure and violation counters, blocks, all with an expiry | acquire, release, count, block | Redis, middleware | a counter that expires while it is in use, crashes that leave it counted |
| Sessions and login security (`user_auth_service.go`, `jwt_service.go`, `login_security_service.go`, `email_verification_service.go`) | user row, refresh tokens, blacklist, attempt counters | login, register, refresh, switch tenant, logout, change password, verify | Redis, database | whole-row saves beside charges and a background rehash, tokens that outlive logout, lockout |
| Applications (`tenant_application_service.go`, `user_application_service.go`) | applications of companies and people, tenants, users | submit, decide, invite, accept, create directly, expire | platform administration | two-step decisions without a transaction, seats counted before an insert |
| Platform administration (`platform_auth.go`) | administrators, cache of administrators, session tokens | login, validate, create, update, delete | database | last super administrator, cache entries stored during a change |
| Member quotas (`member_quota_service.go`) | quota rows and the reference in the user row | create, update, reset, delete, check, count | billing | two rows that must agree, usage counted beside whole-row saves |
| Cost limits, budget alerts | limits of keys, users, tenants | set (the checks have no caller) | billing | whole-row saves |
| MCP tools, handlers, router, configuration, metrics, logging | none of their own | dispatch | all services | none beyond the services they call |

What makes each part correct:

- **Usage billing**: money is conserved; no balance is overdrawn; an event is billed once;
  a refusal is justified; accepted events are settled; Stop ends.
- **API key usage**: counters hold what was successfully added, once, and never more.
- **Payment orders**: an order credits once, only when it was paid in full, and the credit stays.
- **Circuit breaker**: it opens and closes for the configured reasons only; a trial is bounded and ends.
- **Tenant credit**: what was charged to credit is used credit or on a bill, exactly once; a bill
  marked paid was paid; credit needs an approval; what the check allows the deduction covers.
- **Provider accounts, account manager**: one default account; a limited account recovers; an
  account out of service leaves the cache with the next refresh; switches keep the cooldown.
- **Authentication**: what was revoked stops working once its cache entries and sessions are gone,
  and nothing brings them back; cached permissions are those of the row.
- **Abuse protection**: the counter is the number of connections; a released one is free again.
- **Sessions**: no request undoes what another did to the account; guesses are bounded; an ended
  login stays ended.
- **Applications**: nothing is left half decided; seats are kept; a decision stands.
- **Platform administration**: a super administrator remains; the cache says what the row says.
- **Member quotas**: quota and user row agree; usage is neither lost nor repeated; the limit is
  exceeded only by requests under way.

Most of these hold with an exception, and the exception is the finding: nothing in the
program orders a read of a row with the save of the whole row that follows, so many
properties hold *unless a row was saved that had changed since it was read*. The models keep
that fact in a history variable (`raced`, `late`, `overlapped`, `disturbed`), set at
precisely those saves; a property then says that there is no other way for things to go wrong.

## Modules

| Module | Models | Theorems in |
|---|---|---|
| `AtomicBilling` | what usage billing promises: each request is settled in one step | |
| `UsageBilling` | the proxy handler's billing, the queue, its workers, `RecordUsage`, stop and crash | `UsageBillingProofs` |
| `APIKeyUsage` | the usage counters of one key | `UsageBillingProofs` |
| `PaymentOrder` | payment orders, recharges by hand and the accounts they pay into | `PaymentOrderProofs` |
| `CircuitBreaker` | one provider's breaker and its callers | `AccountManagerProofs` |
| `ProviderAccounts` | the accounts of one provider, the default flag, recovery timers | `ProviderAccountsProofs` |
| `AccountManager` | the choice of an account for a request, its cache, and the load balancer | `AccountManagerProofs` |
| `TenantCredit` | paying from tokens, balance and credit; credit applications; settlement | `TenantCreditProofs` |
| `Admission` | `SafeMiddleware`, key validation, permissions, MCP sessions, administrators | `AdmissionProofs` |
| `Sessions` | one account and everything that signs it in and out | `PaymentOrderProofs` |
| `Applications` | companies becoming tenants and people becoming members | `AdmissionProofs` |
| `PlatformAdmins` | platform administrators and their cache | `PlatformAdminsProofs` |
| `MemberQuotas` | member quotas beside the user row and the usage of requests | `MemberQuotasProofs` |

`MC<module>` gives the constants of a module their values where a `.cfg` cannot, and its
symmetry. In all modules a job (`job[w]`, `jobs[h]`) is what a goroutine holds
between two statements of its handler: the point it is at and the copies of rows it has
read. One action is one statement on the database or Redis, or the code under one lock, with
everything that follows it up to the next statement. What a handler decides from its copy it
decides from the copy, not from the row.

Some proof modules are about two components that do not interact: one module extends both, and
so the second component's specification has names of its own (`KeySpec` of `APIKeyUsage`,
`BreakerSpec` of `CircuitBreaker`, `AppSpec` of `Applications`, `SessionSpec` of `Sessions`, and
`Init`, `Next`, `TypeOK` and the tuple of variables likewise).

### UsageBilling

A request moves through phases: `new`, `serving` (admitted), `queued`, `taken` (a worker,
or in the absence of a queue the request's own goroutine, is in `RecordUsage`),
`deducted`, `unrecorded` (the insert of the usage row failed), and then one of the settled
phases. `Admit` is the balance check of `HandleProxy`, including that a failing read
admits; `TurnAway` stands for the error answers between the check and the upstream call;
`EnqueueBilling` is the non-blocking send; `Take` and `Exit` are the two cases of the
worker's select; `DeductBalance`, `CreateRecord` and `Refund` are the three statements of
`RecordUsage`, each of which may fail; `Stop` closes `stopCh`; `Restart` is the death of
the process at any moment, with the rows left as they are. `async` says whether the
handler was given a queue. Prices are reduced to `TotalCost`, an additive cost of sets of
requests. The token-update channel and the pending batches of the queue have no producer
anywhere in the program, so they carry nothing and are left out.

`ImplementsLedger` says that all this implements `AtomicBilling`, in which a request is
charged, waived or leaked in one step. Its refinement mapping counts money that is held
for an unfinished request as still in the user's funds.

### APIKeyUsage

`ReadUsage`, `WriteUsage` and `AddTokens` are the three points at which `finalizeBilling`
touches the key's row for a request; each may fail, because the statements run under the
client's request context. `ReadKey` and `SaveKey` stand for the administrators'
operations that read the key and save the whole row. Token counts are an additive
measure, as costs are above. The daily counters and the cost counters move in the same
statements, by the same rule, and are represented by the monthly token counters.

### PaymentOrder

The order's status, the account rows, and for each of a set of handlers the callback it is
processing: `Callback` (read and validate), `SavePaid`, `LoadAccount`, `Credit`.
`Create` / `Created` and `CancelReads` / `CancelSaves` are the two halves of creation and
cancellation; every save writes the whole row as it was read. `Trade` is the buyer at the
provider; `Notified` says which trades the provider reports, as often as it likes.
Amounts are "at least 99% of the order" or less (`short`). `Recharge`, `UpdateBalance` and
`MarkCompleted` are the three statements of `BillingService.Recharge`, whose balance is
the tenant's and which may stop after each of them. `FailedNotices` says whether a
provider also reports trades that closed unpaid, as Alipay's notice with another
`trade_status` does.

### CircuitBreaker

Each method runs under the mutex and is one action; `inFlight` holds the callers that were
allowed and have not reported. `Forget` is a caller that never reports. The history
variables count what really happened, so that the properties compare the breaker's
counters with it. No other package of the program imports the breaker.

### ProviderAccounts

Every operation of `ProviderAccountService` is a sequence of statements without a
transaction. `job[c]` holds what caller `c` is executing: its operation, the next statement,
the account, the backup chosen for it and what of the row it read is used later.
The operations that share statements share actions: `GetNextAvailable`, `ClearDefaults`
and `MarkDefault` are the switch to a backup, whoever asked for it, and `UpdateStatus` is
told by `Mark` which status to write. A statement may fail, and most failures are ignored, as
in the code. `Arm` is the part of `HandleRateLimit` under `recoveryMutex`; `Fire`,
`Recover` and `Forget` are the callback's look at `stopCh`, its statement and its removal of
the map entry. A timer that has fired cannot be stopped. Priorities are left open
because `UpdateAccount` changes them, so any active account may be the first. `disturbed` is
set when a default flag is written while another writer holds one it has determined before,
or when `CreateAccount` cannot list the accounts: the situations in which the code can end
up with two defaults.

### AccountManager

`GetAccountForUser` looks for an account dedicated to the user, then to the tenant, then in
the cache, then lets the load balancer select; `SwitchAccount`, the failover of
`HandleAccountError` and `RefreshCache` install others. The rows change behind the cache
(`ProviderAccounts` has those operations statement by statement; here they are one step
each). The eight strategies of `pkg/loadbalancer` are the sets of accounts they may select;
eligibility depends on the status, the monthly limit, the errors and the age of the
last one, kept as "cooling" (10 s) and "recent" (5 min). The connection counter only grows:
nothing in the program calls its other half.

### TenantCredit

A request is checked (`CheckOrganization`, `CheckIndividual`, `CheckMember`) and later deducted, from the tenant or from an
individual's quota; what a row pays is a function of the row (`DeductOrganization`,
`DeductIndividual`), written as the code's cascade of token quota, balance and credit. Beside
the requests run credit applications, their approval or rejection, adjustment, the
scheduled settlement with the two writes of `TriggerSettlement`, payment of a bill in parts,
overdue suspension, recharges, budgets and activation. All bills have the empty
number, and `bill_number` is unique, so there is at most one; that is the code's doing.

### Admission

A request passes `SafeMiddleware` (`Arrive`, `AcquireConnection`, the rate limits, `Release`),
the key's validation (`LookupCache`, `FetchCached` or `Fetch` and `StoreCache`,
`RecordAuthFailure`), the limits of key and tenant (`Admit`), and the permission check of the
proxy with its cache (`CheckAccess`, `StorePermissions`). `initialize` and `tool` are
requests to the MCP server, of which the second shows only a session. Administrators
revoke the key, change it (`ReadToEdit`, `UpdateAPIKey`, `SaveEdit`) or set its cost
limits. `outage` marks the behaviours in which statements on Redis may fail; the code
lets requests through then. Whether a rate is exceeded is left open.

### Sessions

One email address, one client address. `Login` compares the password, counts
failures, issues tokens and saves the whole row for `last_login`; an old hash is upgraded by
a goroutine that saves the row it was given (`rehash`). `Register`, `RegisterTenant`,
`VerifyEmail`, `ResendVerification`, `ChangePassword`, `RefreshToken`, `SwitchTenant`, `Logout`
and `LogoutAll` are split at their statements, and `EditUser` stands for the administrators'
changes of the row. Charges change the balance in place (`Spend`).

### Applications

Each decision is a read, a check on the copy, an update by id that looks at nothing, and for an
approval an insert and a second update. A fault is a statement that fails or a handler that
dies; `faults` counts them, and the code's ignored errors go on without the effect. The
unique keys on `company_slug`, `users.email` and `invite_token` decide which inserts fail.

### PlatformAdmins

A request presents a token; the administrator it acts for comes from the cache or the
database. A change reads the row, checks that a super administrator remains, drops the cache
entry and saves the row, with no lock held from one of these to the next. `stale` and
`overtaken` say of a request that its actor, or the table it had counted, has changed.

### MemberQuotas

Creating a quota inserts its row and then links the user to it; deleting unlinks and removes. A
soft-deleted row stays in the table, unique per user as before, and saving a copy of
it brings it back. `halfway` is set when only one of the two rows was changed. Requests
check the quota, count their usage in place and pay from the user row in place.

## Runs

Every run passes. Counterexamples that the models have for statements of the docs and comments
are described under "What the code does otherwise".

| Run | Shows |
|---|---|
| `UsageBilling` | 3 requests of 2 users, one of which can afford only one of its two, 2 workers, a channel of 2: conservation, solvency, refinement of `AtomicBilling`, progress of accepted events and of Stop |
| `APIKeyUsage` | 3 requests, 2 of one provider, and an administrator: exact totals until an out-of-date row is saved, never overstated |
| `PaymentOrder` | 3 orders, 2 handlers, 2 accounts, a recharge by hand: a repeated notice is refused, only paid orders credit, a loss needs an overlap on the account, no money is invented |
| `CircuitBreaker` | 4 callers, thresholds 2, one counted probe: trials are bounded and end |
| `ProviderAccounts` | 2 accounts, 2 callers with two operations between them, 2 timers, an error limit of 1: one default account, timers stay reachable, a limited default account recovers |
| `AccountManager` | a public and a dedicated account, 2 operations of 2 callers, one change behind them: a retired account leaves the cache at the next refresh, switches keep the cooldown unless they overlap |
| `TenantCredit` | 2 requests, 2 callers, 3 operations on one tenant: charged credit is used or billed once, a paid bill was paid, credit needs a grant, the deduction covers what the check allows |
| `Admission` | 3 requests or changes of 2 callers, one connection allowed: connections are counted, cached permissions are those of the row, a key that is shut out stays out |
| `Sessions` | 2 calls of 2 callers, 2 passwords, a charge, a background rehash, outages: the account keeps what was done to it, guesses are bounded, an ended login stays ended |
| `Applications` | 1 company, 2 people, 1 seat, 2 handlers, 1 fault: one fault strands one application, direct creation overruns by the requests under way, who can change a decision |
| `PlatformAdmins` | 2 administrators who may change and delete one another, 2 handlers: when the last super administrator can be lost, when the cache can differ from the row |
| `MemberQuotas` | 1 user, 2 quota rows, 2 callers: quota and user row agree, usage is kept, overshoot is below one request per caller |

**Bounds.** Two handlers, callers or workers are enough for every pairwise overlap, which is
where all these races are; the operations they start are bounded (`MaxCalls`) so that each
can meet any other at every statement, while expiry, background steps, restarts and
failures of statements are not bounded. In `UsageBilling`, two workers and a channel of two are
the smallest numbers at which workers race and the channel is full while both are busy with
the third request; costs 2, 2 and 1 against balances 3 and 1 give a refusal, an exact
fit and a user the others must not affect. Four callers with one counted probe leave two
more that are refused or report late. In `TenantCredit` the costs 2 and 1 against a
balance of 1, a limit of 3 and a threshold of 2 make a request fit the balance, the credit
or neither, and settlement due or not; requests may be of the tenant, of its member or of
the individual. `Admission` has one connection and limits of two, so that the second caller
is refused, a first failure is counted and a second blocks. `MCSessions` explores outages
and old hashes with email verification required and not both together, to stay within
reach; neither affects the other in the code. Symmetry permutes the callers, which no
definition tells apart. The theorems hold without these bounds.
Runs in which every request, order and operation may have ended set `CHECK_DEADLOCK FALSE`.

**Fairness.** `UsageBilling` assumes that a goroutine that can run does (weak fairness of
each step of `RecordUsage` and of `Take`); `Exit` is strongly fair because Go's select
chooses uniformly among the ready cases, so a channel that is ready again and again
cannot win forever. Nothing makes requests arrive, and nothing makes Stop or a crash
happen. `CircuitBreaker` assumes that `ResetTimeout` passes, that requests keep coming
(an idle breaker stays open, since only `Allow` moves it) and that a caller reports or is
forgotten; `TrialEnds` exempts trials in which a caller was forgotten, because a probe
that never reports uses up its place for good. `ProviderAccounts` assumes that started
operations and callbacks go on and that the five minutes pass; `RateLimitEnds` exempts a
stopped service, a dead process and a failed recovery statement, since the code retries
none of them. It is about accounts that were the default when they were limited: the
others get no timer. The other modules promise nothing that must eventually happen: their
requests end by themselves, and what is left undone after a failure is retried by nobody.

## Theorems

All theorems hold for every finite or infinite set of requests, users, orders,
accounts, handlers and callers (finite where a count of them is taken), and every setting the
named assumptions allow. Every invariant and every action property that a run checks is
stated by a theorem.

- **Usage billing** (`BillingAssumption`: costs are natural and additive;
  `QueueAssumption`). `IInv` is the conjunction of `TypeOK`, `OneHandler`, `Conservation`,
  `Solvent` and `RefusalJustified`. Conservation is what makes the others inductive: that a
  refused charge did not fit follows from what has left the balance so far, and
  `DeductBalance` keeps balances non-negative by its guard. A request is deducted by at
  most one worker because `OneHandler` ties the channel and the jobs to the phases.
  `Frame` reduces every step that does not change the sum to one argument. The refinement
  theorem needs no case per action: settled phases stay (`SettledForGood`), so each step
  settles the requests that it newly records, leaks or gives up (`StepSettles`), and with
  Conservation before and after it a user's funds are the initial balance less what has been
  paid for good (`FundsLeft`). That they cover the step's cost is Solvent after it.
- **API key usage** (`UsageAssumption`). `NeverOverstated` is not inductive: a stale copy
  may be written later, so `CopiesBounded` bounds every copy that handlers and
  administrators hold. `TotalExact` needs only that a request is counted once
  (`Progress`).
- **Payment orders** (`PaymentAssumption`). `RepeatRefused` needs that a handler beyond
  `SavePaid`, and an order that was credited, have a status no stale save turns into
  pending again; that holds because creation's save precedes the trade and cancellation
  never saves pending. `NoMoneyInvented` bounds the handlers' copies; `ExactUnlessOverlapped`
  needs that a copy of an account outside `overlapped` is fresh and the only one; a
  recharge by hand adds in place and disturbs a copy held by a handler, never the reverse.
  `CreditsArePaid` assumes `FailedNotices = FALSE`; with `TRUE` it is false, as described below.
- **Circuit breaker** (`SettingsAssumption`). `CountersJustified` relates the code's
  counters to the history; that the breaker opens and closes only for the configured reasons
  (`OpensJustified`, `ClosesJustified`) follows from it.
- **Provider accounts** (`AccountsAssumption`). `SingleDefault` is not inductive: what
  protects it is that a caller between the two statements of `SetDefault`, or before the
  insert or save of a default row, has no other default beside it (`InHand`), which in
  turn needs that an account that is gone has no flag (`DefaultsExist`) and that each job
  knows its account (`JobsKnow`). The steps are of two kinds, those that set no flag
  (`QuietStep`) and those that write one row (`LoudStep`). `TimersTracked` is inductive
  given the types.
- **Admission** (`AdmissionAssumption`: finitely many callers). `ConnectionsCounted` needs that
  only a request between its admission and its release holds a connection
  (`HoldersServed`), so that whoever arrives or ends elsewhere changes no count; each step is
  then one that takes, gives back or keeps (`AcquireMoves`, `ReleaseMoves`, `OthersKeep`).
  `PermInv` strengthens `PermissionsCurrent` by "and nothing is cached while a change is
  about to be saved", which is why the order in `UpdateAPIKey` (drop, then save) is sound
  against everything but a stale store. `ShutOutKept` says of each step that it is `Quiet`.
- **Platform administrators** (`AdminsAssumption`, `NoneAssumption`). `SuperInv`: a change that is
  not `overtaken` was checked against the table as it is, and its actor, unless `stale`, is
  still a super administrator beside the one it removes. `CacheInv`: an entry that differs from
  its row was stored while a change of the row was under way.
- **Member quotas** (`QuotaAssumption`, `NoneAssumption`). `IInv` adds to `UsageKept` that a job
  holds the copies its point needs (`Holds`), that a copy not `overtaken` equals the row but for
  what the operation sets (`CopiesFresh`), and that a row never inserted has no usage (`Fresh`).
  On top of it, `LInv` proves `Linked` and `OvershootBounded`. A user has one quota row,
  deleted or not (`RowsUnique`, the unique index); without a late or half-done save it agrees
  with the user row except while a creation or a deletion is between its two statements,
  what is about to be removed is unlinked already, and what is about to be linked nobody
  removes (`LinkOrder`). Each usage beyond the limit is of a caller that passed the check
  before: the excess and the callers still to count together stay below one per caller.
- **Tenant credit** (`CreditAssumption`). None of the properties is inductive: what a save does to
  the credit used depends on the copy it saves. As long as nobody has overtaken
  anybody (`overlapped`), a copy says what its job is going to charge or to bill
  (`CopiesFresh`); a payment holds what was left of the bill when it was read, which later
  payments only make smaller (`JobsOK`, `BillCovered`), so a bill marked paid was paid; and every
  row or application that carries a credit was preceded by a grant. The lemmas on
  `DeductOrganization` and `DeductIndividual` say which row they return and what it adds to the
  credit. `AllowanceCovers` is a statement about the two cascades, check and
  deduction, for every row and cost.
- **Account manager** (`ManagerAssumption`). `RefreshTakesEffect` is not inductive: a copy
  travels from the statement that read it to the one that stores it. While it does, the
  account it names is in service or no refresh has seen its retirement (`JobsOK`); what a
  refresh holds names no account it saw retired. `CooldownKept` needs `SwitchesCounted`: of two
  switches under way, or one within the cooldown of another, the history says so.
- **Applications** (`BoundsAssumption`: finitely many handlers and people; `NoneAssumption`). `AppInv`
  says that each job holds a row that exists with the status it needs (`AppJobsOK`), that the
  stranded applications are finite and at most the faults, since only a step that counts a
  fault leaves one behind, and that members and the direct creations past their check stay
  within the seats and the handlers. `DecisionsStand` follows: whoever overwrites a decision
  carries the status it read before.
- **Sessions** (`SessionsAssumption`: finitely many callers, and at most 5 calls, which is what the
  password history remembers). `SessionInv` strengthens `UserKept` by what a request holds at
  each point (`JobsFit`: a row that is saved is that of a user, a row that is inserted is neither
  verified nor charged, a mail is sent only for a row that is not verified) and by what holds
  before the user exists (`RowsFit`). `GuessesBounded` follows from two counts of callers
  (`GuessesCounted`): wrong guesses are recorded or about to be, and recorded ones and requests
  past the check stay below the limit plus the callers, whichever order the login's statements
  interleave in. `LoginsCounted` and `MailsCounted` account for every refresh token and mail by a
  call, so that the number given next is free; `SessionEnds` needs the former: a step moves a
  request to a login that is in use or new, never to an ended one (`Moves`).

**Only model-checked**: liveness (`AcceptedSettles`, `StopReturns`, `TrialEnds`,
`RateLimitEnds`), because TLAPS proves no liveness under fairness here.

## What the code does otherwise

Places where the code does something else than a comment or a reader would expect, each
of which the models contain. The first group are counterexamples to statements the
properties would make without their exception.

- `Stop` ("gracefully stops the queue", `async_billing.go:137`) returns with accepted events
  in the channel: a worker's select may choose `stopCh` while events are ready (`:93`).
- Two simultaneous notices of one payment may both credit: the status is read, checked and saved
  in three steps (`payment_service.go:179`). The whole-row save of an account loses a credit
  of another order (`:280`) or a recharge by hand (`billing_service.go:170`). A cancellation that read the
  order before a notice overwrites "paid" (`:158`). A verified notice of a trade that closed
  unpaid would credit (`payment_handler.go:223`); `PaymentOrder.cfg` therefore
  assumes that providers send none (`FailedNotices = FALSE`).
- The total of a key's tokens counts a request twice (`transparent_proxy_handler.go:393`, once by
  `UpdateTokenUsage` and once in the provider usage); the models count what is added.
- An account that was disabled by hand becomes active again by the recovery timer or by
  `UpdateAccount` of a copy (`provider_account_service.go:343`, `:164`). The query for public
  accounts also returns dedicated ones (`repositories.go:960`), so the cache may hold one.
- All settlement bills have the empty number, and the number is unique: after the first
  bill no other is created, and credit used afterwards stays on the row.
- The connection counter of an address expires 60 s after the last attempt to connect, open
  connections or not; counting down an expired key makes a negative one that never expires.
- Approving a request and accepting an invitation do not look at `MaxUsers`; only direct creation
  does. Members who joined by an application get no `user_tenants` row. The unique `invite_token` (`entity.go:477`) is the empty string for all
  requests and direct creations, so only one such row can ever be inserted.
- Saving a copy of a deleted row inserts it again (GORM `Save`): deleted administrators and
  member quotas come back this way. The unique index on a member quota's user (`entity.go:566`)
  also counts deleted rows, so a second quota can never be created for a user.
- `UpdateAdmin` and `UpdateMemberQuota` accept any string as a status.
- With late saves the usage of a member quota can exceed its limit without bound: each late
  save takes usage back that was counted.

## Not modelled

- The gateways' HTTP calls, signatures and conversions of amounts, prices and currencies: an order
  is paid in full or short of it, and a notice is verified.
- What nothing calls: `GenerateBill`, `CheckCostLimits`, `RecordCost`, `CheckAndTriggerAlerts`,
  `CacheWarmupService`, `StartReview`, `APIKeyValidator`, `Logout` of platform administrators,
  the token-update channel and pending batches of the billing queue. `MemberQuotaService` and the
  checks of `QuotaService` are modelled although the container does not construct or call them,
  because the handlers that would use them are written.
- Token buckets and sliding windows: whether a rate is exceeded is left open in `Admission`.
- Devices, anomaly detection, audit rows, roles, contents of password rules and of applications.
- Latency, success and weight statistics of the load balancer, which no caller records.
- Handlers and routes beyond what they decide about state, configuration, logging, metrics,
  hashing, buffers, start-up data and notifications: no order of events matters there.

## Checking

`tlc -config <run>.cfg <module>` runs a model (`MC<module>` where there is one), `tlapm
<name>Proofs.tla` checks the theorems of a module of proofs. `PROJECT.json` lists the runs, for each property a
mutant of the model that it refutes, the lines of the source each definition stands for, and
the hazards of the code with the properties that cover them.
