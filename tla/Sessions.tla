------------------------------ MODULE Sessions ------------------------------
(***************************************************************************)
(* Signing in: UserAuthService, JWTService, LoginSecurityService and       *)
(* EmailVerificationService, for one email address and one client address. *)
(*                                                                         *)
(* job[w] is what caller w (a request in its handler) holds between its    *)
(* statements.  A statement on the database may fail; one on Redis may     *)
(* fail in the behaviours with an outage.  Every change of the user row    *)
(* saves the whole row as it was read, its password, its verification and  *)
(* its balance included; only the billing changes the balance in place.    *)
(*                                                                         *)
(* Roles, devices and audit rows are left out, and so is which tenant a    *)
(* token names or is the default: a refresh may find no default tenant.    *)
(* The password history keeps the last 5 passwords, more than MaxCalls     *)
(* changes produce.                                                        *)
(*                                                                         *)
(* The specification is SessionSpec, with a name of its own: the theorems  *)
(* about it share a module with those of another component.                *)
(***************************************************************************)
EXTENDS Integers, FiniteSets

CONSTANTS
    Passwords,             \* that satisfy the rules for passwords
    Public,                \* the public tenant
    Orgs,                  \* tenants that may be registered
    Callers,
    MaxCalls,              \* bound on the requests, failed logins not counted
    MaxSpends,             \* bound on the charges to the balance
    MaxFailed,             \* maxFailedAttempts
    MaxCounted             \* bound on the counter of failed attempts

ASSUME SessionsAssumption ==
    /\ Public \notin Orgs /\ Passwords # {} /\ IsFiniteSet(Callers)
    /\ MaxCalls \in 1..5 /\ MaxSpends \in Nat /\ MaxFailed \in Nat \ {0}
    /\ MaxCounted \in Nat

Tenants == {Public} \cup Orgs
Logins == 1..(MaxCalls + 1)        \* refresh tokens; a call issues at most one
TokenIds == 1..(MaxCalls + 1)      \* access tokens; a call mints at most one
Mails == 1..(MaxCalls + 1)         \* verification tokens

Users == [status : {"absent", "pending_verification", "active"}, password : Passwords,
          legacy : BOOLEAN,        \* the hash has a lower cost than the configured one
          verified : BOOLEAN, mail : {0} \cup Mails, balance : Int]
Refreshes == {"none", "stored", "void"}   \* void: revoked, expired or never stored
Tokens == [login : {0} \cup Logins, state : {"none", "live", "blacklisted", "expired"}]

Points == {"idle", "lookup", "record", "block", "issue", "saveLogin", "refresh",
           "switch", "invalidate", "history", "savePassword",
           "revokeAll", "saveVerified", "create", "send", "createTenant", "createUser",
           "join", "welcome", "edit"}
Jobs == [pc : Points, read : Users, password : Passwords, tenant : Tenants,
         token : {0} \cup TokenIds, login : {0} \cup Logins]

VARIABLES
    requireEmailVerify,            \* configuration
    user,
    tenants,                       \* that exist
    members,                       \* user_tenants of the user
    oldPasswords,                  \* password_histories
    refresh,                       \* refresh_tokens
    tokens,                        \* access tokens, with the blacklist of Redis
    failures, blocked,             \* login_failed and login_blocked_ip of Redis
    rehash,                        \* the goroutine that upgrades a hash: the row it holds
    mails,                         \* verification tokens sent
    job, calls,
    outage,                        \* Redis may be out of reach at times
    raced,                         \* history: a row was saved that had changed since its read
    chosen, ledger, confirmed,     \* history: password set, balance due, address confirmed
    guesses                        \* history: wrong passwords compared in this window, Redis up

sessionVars == <<requireEmailVerify, user, tenants, members, oldPasswords, refresh, tokens,
                 failures, blocked, rehash, mails, job, calls, outage, raced, chosen, ledger,
                 confirmed, guesses>>
wishes == <<chosen, ledger, confirmed>>
grants == <<refresh, tokens>>
lockout == <<failures, blocked, guesses>>
rest == <<requireEmailVerify, outage>>

AnyPassword == CHOOSE p \in Passwords : TRUE
Absent == [status |-> "absent", password |-> AnyPassword, legacy |-> FALSE,
           verified |-> FALSE, mail |-> 0, balance |-> 0]
Idle == [pc |-> "idle", read |-> Absent, password |-> AnyPassword, tenant |-> Public,
         token |-> 0, login |-> 0]
NoToken == [login |-> 0, state |-> "none"]

\* A new address, or that of a user who has confirmed it and is signed in.
SessionInit ==
    /\ requireEmailVerify \in BOOLEAN
    /\ \/ /\ user = Absent /\ members = {} /\ confirmed = FALSE
          /\ refresh = [s \in Logins |-> "none"]
          /\ tokens = [i \in TokenIds |-> NoToken]
       \/ /\ \E old \in BOOLEAN :
                user = [Absent EXCEPT !.status = "active", !.verified = TRUE, !.legacy = old]
          /\ members = {Public} /\ confirmed = TRUE
          /\ refresh = [s \in Logins |-> IF s = 1 THEN "stored" ELSE "none"]
          /\ tokens = [i \in TokenIds |-> IF i = 1 THEN [login |-> 1, state |-> "live"]
                                                    ELSE NoToken]
    /\ tenants = {Public}
    /\ oldPasswords = {} /\ failures = 0 /\ blocked = FALSE /\ rehash = {} /\ mails = 0
    /\ job = [w \in Callers |-> Idle] /\ calls = 0
    /\ outage \in BOOLEAN /\ raced = FALSE
    /\ chosen = user.password /\ ledger = 0 /\ guesses = 0

Start(w, j) ==
    /\ job[w].pc = "idle" /\ calls < MaxCalls
    /\ calls' = calls + 1
    /\ job' = [job EXCEPT ![w] = j]

Step(w, from, to) ==
    /\ job[w].pc = from
    /\ job' = [job EXCEPT ![w] = IF to = "idle" THEN Idle ELSE [@ EXCEPT !.pc = to]]
    /\ UNCHANGED calls

\* The whole row is saved; columns that changed since it was read are lost.
Save(read, row) ==
    /\ user' = row
    /\ raced' = (raced \/ user # read)

Live(i) == tokens[i].state = "live" \/ (tokens[i].state = "blacklisted" /\ outage)

\* The token, the user and a membership are active; the middleware asks the same.
Authorized(i) == Live(i) /\ user.status = "active" /\ members # {}
JWTAuthMiddleware(i) == Authorized(i)

NextLogin ==
    CHOOSE s \in Logins : refresh[s] = "none" /\ \A r \in 1..(s - 1) : refresh[r] # "none"
NextToken ==
    CHOOSE i \in TokenIds : tokens[i] = NoToken /\ \A k \in 1..(i - 1) : tokens[k] # NoToken
Mint(s) == tokens' = [tokens EXCEPT ![NextToken] = [login |-> s, state |-> "live"]]

\* The refresh token is stored; a failure to do so is ignored.
Issue == \E r \in {"stored", "void"} : refresh' = [refresh EXCEPT ![NextLogin] = r]

-----------------------------------------------------------------------------
(* Login *)

LoginAllowed == outage \/ (~blocked /\ failures < MaxFailed)

Login(w, p) ==
    /\ LoginAllowed /\ failures < MaxCounted
    /\ job[w].pc = "idle"
    /\ job' = [job EXCEPT ![w] = [Idle EXCEPT !.pc = "lookup", !.password = p]]
    /\ UNCHANGED <<calls, user, tenants, members, oldPasswords, grants, lockout, rehash,
                   mails, raced, wishes, rest>>

MayLogin(u) == u.status = "active" /\ (requireEmailVerify => u.verified)

\* The row is read, the password compared; an old hash is replaced in the background.
Lookup(w) ==
    /\ \/ /\ ~ MayLogin(user)
          /\ Step(w, "lookup", "record")
          /\ UNCHANGED <<rehash, guesses>>
       \/ /\ MayLogin(user) /\ user.password # job[w].password
          /\ Step(w, "lookup", "record")
          /\ guesses' = IF outage THEN guesses ELSE guesses + 1
          /\ UNCHANGED rehash
       \/ /\ MayLogin(user) /\ user.password = job[w].password
          /\ job[w].pc = "lookup" /\ calls < MaxCalls
          /\ job' = [job EXCEPT ![w].pc = "issue", ![w].read = user]
          /\ calls' = calls + 1
          /\ rehash' = IF user.legacy THEN rehash \cup {user} ELSE rehash
          /\ UNCHANGED guesses
    /\ UNCHANGED <<user, tenants, members, oldPasswords, grants, failures, blocked, mails,
                   raced, wishes, rest>>

\* Mutant: a failed attempt is not counted.
RecordNothing(w) ==
    /\ Step(w, "record", "idle")
    /\ UNCHANGED <<user, tenants, members, oldPasswords, grants, lockout, rehash, mails,
                   raced, wishes, rest>>

RecordFailedAttempt(w) ==
    /\ \/ /\ failures' = failures + 1
          /\ Step(w, "record", IF failures + 1 >= MaxFailed THEN "block" ELSE "idle")
       \/ /\ outage
          /\ Step(w, "record", "idle") /\ UNCHANGED failures
    /\ UNCHANGED <<user, tenants, members, oldPasswords, grants, blocked, guesses, rehash,
                   mails, raced, wishes, rest>>

BlockIP(w) ==
    /\ Step(w, "block", "idle")
    /\ \/ blocked' = TRUE
       \/ outage /\ UNCHANGED blocked
    /\ UNCHANGED <<user, tenants, members, oldPasswords, grants, failures, guesses, rehash,
                   mails, raced, wishes, rest>>

\* The failures are forgotten, the tenants read, tokens generated and the
\* refresh token stored.
GenerateToken(w) ==
    /\ \/ failures' = 0 /\ guesses' = 0
       \/ outage /\ UNCHANGED <<failures, guesses>>
    /\ \/ /\ members = {}
          /\ Step(w, "issue", "record") /\ UNCHANGED refresh
       \/ /\ job[w].pc = "issue"
          /\ members # {} /\ Issue
          /\ job' = [job EXCEPT ![w].pc = "saveLogin", ![w].login = NextLogin]
          /\ UNCHANGED calls
       \/ Step(w, "issue", "idle") /\ UNCHANGED refresh
    /\ UNCHANGED <<user, tenants, members, oldPasswords, tokens, blocked, rehash, mails,
                   raced, wishes, rest>>

SaveLogin(w) ==
    /\ Step(w, "saveLogin", "idle")
    /\ \/ Save(job[w].read, job[w].read)
       \/ UNCHANGED <<user, raced>>
    /\ Mint(job[w].login)
    /\ UNCHANGED <<tenants, members, oldPasswords, refresh, lockout, rehash, mails, wishes,
                   rest>>

UpgradeHash ==
    /\ \E r \in rehash :
          /\ \/ Save(r, [r EXCEPT !.legacy = FALSE])
             \/ UNCHANGED <<user, raced>>
          /\ rehash' = rehash \ {r}
    /\ UNCHANGED <<tenants, members, oldPasswords, grants, lockout, mails, job, calls,
                   wishes, rest>>

-----------------------------------------------------------------------------
(* Tokens *)

\* Mutant: only the signature of the refresh token is checked.
RefreshAnyToken(w, s) ==
    /\ refresh[s] # "none"
    /\ Start(w, [Idle EXCEPT !.pc = "refresh", !.login = s])
    /\ UNCHANGED <<user, tenants, members, oldPasswords, grants, lockout, rehash, mails,
                   raced, wishes, rest>>

\* RefreshToken: the check of the stored token and the minting are separate.
RefreshToken(w, s) ==
    /\ refresh[s] = "stored"
    /\ Start(w, [Idle EXCEPT !.pc = "refresh", !.login = s])
    /\ UNCHANGED <<user, tenants, members, oldPasswords, grants, lockout, rehash, mails,
                   raced, wishes, rest>>

MintRefreshed(w) ==
    /\ Step(w, "refresh", "idle")
    /\ \/ members # {} /\ Mint(job[w].login)
       \/ UNCHANGED tokens                \* no default tenant is found
    /\ UNCHANGED <<user, tenants, members, oldPasswords, refresh, lockout, rehash, mails,
                   raced, wishes, rest>>

\* SwitchTenant marks the default tenant and mints a token from the access token.
SwitchTenant(w, i, t) ==
    /\ Authorized(i) /\ t \in members
    /\ Start(w, [Idle EXCEPT !.pc = "switch", !.token = i, !.tenant = t,
                             !.login = tokens[i].login])
    /\ UNCHANGED <<user, tenants, members, oldPasswords, grants, lockout, rehash, mails,
                   raced, wishes, rest>>

MintSwitched(w) ==
    /\ Step(w, "switch", "idle")
    /\ IF Live(job[w].token) THEN Mint(job[w].login) ELSE UNCHANGED tokens
    /\ UNCHANGED <<user, tenants, members, oldPasswords, refresh, lockout, rehash, mails,
                   raced, wishes, rest>>

Blacklist(i) ==
    IF tokens[i].state = "live" THEN [tokens EXCEPT ![i].state = "blacklisted"] ELSE tokens

Logout(w, i) ==
    /\ JWTAuthMiddleware(i)
    /\ Start(w, Idle)
    /\ tokens' = Blacklist(i)
    /\ UNCHANGED <<user, tenants, members, oldPasswords, refresh, lockout, rehash, mails,
                   raced, wishes, rest>>

RevokeAllByUser == [s \in Logins |-> IF refresh[s] = "stored" THEN "void" ELSE refresh[s]]

LogoutAll(w, i) ==
    /\ JWTAuthMiddleware(i)
    /\ Start(w, [Idle EXCEPT !.pc = "invalidate", !.token = i])
    /\ refresh' = RevokeAllByUser
    /\ UNCHANGED <<user, tenants, members, oldPasswords, tokens, lockout, rehash, mails,
                   raced, wishes, rest>>

InvalidateToken(w) ==
    /\ Step(w, "invalidate", "idle")
    /\ \/ tokens' = Blacklist(job[w].token)
       \/ outage /\ UNCHANGED tokens
    /\ UNCHANGED <<user, tenants, members, oldPasswords, refresh, lockout, rehash, mails,
                   raced, wishes, rest>>

-----------------------------------------------------------------------------
(* The password and the address *)

\* The history is not compared when it cannot be read.
ChangePassword(w, i, p) ==
    /\ JWTAuthMiddleware(i)
    /\ p # user.password
    /\ \E readable \in BOOLEAN : readable => p \notin oldPasswords
    /\ Start(w, [Idle EXCEPT !.pc = "history", !.read = user, !.password = p])
    /\ UNCHANGED <<user, tenants, members, oldPasswords, grants, lockout, rehash, mails,
                   raced, wishes, rest>>

SavePasswordHistory(w) ==
    /\ Step(w, "history", "savePassword")
    /\ \/ oldPasswords' = oldPasswords \cup {job[w].read.password}
       \/ UNCHANGED oldPasswords
    /\ UNCHANGED <<user, tenants, members, grants, lockout, rehash, mails, raced, wishes,
                   rest>>

SavePassword(w) ==
    /\ \/ /\ Step(w, "savePassword", "revokeAll")
          /\ Save(job[w].read, [job[w].read EXCEPT !.password = job[w].password, !.legacy = FALSE])
          /\ chosen' = job[w].password
       \/ /\ Step(w, "savePassword", "idle") /\ UNCHANGED <<user, raced, chosen>>
    /\ UNCHANGED <<tenants, members, oldPasswords, grants, lockout, rehash, mails, ledger,
                   confirmed, rest>>

RevokeAll(w) ==
    /\ Step(w, "revokeAll", "idle")
    /\ \/ refresh' = RevokeAllByUser
       \/ UNCHANGED refresh
    /\ UNCHANGED <<user, tenants, members, oldPasswords, tokens, lockout, rehash, mails,
                   raced, wishes, rest>>

VerifyEmail(w, n) ==
    /\ user.mail = n /\ ~user.verified
    /\ Start(w, [Idle EXCEPT !.pc = "saveVerified", !.read = user])
    /\ UNCHANGED <<user, tenants, members, oldPasswords, grants, lockout, rehash, mails,
                   raced, wishes, rest>>

SaveVerified(w) ==
    /\ Step(w, "saveVerified", "idle")
    /\ \/ /\ Save(job[w].read, [job[w].read EXCEPT !.verified = TRUE, !.mail = 0,
                                                   !.status = "active"])
          /\ confirmed' = TRUE
       \/ UNCHANGED <<user, raced, confirmed>>
    /\ UNCHANGED <<tenants, members, oldPasswords, grants, lockout, rehash, mails, chosen,
                   ledger, rest>>

\* Mutant: a new mail is sent to an address that is confirmed.
ResendAnyway(w) ==
    /\ user.status # "absent"
    /\ Start(w, [Idle EXCEPT !.pc = "send", !.read = user])
    /\ UNCHANGED <<user, tenants, members, oldPasswords, grants, lockout, rehash, mails,
                   raced, wishes, rest>>

ResendVerification(w) ==
    /\ user.status # "absent" /\ ~user.verified
    /\ Start(w, [Idle EXCEPT !.pc = "send", !.read = user])
    /\ UNCHANGED <<user, tenants, members, oldPasswords, grants, lockout, rehash, mails,
                   raced, wishes, rest>>

\* The user waits for verification again, with a new token.
SendVerificationEmail(w) ==
    /\ Step(w, "send", "idle")
    /\ \/ /\ mails' = mails + 1
          /\ Save(job[w].read, [job[w].read EXCEPT !.mail = mails + 1, !.verified = FALSE,
                                                   !.status = "pending_verification"])
       \/ UNCHANGED <<mails, user, raced>>
    /\ UNCHANGED <<tenants, members, oldPasswords, grants, lockout, rehash, wishes, rest>>

-----------------------------------------------------------------------------
(* Registration *)

NewUser(p) == [Absent EXCEPT !.status = "pending_verification", !.password = p]

\* Of an address that is new, or that waits for verification.
Register(w, p) ==
    /\ \/ /\ user.status = "absent"
          /\ Start(w, [Idle EXCEPT !.pc = "create", !.read = NewUser(p)])
       \/ /\ user.status # "absent" /\ ~user.verified /\ requireEmailVerify
          /\ Start(w, [Idle EXCEPT !.pc = "send", !.read = user])
    /\ UNCHANGED <<user, tenants, members, oldPasswords, grants, lockout, rehash, mails,
                   raced, wishes, rest>>

\* The address is unique: of two that create the user one fails.
InsertUser(u) ==
    /\ user.status = "absent"
    /\ user' = u /\ chosen' = u.password

CreateUser(w) ==
    /\ \/ /\ InsertUser(job[w].read)
          /\ members' = members \cup {Public}
          /\ Step(w, "create", IF requireEmailVerify THEN "send" ELSE "welcome")
       \/ Step(w, "create", "idle") /\ UNCHANGED <<user, chosen, members>>
    /\ UNCHANGED <<tenants, oldPasswords, grants, lockout, rehash, mails, raced, ledger,
                   confirmed, rest>>

\* Tokens are given at once when no verification is asked for.
Welcome(w) ==
    /\ Step(w, "welcome", "idle")
    /\ Issue /\ Mint(NextLogin)
    /\ UNCHANGED <<user, tenants, members, oldPasswords, lockout, rehash, mails, raced,
                   wishes, rest>>

RegisterTenant(w, p, t) ==
    /\ t \notin tenants
    /\ user.status # "absent" /\ requireEmailVerify => user.verified
    /\ Start(w, [Idle EXCEPT !.pc = "createTenant", !.password = p, !.tenant = t,
                    !.read = IF user.status = "absent" THEN NewUser(p) ELSE user])
    /\ UNCHANGED <<user, tenants, members, oldPasswords, grants, lockout, rehash, mails,
                   raced, wishes, rest>>

\* Mutant: the failure to create the tenant is ignored.
CreateTenantIgnoring(w) ==
    /\ Step(w, "createTenant", IF job[w].read = NewUser(job[w].password)
                               THEN "createUser" ELSE "join")
    /\ \/ tenants' = tenants \cup {job[w].tenant}
       \/ UNCHANGED tenants
    /\ UNCHANGED <<user, members, oldPasswords, grants, lockout, rehash, mails, raced,
                   wishes, rest>>

\* The slug is unique.  The tenant stays when a later statement fails.
CreateTenant(w) ==
    /\ \/ /\ job[w].tenant \notin tenants
          /\ tenants' = tenants \cup {job[w].tenant}
          /\ Step(w, "createTenant", IF job[w].read = NewUser(job[w].password)
                                     THEN "createUser" ELSE "join")
       \/ Step(w, "createTenant", "idle") /\ UNCHANGED tenants
    /\ UNCHANGED <<user, members, oldPasswords, grants, lockout, rehash, mails, raced,
                   wishes, rest>>

CreateAdmin(w) ==
    /\ \/ InsertUser(job[w].read) /\ Step(w, "createUser", "join")
       \/ Step(w, "createUser", "idle") /\ UNCHANGED <<user, chosen>>
    /\ UNCHANGED <<tenants, members, oldPasswords, grants, lockout, rehash, mails, raced,
                   ledger, confirmed, rest>>

JoinTenant(w) ==
    /\ \/ /\ members' = members \cup {job[w].tenant}
          /\ Step(w, "join", IF ~requireEmailVerify THEN "welcome"
                            ELSE IF ~job[w].read.verified THEN "send" ELSE "idle")
       \/ Step(w, "join", "idle") /\ UNCHANGED members
    /\ UNCHANGED <<user, tenants, oldPasswords, grants, lockout, rehash, mails, raced,
                   wishes, rest>>

-----------------------------------------------------------------------------
(* The user row in other hands, and time *)

\* SetUserBudget and the services of member quotas read the row and save it.
EditUser(w) ==
    /\ user.status # "absent"
    /\ Start(w, [Idle EXCEPT !.pc = "edit", !.read = user])
    /\ UNCHANGED <<user, tenants, members, oldPasswords, grants, lockout, rehash, mails,
                   raced, wishes, rest>>

SaveEdited(w) ==
    /\ Step(w, "edit", "idle")
    /\ \/ Save(job[w].read, job[w].read)
       \/ UNCHANGED <<user, raced>>
    /\ UNCHANGED <<tenants, members, oldPasswords, grants, lockout, rehash, mails, wishes,
                   rest>>

\* The billing takes a charge from the balance in one statement.
Spend ==
    /\ user.status # "absent" /\ ledger > -MaxSpends
    /\ user' = [user EXCEPT !.balance = @ - 1] /\ ledger' = ledger - 1
    /\ UNCHANGED <<tenants, members, oldPasswords, grants, lockout, rehash, mails, job,
                   calls, raced, chosen, confirmed, rest>>

ExpireToken(i) ==
    /\ tokens[i].state = "live"
    /\ tokens' = [tokens EXCEPT ![i].state = "expired"]
    /\ UNCHANGED <<user, tenants, members, oldPasswords, refresh, lockout, rehash, mails,
                   job, calls, raced, wishes, rest>>

ExpireRefresh(s) ==
    /\ refresh[s] = "stored"
    /\ refresh' = [refresh EXCEPT ![s] = "void"]
    /\ UNCHANGED <<user, tenants, members, oldPasswords, tokens, lockout, rehash, mails, job,
                   calls, raced, wishes, rest>>

ExpireFailures ==
    /\ failures > 0 /\ failures' = 0 /\ guesses' = 0
    /\ UNCHANGED <<user, tenants, members, oldPasswords, grants, blocked, rehash, mails, job,
                   calls, raced, wishes, rest>>

ExpireBlock ==
    /\ blocked /\ blocked' = FALSE
    /\ UNCHANGED <<user, tenants, members, oldPasswords, grants, failures, guesses, rehash,
                   mails, job, calls, raced, wishes, rest>>

-----------------------------------------------------------------------------
(* The routes *)

LoginRoute(w) ==
    \/ \E p \in Passwords : Login(w, p)
    \/ Lookup(w) \/ RecordFailedAttempt(w) \/ BlockIP(w)
    \/ GenerateToken(w) \/ SaveLogin(w)

RegisterRoutes(w) ==
    \/ \E p \in Passwords : Register(w, p) \/ \E t \in Orgs : RegisterTenant(w, p, t)
    \/ CreateUser(w) \/ Welcome(w) \/ CreateTenant(w) \/ CreateAdmin(w) \/ JoinTenant(w)

VerificationRoutes(w) ==
    \/ \E n \in Mails : VerifyEmail(w, n)
    \/ ResendVerification(w) \/ SaveVerified(w) \/ SendVerificationEmail(w)

TokenRoutes(w) ==
    \/ \E s \in Logins : RefreshToken(w, s)
    \/ \E i \in TokenIds, t \in Tenants : SwitchTenant(w, i, t)
    \/ MintRefreshed(w) \/ MintSwitched(w)

AccountRoutes(w) ==
    \/ \E i \in TokenIds : \/ Logout(w, i)
                           \/ LogoutAll(w, i)
                           \/ \E p \in Passwords : ChangePassword(w, i, p)
    \/ InvalidateToken(w) \/ SavePasswordHistory(w) \/ SavePassword(w) \/ RevokeAll(w)

Expiry ==
    \/ \E i \in TokenIds : ExpireToken(i)
    \/ \E s \in Logins : ExpireRefresh(s)
    \/ ExpireFailures \/ ExpireBlock

SessionNext ==
    \/ \E w \in Callers :
          \/ LoginRoute(w) \/ RegisterRoutes(w) \/ VerificationRoutes(w)
          \/ TokenRoutes(w) \/ AccountRoutes(w) \/ EditUser(w) \/ SaveEdited(w)
    \/ UpgradeHash \/ Spend \/ Expiry

SessionSpec == SessionInit /\ [][SessionNext]_sessionVars

-----------------------------------------------------------------------------
(* Properties *)

\* The rows and what the requests hold are well formed.
SessionTypeOK ==
    /\ requireEmailVerify \in BOOLEAN /\ user \in Users
    /\ {Public} \subseteq tenants /\ tenants \subseteq Tenants
    /\ members \subseteq tenants
    /\ oldPasswords \subseteq Passwords
    /\ refresh \in [Logins -> Refreshes] /\ tokens \in [TokenIds -> Tokens]
    /\ failures \in Nat /\ guesses \in Nat /\ blocked \in BOOLEAN
    /\ rehash \subseteq Users /\ mails \in {0} \cup Mails
    /\ job \in [Callers -> Jobs] /\ calls \in 0..MaxCalls
    /\ outage \in BOOLEAN /\ raced \in BOOLEAN
    /\ chosen \in Passwords /\ ledger \in -MaxSpends..0 /\ confirmed \in BOOLEAN

\* Unless some caller saved a row that had changed since it was read, the user
\* has the password that was chosen last and no older one, has paid what was
\* charged, and stays verified once the address is confirmed.
UserKept ==
    ~ raced /\ user.status # "absent" =>
        /\ user.password = chosen
        /\ user.balance = ledger
        /\ confirmed => user.verified /\ user.status = "active"

\* While Redis answers, no more passwords are tried in one window than allowed,
\* but for those of requests that passed the check together.
GuessesBounded == ~ outage => guesses <= MaxFailed - 1 + Cardinality(Callers)

Ended(s) ==
    /\ refresh[s] = "void"
    /\ \A i \in TokenIds : tokens[i].login = s => tokens[i].state # "live"
    /\ \A w \in Callers : job[w].login # s

\* A login whose refresh token is revoked, whose access tokens have ended and
\* for which no request is under way, gets no access token any more.
SessionEnds == [][ \A s \in Logins : Ended(s) /\ ~ outage => Ended(s)' ]_sessionVars

=============================================================================
