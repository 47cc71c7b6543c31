---------------------------- MODULE APIKeyUsage ----------------------------
(***************************************************************************)
(* The usage counters of one API key: what finalizeBilling adds for each   *)
(* proxied request, and the administrators who save the key's whole row.   *)
(*                                                                         *)
(* The monthly total is changed by atomic increments; the per-provider     *)
(* counters live in one JSON column that is read, changed and written      *)
(* back.  The statements run under the client's request context, so each   *)
(* may fail, and then has had no effect.  The daily and the cost counters  *)
(* move exactly as the monthly token counters do and are left out.         *)
(***************************************************************************)
EXTENDS Integers, FiniteSets

CONSTANTS
    Served,        \* served requests of the key, with a positive token count
    Providers,
    ProviderOf,    \* ProviderOf[r]: the provider that served r
    TotalTokens,   \* TotalTokens[S]: the equivalent tokens of the requests of S
    Admins         \* concurrent administrator requests that save the key's row

Tokens(r) == TotalTokens[{r}]
For(p, S) == {r \in S : ProviderOf[r] = p}

ASSUME UsageAssumption ==
    /\ ProviderOf \in [Served -> Providers]
    /\ TotalTokens \in [SUBSET Served -> Nat]
    /\ TotalTokens[{}] = 0
    /\ \A S, T \in SUBSET Served :
         S \cap T = {} => TotalTokens[S \cup T] = TotalTokens[S] + TotalTokens[T]

VARIABLES
    total,      \* used_tokens_this_month
    usage,      \* the provider_usage column: tokens of the month by provider
    step,       \* where finalizeBilling is for each request
    seen,       \* the usage each request's UpdateProviderUsage has read
    edit,       \* the rows administrators have read and not yet saved
    counted,    \* history: the requests whose UpdateProviderUsage succeeded
    added,      \* history: the requests whose UpdateTokenUsage succeeded
    stale       \* history: the administrators that saved an out-of-date total

keyVars == <<total, usage, step, seen, edit, counted, added, stale>>

Usages == [Providers -> Nat]
NoUsage == [p \in Providers |-> 0]

KeyInit ==
    /\ total = 0 /\ usage = NoUsage
    /\ step = [r \in Served |-> "serve"]
    /\ seen = [r \in Served |-> NoUsage]
    /\ edit = {}
    /\ counted = {} /\ added = {} /\ stale = {}

Goto(r, s) == step' = [step EXCEPT ![r] = s]

-----------------------------------------------------------------------------
(* finalizeBilling *)

\* UpdateProviderUsage reads the row; when that fails it gives up.
ReadUsage(r) ==
    /\ step[r] = "serve"
    /\ \/ seen' = [seen EXCEPT ![r] = usage] /\ Goto(r, "write")
       \/ Goto(r, "add") /\ UNCHANGED seen
    /\ UNCHANGED <<total, usage, edit, counted, added, stale>>

\* Mutants: the total is read and written back like the column; the stats are
\* those of whatever provider comes first.
WriteBoth(r) ==
    /\ step[r] = "write"
    /\ usage' = [seen[r] EXCEPT ![ProviderOf[r]] = @ + Tokens(r)]
    /\ total' = seen[r][ProviderOf[r]] + Tokens(r)
    /\ counted' = counted \cup {r}
    /\ Goto(r, "add")
    /\ UNCHANGED <<seen, edit, added, stale>>

WriteAnyProvider(r) ==
    /\ step[r] = "write"
    /\ \E p \in Providers : usage' = [seen[r] EXCEPT ![p] = @ + Tokens(r)]
    /\ total' = total + Tokens(r)
    /\ counted' = counted \cup {r}
    /\ Goto(r, "add")
    /\ UNCHANGED <<seen, edit, added, stale>>

\* One UPDATE writes the column back and increments the total in place.
WriteUsage(r) ==
    /\ step[r] = "write"
    /\ \/ /\ usage' = [seen[r] EXCEPT ![ProviderOf[r]] = @ + Tokens(r)]
          /\ total' = total + Tokens(r)
          /\ counted' = counted \cup {r}
       \/ UNCHANGED <<total, usage, counted>>
    /\ Goto(r, "add")
    /\ UNCHANGED <<seen, edit, added, stale>>

\* UpdateTokenUsage increments the total.
AddTokens(r) ==
    /\ step[r] = "add"
    /\ \/ total' = total + Tokens(r) /\ added' = added \cup {r}
       \/ UNCHANGED <<total, added>>
    /\ Goto(r, "done")
    /\ UNCHANGED <<usage, seen, edit, counted, stale>>

-----------------------------------------------------------------------------
(* SetAPIKeyCostLimit and the other writers that save a whole row. *)

ReadKey(a) ==
    /\ ~\E e \in edit : e.by = a
    /\ edit' = edit \cup {[by |-> a, total |-> total, usage |-> usage]}
    /\ UNCHANGED <<total, usage, step, seen, counted, added, stale>>

SaveKey(a) ==
    \E e \in edit :
        /\ e.by = a
        /\ edit' = edit \ {e}
        /\ total' = e.total /\ usage' = e.usage
        /\ stale' = IF e.total = total THEN stale ELSE stale \cup {a}
        /\ UNCHANGED <<step, seen, counted, added>>

CostLimitTool(a) == ReadKey(a) \/ SaveKey(a)

KeyNext ==
    \/ \E r \in Served : ReadUsage(r) \/ WriteUsage(r) \/ AddTokens(r)
    \/ \E a \in Admins : CostLimitTool(a)

KeySpec == KeyInit /\ [][KeyNext]_keyVars

-----------------------------------------------------------------------------
(* Properties *)

\* Every variable keeps its type.
KeyTypeOK ==
    /\ total \in Nat /\ usage \in Usages
    /\ step \in [Served -> {"serve", "write", "add", "done"}]
    /\ seen \in [Served -> Usages]
    /\ edit \subseteq [by : Admins, total : Nat, usage : Usages]
    /\ counted \in SUBSET Served /\ added \in SUBSET Served
    /\ stale \in SUBSET Admins

\* Until somebody saves an out-of-date row, the total holds every increment that
\* was reported to succeed, however the requests and the saves interleave.
TotalExact == stale = {} => total = TotalTokens[counted] + TotalTokens[added]

\* Lost updates and stale rows only ever lose usage: no counter is above what
\* the successful updates of its requests amount to.
NeverOverstated ==
    /\ total <= TotalTokens[counted] + TotalTokens[added]
    /\ \A p \in Providers : usage[p] <= TotalTokens[For(p, counted)]

=============================================================================
