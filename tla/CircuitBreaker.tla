--------------------------- MODULE CircuitBreaker ---------------------------
(***************************************************************************)
(* pkg/circuit: one provider's circuit breaker and the requests that ask   *)
(* it for permission and report how they ended.  Every method runs under   *)
(* the breaker's mutex, so each is one step; what is concurrent is the     *)
(* time between a request's permission and its report, in which the        *)
(* breaker may have opened, been reset or started another half-open trial. *)
(* The breakers of a Manager share nothing, so one of them is modelled.    *)
(* Its specification is BreakerSpec: the names that every module here has  *)
(* are prefixed, so that one module can be about it and another component. *)
(***************************************************************************)
EXTENDS Integers, FiniteSets

CONSTANTS
    Clients,              \* the goroutines that send requests to the provider
    FailureThreshold,
    SuccessThreshold,
    HalfOpenMaxRequests

ASSUME SettingsAssumption ==
    /\ FailureThreshold \in Nat \ {0}
    /\ SuccessThreshold \in Nat \ {0}
    /\ HalfOpenMaxRequests \in Nat \ {0}

VARIABLES
    state, failures, successes, halfOpenReq,
    timer,       \* "elapsed" when ResetTimeout has passed since lastFailTime
    inFlight,    \* the callers that were allowed and have not reported
    probes,      \* history: requests allowed since the last half-open trial began
    forgotten,   \* history: the callers that ended without reporting since then
    good, bad    \* history: successes (failures) reported since the last failure (success)

breakerVars == <<state, failures, successes, halfOpenReq, timer, inFlight,
                 probes, forgotten, good, bad>>
counters == <<failures, successes, halfOpenReq>>
tallies == <<probes, forgotten, good, bad>>

\* The histories stop counting where no property tells more apart.
Capped(n, cap) == IF n < cap THEN n + 1 ELSE cap

BreakerInit ==
    /\ state = "closed"
    /\ failures = 0 /\ successes = 0 /\ halfOpenReq = 0
    /\ timer = "running"
    /\ inFlight = {}
    /\ probes = 0 /\ forgotten = {} /\ good = 0 /\ bad = 0

-----------------------------------------------------------------------------
Proceed(c) == inFlight' = inFlight \cup {c}

AllowClosed(c) ==
    /\ state = "closed"
    /\ Proceed(c)
    /\ UNCHANGED <<state, counters, timer, tallies>>

\* Mutants: the request that starts the trial is counted; the trial's requests
\* are not counted.
TryCounted(c) ==
    /\ state = "open" /\ timer = "elapsed"
    /\ state' = "half-open"
    /\ failures' = 0 /\ successes' = 0 /\ halfOpenReq' = 1
    /\ Proceed(c)
    /\ probes' = 1 /\ forgotten' = {}
    /\ UNCHANGED <<timer, good, bad>>

ProbeUnlimited(c) ==
    /\ state = "half-open"
    /\ halfOpenReq' = halfOpenReq
    /\ probes' = Capped(probes, HalfOpenMaxRequests + 2)
    /\ Proceed(c)
    /\ UNCHANGED <<state, failures, successes, timer, forgotten, good, bad>>

\* The request that finds the breaker open after ResetTimeout starts the
\* half-open trial; it is let through and not counted.
Try(c) ==
    /\ state = "open" /\ timer = "elapsed"
    /\ state' = "half-open"
    /\ failures' = 0 /\ successes' = 0 /\ halfOpenReq' = 0
    /\ Proceed(c)
    /\ probes' = 1 /\ forgotten' = {}
    /\ UNCHANGED <<timer, good, bad>>

Probe(c) ==
    /\ state = "half-open"
    /\ halfOpenReq < HalfOpenMaxRequests
    /\ halfOpenReq' = halfOpenReq + 1
    /\ probes' = Capped(probes, HalfOpenMaxRequests + 2)
    /\ Proceed(c)
    /\ UNCHANGED <<state, failures, successes, timer, forgotten, good, bad>>

\* A refused request changes nothing.
Allow(c) ==
    /\ c \notin inFlight
    /\ AllowClosed(c) \/ Try(c) \/ Probe(c)

-----------------------------------------------------------------------------
Reported(c) == c \in inFlight /\ inFlight' = inFlight \ {c}

RecordSuccess(c) ==
    /\ Reported(c)
    /\ failures' = 0
    /\ IF state = "half-open"
          THEN /\ successes' = successes + 1
               /\ IF successes' >= SuccessThreshold
                     THEN state' = "closed" /\ halfOpenReq' = 0
                     ELSE UNCHANGED <<state, halfOpenReq>>
          ELSE UNCHANGED <<state, successes, halfOpenReq>>
    /\ good' = Capped(good, SuccessThreshold) /\ bad' = 0
    /\ UNCHANGED <<timer, probes, forgotten>>

RecordFailure(c) ==
    /\ Reported(c)
    /\ successes' = 0
    /\ timer' = "running"
    /\ \/ /\ state = "closed"
          /\ failures' = failures + 1
          /\ state' = IF failures' >= FailureThreshold THEN "open" ELSE "closed"
          /\ UNCHANGED halfOpenReq
       \/ /\ state = "half-open"
          /\ state' = "open" /\ halfOpenReq' = 0
          /\ UNCHANGED failures
       \/ /\ state = "open"
          /\ UNCHANGED <<state, failures, halfOpenReq>>
    /\ good' = 0 /\ bad' = Capped(bad, FailureThreshold)
    /\ UNCHANGED <<probes, forgotten>>

\* The caller panics, or simply does not report.
Forget(c) ==
    /\ Reported(c)
    /\ forgotten' = forgotten \cup {c}
    /\ UNCHANGED <<state, counters, timer, probes, good, bad>>

-----------------------------------------------------------------------------
\* ResetTimeout passes; only an open breaker looks at it.
Cool ==
    /\ state = "open" /\ timer = "running"
    /\ timer' = "elapsed"
    /\ UNCHANGED <<state, counters, inFlight, tallies>>

\* Manager.Reset and ResetAll, by an operator.
Reset ==
    /\ state # "closed" \/ failures # 0
    /\ state' = "closed"
    /\ failures' = 0 /\ successes' = 0 /\ halfOpenReq' = 0
    /\ UNCHANGED <<timer, inFlight, tallies>>

BreakerNext ==
    \/ \E c \in Clients : \/ Allow(c)
                          \/ RecordSuccess(c) \/ RecordFailure(c) \/ Forget(c)
    \/ Cool
    \/ Reset

BreakerSpec == BreakerInit /\ [][BreakerNext]_breakerVars

\* Time passes, requests keep coming, and a caller reports or is forgotten.
Fairness ==
    /\ WF_breakerVars(Cool)
    /\ \A c \in Clients : WF_breakerVars(Allow(c)) /\ WF_breakerVars(RecordSuccess(c) \/ RecordFailure(c))

FairBreakerSpec == BreakerSpec /\ Fairness

-----------------------------------------------------------------------------
(* Properties *)

\* Every variable keeps its type, and no counter passes its threshold: a closed
\* breaker is below the failure threshold, a trial below the success threshold.
BreakerTypeOK ==
    /\ state \in {"closed", "open", "half-open"}
    /\ failures \in 0..FailureThreshold
    /\ successes \in 0..SuccessThreshold
    /\ halfOpenReq \in 0..HalfOpenMaxRequests
    /\ timer \in {"running", "elapsed"}
    /\ inFlight \in SUBSET Clients
    /\ probes \in 0..(HalfOpenMaxRequests + 2) /\ forgotten \in SUBSET Clients
    /\ good \in 0..SuccessThreshold
    /\ bad \in 0..FailureThreshold
    /\ state = "closed" => failures < FailureThreshold
    /\ state = "half-open" => successes < SuccessThreshold

\* While a trial runs, whatever reports of older requests arrive, it lets
\* through at most the request that started it and HalfOpenMaxRequests more.
ProbesBounded == state = "half-open" => probes <= HalfOpenMaxRequests + 1

\* "Number of consecutive failures to open the circuit", across everything that
\* may happen between two reports.
OpensOnConsecutiveFailures ==
    [][state = "closed" /\ state' = "open" => bad' >= FailureThreshold]_breakerVars

\* "Number of consecutive successes in half-open to close the circuit": when a
\* report ends a trial well, the last SuccessThreshold reports were successes.
ClosesOnConsecutiveSuccesses ==
    [][state = "half-open" /\ state' = "closed" /\ inFlight' # inFlight
         => good' >= SuccessThreshold]_breakerVars

\* A trial in which every caller reports ends: where a trial and the request that
\* starts it are enough to reach SuccessThreshold, enough probes are let through
\* for their reports to decide it.
TrialEnds == state = "half-open" ~> state # "half-open" \/ forgotten # {}
=============================================================================
