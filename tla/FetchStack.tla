----------------------------- MODULE FetchStack ------------------------------
(***************************************************************************)
(* FetcherOrchestrator: the rate limiter, the circuit breaker and the retry *)
(* policy around a single-shot fetcher, for the tasks that share one        *)
(* orchestrator.  Limiter and breaker keep separate state per domain, so    *)
(* one domain is enough.                                                    *)
(*                                                                         *)
(* The tasks run on one event loop: a step goes from one suspension point    *)
(* (waiting for the semaphore or the lock, sleeping, the HTTP exchange) to   *)
(* the next, and a task may be cancelled at any of them.  Time is counted in  *)
(* ticks.  The code compares time.monotonic() with the instant of the last    *)
(* release and of the last trip; the model keeps the time since each, up to   *)
(* the largest value that any comparison can tell apart.                     *)
(***************************************************************************)
EXTENDS FetchErrors, FiniteSets

CONSTANTS
    Callers,        \* tasks that hold the orchestrator
    MaxConcurrent,  \* DomainRateLimiter.max_concurrent_per_domain
    MinInterval,    \* DomainRateLimiter.min_interval_s, in ticks
    Jitter,         \* DomainRateLimiter.jitter_s, in ticks
    Threshold,      \* PerDomainCircuitBreaker.failure_threshold
    Cooldown,       \* PerDomainCircuitBreaker.cooldown_s, in ticks
    MaxAttempts,    \* RetryPolicy.max_attempts
    BaseDelay,      \* RetryPolicy.base_delay_s, in ticks
    MaxDelay,       \* RetryPolicy.max_delay_s, in ticks
    Answers,        \* what the remote may answer while it is not healthy
    MaxCancels      \* bound: tasks cancelled in a behaviour

\* The checks of the three constructors.
ASSUME LimiterAssumption ==
    MaxConcurrent \in Nat \ {0} /\ MinInterval \in Nat /\ Jitter \in Nat
ASSUME BreakerAssumption == Threshold \in Nat \ {0} /\ Cooldown \in Nat
ASSUME RetryAssumption ==
    /\ MaxAttempts \in Nat \ {0}
    /\ BaseDelay \in Nat
    /\ MaxDelay \in Nat
    /\ MaxDelay >= BaseDelay
ASSUME CallersAssumption == IsFiniteSet(Callers)
ASSUME AnswersAssumption == \A a \in Answers : a.retryAfter \subseteq Nat
ASSUME CancelsAssumption == MaxCancels \in Nat

VARIABLES
    pc,            \* where each task is suspended
    attempt,       \* its attempt number in FetcherOrchestrator.fetch
    wait,          \* ticks left of its sleep
    inUse,         \* acquired permits of the domain's semaphore
    sinceRelease,  \* ticks since _last_release[domain]
    circuit,       \* _DomainState.state
    failures,      \* _DomainState.consecutive_failures, up to Threshold
    sinceTrip,     \* ticks since _DomainState.opened_at
    healthy,       \* the remote has recovered
    cancels,       \* tasks cancelled so far
    early,         \* history: requests sent within MinInterval of the last release
    trials         \* history: tasks whose request was let through by HALF_OPEN

limiterVars == <<inUse, sinceRelease, early>>
breakerVars == <<circuit, failures, sinceTrip>>
vars == <<pc, attempt, wait, inUse, sinceRelease, circuit, failures, sinceTrip,
          healthy, cancels, early, trials>>

\* "slot" waits for the semaphore and "lock" for the domain's lock, "interval"
\* sleeps with the lock held, "fetch" is the exchange, "backoff" the sleep of
\* the retry loop.
Locations == {"idle", "slot", "lock", "interval", "fetch", "backoff"}

\* After this many ticks the limiter never makes a task wait; also the value
\* that stands for "no release yet".
Forgotten == MinInterval + Jitter

TypeOK ==
    /\ pc \in [Callers -> Locations]
    /\ attempt \in [Callers -> 1..MaxAttempts]
    /\ wait \in [Callers -> Nat]
    /\ inUse \in 0..MaxConcurrent
    /\ sinceRelease \in 0..Forgotten
    /\ circuit \in {"closed", "open", "half_open"}
    /\ failures \in 0..Threshold
    /\ sinceTrip \in 0..Cooldown
    /\ healthy \in BOOLEAN
    /\ cancels \in 0..MaxCancels
    /\ early \in Nat
    /\ trials \subseteq Callers

Init ==
    /\ pc = [c \in Callers |-> "idle"]
    /\ attempt = [c \in Callers |-> 1]
    /\ wait = [c \in Callers |-> 0]
    /\ inUse = 0
    /\ sinceRelease = Forgotten
    /\ circuit = "closed"
    /\ failures = 0
    /\ sinceTrip = Cooldown
    /\ healthy = FALSE
    /\ cancels = 0
    /\ early = 0
    /\ trials = {}

-----------------------------------------------------------------------------
(* The limiter, the breaker and the retry policy as operators.              *)

Lesser(m, n) == IF m <= n THEN m ELSE n

\* The domain's asyncio.Lock is held exactly during the interval sleep.
LockFree == \A c \in Callers : pc[c] # "interval"

\* Mutation: the jitter may shorten the interval.
DelaysJitteredBothWays ==
    {d \in 0..Forgotten :
        \E j \in -Jitter..Jitter :
            LET due == MinInterval - sinceRelease + j
            IN  d = IF due > 0 THEN due ELSE 0}

\* slot(): how long the task sleeps before its request.
IntervalDelays ==
    IF MinInterval = 0
    THEN {0}
    ELSE {d \in 0..Forgotten :
            \E j \in 0..Jitter :
                LET due == MinInterval - sinceRelease + j
                IN  d = IF due > 0 THEN due ELSE 0}

\* delay_for: Retry-After when the server sent one, else exponential with a
\* jitter of one half to the whole.
BackoffDelays(n, answer) ==
    IF Outcome(answer) = "rate_limited" /\ answer.retryAfter # {}
    THEN {Lesser(MaxDelay, s) : s \in answer.retryAfter}
    ELSE LET full == Lesser(MaxDelay, BaseDelay * 2^(n - 1))
         IN  {d \in 0..full : 2 * d >= full}

\* The finally clause of slot().
ReleaseSlot ==
    /\ inUse' = inUse - 1
    /\ sinceRelease' = 0
    /\ early' = 0

\* Mutation: an open circuit never becomes half open.
NeverHalfOpen == circuit # "open"

\* _check lets the request through.
CircuitAdmits == circuit # "open" \/ sinceTrip >= Cooldown

\* Mutation: a success closes the circuit and keeps the counter.
SuccessKeepsCounter ==
    /\ circuit' = "closed"
    /\ UNCHANGED <<failures, sinceTrip>>

\* _on_success.
RecordSuccess ==
    /\ circuit' = "closed"
    /\ failures' = 0
    /\ UNCHANGED sinceTrip

\* _on_failure: a failure in HALF_OPEN does not count again; elsewhere the
\* counter goes up, and at the threshold the circuit opens.
RecordFailure ==
    \/ /\ circuit = "half_open"
       /\ circuit' = "open"
       /\ sinceTrip' = 0
       /\ UNCHANGED failures
    \/ /\ circuit # "half_open"
       /\ failures' = Lesser(failures + 1, Threshold)
       /\ IF failures + 1 >= Threshold
          THEN circuit' = "open" /\ sinceTrip' = 0
          ELSE UNCHANGED <<circuit, sinceTrip>>

-----------------------------------------------------------------------------
(* One fetch of one task.                                                   *)

\* FetcherOrchestrator.fetch is called.
Fetch(c) ==
    /\ pc[c] = "idle"
    /\ pc' = [pc EXCEPT ![c] = "slot"]
    /\ attempt' = [attempt EXCEPT ![c] = 1]
    /\ UNCHANGED <<wait, limiterVars, breakerVars, healthy, cancels, trials>>

AcquireSlot(c) ==
    /\ pc[c] = "slot"
    /\ inUse < MaxConcurrent
    /\ inUse' = inUse + 1
    /\ pc' = [pc EXCEPT ![c] = "lock"]
    /\ UNCHANGED <<attempt, wait, sinceRelease, early, breakerVars, healthy, cancels, trials>>

\* The interval since the last release is not over: sleep with the lock held.
WaitInterval(c) ==
    /\ pc[c] = "lock"
    /\ LockFree
    /\ \E d \in IntervalDelays \ {0} :
          /\ pc' = [pc EXCEPT ![c] = "interval"]
          /\ wait' = [wait EXCEPT ![c] = d]
    /\ UNCHANGED <<attempt, limiterVars, breakerVars, healthy, cancels, trials>>

\* The limiter lets the task go on.
SlotReady(c) ==
    \/ pc[c] = "lock" /\ LockFree /\ 0 \in IntervalDelays
    \/ pc[c] = "interval" /\ wait[c] = 0

\* The breaker admits the request and the exchange starts.
Send(c) ==
    /\ SlotReady(c)
    /\ CircuitAdmits
    /\ circuit' = IF circuit = "open" THEN "half_open" ELSE circuit
    /\ pc' = [pc EXCEPT ![c] = "fetch"]
    /\ early' = IF sinceRelease < MinInterval THEN early + 1 ELSE early
    /\ trials' = IF circuit = "closed" THEN trials ELSE trials \union {c}
    /\ UNCHANGED <<attempt, wait, inUse, sinceRelease, failures, sinceTrip, healthy, cancels>>

\* CircuitOpenError: raised at once, the slot is given back.
Reject(c) ==
    /\ SlotReady(c)
    /\ ~CircuitAdmits
    /\ ReleaseSlot
    /\ pc' = [pc EXCEPT ![c] = "idle"]
    /\ UNCHANGED <<attempt, wait, breakerVars, healthy, cancels, trials>>

\* The exchange ends; in every case the breaker records it and the slot is
\* given back before the orchestrator looks at the outcome.
Succeed(c) ==
    /\ pc[c] = "fetch"
    /\ RecordSuccess
    /\ ReleaseSlot
    /\ pc' = [pc EXCEPT ![c] = "idle"]
    /\ trials' = trials \ {c}
    /\ UNCHANGED <<attempt, wait, healthy, cancels>>

\* Mutation: the orchestrator sleeps inside the slot, and asks for another one
\* when it wakes up.
BackOffInsideSlot(c) ==
    /\ pc[c] = "fetch"
    /\ ~healthy
    /\ attempt[c] < MaxAttempts
    /\ RecordFailure
    /\ wait' = [wait EXCEPT ![c] = BaseDelay]
    /\ pc' = [pc EXCEPT ![c] = "backoff"]
    /\ trials' = trials \ {c}
    /\ UNCHANGED <<attempt, limiterVars, healthy, cancels>>

\* A retriable error with attempts left: sleep before the next attempt.
FailAndBackOff(c) ==
    /\ pc[c] = "fetch"
    /\ ~healthy
    /\ attempt[c] < MaxAttempts
    /\ \E a \in Answers :
          /\ IsRetriable(Outcome(a))
          /\ \E d \in BackoffDelays(attempt[c], a) : wait' = [wait EXCEPT ![c] = d]
    /\ RecordFailure
    /\ ReleaseSlot
    /\ pc' = [pc EXCEPT ![c] = "backoff"]
    /\ trials' = trials \ {c}
    /\ UNCHANGED <<attempt, healthy, cancels>>

\* The error is raised: permanent, blocked by robots.txt, or the last attempt.
FailAndRaise(c) ==
    /\ pc[c] = "fetch"
    /\ ~healthy
    /\ \E a \in Answers :
          /\ Outcome(a) \in FetchErrorKinds
          /\ ~IsRetriable(Outcome(a)) \/ attempt[c] >= MaxAttempts
    /\ RecordFailure
    /\ ReleaseSlot
    /\ pc' = [pc EXCEPT ![c] = "idle"]
    /\ trials' = trials \ {c}
    /\ UNCHANGED <<attempt, wait, healthy, cancels>>

\* The retry loop wakes up and asks for a slot again.
Retry(c) ==
    /\ pc[c] = "backoff"
    /\ wait[c] = 0
    /\ pc' = [pc EXCEPT ![c] = "slot"]
    /\ attempt' = [attempt EXCEPT ![c] = @ + 1]
    /\ UNCHANGED <<wait, limiterVars, breakerVars, healthy, cancels, trials>>

\* Mutation: a cancelled task gives a permit back even when it has none yet.
CancelAlwaysReleases(c) ==
    /\ pc[c] # "idle"
    /\ cancels < MaxCancels
    /\ cancels' = cancels + 1
    /\ ReleaseSlot
    /\ pc' = [pc EXCEPT ![c] = "idle"]
    /\ trials' = trials \ {c}
    /\ UNCHANGED <<attempt, wait, breakerVars, healthy>>

\* The task is cancelled (job timeout, worker stop), or the fetcher raises
\* something that is not a FetchError: the breaker records nothing, and the
\* slot is given back when the task holds one.
Cancel(c) ==
    /\ pc[c] # "idle"
    /\ cancels < MaxCancels
    /\ cancels' = cancels + 1
    /\ IF pc[c] \in {"lock", "interval", "fetch"}
       THEN ReleaseSlot
       ELSE UNCHANGED limiterVars
    /\ pc' = [pc EXCEPT ![c] = "idle"]
    /\ trials' = trials \ {c}
    /\ UNCHANGED <<attempt, wait, breakerVars, healthy>>

\* A tick of the clock.
Tick ==
    /\ sinceRelease' = Lesser(sinceRelease + 1, Forgotten)
    /\ sinceTrip' = Lesser(sinceTrip + 1, Cooldown)
    /\ wait' = [c \in Callers |-> IF wait[c] > 0 THEN wait[c] - 1 ELSE 0]
    /\ UNCHANGED <<pc, attempt, inUse, circuit, failures, healthy, cancels, early, trials>>

\* The remote recovers: from here on every exchange succeeds.
Heal ==
    /\ ~healthy
    /\ healthy' = TRUE
    /\ UNCHANGED <<pc, attempt, wait, limiterVars, breakerVars, cancels, trials>>

Step(c) ==
    \/ Fetch(c) \/ AcquireSlot(c) \/ WaitInterval(c) \/ Send(c) \/ Reject(c)
    \/ Succeed(c) \/ FailAndBackOff(c) \/ FailAndRaise(c) \/ Retry(c) \/ Cancel(c)

Next == Tick \/ Heal \/ \E c \in Callers : Step(c)

\* Every suspended task is resumed; asyncio wakes the waiters of a semaphore
\* and of a lock in order, so none is passed over for ever; an exchange ends
\* because every request carries a timeout; the clock goes on.  Nothing makes
\* a task call fetch, and nothing cancels it.
Fairness ==
    /\ WF_vars(Tick)
    /\ \A c \in Callers :
          /\ SF_vars(AcquireSlot(c))
          /\ SF_vars(WaitInterval(c) \/ Send(c) \/ Reject(c))
          /\ WF_vars(Succeed(c) \/ FailAndBackOff(c) \/ FailAndRaise(c))
          /\ WF_vars(Retry(c))

Spec == Init /\ [][Next]_vars
FairSpec == Spec /\ Fairness

-----------------------------------------------------------------------------
(* Properties.                                                              *)

\* A permit of the semaphore is held by exactly the tasks between acquire and
\* the finally clause of slot(), whatever fails or is cancelled on the way, so
\* that permits are neither lost nor given back twice and at most
\* MaxConcurrent exchanges run at once (domain_limiter.py:82-92).
Holders == {c \in Callers : pc[c] \in {"lock", "interval", "fetch"}}
SlotsConserved == inUse = Cardinality(Holders)

\* The circuit is closed exactly while fewer than Threshold failures are on
\* record.  The results of requests sent before a trip or during a probe
\* arrive in any state, in any order: none leaves a closed circuit whose
\* counter is full, nor an open one whose counter has been reset and that a
\* single failed probe would otherwise keep open (circuit_breaker.py:72-96).
CircuitMatchesCounter == (circuit = "closed") <=> (failures < Threshold)

\* The rate limit: with several slots a release may happen while another task
\* already sleeps its interval on the older release, and that task's request
\* then leaves too early; but it is the only one.  Between two releases at
\* most one request leaves less than MinInterval after the former
\* (domain_limiter.py:83-92).
AtMostOneEarlyRequest == early <= 1

\* Every fetch returns or raises, although a task sleeps its interval with the
\* lock held, retries queue for the semaphore again, and others may call
\* fetch for ever (orchestrator.py:65-118).
FetchEnds == \A c \in Callers : pc[c] # "idle" ~> pc[c] = "idle"

\* A domain does not stay blocked: once the remote is healthy, if tasks keep
\* asking, the circuit ends up closed for good, although failures of requests
\* that were sent before may still re-open it after a success
\* (circuit_breaker.py:72-96).
CircuitRecovers ==
    (<>healthy /\ []<>(\E c \in Callers : pc[c] = "slot")) => <>[](circuit = "closed")

\* What circuit_breaker.py:12 says of HALF_OPEN and the code does not keep: "a
\* single trial request is allowed".
SingleTrial == Cardinality(trials) <= 1
=============================================================================
