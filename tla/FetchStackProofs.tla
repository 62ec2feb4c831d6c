--------------------------- MODULE FetchStackProofs ---------------------------
(***************************************************************************)
(* Theorems about FetchStack, for every number of tasks, permits, attempts   *)
(* and failures, every interval, jitter and delay, and whatever the remote    *)
(* answers.                                                                  *)
(***************************************************************************)
EXTENDS FetchStack, FiniteSetTheorems, TLAPS

-----------------------------------------------------------------------------
(* The delays.                                                              *)

(* A power of two is a natural number.                                       *)
LEMMA PowerIsNat == \A n \in Nat : 2^n \in Nat
<1>1. SUFFICES ASSUME NEW n \in Nat PROVE 2^n \in Nat
  OBVIOUS
<1>2. IsFiniteSet(1..n) /\ Cardinality(1..n) = n
  BY FS_Interval
<1>3. IsFiniteSet(SUBSET (1..n)) /\ Cardinality(SUBSET (1..n)) = 2^n
  BY <1>2, FS_SUBSET
<1>4. QED
  BY <1>3, FS_CardinalityType

(* The limiter never makes a task sleep longer than interval and jitter, and  *)
(* a sleep that it asks for ends when the interval is over or later.          *)
LEMMA IntervalDelayBounds ==
  ASSUME TypeOK, NEW d \in IntervalDelays
  PROVE  d \in Nat /\ d <= Forgotten /\ d + sinceRelease >= MinInterval
BY LimiterAssumption DEF TypeOK, IntervalDelays, Forgotten

(* The sleep between two attempts is a natural number of ticks.               *)
LEMMA BackoffDelayType ==
  ASSUME NEW n \in Nat \ {0}, NEW a \in Answers, NEW d \in BackoffDelays(n, a)
  PROVE  d \in Nat
<1>1. BaseDelay * 2^(n - 1) \in Nat
  <2>1. 2^(n - 1) \in Nat
    BY PowerIsNat
  <2>2. QED
    BY <2>1, RetryAssumption
<1>2. CASE Outcome(a) = "rate_limited" /\ a.retryAfter # {}
  BY <1>2, RetryAssumption, AnswersAssumption DEF BackoffDelays, Lesser
<1>3. CASE ~(Outcome(a) = "rate_limited" /\ a.retryAfter # {})
  <2> DEFINE full == Lesser(MaxDelay, BaseDelay * 2^(n - 1))
  <2>1. full \in Nat
    BY <1>1, RetryAssumption DEF Lesser
  <2>2. d \in 0..full
    BY <1>3 DEF BackoffDelays
  <2> HIDE DEF full
  <2>3. QED
    BY <2>1, <2>2
<1>4. QED
  BY <1>2, <1>3

-----------------------------------------------------------------------------
(* Permits.                                                                 *)

(* Callers that hold a permit form a finite set.                              *)
LEMMA HoldersFinite == IsFiniteSet(Holders) /\ Cardinality(Holders) \in Nat
<1>1. Holders \in SUBSET Callers
  BY DEF Holders
<1>2. IsFiniteSet(Holders)
  BY <1>1, CallersAssumption, FS_Subset
<1>3. QED
  BY <1>2, FS_CardinalityType

(* A task that gives its permit back was counted.                             *)
LEMMA HolderCounts ==
  ASSUME SlotsConserved, NEW c \in Holders
  PROVE  inUse >= 1 /\ inUse \in Nat
<1>1. Cardinality(Holders) # 0
  BY HoldersFinite, FS_EmptySet
<1>2. QED
  BY <1>1, HoldersFinite DEF SlotsConserved

(* A permit is taken by a caller that held none.                              *)
LEMMA PermitTaken ==
  ASSUME SlotsConserved, NEW c, c \notin Holders,
         Holders' = Holders \cup {c}, inUse' = inUse + 1
  PROVE  SlotsConserved'
<1>1. Cardinality(Holders') = Cardinality(Holders) + 1
  BY HoldersFinite, FS_AddElement
<1>2. QED
  BY <1>1 DEF SlotsConserved

(* A holder gives its permit back.                                            *)
LEMMA PermitReturned ==
  ASSUME SlotsConserved, NEW c \in Holders,
         Holders' = Holders \ {c}, ReleaseSlot
  PROVE  SlotsConserved'
<1>1. Cardinality(Holders') = Cardinality(Holders) - 1
  BY HoldersFinite, FS_RemoveElement
<1>2. QED
  BY <1>1 DEF SlotsConserved, ReleaseSlot

(* A step of a caller that neither takes nor returns a permit.                *)
LEMMA PermitsStay ==
  ASSUME SlotsConserved, Holders' = Holders, inUse' = inUse
  PROVE  SlotsConserved'
BY DEF SlotsConserved

-----------------------------------------------------------------------------
(* The inductive invariant.                                                 *)

(* At most one task sleeps its interval: it holds the domain's lock.          *)
OneSleeper ==
  \A c, d \in Callers : pc[c] = "interval" /\ pc[d] = "interval" => c = d

(* A task that will wake up too early does so because of a release after it   *)
(* fell asleep, and nobody has been early since that release.                  *)
SleeperIsFirst ==
  \A c \in Callers : pc[c] = "interval" /\ wait[c] + sinceRelease < MinInterval => early = 0

(* A task backs off only while it has attempts left.                          *)
SleepersMayRetry == \A c \in Callers : pc[c] = "backoff" => attempt[c] < MaxAttempts

IInv ==
  /\ TypeOK
  /\ SlotsConserved
  /\ CircuitMatchesCounter
  /\ AtMostOneEarlyRequest
  /\ OneSleeper
  /\ SleeperIsFirst
  /\ SleepersMayRetry

(* Everything holds at the start.                                             *)
LEMMA InitIInv == Init => IInv
<1> SUFFICES ASSUME Init PROVE IInv
  OBVIOUS
<1> USE LimiterAssumption, BreakerAssumption, RetryAssumption, CancelsAssumption
<1>1. TypeOK
  <2>1. /\ pc \in [Callers -> Locations]
        /\ attempt \in [Callers -> 1..MaxAttempts]
        /\ wait \in [Callers -> Nat]
    BY DEF Init, Locations
  <2>2. /\ inUse \in 0..MaxConcurrent
        /\ sinceRelease \in 0..Forgotten
        /\ failures \in 0..Threshold
        /\ sinceTrip \in 0..Cooldown
        /\ cancels \in 0..MaxCancels
        /\ early \in Nat
    BY DEF Init, Forgotten
  <2>3. circuit \in {"closed", "open", "half_open"} /\ healthy \in BOOLEAN /\ trials \subseteq Callers
    BY DEF Init
  <2>4. QED
    BY <2>1, <2>2, <2>3 DEF TypeOK
<1>2. SlotsConserved
  <2>1. Holders = {}
    BY DEF Init, Holders
  <2>2. QED
    BY <2>1, FS_EmptySet DEF Init, SlotsConserved
<1>3. /\ CircuitMatchesCounter /\ AtMostOneEarlyRequest /\ OneSleeper /\ SleeperIsFirst
      /\ SleepersMayRetry
  BY DEF Init, CircuitMatchesCounter, AtMostOneEarlyRequest, OneSleeper, SleeperIsFirst,
         SleepersMayRetry
<1>4. QED
  BY <1>1, <1>2, <1>3 DEF IInv

-----------------------------------------------------------------------------
(* Types.                                                                   *)

(* Giving the slot back keeps the limiter's counters in range.                *)
LEMMA ReleaseTypes ==
  ASSUME TypeOK, SlotsConserved, NEW c \in Holders, ReleaseSlot
  PROVE  inUse' \in 0..MaxConcurrent /\ sinceRelease' \in 0..Forgotten /\ early' \in Nat
BY HolderCounts, LimiterAssumption DEF TypeOK, ReleaseSlot, Forgotten

(* So does recording a result with the breaker's.                             *)
LEMMA RecordTypes ==
  ASSUME TypeOK, RecordSuccess \/ RecordFailure
  PROVE  /\ circuit' \in {"closed", "open", "half_open"}
         /\ failures' \in 0..Threshold
         /\ sinceTrip' \in 0..Cooldown
BY BreakerAssumption DEF TypeOK, RecordSuccess, RecordFailure, Lesser

(* A step of one task keeps the types.                                        *)
LEMMA StepTypes ==
  ASSUME IInv, NEW c \in Callers, Step(c)
  PROVE  TypeOK'
<1> USE DEF IInv
<1> SUFFICES TypeOK'
  OBVIOUS
<1>1. CASE Fetch(c)
  BY <1>1, RetryAssumption DEF Fetch, TypeOK, Locations, limiterVars, breakerVars
<1>2. CASE AcquireSlot(c)
  BY <1>2, LimiterAssumption DEF AcquireSlot, TypeOK, Locations, breakerVars
<1>3. CASE WaitInterval(c)
  <2>1. PICK d \in IntervalDelays \ {0} : wait' = [wait EXCEPT ![c] = d]
    BY <1>3 DEF WaitInterval
  <2>2. d \in Nat
    BY <2>1, IntervalDelayBounds
  <2>3. QED
    BY <1>3, <2>1, <2>2 DEF WaitInterval, TypeOK, Locations, limiterVars, breakerVars
<1>4. CASE Send(c)
  BY <1>4 DEF Send, TypeOK, Locations
<1>5. CASE Reject(c)
  <2>1. c \in Holders
    BY <1>5 DEF Reject, SlotReady, Holders
  <2>2. QED
    BY <1>5, <2>1, ReleaseTypes DEF Reject, TypeOK, Locations, breakerVars
<1>6. CASE Succeed(c)
  <2>1. c \in Holders
    BY <1>6 DEF Succeed, Holders
  <2>2. QED
    BY <1>6, <2>1, ReleaseTypes, RecordTypes DEF Succeed, TypeOK, Locations
<1>7. CASE FailAndBackOff(c)
  <2>1. c \in Holders
    BY <1>7 DEF FailAndBackOff, Holders
  <2>2. attempt[c] \in Nat \ {0}
    BY RetryAssumption DEF TypeOK
  <2>3. PICK a \in Answers : \E d \in BackoffDelays(attempt[c], a) : wait' = [wait EXCEPT ![c] = d]
    BY <1>7 DEF FailAndBackOff
  <2>4. PICK d \in BackoffDelays(attempt[c], a) : wait' = [wait EXCEPT ![c] = d]
    BY <2>3
  <2>5. d \in Nat
    BY <2>2, <2>4, BackoffDelayType
  <2>6. QED
    BY <1>7, <2>1, <2>4, <2>5, ReleaseTypes, RecordTypes DEF FailAndBackOff, TypeOK, Locations
<1>8. CASE FailAndRaise(c)
  <2>1. c \in Holders
    BY <1>8 DEF FailAndRaise, Holders
  <2>2. QED
    BY <1>8, <2>1, ReleaseTypes, RecordTypes DEF FailAndRaise, TypeOK, Locations
<1>9. CASE Retry(c)
  <2>1. attempt[c] < MaxAttempts
    BY <1>9 DEF Retry, SleepersMayRetry
  <2>2. QED
    BY <1>9, <2>1, RetryAssumption DEF Retry, TypeOK, Locations, limiterVars, breakerVars
<1>10. CASE Cancel(c)
  <2>1. CASE pc[c] \in {"lock", "interval", "fetch"}
    <3>1. c \in Holders
      BY <2>1 DEF Holders
    <3>2. QED
      BY <1>10, <2>1, <3>1, ReleaseTypes, CancelsAssumption DEF Cancel, TypeOK, Locations, breakerVars
  <2>2. CASE pc[c] \notin {"lock", "interval", "fetch"}
    BY <1>10, <2>2, CancelsAssumption DEF Cancel, TypeOK, Locations, breakerVars, limiterVars
  <2>3. QED
    BY <2>1, <2>2
<1>11. QED
  BY <1>1, <1>2, <1>3, <1>4, <1>5, <1>6, <1>7, <1>8, <1>9, <1>10 DEF Step

(* Time and the remote's recovery keep the types.                             *)
LEMMA ClockTypes ==
  ASSUME TypeOK, Tick \/ Heal
  PROVE  TypeOK'
<1>1. CASE Tick
  BY <1>1, LimiterAssumption, BreakerAssumption DEF Tick, TypeOK, Lesser, Forgotten
<1>2. CASE Heal
  BY <1>2 DEF Heal, TypeOK, limiterVars, breakerVars
<1>3. QED
  BY <1>1, <1>2

-----------------------------------------------------------------------------
(* Permits and the breaker.                                                 *)

(* A step of one task takes or gives back at most the permit it is about.     *)
LEMMA StepSlots ==
  ASSUME TypeOK, SlotsConserved, NEW c \in Callers, Step(c)
  PROVE  SlotsConserved'
<1>0. pc \in [Callers -> Locations]
  BY DEF TypeOK
<1>1. CASE Fetch(c)
  <2>1. Holders' = Holders /\ inUse' = inUse
    BY <1>0, <1>1 DEF Fetch, Holders, limiterVars
  <2>2. QED
    BY <2>1, PermitsStay
<1>2. CASE AcquireSlot(c)
  <2>1. c \notin Holders /\ Holders' = Holders \cup {c} /\ inUse' = inUse + 1
    BY <1>0, <1>2 DEF AcquireSlot, Holders
  <2>2. QED
    BY <2>1, PermitTaken
<1>3. CASE WaitInterval(c) \/ Send(c)
  <2>1. Holders' = Holders /\ inUse' = inUse
    BY <1>0, <1>3 DEF WaitInterval, Send, SlotReady, Holders, limiterVars
  <2>2. QED
    BY <2>1, PermitsStay
<1>4. CASE Reject(c) \/ Succeed(c) \/ FailAndBackOff(c) \/ FailAndRaise(c)
  <2>1. c \in Holders /\ Holders' = Holders \ {c}
    BY <1>0, <1>4 DEF Reject, SlotReady, Succeed, FailAndBackOff, FailAndRaise, Holders
  <2>2. ReleaseSlot
    BY <1>4 DEF Reject, Succeed, FailAndBackOff, FailAndRaise
  <2>3. QED
    BY <2>1, <2>2, PermitReturned
<1>5. CASE Retry(c)
  <2>1. Holders' = Holders /\ inUse' = inUse
    BY <1>0, <1>5 DEF Retry, Holders, limiterVars
  <2>2. QED
    BY <2>1, PermitsStay
<1>6. CASE Cancel(c)
  <2>1. CASE pc[c] \in {"lock", "interval", "fetch"}
    <3>1. c \in Holders /\ Holders' = Holders \ {c} /\ ReleaseSlot
      BY <1>0, <1>6, <2>1 DEF Cancel, Holders
    <3>2. QED
      BY <3>1, PermitReturned
  <2>2. CASE pc[c] \notin {"lock", "interval", "fetch"}
    <3>1. Holders' = Holders /\ inUse' = inUse
      BY <1>0, <1>6, <2>2 DEF Cancel, Holders, limiterVars
    <3>2. QED
      BY <3>1, PermitsStay
  <2>3. QED
    BY <2>1, <2>2
<1>7. QED
  BY <1>1, <1>2, <1>3, <1>4, <1>5, <1>6 DEF Step

(* Whatever is recorded, in whatever state it arrives, keeps circuit and      *)
(* counter together.                                                           *)
LEMMA RecordCircuit ==
  ASSUME TypeOK, CircuitMatchesCounter, RecordSuccess \/ RecordFailure
  PROVE  CircuitMatchesCounter'
BY BreakerAssumption DEF TypeOK, CircuitMatchesCounter, RecordSuccess, RecordFailure, Lesser

(* No step of a caller separates the circuit from its counter.                *)
LEMMA StepCircuit ==
  ASSUME TypeOK, CircuitMatchesCounter, NEW c \in Callers, Step(c)
  PROVE  CircuitMatchesCounter'
<1>1. CASE Send(c)
  BY <1>1 DEF Send, CircuitMatchesCounter
<1>2. CASE Succeed(c) \/ FailAndBackOff(c) \/ FailAndRaise(c)
  BY <1>2, RecordCircuit DEF Succeed, FailAndBackOff, FailAndRaise
<1>3. CASE UNCHANGED breakerVars
  BY <1>3 DEF CircuitMatchesCounter, breakerVars
<1>4. QED
  BY <1>1, <1>2, <1>3
     DEF Step, Fetch, AcquireSlot, WaitInterval, Reject, Retry, Cancel

-----------------------------------------------------------------------------
(* The rate limit.                                                          *)

Rate == AtMostOneEarlyRequest /\ OneSleeper /\ SleeperIsFirst /\ SleepersMayRetry

(* A release starts the count of early requests again.                        *)
LEMMA ReleaseRate ==
  ASSUME TypeOK, Rate, NEW c \in Callers, NEW l \in {"idle", "backoff"},
         pc' = [pc EXCEPT ![c] = l], ReleaseSlot,
         l = "backoff" => attempt[c] < MaxAttempts, UNCHANGED attempt
  PROVE  Rate'
BY DEF Rate, TypeOK, AtMostOneEarlyRequest, OneSleeper, SleeperIsFirst, SleepersMayRetry,
       ReleaseSlot

(* A request leaves early only from a sleep, and then it is the first.        *)
LEMMA SendRate ==
  ASSUME TypeOK, Rate, NEW c \in Callers, Send(c)
  PROVE  Rate'
<1> USE DEF Rate, TypeOK
<1>1. CASE sinceRelease < MinInterval
  <2>1. pc[c] = "interval" /\ wait[c] = 0
    BY <1>1, LimiterAssumption DEF Send, SlotReady, IntervalDelays, Forgotten
  <2>2. early = 0
    BY <1>1, <2>1, LimiterAssumption DEF SleeperIsFirst, Forgotten
  <2>3. early' = 1
    BY <1>1, <2>2 DEF Send
  <2>4. \A d \in Callers : pc'[d] # "interval"
    BY <2>1 DEF Send, OneSleeper
  <2>5. QED
    BY <2>3, <2>4 DEF Send, AtMostOneEarlyRequest, OneSleeper, SleeperIsFirst, SleepersMayRetry
<1>2. CASE ~(sinceRelease < MinInterval)
  BY <1>2 DEF Send, AtMostOneEarlyRequest, OneSleeper, SleeperIsFirst, SleepersMayRetry
<1>3. QED
  BY <1>1, <1>2

(* A task that falls asleep will wake up in time unless somebody releases.    *)
LEMMA WaitRate ==
  ASSUME TypeOK, Rate, NEW c \in Callers, WaitInterval(c)
  PROVE  Rate'
<1> USE DEF Rate, TypeOK
<1>1. PICK d \in IntervalDelays \ {0} : wait' = [wait EXCEPT ![c] = d]
  BY DEF WaitInterval
<1>2. d + sinceRelease >= MinInterval
  BY <1>1, IntervalDelayBounds
<1>3. \A e \in Callers : e # c => pc[e] # "interval" /\ pc'[e] # "interval"
  BY DEF WaitInterval, LockFree
<1>4. QED
  BY <1>1, <1>2, <1>3, LimiterAssumption, IntervalDelayBounds
     DEF WaitInterval, limiterVars, AtMostOneEarlyRequest, OneSleeper, SleeperIsFirst,
         SleepersMayRetry, Forgotten

(* No step of a caller lets a second request leave early.                     *)
LEMMA StepRate ==
  ASSUME TypeOK, Rate, NEW c \in Callers, Step(c)
  PROVE  Rate'
<1>1. CASE Fetch(c)
  BY <1>1 DEF Fetch, limiterVars, Rate, TypeOK, AtMostOneEarlyRequest, OneSleeper,
              SleeperIsFirst, SleepersMayRetry
<1>2. CASE AcquireSlot(c)
  BY <1>2 DEF AcquireSlot, Rate, TypeOK, AtMostOneEarlyRequest, OneSleeper,
              SleeperIsFirst, SleepersMayRetry
<1>3. CASE Reject(c) \/ Succeed(c) \/ FailAndBackOff(c) \/ FailAndRaise(c)
  BY <1>3, ReleaseRate DEF Reject, Succeed, FailAndBackOff, FailAndRaise
<1>4. CASE Retry(c)
  BY <1>4 DEF Retry, limiterVars, Rate, TypeOK, AtMostOneEarlyRequest, OneSleeper,
              SleeperIsFirst, SleepersMayRetry
<1>5. CASE Cancel(c)
  <2>1. CASE pc[c] \in {"lock", "interval", "fetch"}
    BY <1>5, <2>1, ReleaseRate DEF Cancel
  <2>2. CASE pc[c] \notin {"lock", "interval", "fetch"}
    BY <1>5, <2>2 DEF Cancel, limiterVars, Rate, TypeOK, AtMostOneEarlyRequest, OneSleeper,
                      SleeperIsFirst, SleepersMayRetry
  <2>3. QED
    BY <2>1, <2>2
<1>6. QED
  BY <1>1, <1>2, <1>3, <1>4, <1>5, SendRate, WaitRate DEF Step

(* A tick takes from a sleep what it adds to the time since the release.      *)
LEMMA TickRate ==
  ASSUME TypeOK, Rate, Tick
  PROVE  Rate'
<1>1. ASSUME NEW c \in Callers, wait'[c] + sinceRelease' < MinInterval
      PROVE  wait[c] + sinceRelease < MinInterval
  <2>1. wait[c] \in Nat /\ wait'[c] = IF wait[c] > 0 THEN wait[c] - 1 ELSE 0
    BY DEF TypeOK, Tick
  <2>2. sinceRelease' = Lesser(sinceRelease + 1, Forgotten) /\ sinceRelease \in 0..Forgotten
    BY DEF TypeOK, Tick
  <2>3. QED
    BY <1>1, <2>1, <2>2, LimiterAssumption DEF Lesser, Forgotten
<1>2. QED
  BY <1>1 DEF Tick, Rate, TypeOK, AtMostOneEarlyRequest, OneSleeper, SleeperIsFirst,
              SleepersMayRetry

-----------------------------------------------------------------------------
(* The theorems.                                                            *)

(* Every step keeps the invariant.                                            *)
LEMMA NextIInv == IInv /\ [Next]_vars => IInv'
<1> SUFFICES ASSUME IInv, [Next]_vars PROVE IInv'
  OBVIOUS
<1>0. IInv <=> TypeOK /\ SlotsConserved /\ CircuitMatchesCounter /\ Rate
  BY DEF IInv, Rate
<1>1. ASSUME NEW c \in Callers, Step(c) PROVE IInv'
  <2>1. TypeOK'
    BY <1>1, StepTypes
  <2>2. SlotsConserved' /\ CircuitMatchesCounter' /\ Rate'
    BY <1>0, <1>1, StepSlots, StepCircuit, StepRate
  <2>3. QED
    BY <2>1, <2>2 DEF IInv, Rate
<1>2. CASE Tick
  <2>1. TypeOK' /\ Rate'
    BY <1>0, <1>2, ClockTypes, TickRate
  <2>2. SlotsConserved' /\ CircuitMatchesCounter'
    BY <1>0, <1>2 DEF Tick, SlotsConserved, Holders, CircuitMatchesCounter
  <2>3. QED
    BY <2>1, <2>2 DEF IInv, Rate
<1>3. CASE Heal
  <2>1. TypeOK'
    BY <1>0, <1>3, ClockTypes
  <2>2. SlotsConserved' /\ CircuitMatchesCounter' /\ Rate'
    BY <1>0, <1>3 DEF Heal, limiterVars, breakerVars, SlotsConserved, Holders,
       CircuitMatchesCounter, Rate, AtMostOneEarlyRequest, OneSleeper, SleeperIsFirst,
       SleepersMayRetry
  <2>3. QED
    BY <2>1, <2>2 DEF IInv, Rate
<1>4. CASE UNCHANGED vars
  BY <1>4 DEF vars, IInv, TypeOK, SlotsConserved, Holders, CircuitMatchesCounter,
     AtMostOneEarlyRequest, OneSleeper, SleeperIsFirst, SleepersMayRetry
<1>5. QED
  BY <1>1, <1>2, <1>3, <1>4 DEF Next

(* The inductive invariant holds in every reachable state: the permits, the   *)
(* circuit, and which callers wait for the interval of the domain limiter.     *)
THEOREM SpecIInv == Spec => []IInv
<1>1. QED
  BY InitIInv, NextIInv, PTL DEF Spec

(* The values of limiter, breaker and retry loop stay in their types: the     *)
(* attempts never pass max_attempts (retry/policy.py:41-56).                    *)
THEOREM Types == Spec => []TypeOK
<1>1. IInv => TypeOK
  BY DEF IInv
<1>2. QED
  BY <1>1, SpecIInv, PTL

(* Permits are neither lost nor given back twice, whatever fails or is         *)
(* cancelled (domain_limiter.py:82-92).                                        *)
THEOREM SlotsAreConserved == Spec => []SlotsConserved
<1>1. IInv => SlotsConserved
  BY DEF IInv
<1>2. QED
  BY <1>1, SpecIInv, PTL

(* No result, however late, separates the circuit from its counter              *)
(* (circuit_breaker.py:72-96).                                                  *)
THEOREM CircuitFollowsCounter == Spec => []CircuitMatchesCounter
<1>1. IInv => CircuitMatchesCounter
  BY DEF IInv
<1>2. QED
  BY <1>1, SpecIInv, PTL

(* Between two releases at most one request leaves early, for every number of  *)
(* slots, interval and jitter (domain_limiter.py:83-92).                        *)
THEOREM RateIsLimited == Spec => []AtMostOneEarlyRequest
<1>1. IInv => AtMostOneEarlyRequest
  BY DEF IInv
<1>2. QED
  BY <1>1, SpecIInv, PTL
=============================================================================
