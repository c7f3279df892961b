------------------------------ MODULE Prefetch ------------------------------
(***************************************************************************)
(* When a key's next range is reserved, and how large it is                *)
(* (internal/sequence/biz/prefetch.go, nextStepLocked in allocation.go).   *)
(*                                                                         *)
(* KeyState has the interleavings of this path and lets a prefetch start   *)
(* at any time; here one caller at a time uses one key, and the numbers    *)
(* are real: the ring of reservation latencies, the rate estimate of the   *)
(* active range, the position at which the standby range is fetched, the   *)
(* step that is asked for and the backoff of a retry. Times are in ticks,  *)
(* ids are counted from the start of the active range, rates are           *)
(* fractions. The percentile of the code is over at most 1024 samples;     *)
(* with the few of a model it is their maximum, by the same formula.       *)
(***************************************************************************)
EXTENDS Integers, Sequences, FiniteSets

CONSTANTS
    DefaultStep, MaxStep,       \* allocator.default_step, allocator.max_step
    RatioNum, RatioDen,         \* allocator.prefetch_ratio
    Multiplier,                 \* allocator.prefetch_latency_multiplier
    Window, MinSamples,         \* allocator.prefetch_latency_window, ..._min_samples
    ResetAfter,                 \* allocator.prefetch_rate_reset_after
    IncreaseBelow, DecreaseFrom,\* allocator.step_increase_threshold, step_decrease_threshold
    ReserveTimeout,             \* allocator.reserve_timeout
    RingSize,                   \* MaxReserveLatencySamples
    RecomputeEvery, RecomputeSamples, MinObservation, SampleEvery,
    MinLead, MinBackoff, MaxBackoff,
    Counts,                     \* the ids a call may ask for
    MaxTime                     \* bound of the model on the clock

\* What is assumed of the constants.
Validate ==
    /\ {DefaultStep, MaxStep, RatioNum, RatioDen, Window, ResetAfter, ReserveTimeout, MinLead}
          \subseteq Nat
    /\ Counts \subseteq Nat \ {0}
    /\ 0 < DefaultStep /\ DefaultStep <= MaxStep
    /\ 0 < RatioNum /\ RatioNum < RatioDen
    /\ Multiplier \in 2..10
    /\ Window > 0 /\ MinSamples \in 1..RingSize /\ ResetAfter > 0
    /\ 0 < IncreaseBelow /\ IncreaseBelow < DecreaseFrom
    /\ ReserveTimeout > 0

VARIABLES
    now,        \* the process clock
    tracker,    \* reserveLatencyTracker
    est,        \* keyRateEstimator of the active range
    key,        \* the rest of keyState
    fetch       \* keyState.fetch

vars == <<now, tracker, est, key, fetch>>

Larger(a, b) == IF a >= b THEN a ELSE b
Smaller(a, b) == IF a <= b THEN a ELSE b
CeilDiv(a, b) == (a + b - 1) \div b

NoFetch == [step |-> 0, background |-> FALSE, started |-> 0]

-----------------------------------------------------------------------------
(* The latency of reservations.                                            *)

\* The samples of the window, by their places in the ring.
Recent(t) == {i \in DOMAIN t.samples : t.samples[i].at >= now - Window}
Successes(t) == Cardinality({i \in Recent(t) : t.samples[i].ok})

\* The 99th percentile by nearest rank: the value with that many others below it.
P99(t) ==
    LET rank == (99 * Cardinality(Recent(t)) + 99) \div 100
        Below(v) == Cardinality({i \in Recent(t) : t.samples[i].took < v})
        UpTo(v) == Cardinality({i \in Recent(t) : t.samples[i].took <= v})
    IN  CHOOSE v \in {t.samples[i].took : i \in Recent(t)} : Below(v) < rank /\ rank <= UpTo(v)

Recomputed(t) ==
    LET trusted == Successes(t) >= MinSamples
    IN  [t EXCEPT !.at = now, !.updates = 0, !.trusted = trusted,
                  !.p99 = IF trusted THEN P99(t) ELSE 0]

Due(t) ==
    \/ t.at = 0
    \/ ~t.trusted /\ Len(t.samples) >= MinSamples
    \/ now - t.at >= RecomputeEvery
    \/ t.updates >= RecomputeSamples

Observe(t, took, ok) ==
    LET kept == IF Len(t.samples) = RingSize THEN Tail(t.samples) ELSE t.samples
        added == [t EXCEPT !.updates = @ + 1,
                           !.samples = Append(kept, [at |-> now, took |-> took, ok |-> ok])]
    IN  IF Due(added) THEN Recomputed(added) ELSE added

\* observedP99 refreshes an old value before it answers; 0 is "not trusted".
Refreshed(t) ==
    IF t.at = 0 \/ now - t.at >= RecomputeEvery THEN Recomputed(t) ELSE t

Expected(t) == LET p99 == Refreshed(t).p99 IN IF p99 = 0 THEN ReserveTimeout ELSE p99

PrefetchLead == Smaller(Larger(Expected(tracker) * Multiplier, MinLead), ReserveTimeout)

-----------------------------------------------------------------------------
(* The rate of a key and what follows from it.                             *)

ResetRate(consumed) ==
    [anchorAt |-> now, anchorIds |-> consumed, seenAt |-> now, seenIds |-> consumed,
     n |-> 0, ids |-> 0, span |-> 1, ready |-> FALSE]

Idle(e) == now - e.seenAt > ResetAfter

Ready(e) == e.n >= 2 /\ now - e.anchorAt >= MinObservation /\ now > e.anchorAt

ObserveRate(e, consumed) ==
    LET seen == [e EXCEPT !.seenAt = now, !.seenIds = consumed, !.n = @ + 1]
    IN  IF Idle(e) THEN ResetRate(consumed)
        ELSE IF consumed <= e.seenIds THEN e
        ELSE IF Ready(seen)
        THEN [seen EXCEPT !.ids = consumed - e.anchorIds, !.span = now - e.anchorAt, !.ready = TRUE]
        ELSE [seen EXCEPT !.ready = FALSE]

\* How many ids may be left of the range when the next one is fetched.
Allowance(e, size, block) ==
    IF e.ready
    THEN Smaller(CeilDiv(e.ids * PrefetchLead, e.span) + Larger(1, block), size)
    ELSE size - Smaller(Larger(CeilDiv(size * RatioNum, RatioDen), 1), size)

\* configurePrefetchThresholdLocked, as a position in the range.
Threshold(e, size, block) ==
    LET allowance == Allowance(e, size, block)
    IN  IF allowance >= size THEN 1 ELSE size - allowance

NextStep(e, k) ==
    LET step == Larger(k.step, DefaultStep)
    IN  IF ~e.ready THEN step
        ELSE IF k.size * e.span <= IncreaseBelow * e.ids
        THEN IF step >= MaxStep \div 2 THEN MaxStep ELSE 2 * step
        ELSE IF k.size * e.span >= DecreaseFrom * e.ids
        THEN Larger(step \div 2, DefaultStep)
        ELSE step

\* remainingDuration; 0 when it is not known.
Remaining(e, k) == IF e.ready THEN ((k.size - k.used) * e.span) \div e.ids ELSE 0

Ceiling(remaining) ==
    LET cap == Smaller(MaxBackoff, ReserveTimeout)
        half == Larger(remaining \div 2, MinBackoff)
    IN  Larger(IF remaining > 0 THEN Smaller(cap, half) ELSE cap, MinBackoff)

\* retryDelay with every value of its jitter.
RetryDelays(attempt, remaining, p99) ==
    LET ceiling == Ceiling(remaining)
        base == Smaller(Larger(p99 \div 2, MinBackoff), ceiling)
        window[n \in 1..attempt] ==
            IF n = 1 THEN base
            ELSE IF window[n - 1] >= ceiling \div 2 THEN ceiling
            ELSE 2 * window[n - 1]
        half == window[attempt] \div 2
    IN  IF half = 0 THEN {window[attempt]} ELSE half..(2 * half)

-----------------------------------------------------------------------------
(* One call.                                                               *)

NoRetry(k) == [k EXCEPT !.after = 0, !.timer = 0, !.attempt = 0]

\* activateStandbyLocked and resetPrefetchState.
Activated(k, count) ==
    LET size == k.standby
    IN  [NoRetry(k) EXCEPT !.standby = 0, !.size = size, !.step = size, !.used = count,
                           !.block = 0, !.gate = 0, !.lastUsed = now,
                           !.prefetchAt = Threshold(ResetRate(0), size, 0)]

Sampled(k) == k.gate = 0 \/ now >= k.gate

\* observeAllocation: the estimate, and the threshold if anything changed.
Watched(k, e, count) ==
    LET seen == IF Sampled(k) THEN ObserveRate(e, k.used) ELSE e
        block == IF Sampled(k) /\ Idle(e) THEN count ELSE Larger(k.block, count)
        changed == seen # e \/ count > k.block
    IN  [est |-> seen,
         key |-> [k EXCEPT !.block = block, !.lastUsed = now,
                           !.gate = IF Sampled(k) THEN now + SampleEvery ELSE @,
                           !.prefetchAt = IF changed THEN Threshold(seen, k.size, block) ELSE @]]

\* Mutant: a retry whose timer has yet to run keeps the call from fetching.
WantsUnlessTimer(k, e) ==
    /\ k.used >= k.prefetchAt
    /\ k.standby = 0 /\ fetch = NoFetch
    /\ k.timer = 0
    /\ k.size - k.used <= Allowance(e, k.size, k.block)

WantsPrefetch(k, e) ==
    /\ k.used >= k.prefetchAt
    /\ k.standby = 0 /\ fetch = NoFetch
    /\ ~(now < k.after)
    /\ k.size - k.used <= Allowance(e, k.size, k.block)

Start(step, background) ==
    fetch' = [step |-> step, background |-> background, started |-> now]

\* afterAllocate: observe the call, and fetch the next range if it is time to.
AfterAllocate(k, e, count) ==
    LET watched == Watched(k, e, count)
        wants == WantsPrefetch(watched.key, watched.est)
    IN  /\ est' = watched.est
        /\ tracker' = IF watched.est.ready THEN Refreshed(tracker) ELSE tracker
        /\ IF wants
           THEN /\ key' = [watched.key EXCEPT !.after = 0, !.timer = 0]
                /\ Start(NextStep(watched.est, watched.key), TRUE)
           ELSE key' = watched.key /\ UNCHANGED fetch

Fits(count) == key.used + count <= key.size

FromActive(count) ==
    /\ Fits(count)
    /\ AfterAllocate([key EXCEPT !.used = @ + count], est, count)
    /\ UNCHANGED now

FromStandby(count) ==
    /\ ~Fits(count) /\ key.standby >= count
    /\ AfterAllocate(Activated(key, count), ResetRate(0), count)
    /\ UNCHANGED now

\* The call reserves a range itself; a standby range that is too short is dropped.
Reserve(count) ==
    /\ ~Fits(count) /\ key.standby < count /\ fetch = NoFetch
    /\ Start(Larger(IF key.size = 0 THEN DefaultStep ELSE NextStep(est, key), count), FALSE)
    /\ key' = NoRetry([key EXCEPT !.standby = 0])
    /\ UNCHANGED <<now, tracker, est>>

-----------------------------------------------------------------------------
(* Reservations and retries.                                               *)

Took == Smaller(now - fetch.started, ReserveTimeout)

Succeed ==
    /\ fetch # NoFetch
    /\ key' = [NoRetry(key) EXCEPT !.standby = fetch.step]
    /\ tracker' = Observe(tracker, Took, TRUE)
    /\ fetch' = NoFetch
    /\ UNCHANGED <<now, est>>

FailForeground ==
    /\ fetch # NoFetch /\ ~fetch.background
    /\ tracker' = Observe(tracker, Took, FALSE)
    /\ fetch' = NoFetch
    /\ UNCHANGED <<now, est, key>>

\* completeFetch schedules a retry of a background reservation that failed.
FailBackground ==
    /\ fetch # NoFetch /\ fetch.background
    /\ LET seen == Observe(tracker, Took, FALSE)
       IN  /\ tracker' = Refreshed(seen)
           /\ \E delay \in RetryDelays(key.attempt + 1, Remaining(est, key), Expected(seen)) :
                  key' = [key EXCEPT !.attempt = @ + 1, !.timer = now + delay, !.after = now + delay]
    /\ fetch' = NoFetch
    /\ UNCHANGED <<now, est>>

\* retryPrefetch: a key nobody has used for a while is left alone.
RetryPrefetch ==
    /\ key.timer # 0 /\ now >= key.timer
    /\ IF now - key.lastUsed > ResetAfter
       THEN key' = NoRetry(key) /\ UNCHANGED fetch
       ELSE /\ key' = [key EXCEPT !.timer = 0, !.after = 0]
            /\ Start(NextStep(est, key), TRUE)
    /\ UNCHANGED <<now, tracker, est>>

\* A reservation ends by its timeout at the latest.
Pass ==
    /\ now < MaxTime
    /\ fetch # NoFetch => now - fetch.started < ReserveTimeout
    /\ now' = now + 1
    /\ UNCHANGED <<tracker, est, key, fetch>>

-----------------------------------------------------------------------------
Init ==
    /\ now = 1
    /\ tracker = [samples |-> <<>>, p99 |-> 0, trusted |-> FALSE, at |-> 0, updates |-> 0]
    /\ est = ResetRate(0)
    /\ key = [size |-> 0, used |-> 0, step |-> 0, standby |-> 0, prefetchAt |-> 0, block |-> 0,
              gate |-> 0, after |-> 0, timer |-> 0, attempt |-> 0, lastUsed |-> 1]
    /\ fetch = NoFetch

Next ==
    \/ \E count \in Counts : FromActive(count) \/ FromStandby(count) \/ Reserve(count)
    \/ Succeed \/ FailForeground \/ FailBackground \/ RetryPrefetch \/ Pass

Spec == Init /\ [][Next]_vars

-----------------------------------------------------------------------------
(* Properties.                                                             *)

\* A call that takes the last id of a range leaves the next one on its way:
\* reserved, being reserved, or backing off after a failure (afterAllocate).
\* The threshold was set by earlier calls, from other estimates and latencies.
ExhaustionPrefetches ==
    [][key'.used = key'.size /\ key'.used # key.used
        => key'.standby > 0 \/ fetch' # NoFetch \/ now < key'.after]_vars
=============================================================================
