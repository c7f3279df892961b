------------------------------ MODULE Measures ------------------------------
(***************************************************************************)
(* What a process measures, side by side: the storage clock                *)
(* (ClockMonitor), rates and latencies (Prefetch), its own allocations     *)
(* (Recorder).  They share no state.                                       *)
(***************************************************************************)
EXTENDS ClockMonitor

CONSTANTS
    DefaultStep, MaxStep, RatioNum, RatioDen, Multiplier, Window, MinSamples, ResetAfter,
    IncreaseBelow, DecreaseFrom, ReserveTimeout, RingSize, RecomputeEvery,
    RecomputeSamples, MinObservation, SampleEvery, MinLead, MinBackoff, MaxBackoff,
    Counts, RefillUntil,                                \* Prefetch
    Caller, Key, Capacity, MaxId, MaxFiled, RecordUntil \* Recorder

VARIABLES
    now, tracker, est, key, fetch,                      \* Prefetch
    time, call, ring, next, lru, counters, filed        \* Recorder

Refill == INSTANCE Prefetch WITH MaxTime <- RefillUntil

Record == INSTANCE Recorder WITH MaxTime <- RecordUntil, now <- time

ASSUME MeasuresAssumption == Refill!Validate /\ Record!CapacityPositive

-----------------------------------------------------------------------------
\* The properties of Prefetch and Recorder, as they state them.

\* A call that takes the last id of a range leaves the next one on its way.
ExhaustionPrefetches == Refill!ExhaustionPrefetches

\* What the recorder flags is a violation of the order of ids.
FlagsAreReal == Record!FlagsAreReal

\* A call is compared with the latest response of its key that is still in the ring.
LatestIsCompared == Record!LatestIsCompared
=============================================================================
