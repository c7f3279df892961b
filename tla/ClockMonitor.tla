---------------------------- MODULE ClockMonitor ----------------------------
(***************************************************************************)
(* StorageClockMonitor (placement.go): samples of the storage clock,       *)
(* bracketed by readings of the local one, and what the monitor makes of   *)
(* two of them in a row.                                                   *)
(*                                                                         *)
(* Abstractions.                                                           *)
(*  - Time is in steps, on the local monotonic clock.  What the storage    *)
(*    clock is ahead of it splits into a drift, either way, and jumps      *)
(*    forward.                                                             *)
(*  - Gauges (drift, forwardJump, sampleRTT) are left out.                 *)
(***************************************************************************)
EXTENDS Integers

CONSTANTS
    DriftBound, JumpBound,      \* HAConfig.ClockDrift, ClockJump
    MaxTime,                    \* bound: the local clock
    MaxDrift, MaxJump           \* bound: what the storage clock does altogether

ASSUME ClockAssumption ==
    {DriftBound, JumpBound, MaxTime, MaxDrift, MaxJump} \subseteq Nat

VARIABLES
    clock,      \* the time, and what the storage clock is ahead
    sample,     \* the sample being taken
    last,       \* the last one that was
    armed, violated,
    broken,     \* whether the clock changed more than its bound between two readings
    missed      \* whether a change too large to be a matter of delays went unnoticed

vars == <<clock, sample, last, armed, violated, broken, missed>>

Storage(c) == c.time + c.drift + c.jump
Ahead(c) == c.drift + c.jump

Zero == [time |-> 0, drift |-> 0, jump |-> 0]
NoSample == [at |-> "idle", start |-> 0, read |-> Zero]

Init ==
    /\ clock = Zero
    /\ sample = NoSample
    /\ last = [start |-> 0, end |-> 0, read |-> Zero]
    /\ armed = FALSE /\ violated = FALSE
    /\ broken = FALSE /\ missed = FALSE

-----------------------------------------------------------------------------
\* The two clocks.

Pass ==
    /\ clock.time < MaxTime
    /\ clock' = [clock EXCEPT !.time = @ + 1]
    /\ UNCHANGED <<sample, last, armed, violated, broken, missed>>

Drift(d) ==
    /\ clock.drift + d \in -MaxDrift..MaxDrift
    /\ clock' = [clock EXCEPT !.drift = @ + d]
    /\ UNCHANGED <<sample, last, armed, violated, broken, missed>>

Jump ==
    /\ clock.jump < MaxJump
    /\ clock' = [clock EXCEPT !.jump = @ + 1]
    /\ UNCHANGED <<sample, last, armed, violated, broken, missed>>

-----------------------------------------------------------------------------
\* Observe

Start ==
    /\ sample.at = "idle"
    /\ sample' = [sample EXCEPT !.at = "asked", !.start = clock.time]
    /\ UNCHANGED <<clock, last, armed, violated, broken, missed>>

\* Storage reads its clock at some moment of the call, which may come to nothing.
Read ==
    /\ sample.at = "asked"
    /\ sample' = [sample EXCEPT !.at = "read", !.read = clock]
    /\ UNCHANGED <<clock, last, armed, violated, broken, missed>>

Fail ==
    /\ sample.at # "idle"
    /\ sample' = NoSample
    /\ UNCHANGED <<clock, last, armed, violated, broken, missed>>

\* How much the storage clock may have gained on the local one between the readings:
\* at least, and at most.
Delta(s, l) == Storage(s.read) - Storage(l.read)
Lower(s, l, end) == Delta(s, l) - (end - l.start)
Upper(s, l, end) == Delta(s, l) - (s.start - l.end)

\* The outcome of a comparison.  The first mutant takes the certain for the possible,
\* the second the possible for the certain.
AlarmOnPossible(lower, upper) ==
    upper > JumpBound \/ upper > DriftBound \/ lower < -DriftBound
AlarmOnBoth(lower, upper) ==
    (lower > JumpBound /\ lower > DriftBound) \/ upper < -DriftBound
Alarm(lower, upper) ==
    lower > JumpBound \/ lower > DriftBound \/ upper < -DriftBound

\* What there is to find: the change between the two readings.
Change(s, l) == Ahead(s.read) - Ahead(l.read)
Allowed(change) == -DriftBound <= change /\ change <= DriftBound /\ change <= JumpBound
Delays(s, l, end) == (end - s.start) + (l.end - l.start)
Blatant(change, delays) ==
    \/ change > DriftBound + delays \/ change > JumpBound + delays
    \/ change < -DriftBound - delays

Finish ==
    LET end == clock.time
        alarm == Alarm(Lower(sample, last, end), Upper(sample, last, end))
    IN  /\ sample.at = "read"
        /\ sample' = NoSample
        /\ last' = [start |-> sample.start, end |-> end, read |-> sample.read]
        /\ armed' = TRUE
        /\ IF ~armed THEN UNCHANGED <<violated, broken, missed>>
           ELSE /\ violated' = (violated \/ alarm)
                /\ broken' = (broken \/ ~Allowed(Change(sample, last)))
                /\ missed' = (missed \/ (~alarm /\ Blatant(Change(sample, last),
                                                           Delays(sample, last, end))))
        /\ UNCHANGED clock

Next == Pass \/ (\E d \in {-1, 1} : Drift(d)) \/ Jump \/ Start \/ Read \/ Fail \/ Finish

Spec == Init /\ [][Next]_vars

-----------------------------------------------------------------------------
\* Properties.

\* An instance is not fenced for delays: a violation is reported only when the storage
\* clock did change more than its bounds between two readings (Observe).
NoFalseAlarm == violated => broken

\* A change beyond the bounds that no delay of the two samples could hide is reported
\* at the end of the second, even if samples failed in between (Observe).
NothingBlatantMissed == ~missed
=============================================================================
