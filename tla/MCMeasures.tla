----------------------------- MODULE MCMeasures -----------------------------
(***************************************************************************)
(* What a process measures, for TLC: ClockMonitor, Prefetch and Recorder   *)
(* share no state; what runs is chosen at the beginning.                   *)
(***************************************************************************)
EXTENDS Measures, TLC

VARIABLE part

refillVars == <<now, tracker, est, key, fetch>>
recordVars == <<time, call, ring, next, lru, counters, filed>>
allVars == <<part, vars, refillVars, recordVars>>

PartsInit ==
    /\ part \in {"clock", "refill", "record"}
    /\ Init /\ Refill!Init /\ Record!Init

PartsNext ==
    /\ UNCHANGED part
    /\ \/ part = "clock" /\ Next /\ UNCHANGED <<refillVars, recordVars>>
       \/ part = "refill" /\ Refill!Next /\ UNCHANGED <<vars, recordVars>>
       \/ part = "record" /\ Record!Next /\ UNCHANGED <<vars, refillVars>>

PartsSpec == PartsInit /\ [][PartsNext]_allVars

Symmetry == Permutations(Caller) \cup Permutations(Key)
=============================================================================
