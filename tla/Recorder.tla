------------------------------ MODULE Recorder ------------------------------
(***************************************************************************)
(* The linearization recorder (internal/sequence/biz/allocation.go,        *)
(* linearizationRecorder; allocator.go, recordLinearization): a bounded    *)
(* audit of the ids a process hands out. Calls overlap, take their ids     *)
(* anywhere between start and end, and file their observations in any      *)
(* order after they have ended. The ids are arbitrary here: the recorder   *)
(* is there for the day the protocol is wrong.                             *)
(***************************************************************************)
EXTENDS Naturals, Sequences, SequencesExt

CONSTANTS
    Caller, Key,
    Capacity,       \* of the ring and of the baselines
    MaxId, MaxTime, \* bounds of the model
    MaxFiled

\* What is assumed of the constants.
CapacityPositive == Capacity \in Nat \ {0}

VARIABLES
    now,
    call,           \* call[c]: the observation a caller is making
    ring, next,     \* linearizationRecorder.ring and .next
    lru,            \* lastComplete and its list, the last used key in front
    counters,       \* LinearizationCounters
    filed           \* every observation that was filed, in order (history)

vars == <<now, call, ring, next, lru, counters, filed>>

NoCall == [at |-> "idle"]

-----------------------------------------------------------------------------
(* record.                                                                 *)

IndexOf(k) == {i \in DOMAIN lru : lru[i].key = k}

\* Mutant: two calls that overlap are compared as well.
FiledBefore(previous, o) == previous.start <= o.start

\* The baseline had returned before the request started.
Precedes(previous, o) == previous.end < o.start

Counted(o) ==
    LET previous == {lru[i] : i \in IndexOf(o.key)}
        stale == \E p \in previous : Precedes(p, o) /\ o.id < p.id
        duplicate == \E p \in previous : Precedes(p, o) /\ o.id = p.id
    IN  [stale |-> counters.stale + (IF stale THEN 1 ELSE 0),
         duplicate |-> counters.duplicate + (IF duplicate THEN 1 ELSE 0),
         order |-> counters.order + (IF stale \/ duplicate THEN 1 ELSE 0),
         evicted |-> counters.evicted + (IF previous = {} /\ Len(lru) = Capacity THEN 1 ELSE 0)]

\* Mutant: the baseline is whatever was filed last.
Newest(p, o) == o

\* The baseline of a key is its observation with the latest response.
Later(p, o) == IF o.end > p.end THEN o ELSE p

Remembered(o) ==
    IF IndexOf(o.key) = {}
    THEN <<o>> \o (IF Len(lru) = Capacity THEN Front(lru) ELSE lru)
    ELSE LET i == CHOOSE i \in IndexOf(o.key) : TRUE
         IN  <<Later(lru[i], o)>> \o RemoveAt(lru, i)

Slotted(o) == IF Len(ring) < Capacity THEN Append(ring, o) ELSE [ring EXCEPT ![next + 1] = o]

Advanced == IF Len(ring) < Capacity THEN next ELSE (next + 1) % Capacity

\* observations(): the ring, oldest first.
Observations == SubSeq(ring, next + 1, Len(ring)) \o SubSeq(ring, 1, next)

-----------------------------------------------------------------------------
(* Calls.                                                                  *)

Begin(c) ==
    /\ call[c].at = "idle"
    /\ \E k \in Key : call' = [call EXCEPT ![c] = [at |-> "running", key |-> k, start |-> now]]
    /\ UNCHANGED <<now, ring, next, lru, counters, filed>>

\* recordLinearization reads the clock before it takes the recorder's lock.
End(c) ==
    /\ call[c].at = "running"
    /\ \E id \in 1..MaxId :
          call' = [call EXCEPT ![c] = [at |-> "ended",
                                       seen |-> [key |-> call[c].key, id |-> id,
                                                 start |-> call[c].start, end |-> now]]]
    /\ UNCHANGED <<now, ring, next, lru, counters, filed>>

File(c) ==
    /\ call[c].at = "ended"
    /\ Len(filed) < MaxFiled
    /\ LET o == call[c].seen
       IN  /\ counters' = Counted(o)
           /\ lru' = Remembered(o)
           /\ ring' = Slotted(o)
           /\ next' = Advanced
           /\ filed' = Append(filed, o)
    /\ call' = [call EXCEPT ![c] = NoCall]
    /\ UNCHANGED now

Pass ==
    /\ now < MaxTime
    /\ now' = now + 1
    /\ UNCHANGED <<call, ring, next, lru, counters, filed>>

Init ==
    /\ now = 1
    /\ call = [c \in Caller |-> NoCall]
    /\ ring = <<>> /\ next = 0 /\ lru = <<>> /\ filed = <<>>
    /\ counters = [stale |-> 0, duplicate |-> 0, order |-> 0, evicted |-> 0]

Next == (\E c \in Caller : Begin(c) \/ End(c) \/ File(c)) \/ Pass

Spec == Init /\ [][Next]_vars

-----------------------------------------------------------------------------
(* Properties.                                                             *)

Filing == Len(filed') > Len(filed)
New == Last(filed')

\* The calls that had returned before o began and were filed before it.
Before(o) == {filed[i] : i \in {j \in DOMAIN filed : filed[j].key = o.key /\ filed[j].end < o.start}}

\* allocation.go: "everything it flags is a real violation". What is counted is
\* an id some caller got after a larger or equal one had been returned, whatever
\* the order of filing, the overlaps and the evictions before.
FlagsAreReal ==
    [][counters'.order > counters.order => \E p \in Before(New) : New.id <= p.id]_vars

\* A call that begins after all filed calls of its key have returned is compared
\* with the one of them that returned last, as long as the ring still holds that
\* one: no eviction of baselines gets ahead of the ring, and no late filing of an
\* early response replaces the baseline.
LatestIsCompared ==
    [][Filing
        => \A p \in Before(New) :
              (/\ \A i \in DOMAIN filed : filed[i].key = New.key => filed[i].end < p.end \/ filed[i] = p
               /\ p \in ToSet(Observations)
               /\ New.id <= p.id)
              => counters'.order > counters.order]_vars
=============================================================================
