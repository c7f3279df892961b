---------------------------- MODULE MonotonicIds ----------------------------
(***************************************************************************)
(* What the service promises its callers, per key (docs, section 1.3): no  *)
(* id is handed out twice, and an id is greater than every id that some    *)
(* caller already held when the call began.  Calls that overlap in time    *)
(* may return in any order, ids may be skipped, and a call may fail.       *)
(***************************************************************************)
EXTENDS Integers

CONSTANTS
    Caller,   \* one outstanding call each
    Key,      \* keys
    Id        \* ids, a set of positive numbers

VARIABLES
    issued,   \* issued[k]: the ids handed out for k; a set does not show a repeated
              \* id, so what implements this adds 0 to it, which no step here does
    request   \* request[c]: the key asked for and the greatest id issued for
              \* it when the call began, or NoRequest

NoRequest == [floor |-> -1]

vars == <<issued, request>>

Below(k, id) == \A i \in issued[k] : i < id

Init ==
    /\ issued = [k \in Key |-> {}]
    /\ request = [c \in Caller |-> NoRequest]

Start(c, k, floor) ==
    /\ request[c] = NoRequest
    /\ floor \in issued[k] \cup {0}
    /\ Below(k, floor + 1)
    /\ request' = [request EXCEPT ![c] = [key |-> k, floor |-> floor]]
    /\ UNCHANGED issued

\* One id, or a block without gaps.
Return(c, first, last) ==
    /\ request[c] # NoRequest
    /\ first > request[c].floor
    /\ first <= last
    /\ issued[request[c].key] \cap first..last = {}
    /\ issued' = [issued EXCEPT ![request[c].key] = @ \cup first..last]
    /\ request' = [request EXCEPT ![c] = NoRequest]

Fail(failed) ==
    /\ request' = [c \in Caller |-> IF c \in failed THEN NoRequest ELSE request[c]]
    /\ UNCHANGED issued

Next ==
    \/ \E c \in Caller, k \in Key, floor \in Id \cup {0} : Start(c, k, floor)
    \/ \E c \in Caller, first, last \in Id : Return(c, first, last)
    \/ \E failed \in SUBSET Caller : Fail(failed)

Spec == Init /\ [][Next]_vars
=============================================================================
