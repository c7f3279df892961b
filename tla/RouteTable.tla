----------------------------- MODULE RouteTable -----------------------------
(***************************************************************************)
(* From rows to routes: how the ownership of slots becomes contiguous      *)
(* segments (data/placement_data.go), a stored payload and a snapshot      *)
(* (biz/placement.go), and the table a client routes by                    *)
(* (pkg/sequence/router.go).  Each step checks what it is given, and what  *)
(* comes out at the end must be what the rows say of every single slot.    *)
(*                                                                         *)
(* The rows change one at a time, as SlotAuthority lets them.              *)
(***************************************************************************)
EXTENDS Integers, FiniteSetsExt

CONSTANTS
    None,
    Instance,    \* instances of the fleet; each has its node
    NodeOf,      \* [Instance -> nodes]
    SlotCount,
    MaxEpoch     \* bound: the epochs of a slot

\* What is assumed of the constants.
RouteTableAssumption ==
    /\ SlotCount \in Nat \ {0}
    /\ MaxEpoch \in Nat
    /\ DOMAIN NodeOf = Instance
    /\ \A i \in Instance : NodeOf[i] # None      \* a node has a name (node_id)
    /\ None \notin Instance

VARIABLE row   \* sequence_slot_ownership, with what the query adds to it

Slots == 0..(SlotCount - 1)

\* overdue and ready (QuietWindowOverdue, ReleaseReady) depend on the clock.
Unowned(epoch) ==
    [instance |-> None, epoch |-> epoch, state |-> "UNOWNED", overdue |-> FALSE, ready |-> FALSE]

Init == row = [s \in Slots |-> Unowned(0)]

\* A claim, a drain, the clock, a release.
Claim(s, i) ==
    /\ row[s].epoch < MaxEpoch
    /\ row' = [row EXCEPT ![s] = [Unowned(row[s].epoch + 1) EXCEPT !.instance = i,
                                                                   !.state = "OWNED"]]
Drain(s) == row[s].state = "OWNED" /\ row' = [row EXCEPT ![s].state = "DRAINING"]
Overdue(s) == row[s].state # "UNOWNED" /\ row' = [row EXCEPT ![s].overdue = TRUE]
Ready(s) == row[s].state = "DRAINING" /\ row' = [row EXCEPT ![s].ready = TRUE]
Release(s) == row[s].state = "DRAINING" /\ row' = [row EXCEPT ![s] = Unowned(@.epoch)]

Next ==
    \E s \in Slots : \/ \E i \in Instance : Claim(s, i)
                    \/ Drain(s) \/ Overdue(s) \/ Ready(s) \/ Release(s)

Spec == Init /\ [][Next]_row

-----------------------------------------------------------------------------
\* Contiguous segments.

\* ROW_NUMBER within the slots that look alike.
RowNumber(s) == Cardinality({t \in Slots : t <= s /\ row[t] = row[s]})

\* Slots that look alike and are numbered alike are neighbours.  The mutant forgets
\* the second half.
LooksLike(s) == {t \in Slots : row[t] = row[s]}
Island(s) == {t \in Slots : row[t] = row[s] /\ t - RowNumber(t) = s - RowNumber(s)}

\* The segments, which their starts put in order.
OwnershipSegments ==
    {[start |-> Min(I), end |-> Max(I), row |-> row[Min(I)]] : I \in {Island(s) : s \in Slots}}

\* Segments cover every slot once.
Covers(segments) ==
    /\ \A g \in segments :
         /\ g.start <= g.end
         /\ g.start = 0 \/ \E f \in segments : f.end + 1 = g.start
         /\ g.end = SlotCount - 1 \/ \E f \in segments : g.end + 1 = f.start
    /\ \A f, g \in segments : f.start <= g.end /\ g.start <= f.end => f = g
    /\ segments # {}

\* ValidateOwnershipSegments
ValidateOwnershipSegments(segments) ==
    /\ Covers(segments)
    /\ \A g \in segments :
         \/ g.row.state = "UNOWNED" /\ g.row.instance = None
         \/ g.row.state \in {"OWNED", "DRAINING"} /\ g.row.instance # None /\ g.row.epoch > 0

-----------------------------------------------------------------------------
\* The stored payload and the snapshot.

NodeAt(i) == IF i = None THEN None ELSE NodeOf[i]

RouteSegment(g) ==
    [start |-> g.start, end |-> g.end, node |-> NodeAt(g.row.instance),
     instance |-> g.row.instance, epoch |-> g.row.epoch]

\* Two neighbours have the same owner.  The mutants look at the node only, and not
\* at all.
SameNode(a, b) == a.node = b.node
Apart(a, b) == FALSE
SameOwner(a, b) == a.node = b.node /\ a.instance = b.instance /\ a.epoch = b.epoch

\* EncodeOwnershipSegments: the state is left out, so neighbours are merged again.
EncodeOwnershipSegments(segments) ==
    LET parts == {RouteSegment(g) : g \in segments}
        joined(a, b) == a.end + 1 = b.start /\ SameOwner(a, b)
        first == {b \in parts : \A a \in parts : ~joined(a, b)}
        last == {a \in parts : \A b \in parts : ~joined(a, b)}
    IN  {[f EXCEPT !.end = Min({l.end : l \in {l \in last : l.start >= f.start}})] : f \in first}

\* SameRoutePayload compares what the payloads say.
SameRoutePayload(left, right) == left = right

\* DecodeRoute and compileRoute refuse what does not cover the slots or names half
\* an owner.
Complete(payload) ==
    /\ Covers(payload)
    /\ \A g \in payload :
         /\ (g.node = None) <=> (g.instance = None)
         /\ g.node # None => g.epoch > 0

\* segmentFor: a binary search for the first segment that ends at the slot or
\* after it.
SegmentFor(payload, s) ==
    CHOOSE g \in payload : /\ g.end >= s
                           /\ \A f \in payload : f.end >= s => g.end <= f.end

\* compileSegments: the tables of owners and epochs of a client.
CompileSegments(payload) ==
    [s \in Slots |-> LET g == CHOOSE g \in payload : g.start <= s /\ s <= g.end
                    IN  [node |-> g.node, epoch |-> g.epoch]]

-----------------------------------------------------------------------------
\* Properties.

Payload == EncodeOwnershipSegments(OwnershipSegments)

\* What a node and a client find for a slot in the snapshot is what its row says,
\* and no check on the way refuses the rows (OwnershipSegments to compileSegments).
RouteIsOwnership ==
    LET payload == Payload
        table == CompileSegments(payload)
    IN  /\ ValidateOwnershipSegments(OwnershipSegments)
        /\ Complete(payload)
        /\ \A s \in Slots :
             LET found == SegmentFor(payload, s)
             IN  /\ found.instance = row[s].instance
                 /\ found.epoch = row[s].epoch
                 /\ table[s] = [node |-> NodeAt(row[s].instance), epoch |-> row[s].epoch]

\* A payload changes when an owner or an epoch does, and only then: a drain, a
\* grant that ages or a release that gets ready publishes nothing, and a restart
\* of an owner on the same node is never missed (SameRoutePayload,
\* MaterialiseRoute).
Directory == [s \in Slots |-> <<row[s].instance, row[s].epoch>>]

PublishesChanges ==
    [][SameRoutePayload(Payload, Payload') <=> Directory' = Directory]_row
=============================================================================
