----------------------------- MODULE Placement ------------------------------
(***************************************************************************)
(* Which node gets which slot (internal/sequence/biz/placement.go): every  *)
(* data node computes the targets of free slots from the fleet's view and  *)
(* claims its own, and the coordinator moves what nodes have beyond their  *)
(* quota.  Nobody sends anybody a message: the nodes agree because they    *)
(* compute the same function of the same tables, and both functions must   *)
(* pull in the same direction while the fleet changes under them.          *)
(*                                                                         *)
(* Abstractions.                                                           *)
(*  - What a transaction does to a slot is SlotAuthority's; here a handoff *)
(*    has the phases that matter to a planner, and an owner stands for     *)
(*    owner and epoch.  The budgets of a handoff batch are not repeated.   *)
(*  - A pass reads rows and members in one step and acts on them in a      *)
(*    later one, which may find everything changed.                        *)
(*  - lapsed are the instances whose last grant lies a quiet window back.  *)
(***************************************************************************)
EXTENDS Integers, FiniteSetsExt

CONSTANTS
    None,
    Node,         \* numbers, which are in the order of the node ids
    SlotCount,
    BatchSlots, MaxPlanned,   \* MigrationConfig
    Generations,  \* bound: how many processes each node runs, one after the other
    MaxChanges,   \* bound: how often members join, leave or crash
    MaxRaces      \* bound: transfers that commit between two reads of one pass

ASSUME PlacementAssumption ==
    /\ Node \subseteq Nat
    /\ {SlotCount, BatchSlots, MaxPlanned, Generations} \subseteq Nat \ {0}
    /\ {MaxChanges, MaxRaces} \subseteq Nat

VARIABLES
    row,       \* sequence_slot_ownership
    handoff,   \* sequence_slot_handoffs, active rows
    live,      \* the instances whose lease and liveness rows are fresh
    stable,    \* those that have been live for the join stability window
    lapsed,    \* those whose quiet window is over
    pass,      \* per instance, the slots its refresh is about to claim
    coord,     \* the coordinator's pass
    changes,   \* membership changes so far
    races,     \* transfers between two reads so far
    quiet,     \* history: since a pass began, nothing but migrations has changed the fleet
    moved,     \* history: the slots that were planned to move meanwhile
    informed   \* history: the instances with a plan that knows every node that joined
               \* and every slot that was transferred to them

vars == <<row, handoff, live, stable, lapsed, pass, coord, changes, races, quiet, moved,
          informed>>

-----------------------------------------------------------------------------
Slot == 0..(SlotCount - 1)
Instance == Node \X (1..Generations)
NodeOf(i) == i[1]

Unowned == [owner |-> None, state |-> "UNOWNED"]
NoHandoff == [kind |-> "none", source |-> None, target |-> None, phase |-> "none",
              ready |-> FALSE]

Init ==
    /\ row = [s \in Slot |-> Unowned]
    /\ handoff = [s \in Slot |-> NoHandoff]
    /\ live = {} /\ stable = {} /\ lapsed = {}
    /\ pass = [i \in Instance |-> {}]
    /\ coord = [at |-> "idle"]
    /\ changes = 0 /\ races = 0
    /\ quiet = FALSE /\ moved = {}
    /\ informed = {}

-----------------------------------------------------------------------------
\* Quotas and targets.

\* One slot after the other; the choice among one value has TLC evaluate it once.
OverSlots(op(_, _), base) ==
    LET upTo[k \in 0..SlotCount] ==
            IF k = 0 THEN base
            ELSE CHOOSE r \in {op(acc, k - 1) : acc \in {upTo[k - 1]}} : TRUE
    IN  upTo[SlotCount]

\* slotQuotas: an even split, and what is left goes to the first.
Quota(N, n) ==
    LET index == Cardinality({m \in N : m < n})
        extra == IF index < SlotCount % Cardinality(N) THEN 1 ELSE 0
    IN  SlotCount \div Cardinality(N) + extra

\* A ready release: a drained one, or one whose fence has passed.
ReleaseReady(s) == handoff[s].kind = "RELEASE" /\ handoff[s].ready

Healthy(s, members) ==
    /\ row[s].state = "OWNED"
    /\ row[s].owner \in members
    /\ row[s].owner \notin lapsed

\* What planTargetsFromSegments leaves where it is.
Kept(members) ==
    {s \in Slot : \/ Healthy(s, members)
                  \/ row[s].state = "DRAINING" /\ ~ReleaseReady(s)}

\* What counts against a node's quota already.
KeptBy(members, n) == {s \in Kept(members) : NodeOf(row[s].owner) = n}

\* The nodes that take another slot.  The mutant is off by one.
UpTo(N, counts) == {n \in N : counts[n] <= Quota(N, n)}
Below(N, counts) == {n \in N : counts[n] < Quota(N, n)}

\* The first node below its quota, else the first of those with the fewest.
Chosen(N, counts) ==
    LET below == Below(N, counts)
        fewest == {n \in N : \A m \in N : counts[n] <= counts[m]}
    IN  IF below # {} THEN Min(below) ELSE Min(fewest)

\* planTargetsFromSegments: who should have each slot.
Targets(members) ==
    LET N == {NodeOf(i) : i \in members}
        free == Slot \ Kept(members)
        counts == [n \in N |-> Cardinality(KeptBy(members, n))]
        give(acc, s) ==
            LET n == Chosen(N, acc.counts)
            IN  IF s \notin free THEN acc
                ELSE [counts |-> [acc.counts EXCEPT ![n] = @ + 1],
                 target |-> [acc.target EXCEPT ![s] = n]]
        kept == [s \in Slot |-> IF s \in free THEN None ELSE NodeOf(row[s].owner)]
    IN  IF N = {} THEN kept
        ELSE OverSlots(give, [counts |-> counts, target |-> kept]).target

-----------------------------------------------------------------------------
\* planMigrations.

\* What an instance has now, whatever is under way: the mutant of the next.
LoadNow(i, pending) == Cardinality({s \in Slot : row[s].owner = i})

\* What an instance has and will have: owned slots, less those that will leave,
\* plus those that will come.
Load(i, pending) ==
    LET moving == {s \in Slot : pending[s] # NoHandoff /\ pending[s].phase # "TRANSFERRED"}
    IN  Cardinality({s \in Slot : row[s].owner = i})
            - Cardinality({s \in moving : pending[s].source = i})
            + Cardinality({s \in moving : pending[s].target = i})

Admitted(members, settled) ==
    {i \in members : i \in settled \/ \E s \in Slot : row[s].owner = i}

\* No migration while anything is to be recovered.
Settled(members) ==
    \A s \in Slot : row[s].owner \in members /\ row[s].owner \notin lapsed

Plans(members, settled, pending, limit) ==
    LET admitted == Admitted(members, settled)
        N == {NodeOf(i) : i \in admitted}
        quota(i) == Quota(N, NodeOf(i))
        first == [load |-> [i \in admitted |-> Load(i, pending)], moves |-> {}, full |-> FALSE]
        consider(acc, s) ==
            LET i == row[s].owner
                room == {j \in admitted : acc.load[j] < quota(j)}
                target == CHOOSE j \in room : \A k \in room : NodeOf(j) <= NodeOf(k)
            IN  IF \/ acc.full \/ row[s].state # "OWNED" \/ pending[s] # NoHandoff
                   \/ acc.load[i] <= quota(i)
                THEN acc
                ELSE IF room = {} \/ Cardinality(acc.moves) = limit
                THEN [acc EXCEPT !.full = TRUE]
                ELSE [acc EXCEPT !.load[i] = @ - 1, !.load[target] = @ + 1,
                                 !.moves = @ \cup {[slot |-> s, source |-> i, target |-> target]}]
    IN  IF ~Settled(members) \/ Cardinality(N) < 2 \/ limit = 0 THEN {}
        ELSE OverSlots(consider, first).moves

-----------------------------------------------------------------------------
\* Members.

Disturbed == quiet' = FALSE /\ moved' = {}

Change ==
    /\ changes < MaxChanges
    /\ changes' = changes + 1
    /\ Disturbed
    /\ UNCHANGED races
Calm == UNCHANGED <<changes, races, quiet, moved>>

\* A node starts a process, which heartbeats from now on.
Join(i) ==
    /\ \A j \in Instance : NodeOf(j) = NodeOf(i) => j \notin live
    /\ i \notin lapsed
    /\ \A j \in Instance : NodeOf(j) = NodeOf(i) /\ j[2] < i[2] => j \in lapsed
    /\ Change
    /\ live' = live \cup {i}
    /\ informed' = {}
    /\ UNCHANGED <<row, handoff, stable, lapsed, pass, coord>>

Settle(i) ==
    /\ i \in live \ stable
    /\ stable' = stable \cup {i}
    /\ UNCHANGED <<row, handoff, live, lapsed, pass, coord, informed>>
    /\ Calm

\* A process dies; its rows grow old.
Crash(i) ==
    /\ i \in live
    /\ Change
    /\ live' = live \ {i}
    /\ stable' = stable \ {i}
    /\ pass' = [pass EXCEPT ![i] = {}]
    /\ informed' = informed \ {i}
    /\ UNCHANGED <<row, handoff, lapsed, coord>>

\* A process shuts down: it withdraws what it holds, unless a handoff of the slot
\* is under way, and drops its liveness row.
Leave(i) ==
    LET S == {s \in Slot : row[s].owner = i /\ handoff[s] = NoHandoff}
    IN  /\ i \in live
        /\ Change
        /\ live' = live \ {i}
        /\ stable' = stable \ {i}
        /\ pass' = [pass EXCEPT ![i] = {}]
        /\ informed' = informed \ {i}
        /\ row' = [s \in Slot |-> IF s \in S THEN [row[s] EXCEPT !.state = "DRAINING"]
                                  ELSE row[s]]
        /\ handoff' = [s \in Slot |->
                         IF s \in S THEN [NoHandoff EXCEPT !.kind = "RELEASE", !.source = i,
                                                           !.phase = "DRAINING"]
                         ELSE handoff[s]]
        /\ UNCHANGED <<lapsed, coord>>

Lapse(i) ==
    /\ i \notin live \cup lapsed
    /\ \E s \in Slot : i \in {row[s].owner, handoff[s].source, handoff[s].target}
    /\ lapsed' = lapsed \cup {i}
    /\ UNCHANGED <<row, handoff, live, stable, pass, coord, informed>>
    /\ Calm

-----------------------------------------------------------------------------
\* A data node's refresh.

\* Allocator.Claim leaves out what the instance holds already.
Held(i, s) == row[s] = [owner |-> i, state |-> "OWNED"]

\* NodeManager.Refresh up to the claim: the slots the plan gives this node, except
\* those that drain.
Plan(i) ==
    /\ i \in live
    /\ pass[i] = {}
    /\ pass' = [pass EXCEPT ![i] =
                  {s \in Slot : /\ Targets(live)[s] = NodeOf(i)
                                /\ row[s].state = "DRAINING" => ReleaseReady(s)
                                /\ ~Held(i, s)}]
    /\ informed' = IF pass'[i] = {} THEN informed ELSE informed \cup {i}
    /\ UNCHANGED <<row, handoff, live, stable, lapsed, coord>>
    /\ Calm

\* ClaimSlots: a slot is free, or its owner's quiet window is over, or its release
\* is ready.  A claim that succeeds cancels what was planned for the slot.
Eligible(s) ==
    \/ row[s].state = "UNOWNED"
    \/ row[s].state = "OWNED" /\ row[s].owner \in lapsed
    \/ row[s].state = "DRAINING" /\ ReleaseReady(s)

Claim(i) ==
    LET S == {s \in pass[i] : Eligible(s)}
    IN  /\ i \in live
        /\ pass[i] # {}
        /\ row' = [s \in Slot |-> IF s \in S THEN [owner |-> i, state |-> "OWNED"]
                                  ELSE row[s]]
        /\ handoff' = [s \in Slot |-> IF s \in S THEN NoHandoff ELSE handoff[s]]
        /\ pass' = [pass EXCEPT ![i] = {}]
        /\ informed' = informed \ {i}
        /\ IF S = {} THEN UNCHANGED <<quiet, moved>> ELSE Disturbed
        /\ UNCHANGED <<live, stable, lapsed, coord, changes, races>>

-----------------------------------------------------------------------------
\* The coordinator's pass.

\* LiveNodes reads with a member how long it has been one.
ReadMembers ==
    /\ coord.at = "idle"
    /\ coord' = [at |-> "recover", members |-> live, settled |-> stable]
    /\ quiet' = (live \subseteq stable)
    /\ UNCHANGED <<row, handoff, live, stable, lapsed, pass, changes, races, moved, informed>>

\* RecoverHandoffs: an intent whose target is gone is dropped before its drain, and
\* gets another target, or becomes a release, after it.
Recovered(s, members) ==
    LET h == handoff[s]
        others == {i \in members : i # h.source /\ i \in live}
    IN  IF h = NoHandoff \/ h.target \in members THEN h
        ELSE IF h.phase = "PLANNED" THEN NoHandoff
        ELSE IF h.phase = "TRANSFERRED"
             THEN IF row[s].owner = h.target THEN h ELSE NoHandoff
        ELSE IF h.kind = "RELEASE" THEN h
        ELSE IF others = {} THEN [h EXCEPT !.kind = "RELEASE", !.target = None]
        ELSE [h EXCEPT !.ready = FALSE,
                       !.target = CHOOSE i \in others : \A j \in others : NodeOf(i) <= NodeOf(j)]

\* A release whose own fence has passed frees the slot.  The fence has passed when the
\* quiet window of the source has, and may have once the release is ready.
FenceOver == {s \in Slot : handoff[s].kind = "RELEASE" /\ handoff[s].source \in lapsed}
Freed == {S \in SUBSET (FenceOver \cup {s \in Slot : ReleaseReady(s)}) : FenceOver \subseteq S}

Recover ==
    /\ coord.at = "recover"
    /\ \E freed \in Freed :
        /\ handoff' = [s \in Slot |-> IF s \in freed THEN NoHandoff
                                      ELSE Recovered(s, coord.members)]
        /\ row' = [s \in Slot |-> IF s \in freed THEN Unowned ELSE row[s]]
    /\ coord' = [coord EXCEPT !.at = "read"]
    /\ IF UNCHANGED <<row, handoff>> THEN UNCHANGED <<quiet, moved>> ELSE Disturbed
    /\ UNCHANGED <<live, stable, lapsed, pass, changes, races, informed>>

Count(rows) == Cardinality({s \in Slot : rows[s] # NoHandoff})

\* The handoffs are read first ...
ReadHandoffs ==
    /\ coord.at = "read"
    /\ coord' = IF Count(handoff) >= MaxPlanned THEN [at |-> "idle"]
                ELSE [at |-> "plan", members |-> coord.members, settled |-> coord.settled,
                      pending |-> handoff]
    /\ UNCHANGED <<row, handoff, live, stable, lapsed, pass, informed>>
    /\ Calm

\* ... and the ownership view after them.
PlanMoves ==
    LET limit == Min({BatchSlots, MaxPlanned - Count(coord.pending)})
        plans == Plans(coord.members, coord.settled, coord.pending, limit)
    IN  /\ coord.at = "plan"
        /\ coord' = IF plans = {} THEN [at |-> "idle"] ELSE [at |-> "insert", plans |-> plans]
        /\ UNCHANGED <<row, handoff, live, stable, lapsed, pass, informed>>
        /\ Calm

\* PlanHandoffs: all or none by the budget, one by one by the slot.
Insert ==
    LET admitted == {p \in coord.plans :
                        /\ row[p.slot] = [owner |-> p.source, state |-> "OWNED"]
                        /\ {p.source, p.target} \subseteq live
                        /\ handoff[p.slot] = NoHandoff}
        plan(s) == CHOOSE p \in admitted : p.slot = s
        S == IF Count(handoff) + Cardinality(coord.plans) > MaxPlanned THEN {}
             ELSE {p.slot : p \in admitted}
    IN  /\ coord.at = "insert"
        /\ handoff' = [s \in Slot |->
                         IF s \in S THEN [kind |-> "TRANSFER", source |-> plan(s).source,
                                          target |-> plan(s).target, phase |-> "PLANNED",
                                          ready |-> FALSE]
                         ELSE handoff[s]]
        /\ moved' = IF quiet THEN moved \cup S ELSE moved
        /\ coord' = [at |-> "idle"]
        /\ UNCHANGED <<row, live, stable, lapsed, pass, changes, races, quiet, informed>>

-----------------------------------------------------------------------------
\* The handoffs run (SlotAuthority has them in full).

Begin(s) ==
    /\ handoff[s].phase = "PLANNED" /\ {handoff[s].source, handoff[s].target} \subseteq live
    /\ handoff' = [handoff EXCEPT ![s].phase = "DRAINING"]
    /\ row' = [row EXCEPT ![s].state = "DRAINING"]
    /\ UNCHANGED <<live, stable, lapsed, pass, coord, informed>>
    /\ Calm

\* The source acknowledges its drain, or the fence passes.  The mutant knows no
\* fence.
DrainAcknowledged(h) == h.source \in live \/ h.kind = "RELEASE"
DrainOver(h) == h.source \in live \cup lapsed \/ h.kind = "RELEASE"

Drained(s) ==
    /\ handoff[s].phase = "DRAINING" /\ ~handoff[s].ready
    /\ DrainOver(handoff[s])
    /\ handoff' = [handoff EXCEPT ![s].ready = TRUE]
    /\ UNCHANGED <<row, live, stable, lapsed, pass, coord, informed>>
    /\ Calm

\* Beyond MaxRaces the handoffs of a pass count as read after the transfer.
Transfer(s) ==
    /\ handoff[s].kind = "TRANSFER" /\ handoff[s].phase = "DRAINING" /\ handoff[s].ready
    /\ handoff[s].target \in live
    /\ row' = [row EXCEPT ![s] = [owner |-> handoff[s].target, state |-> "OWNED"]]
    /\ handoff' = [handoff EXCEPT ![s].phase = "TRANSFERRED"]
    /\ informed' = informed \ {handoff[s].target}
    /\ races' = IF coord.at = "plan" /\ races < MaxRaces THEN races + 1 ELSE races
    /\ coord' = IF coord.at = "plan" /\ races = MaxRaces
                THEN [coord EXCEPT !.pending = handoff'] ELSE coord
    /\ IF coord.at = "plan" THEN Disturbed ELSE UNCHANGED <<quiet, moved>>
    /\ UNCHANGED <<live, stable, lapsed, pass, changes>>

AckActive(s) ==
    /\ handoff[s].phase = "TRANSFERRED" /\ handoff[s].target \in live
    /\ handoff' = [handoff EXCEPT ![s] = NoHandoff]
    /\ UNCHANGED <<row, live, stable, lapsed, pass, coord, informed>>
    /\ Calm

-----------------------------------------------------------------------------
Coordinate == ReadMembers \/ Recover \/ ReadHandoffs \/ PlanMoves \/ Insert
Refresh(i) == Plan(i) \/ Claim(i)
Execute(s) == Begin(s) \/ Drained(s) \/ Transfer(s) \/ AckActive(s)

Next ==
    \/ \E i \in Instance :
        Join(i) \/ Settle(i) \/ Crash(i) \/ Leave(i) \/ Lapse(i) \/ Refresh(i)
    \/ Coordinate
    \/ \E s \in Slot : Execute(s)

\* Tickers tick, loops go round, and time passes.  Members need not change.
Fairness ==
    /\ \A i \in Instance : WF_vars(Settle(i)) /\ WF_vars(Lapse(i)) /\ WF_vars(Refresh(i))
    /\ WF_vars(Coordinate)
    /\ \A s \in Slot : WF_vars(Execute(s))

Spec == Init /\ [][Next]_vars
FairSpec == Spec /\ Fairness

-----------------------------------------------------------------------------
\* Properties.

\* A claim makes no surplus that the coordinator would have to move away again, although
\* every node plans on a view of its own and claims on it later: whatever crashed, left,
\* lapsed, drained or was claimed by others meanwhile, the claim leaves the node within
\* its quota, unless another node has joined, or a slot was transferred to this one, since
\* the plan (planTargetsFromSegments, NodeManager.Refresh).
ClaimsWithinQuota ==
    [][\A i \in informed : Claim(i) /\ row' # row =>
          Cardinality(KeptBy(live, NodeOf(i))') <= Quota({NodeOf(j) : j \in live}, NodeOf(i))]_vars

\* No slot is planned to move twice, and none back, while every member is stable and
\* nothing but migrations happens, however many passes plan on however old views of
\* them (planMigrations "accounts for pending transfers before moving only quota
\* surpluses").  A transfer or a claim that commits between the two reads of a pass
\* breaks this (README): its slot counts as its new owner's and as one that is on its way.
NoThrash ==
    [][\A s \in moved \cap moved' : handoff[s] = NoHandoff => handoff'[s] = NoHandoff]_vars

\* When the fleet no longer changes, every slot is soon served by a live member
\* and the members share the slots evenly, for good.
Balanced ==
    LET N == {NodeOf(i) : i \in live}
        Has(n) == Cardinality({s \in Slot : NodeOf(row[s].owner) = n})
    IN  /\ \A s \in Slot : row[s].state = "OWNED" /\ row[s].owner \in live
        /\ \A n, m \in N : Has(n) - Has(m) <= 1
        /\ Count(handoff) = 0

EventuallyBalanced == <>[](live # {} => Balanced)
=============================================================================
