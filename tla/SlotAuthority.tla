--------------------------- MODULE SlotAuthority ---------------------------
(***************************************************************************)
(* The durable authority of the sequence service: the instance leases, the *)
(* slot ownership rows and the slot handoff rows, and every transaction    *)
(* that changes them (internal/sequence/data/ownership_data.go and         *)
(* handoff_data.go).  A transaction locks the rows it reads in one global  *)
(* order, instances before slots before handoffs, so it is one action.     *)
(*                                                                         *)
(* The callers are left completely open: any instance may present any      *)
(* revision, claim any set of slots or issue any handoff command at any    *)
(* time.  What holds here is therefore what storage guarantees whatever    *)
(* the instances do; SequenceHA adds the instances.                        *)
(*                                                                         *)
(* Abstractions.                                                           *)
(*  - The storage clock is a number of ticks that never steps back, and a  *)
(*    transaction reads it once.  Lease and QuietWindow are in ticks.      *)
(*  - A handoff row in phase COMPLETED or CANCELLED is NoHandoff: every    *)
(*    transaction treats it like a missing row.                            *)
(*  - A batch of handoff commands is validated command by command and each *)
(*    command has a slot of its own, so the model commits them one by one. *)
(*    A batch bumps the revision of an instance once, the model once per   *)
(*    command; RecoverHandoffs is split the same way, slot by slot.        *)
(*  - The coordinator tenure that guards planning and recovery, and the    *)
(*    membership rows, are not here: planning, recovery and collection may *)
(*    happen whenever their other conditions hold.                         *)
(***************************************************************************)
EXTENDS Integers, FiniteSets

CONSTANTS
    Instance,      \* instance ids; one process registers one id
    Slot,          \* slot ids
    HandoffId,     \* handoff ids, uuids in the code
    None,          \* SQL NULL of an owner or a target, and the id of no handoff
    Lease,         \* HAConfig.LeaseDuration
    QuietWindow,   \* HAConfig.QuietWindow
    MaxInflight, MaxPerSource, MaxPerTarget, MaxPlanned, BatchSlots,
                   \* MigrationConfig
    MaxClock,      \* bound: the last tick of the storage clock
    MaxEpoch       \* bound: the last epoch a slot can reach

ASSUME NoneAssumption ==
    /\ None \notin Instance
    /\ None \notin HandoffId

\* HAConfig.Validate asks for more (config.go, QuietWindowFloor); this is all
\* the storage transactions need.
ASSUME WindowAssumption ==
    /\ Lease \in Nat \ {0}
    /\ QuietWindow \in Nat
    /\ QuietWindow >= Lease

ASSUME BudgetAssumption ==
    /\ {MaxInflight, MaxPerSource, MaxPerTarget, MaxPlanned, BatchSlots} \subseteq Nat
    /\ {MaxClock, MaxEpoch} \subseteq Nat

VARIABLES
    now,       \* the storage clock
    lease,     \* sequence_instance_leases
    slot,      \* sequence_slot_ownership
    handoff,   \* sequence_slot_handoffs, the active rows
    horizon    \* history: the last renewal by the owner while the slot was OWNED

vars == <<now, lease, slot, handoff, horizon>>

-----------------------------------------------------------------------------
\* Rows.

LeaseRow == [state: {"ABSENT", "ACTIVE", "RETIRED"}, revision: Nat, granted: Nat]

SlotRow == [owner: Instance \cup {None}, epoch: Nat,
            state: {"UNOWNED", "OWNED", "DRAINING"}]

HandoffRow ==
    [id: HandoffId \cup {None}, kind: {"TRANSFER", "RELEASE"},
     source: Instance \cup {None}, epoch: Nat, target: Instance \cup {None},
     phase: {"NONE", "PLANNED", "READY", "DRAINING", "TRANSFERRED"},
     drained: BOOLEAN, ready: BOOLEAN, notBefore: Nat]

NoLease == [state |-> "ABSENT", revision |-> 0, granted |-> 0]

NoHandoff ==
    [id |-> None, kind |-> "RELEASE", source |-> None, epoch |-> 0, target |-> None,
     phase |-> "NONE", drained |-> FALSE, ready |-> FALSE, notBefore |-> 0]

\* The shape of the state.  A slot without an owner is UNOWNED and no other.
TypeOK ==
    /\ now \in Nat
    /\ lease \in [Instance -> LeaseRow]
    /\ slot \in [Slot -> SlotRow]
    /\ handoff \in [Slot -> HandoffRow]
    /\ horizon \in [Slot -> Nat]
    /\ \A s \in Slot : slot[s].owner = None <=> slot[s].state = "UNOWNED"

-----------------------------------------------------------------------------
\* Helpers.

Fresh(i) == lease[i].state = "ACTIVE" /\ now < lease[i].granted + Lease

\* bumpRevisions.  Its mutant stops after the first instance.
BumpedFirst(ids) ==
    LET first == CHOOSE i \in ids : TRUE
    IN  [lease EXCEPT ![first].revision = @ + 1]
Bumped(ids) ==
    [i \in Instance |->
        IF i \in ids THEN [lease[i] EXCEPT !.revision = @ + 1] ELSE lease[i]]

Active(s) == handoff[s].phase # "NONE"

\* The row still speaks of the authority it was made for.
SourceMatches(s) ==
    /\ slot[s].owner = handoff[s].source
    /\ slot[s].epoch = handoff[s].epoch

InFlight == {s \in Slot : handoff[s].phase \in {"DRAINING", "TRANSFERRED"}}
Outgoing(i) == {s \in InFlight : handoff[s].source = i}
Incoming(i) == {s \in InFlight : handoff[s].target = i}

\* The drain fence of a DRAINING row.
DrainOver(s) == handoff[s].drained \/ now >= handoff[s].notBefore

-----------------------------------------------------------------------------
\* Instance leases.

Init ==
    /\ now = 0
    /\ lease = [i \in Instance |-> NoLease]
    /\ slot = [s \in Slot |-> [owner |-> None, epoch |-> 0, state |-> "UNOWNED"]]
    /\ handoff = [s \in Slot |-> NoHandoff]
    /\ horizon = [s \in Slot |-> 0]

\* Insert-if-absent; a second registration changes nothing.
RegisterInstance(i) ==
    /\ lease[i].state = "ABSENT"
    /\ lease' = [lease EXCEPT ![i] =
                    [state |-> "ACTIVE", revision |-> 0, granted |-> now]]
    /\ UNCHANGED <<now, slot, handoff, horizon>>

\* Compare-and-set on the revision the caller acknowledged.
RenewInstance(i, revision) ==
    /\ lease[i].state = "ACTIVE"
    /\ lease[i].revision = revision
    /\ lease' = [lease EXCEPT ![i].granted = now]
    /\ horizon' = [s \in Slot |->
                    IF slot[s].owner = i /\ slot[s].state = "OWNED"
                    THEN now ELSE horizon[s]]
    /\ UNCHANGED <<now, slot, handoff>>

RetireInstance(i) ==
    /\ lease[i].state = "ACTIVE"
    /\ lease' = [lease EXCEPT ![i].state = "RETIRED", ![i].revision = @ + 1]
    /\ UNCHANGED <<now, slot, handoff, horizon>>

\* The mutant of what follows: it looks at the slots only.
CollectUnowned(i) ==
    /\ lease[i].state # "ABSENT"
    /\ now >= lease[i].granted + QuietWindow
    /\ \A s \in Slot : slot[s].owner # i
    /\ lease' = [lease EXCEPT ![i] = NoLease]
    /\ UNCHANGED <<now, slot, handoff, horizon>>

\* Deletes a row no slot and no active handoff refers to.
CollectInstance(i) ==
    /\ lease[i].state # "ABSENT"
    /\ now >= lease[i].granted + QuietWindow
    /\ \A s \in Slot :
        /\ slot[s].owner # i
        /\ Active(s) => i \notin {handoff[s].source, handoff[s].target}
    /\ lease' = [lease EXCEPT ![i] = NoLease]
    /\ UNCHANGED <<now, slot, handoff, horizon>>

-----------------------------------------------------------------------------
\* Claiming.

HeldBy(i, s) == slot[s].state = "OWNED" /\ slot[s].owner = i

\* The mutant of what follows: a lapsed lease is enough.
ClaimableWhenLapsed(s) ==
    \/ slot[s].state = "UNOWNED"
    \/ slot[s].state = "OWNED" /\ now >= lease[slot[s].owner].granted + Lease

\* May the slot change hands without its owner: nobody has it, the owner's
\* last grant is a quiet window old, or its release is past the drain fence.
Claimable(s) ==
    \/ slot[s].state = "UNOWNED"
    \/ /\ slot[s].state = "OWNED"
       /\ now >= lease[slot[s].owner].granted + QuietWindow
    \/ /\ slot[s].state = "DRAINING"
       /\ handoff[s].kind = "RELEASE"
       /\ handoff[s].phase = "DRAINING"
       /\ SourceMatches(s)
       /\ DrainOver(s)

\* One batch.  Slots the caller holds already are granted as they are; the
\* claimable ones change hands and lose their handoff; others are refused.
ClaimSlots(i, revision, S) ==
    LET granted == {s \in S : ~HeldBy(i, s) /\ Claimable(s)}
        losers == {slot[s].owner : s \in granted} \ {None}
    IN  /\ Fresh(i)
        /\ lease[i].revision = revision
        /\ \A s \in S : slot[s].owner # None => lease[slot[s].owner].state # "ABSENT"
        /\ granted # {}
        /\ \A s \in granted : slot[s].epoch < MaxEpoch
        /\ slot' = [s \in Slot |->
                      IF s \in granted
                      THEN [owner |-> i, epoch |-> slot[s].epoch + 1, state |-> "OWNED"]
                      ELSE slot[s]]
        /\ handoff' = [s \in Slot |-> IF s \in granted THEN NoHandoff ELSE handoff[s]]
        /\ horizon' = [s \in Slot |-> IF s \in granted THEN 0 ELSE horizon[s]]
        /\ lease' = Bumped({i} \cup losers)
        /\ UNCHANGED now

-----------------------------------------------------------------------------
\* Handoffs: the coordinator plans, source and target carry the plan out.

\* One batch of intents under max_planned.  Targets the check under locks
\* rejects are skipped, which is the same as not being in the batch.
PlanHandoffs(P, target, id) ==
    /\ Cardinality(P) <= BatchSlots
    /\ Cardinality({s \in Slot : Active(s)}) + Cardinality(P) <= MaxPlanned
    /\ \A s \in P :
        /\ slot[s].state = "OWNED"
        /\ target # slot[s].owner
        /\ Fresh(target)
        /\ Fresh(slot[s].owner)
        /\ ~Active(s)
    /\ handoff' = [s \in Slot |->
                    IF s \in P
                    THEN [NoHandoff EXCEPT !.id = id, !.kind = "TRANSFER",
                            !.source = slot[s].owner, !.epoch = slot[s].epoch,
                            !.target = target, !.phase = "PLANNED"]
                    ELSE handoff[s]]
    /\ UNCHANGED <<now, lease, slot, horizon>>

\* ApplyHandoffs PREPARE: the target says it is ready.
Prepared(row) ==
    [row EXCEPT !.ready = TRUE,
                !.phase = IF row.phase = "PLANNED" THEN "READY" ELSE row.phase]

Prepare(i, revision, s) ==
    /\ handoff[s].phase \in {"PLANNED", "DRAINING"}
    /\ handoff[s].target = i
    /\ Fresh(i)
    /\ lease[i].revision = revision
    /\ SourceMatches(s)
    /\ handoff' = [handoff EXCEPT ![s] = Prepared(handoff[s])]
    /\ UNCHANGED <<now, lease, slot, horizon>>

\* not_before: a quiet window after the storage clock and the source's grant.  Its
\* mutant waits for the source's lease only.
DrainFenceOfLease(source) == now + Lease
DrainFence(source) ==
    (IF lease[source].granted > now THEN lease[source].granted ELSE now) + QuietWindow

\* The mutant of what follows: a budget that is used up admits one more.
StartDrainLate(row, s) ==
    /\ Cardinality(InFlight) <= MaxInflight
    /\ Cardinality(Outgoing(row.source)) <= MaxPerSource
    /\ handoff' = [handoff EXCEPT ![s] =
            [row EXCEPT !.phase = "DRAINING", !.notBefore = DrainFence(row.source)]]
    /\ slot' = [slot EXCEPT ![s].state = "DRAINING"]
    /\ lease' = Bumped({row.source})
    /\ UNCHANGED <<now, horizon>>

\* The common end of BEGIN and WITHDRAW: close the slot at its epoch, date the
\* drain fence, and make the source take notice.
StartDrain(row, s) ==
    /\ Cardinality(InFlight) < MaxInflight
    /\ Cardinality(Outgoing(row.source)) < MaxPerSource
    /\ handoff' = [handoff EXCEPT ![s] =
            [row EXCEPT !.phase = "DRAINING", !.notBefore = DrainFence(row.source)]]
    /\ slot' = [slot EXCEPT ![s].state = "DRAINING"]
    /\ lease' = Bumped({row.source})
    /\ UNCHANGED <<now, horizon>>

Begin(i, s) ==
    /\ handoff[s].phase = "READY"
    /\ SourceMatches(s)
    /\ slot[s].state = "OWNED"
    /\ i \in {handoff[s].source, handoff[s].target}
    /\ handoff[s].ready
    /\ Fresh(handoff[s].target)
    /\ Cardinality(Incoming(handoff[s].target)) < MaxPerTarget
    /\ StartDrain(handoff[s], s)

\* A READY row is always a TRANSFER: WITHDRAW creates its RELEASE and begins it
\* in the same transaction, and leaves nothing behind when it is not admitted.
Withdraw(i, epoch, id, s) ==
    /\ slot[s].owner = i
    /\ slot[s].epoch = epoch
    /\ slot[s].state = "OWNED"
    /\ ~Active(s)
    /\ StartDrain([NoHandoff EXCEPT !.id = id, !.source = i, !.epoch = epoch], s)

AckDrain(i, s) ==
    /\ handoff[s].phase = "DRAINING"
    /\ SourceMatches(s)
    /\ handoff[s].source = i
    /\ handoff' = [handoff EXCEPT ![s].drained = TRUE]
    /\ UNCHANGED <<now, lease, slot, horizon>>

\* ApplyHandoffs TRANSFER of a TRANSFER row: the target takes the slot.
Transfer(i, s) ==
    /\ handoff[s].phase = "DRAINING"
    /\ SourceMatches(s)
    /\ slot[s].state = "DRAINING"
    /\ DrainOver(s)
    /\ handoff[s].kind = "TRANSFER"
    /\ handoff[s].target = i
    /\ Fresh(i)
    /\ handoff[s].ready
    /\ slot[s].epoch < MaxEpoch
    /\ slot' = [slot EXCEPT ![s] =
                  [owner |-> i, epoch |-> slot[s].epoch + 1, state |-> "OWNED"]]
    /\ handoff' = [handoff EXCEPT ![s].phase = "TRANSFERRED"]
    /\ horizon' = [horizon EXCEPT ![s] = 0]
    /\ lease' = Bumped({i, handoff[s].source})
    /\ UNCHANGED now

\* The mutant of what follows starts the epochs afresh.
ReleaseRow(s) ==
    /\ slot' = [slot EXCEPT ![s] = [owner |-> None, epoch |-> 0, state |-> "UNOWNED"]]
    /\ handoff' = [handoff EXCEPT ![s] = NoHandoff]
    /\ horizon' = [horizon EXCEPT ![s] = 0]
    /\ lease' = Bumped({handoff[s].source})
    /\ UNCHANGED now

\* The slot of a release becomes free at its epoch.
ReleaseSlot(s) ==
    /\ slot' = [slot EXCEPT ![s].owner = None, ![s].state = "UNOWNED"]
    /\ handoff' = [handoff EXCEPT ![s] = NoHandoff]
    /\ horizon' = [horizon EXCEPT ![s] = 0]
    /\ lease' = Bumped({handoff[s].source})
    /\ UNCHANGED now

\* ApplyHandoffs TRANSFER of a RELEASE row: the source gives the slot back.
FinishRelease(i, s) ==
    /\ handoff[s].phase = "DRAINING"
    /\ SourceMatches(s)
    /\ slot[s].state = "DRAINING"
    /\ DrainOver(s)
    /\ handoff[s].kind = "RELEASE"
    /\ handoff[s].source = i
    /\ ReleaseSlot(s)

AckActive(i, revision, s) ==
    /\ handoff[s].phase = "TRANSFERRED"
    /\ handoff[s].target = i
    /\ Fresh(i)
    /\ lease[i].revision = revision
    /\ HeldBy(i, s)
    /\ slot[s].epoch = handoff[s].epoch + 1
    /\ handoff' = [handoff EXCEPT ![s] = NoHandoff]
    /\ UNCHANGED <<now, lease, slot, horizon>>

-----------------------------------------------------------------------------
\* RecoverHandoffs: the coordinator looks at the handoffs whose target is not
\* in the membership it read; a RELEASE has no target, so it always is one.

Drains(s) == SourceMatches(s) /\ slot[s].state = "DRAINING"

\* The row no longer speaks of the slot's authority, or nothing began yet.  The
\* mutant gives up a drain that did begin.
AbandonedDrain(s) ==
    \/ handoff[s].phase \in {"PLANNED", "READY", "DRAINING"}
    \/ /\ handoff[s].phase = "TRANSFERRED"
       /\ \/ slot[s].owner # handoff[s].target
          \/ slot[s].epoch # handoff[s].epoch + 1
Abandoned(s) ==
    \/ handoff[s].phase \in {"PLANNED", "READY"}
    \/ handoff[s].phase = "DRAINING" /\ ~Drains(s)
    \/ /\ handoff[s].phase = "TRANSFERRED"
       /\ \/ slot[s].owner # handoff[s].target
          \/ slot[s].epoch # handoff[s].epoch + 1

RecoverCancel(nodes, s) ==
    /\ handoff[s].target \notin nodes
    /\ Abandoned(s)
    /\ handoff' = [handoff EXCEPT ![s] = NoHandoff]
    /\ UNCHANGED <<now, lease, slot, horizon>>

\* The release of a source that does not answer, after the drain fence.
RecoverRelease(s) ==
    /\ handoff[s].phase = "DRAINING"
    /\ Drains(s)
    /\ handoff[s].kind = "RELEASE"
    /\ now >= handoff[s].notBefore
    /\ ReleaseSlot(s)

Replacements(nodes, s) == {n \in nodes : n # handoff[s].source /\ Fresh(n)}

\* The new target has to prepare and the source to acknowledge again; a drain
\* without a target keeps its fence and its acknowledgement.
Retargeted(row, target, id) ==
    [row EXCEPT !.target = target, !.id = id, !.drained = FALSE, !.ready = FALSE]
Degraded(row, id) ==
    [row EXCEPT !.kind = "RELEASE", !.target = None, !.id = id, !.ready = FALSE]

\* A drain whose target is gone gets another target, or none at all.
RecoverTarget(nodes, id, s) ==
    /\ handoff[s].phase = "DRAINING"
    /\ Drains(s)
    /\ handoff[s].kind = "TRANSFER"
    /\ handoff[s].target \notin nodes
    /\ id # handoff[s].id
    /\ \/ \E target \in Replacements(nodes, s) :
            handoff' = [handoff EXCEPT ![s] = Retargeted(handoff[s], target, id)]
       \/ /\ Replacements(nodes, s) = {}
          /\ handoff' = [handoff EXCEPT ![s] = Degraded(handoff[s], id)]
    /\ UNCHANGED <<now, lease, slot, horizon>>

-----------------------------------------------------------------------------

Tick ==
    /\ now < MaxClock
    /\ now' = now + 1
    /\ UNCHANGED <<lease, slot, handoff, horizon>>

InstanceStep(i) ==
    \/ RegisterInstance(i)
    \/ \E revision \in 0..lease[i].revision : RenewInstance(i, revision)
    \/ RetireInstance(i)
    \/ CollectInstance(i)
    \/ \E revision \in 0..lease[i].revision, S \in SUBSET Slot : ClaimSlots(i, revision, S)

CommandStep(i, s) ==
    \/ \E revision \in 0..lease[i].revision : Prepare(i, revision, s)
    \/ Begin(i, s)
    \/ \E id \in HandoffId : Withdraw(i, slot[s].epoch, id, s)
    \/ AckDrain(i, s)
    \/ Transfer(i, s)
    \/ FinishRelease(i, s)
    \/ \E revision \in 0..lease[i].revision : AckActive(i, revision, s)

CoordinatorStep ==
    \/ \E P \in SUBSET Slot \ {{}}, target \in Instance, id \in HandoffId :
          PlanHandoffs(P, target, id)
    \/ \E s \in Slot :
        \/ RecoverRelease(s)
        \/ \E nodes \in SUBSET Instance :
            \/ RecoverCancel(nodes, s)
            \/ \E id \in HandoffId : RecoverTarget(nodes, id, s)

Next ==
    \/ Tick
    \/ CoordinatorStep
    \/ \E i \in Instance : InstanceStep(i)
    \/ \E i \in Instance, s \in Slot : CommandStep(i, s)

Spec == Init /\ [][Next]_vars

-----------------------------------------------------------------------------
\* Properties.

\* A slot drains exactly while a handoff of its owner at its epoch is in phase
\* DRAINING, an intent that has not begun speaks of a slot its source still
\* holds, and a transferred one of the slot its target got.  Claims, commands
\* and recovery all write both tables; one that forgets a table leaves a slot
\* nobody may finish draining (handoff_data.go:242-437, ownership_data.go:394-404).
HandoffMatchesSlot ==
    \A s \in Slot :
        /\ slot[s].state = "DRAINING" <=> handoff[s].phase = "DRAINING"
        /\ handoff[s].phase \in {"PLANNED", "READY", "DRAINING"} => SourceMatches(s)
        /\ handoff[s].phase = "TRANSFERRED" =>
            /\ HeldBy(handoff[s].target, s)
            /\ slot[s].epoch = handoff[s].epoch + 1

\* Collection never deletes the lease row of a slot's owner or of a party of an
\* active handoff: without it a claim can never date the quiet window again
\* (handoff_data.go:582-608, ownership_data.go:349-353).
PartiesRegistered ==
    \A s \in Slot :
        /\ slot[s].owner # None => lease[slot[s].owner].state # "ABSENT"
        /\ Active(s) =>
            \A i \in {handoff[s].source, handoff[s].target} \ {None} :
                lease[i].state # "ABSENT"

\* The owner's lease row covers its last renewal of the slot, and the drain
\* fence lies a quiet window behind it although the source may go on renewing
\* (handoff_data.go:354-359).
HorizonBehindFence ==
    \A s \in Slot :
        /\ slot[s].state = "OWNED" => horizon[s] <= lease[slot[s].owner].granted
        /\ slot[s].state = "DRAINING" => horizon[s] + QuietWindow <= handoff[s].notBefore

\* However commands, withdrawals and recovery interleave, the slots between two
\* owners stay within the migration budgets (handoff_data.go:345-347).
DrainsWithinBudget ==
    /\ Cardinality(InFlight) <= MaxInflight
    /\ \A i \in Instance : Cardinality(Outgoing(i)) <= MaxPerSource

\* What an instance may serve: the slots OWNED by it, with their epochs.
Authority(i) == {<<s, slot[s].epoch>> : s \in {t \in Slot : HeldBy(i, t)}}

\* An instance's authority never changes behind a revision it has seen: every
\* transaction that gives or takes a slot bumps the revision of each instance
\* concerned, so a renewal or a reservation at an old revision is refused
\* (bumpRevisions at each call site).
RevisionFence ==
    [][\A i \in Instance :
        Authority(i)' # Authority(i) => lease'[i].revision > lease[i].revision]_vars

\* Epochs never fall; a slot gets an owner, or back from DRAINING to OWNED,
\* only at a new epoch.  So no (slot, epoch) ever has two owners, and a gate
\* closed at an epoch is never reopened at it (docs, section 5.2).
EpochFence ==
    [][\A s \in Slot :
        /\ slot'[s].epoch >= slot[s].epoch
        /\ slot'[s].epoch = slot[s].epoch =>
            /\ slot'[s].owner \in {slot[s].owner, None}
            /\ slot'[s].state = "OWNED" => slot[s].state = "OWNED"]_vars

\* Authority leaves an owner only after it acknowledged the drain, or a quiet
\* window after its last renewal that covered the slot: until then its local
\* deadline may let it serve from memory (docs, section 3.3).
TakeoverFence ==
    [][\A s \in Slot :
        (/\ slot[s].owner # None
         /\ \/ slot'[s].owner # slot[s].owner
            \/ slot'[s].epoch # slot[s].epoch)
        => \/ slot[s].state = "DRAINING" /\ handoff[s].drained
           \/ now >= horizon[s] + QuietWindow]_vars
=============================================================================
