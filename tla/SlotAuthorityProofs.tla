------------------------ MODULE SlotAuthorityProofs ------------------------
(***************************************************************************)
(* What storage guarantees for any number of instances and slots, and for  *)
(* any lease and quiet window: types, the authority of one owner, fences,  *)
(* takeovers, and the migration budgets.                                   *)
(***************************************************************************)
EXTENDS SlotAuthority, TLAPS, FiniteSetTheorems

-----------------------------------------------------------------------------
\* The operators the transactions share.

LEMMA BumpedType ==
    ASSUME TypeOK, NEW ids
    PROVE  Bumped(ids) \in [Instance -> LeaseRow]
<1>1. ASSUME NEW i \in Instance
      PROVE  Bumped(ids)[i] \in LeaseRow
  BY DEF Bumped, TypeOK, LeaseRow
<1>2. QED
  BY <1>1 DEF Bumped

\* A lease row keeps its state and grant when its revision is bumped.
LEMMA BumpedFields ==
    ASSUME TypeOK, NEW ids, NEW i \in Instance
    PROVE  /\ Bumped(ids)[i].state = lease[i].state
           /\ Bumped(ids)[i].granted = lease[i].granted
           /\ Bumped(ids)[i].revision =
                IF i \in ids THEN lease[i].revision + 1 ELSE lease[i].revision
  BY DEF Bumped, TypeOK, LeaseRow

LEMMA DrainFenceBounds ==
    ASSUME TypeOK, NEW i \in Instance
    PROVE  /\ DrainFence(i) \in Nat
           /\ DrainFence(i) >= now + QuietWindow
           /\ DrainFence(i) >= lease[i].granted + QuietWindow
  BY WindowAssumption DEF DrainFence, TypeOK, LeaseRow

\* The updates of a row that keep the authority it speaks of.
LEMMA PreparedRow ==
    ASSUME NEW row \in HandoffRow
    PROVE  /\ Prepared(row) \in HandoffRow
           /\ Prepared(row).source = row.source
           /\ Prepared(row).target = row.target
           /\ Prepared(row).epoch = row.epoch
           /\ Prepared(row).notBefore = row.notBefore
           /\ row.phase = "PLANNED" => Prepared(row).phase = "READY"
           /\ row.phase # "PLANNED" => Prepared(row).phase = row.phase
  BY DEF Prepared, HandoffRow

LEMMA RetargetedRow ==
    ASSUME NEW row \in HandoffRow, NEW target \in Instance, NEW id \in HandoffId
    PROVE  /\ Retargeted(row, target, id) \in HandoffRow
           /\ Retargeted(row, target, id).source = row.source
           /\ Retargeted(row, target, id).target = target
           /\ Retargeted(row, target, id).epoch = row.epoch
           /\ Retargeted(row, target, id).notBefore = row.notBefore
           /\ Retargeted(row, target, id).phase = row.phase
  BY DEF Retargeted, HandoffRow

LEMMA DegradedRow ==
    ASSUME NEW row \in HandoffRow, NEW id \in HandoffId
    PROVE  /\ Degraded(row, id) \in HandoffRow
           /\ Degraded(row, id).source = row.source
           /\ Degraded(row, id).target = None
           /\ Degraded(row, id).epoch = row.epoch
           /\ Degraded(row, id).notBefore = row.notBefore
           /\ Degraded(row, id).phase = row.phase
  BY DEF Degraded, HandoffRow

LEMMA NoHandoffType == NoHandoff \in HandoffRow
  BY DEF NoHandoff, HandoffRow

\* The common end of BEGIN and WITHDRAW, row being the handoff that begins.
LEMMA StartDrainType ==
    ASSUME TypeOK, NEW s \in Slot, NEW row \in HandoffRow, row.source \in Instance,
           slot[s].owner # None, StartDrain(row, s)
    PROVE  TypeOK'
<1>1. lease' \in [Instance -> LeaseRow]
  BY BumpedType DEF StartDrain
<1>2. slot' \in [Slot -> SlotRow]
  BY DEF StartDrain, TypeOK, SlotRow
<1>3. handoff' \in [Slot -> HandoffRow]
  <2>1. DrainFence(row.source) \in Nat
    BY DrainFenceBounds
  <2>2. [row EXCEPT !.phase = "DRAINING", !.notBefore = DrainFence(row.source)]
          \in HandoffRow
    BY <2>1 DEF HandoffRow
  <2>3. QED
    BY <2>2 DEF StartDrain, TypeOK
<1>4. now' \in Nat /\ horizon' \in [Slot -> Nat]
  BY DEF StartDrain, TypeOK
<1>5. \A t \in Slot : slot'[t].owner = None <=> slot'[t].state = "UNOWNED"
  BY DEF StartDrain, TypeOK, SlotRow
<1>6. QED
  BY <1>1, <1>2, <1>3, <1>4, <1>5 DEF TypeOK

LEMMA ReleaseSlotType ==
    ASSUME TypeOK, NEW s \in Slot, ReleaseSlot(s)
    PROVE  TypeOK'
<1>1. lease' \in [Instance -> LeaseRow]
  BY BumpedType DEF ReleaseSlot
<1>2. slot' \in [Slot -> SlotRow]
  BY DEF ReleaseSlot, TypeOK, SlotRow
<1>3. handoff' \in [Slot -> HandoffRow]
  BY NoHandoffType DEF ReleaseSlot, TypeOK
<1>4. now' \in Nat /\ horizon' \in [Slot -> Nat]
  BY DEF ReleaseSlot, TypeOK
<1>5. \A t \in Slot : slot'[t].owner = None <=> slot'[t].state = "UNOWNED"
  BY DEF ReleaseSlot, TypeOK, SlotRow
<1>6. QED
  BY <1>1, <1>2, <1>3, <1>4, <1>5 DEF TypeOK

-----------------------------------------------------------------------------
\* Type correctness.

LEMMA TypeInstanceStep ==
    ASSUME TypeOK, NEW i \in Instance, InstanceStep(i)
    PROVE  TypeOK'
<1>1. CASE RegisterInstance(i)
  BY <1>1 DEF RegisterInstance, TypeOK, LeaseRow
<1>2. ASSUME NEW revision \in 0..lease[i].revision, RenewInstance(i, revision)
      PROVE  TypeOK'
  BY <1>2 DEF RenewInstance, TypeOK, LeaseRow
<1>3. CASE RetireInstance(i)
  BY <1>3 DEF RetireInstance, TypeOK, LeaseRow
<1>4. CASE CollectInstance(i)
  BY <1>4 DEF CollectInstance, TypeOK, LeaseRow, NoLease
<1>5. ASSUME NEW revision \in 0..lease[i].revision, NEW S \in SUBSET Slot,
             ClaimSlots(i, revision, S)
      PROVE  TypeOK'
  <2>1. lease' \in [Instance -> LeaseRow]
    BY <1>5, BumpedType DEF ClaimSlots
  <2>2. slot' \in [Slot -> SlotRow]
    BY <1>5 DEF ClaimSlots, TypeOK, SlotRow
  <2>3. handoff' \in [Slot -> HandoffRow]
    BY <1>5, NoHandoffType DEF ClaimSlots, TypeOK
  <2>4. now' \in Nat /\ horizon' \in [Slot -> Nat]
    BY <1>5 DEF ClaimSlots, TypeOK
  <2>5. \A t \in Slot : slot'[t].owner = None <=> slot'[t].state = "UNOWNED"
    BY <1>5, NoneAssumption DEF ClaimSlots, TypeOK
  <2>6. QED
    BY <2>1, <2>2, <2>3, <2>4, <2>5 DEF TypeOK
<1>6. QED
  BY <1>1, <1>2, <1>3, <1>4, <1>5 DEF InstanceStep

LEMMA TypeCommandStep ==
    ASSUME TypeOK, NEW i \in Instance, NEW s \in Slot, CommandStep(i, s)
    PROVE  TypeOK'
<1>1. ASSUME NEW revision \in 0..lease[i].revision, Prepare(i, revision, s)
      PROVE  TypeOK'
  <2>1. Prepared(handoff[s]) \in HandoffRow
    BY PreparedRow DEF TypeOK
  <2>2. QED
    BY <1>1, <2>1 DEF Prepare, TypeOK
<1>2. CASE Begin(i, s)
  <2>1. handoff[s] \in HandoffRow /\ slot[s] \in SlotRow
    BY DEF TypeOK
  <2>2. slot[s].owner # None /\ handoff[s].source \in Instance
    BY <1>2, <2>1 DEF Begin, SourceMatches, TypeOK, SlotRow
  <2>3. QED
    BY <1>2, <2>1, <2>2, StartDrainType DEF Begin
<1>3. ASSUME NEW id \in HandoffId, Withdraw(i, slot[s].epoch, id, s)
      PROVE  TypeOK'
  <2> DEFINE row == [NoHandoff EXCEPT !.id = id, !.source = i, !.epoch = slot[s].epoch]
  <2>1. row \in HandoffRow /\ row.source \in Instance
    BY DEF NoHandoff, HandoffRow, TypeOK, SlotRow
  <2>2. slot[s].owner # None /\ StartDrain(row, s)
    BY <1>3, NoneAssumption DEF Withdraw
  <2>3. QED
    BY <2>1, <2>2, StartDrainType
<1>4. CASE AckDrain(i, s)
  BY <1>4 DEF AckDrain, TypeOK, HandoffRow
<1>5. CASE Transfer(i, s)
  <2>1. lease' \in [Instance -> LeaseRow]
    BY <1>5, BumpedType DEF Transfer
  <2>2. slot' \in [Slot -> SlotRow]
    BY <1>5 DEF Transfer, TypeOK, SlotRow
  <2>3. handoff' \in [Slot -> HandoffRow]
    <3>1. handoff' = [handoff EXCEPT ![s].phase = "TRANSFERRED"]
      BY <1>5 DEF Transfer
    <3>2. QED
      BY <3>1 DEF TypeOK, HandoffRow
  <2>4. now' \in Nat /\ horizon' \in [Slot -> Nat]
    BY <1>5 DEF Transfer, TypeOK
  <2>5. \A t \in Slot : slot'[t].owner = None <=> slot'[t].state = "UNOWNED"
    BY <1>5, NoneAssumption DEF Transfer, TypeOK
  <2>6. QED
    BY <2>1, <2>2, <2>3, <2>4, <2>5 DEF TypeOK
<1>6. CASE FinishRelease(i, s)
  BY <1>6, ReleaseSlotType DEF FinishRelease
<1>7. ASSUME NEW revision \in 0..lease[i].revision, AckActive(i, revision, s)
      PROVE  TypeOK'
  BY <1>7, NoHandoffType DEF AckActive, TypeOK
<1>8. QED
  BY <1>1, <1>2, <1>3, <1>4, <1>5, <1>6, <1>7 DEF CommandStep

LEMMA TypeCoordinatorStep ==
    ASSUME TypeOK, CoordinatorStep
    PROVE  TypeOK'
<1>1. ASSUME NEW P \in SUBSET Slot, NEW target \in Instance, NEW id \in HandoffId,
             PlanHandoffs(P, target, id)
      PROVE  TypeOK'
  <2>1. ASSUME NEW s \in Slot
        PROVE  handoff'[s] \in HandoffRow
    BY <1>1 DEF PlanHandoffs, NoHandoff, TypeOK, HandoffRow, SlotRow
  <2>2. handoff' \in [Slot -> HandoffRow]
    BY <1>1, <2>1 DEF PlanHandoffs
  <2>3. QED
    BY <1>1, <2>2 DEF PlanHandoffs, TypeOK
<1>2. ASSUME NEW s \in Slot, RecoverRelease(s)
      PROVE  TypeOK'
  BY <1>2, ReleaseSlotType DEF RecoverRelease
<1>3. ASSUME NEW s \in Slot, NEW nodes \in SUBSET Instance, RecoverCancel(nodes, s)
      PROVE  TypeOK'
  BY <1>3, NoHandoffType DEF RecoverCancel, TypeOK
<1>4. ASSUME NEW s \in Slot, NEW nodes \in SUBSET Instance, NEW id \in HandoffId,
             RecoverTarget(nodes, id, s)
      PROVE  TypeOK'
  <2>1. /\ Degraded(handoff[s], id) \in HandoffRow
        /\ \A target \in Instance : Retargeted(handoff[s], target, id) \in HandoffRow
    BY RetargetedRow, DegradedRow DEF TypeOK
  <2>2. handoff' \in [Slot -> HandoffRow]
    BY <1>4, <2>1 DEF RecoverTarget, Replacements, TypeOK
  <2>3. QED
    BY <1>4, <2>2 DEF RecoverTarget, TypeOK
<1>5. QED
  BY <1>1, <1>2, <1>3, <1>4 DEF CoordinatorStep

LEMMA TypeNext ==
    ASSUME TypeOK, [Next]_vars
    PROVE  TypeOK'
<1>1. CASE Tick
  BY <1>1 DEF Tick, TypeOK
<1>2. CASE CoordinatorStep
  BY <1>2, TypeCoordinatorStep
<1>3. ASSUME NEW i \in Instance, InstanceStep(i)
      PROVE  TypeOK'
  BY <1>3, TypeInstanceStep
<1>4. ASSUME NEW i \in Instance, NEW s \in Slot, CommandStep(i, s)
      PROVE  TypeOK'
  BY <1>4, TypeCommandStep
<1>5. CASE UNCHANGED vars
  BY <1>5 DEF vars, TypeOK
<1>6. QED
  BY <1>1, <1>2, <1>3, <1>4, <1>5 DEF Next

\* Every reachable state has its type, and a slot is UNOWNED exactly when it
\* has no owner, as the schema of sequence_slot_ownership demands.
THEOREM TypeCorrect == Spec => []TypeOK
<1>1. Init => TypeOK
  BY NoHandoffType DEF Init, TypeOK, NoLease, LeaseRow, SlotRow
<1>2. TypeOK /\ [Next]_vars => TypeOK'
  BY TypeNext
<1>3. QED
  BY <1>1, <1>2, PTL DEF Spec

-----------------------------------------------------------------------------
(***************************************************************************)
(* The inductive invariant.  That a takeover waits for the fence of the    *)
(* slot is seen from the fence, so the fence must be known to lie behind   *)
(* the owner's last renewal; that needs the handoff row to be the one of   *)
(* this drain, and the owner's lease row not to be collected in between.   *)
(* The conjuncts, slot by slot:                                            *)
(***************************************************************************)
Matched(s) ==
    /\ slot[s].state = "DRAINING" <=> handoff[s].phase = "DRAINING"
    /\ handoff[s].phase \in {"PLANNED", "READY", "DRAINING"} => SourceMatches(s)
    /\ handoff[s].phase = "TRANSFERRED" =>
        /\ HeldBy(handoff[s].target, s)
        /\ slot[s].epoch = handoff[s].epoch + 1

Registered(s) ==
    /\ slot[s].owner # None => lease[slot[s].owner].state # "ABSENT"
    /\ Active(s) =>
        \A i \in {handoff[s].source, handoff[s].target} \ {None} : lease[i].state # "ABSENT"

Fenced(s) ==
    /\ slot[s].state = "OWNED" => horizon[s] <= lease[slot[s].owner].granted
    /\ slot[s].state = "DRAINING" => horizon[s] + QuietWindow <= handoff[s].notBefore

SlotInv(s) == Matched(s) /\ Registered(s) /\ Fenced(s)

AuthorityInv == HandoffMatchesSlot /\ PartiesRegistered /\ HorizonBehindFence

LEMMA SlotBySlot == AuthorityInv <=> \A s \in Slot : SlotInv(s)
  BY DEF AuthorityInv, HandoffMatchesSlot, PartiesRegistered, HorizonBehindFence,
         SlotInv, Matched, Registered, Fenced

LEMMA SlotBySlotNext == AuthorityInv' <=> \A s \in Slot : SlotInv(s)'
  BY DEF AuthorityInv, HandoffMatchesSlot, PartiesRegistered, HorizonBehindFence,
         SlotInv, Matched, Registered, Fenced

\* A step that leaves the rows of a slot alone, and the grants and the presence
\* of the lease rows it refers to, leaves its invariant alone.
LEMMA Frame ==
    ASSUME TypeOK, NEW s \in Slot, SlotInv(s),
           slot'[s] = slot[s], handoff'[s] = handoff[s], horizon'[s] = horizon[s],
           \A i \in Instance : lease[i].state # "ABSENT" =>
                /\ lease'[i].state # "ABSENT"
                /\ lease'[i].granted = lease[i].granted
    PROVE  SlotInv(s)'
<1>1. slot[s] \in SlotRow /\ handoff[s] \in HandoffRow
  BY DEF TypeOK
<1>2. Matched(s)'
  BY DEF SlotInv, Matched, SourceMatches, HeldBy
<1>3. Registered(s)'
  BY <1>1 DEF SlotInv, Registered, Active, SlotRow, HandoffRow
<1>4. Fenced(s)'
  <2>1. CASE slot[s].state = "OWNED"
    <3>1. slot[s].owner \in Instance /\ lease[slot[s].owner].state # "ABSENT"
      BY <2>1, <1>1 DEF TypeOK, SlotInv, Registered, SlotRow
    <3>2. QED
      BY <2>1, <3>1 DEF SlotInv, Fenced
  <2>2. CASE slot[s].state # "OWNED"
    BY <2>2 DEF SlotInv, Fenced
  <2>3. QED
    BY <2>1, <2>2
<1>5. QED
  BY <1>2, <1>3, <1>4 DEF SlotInv

\* Bumping revisions is such a step.
LEMMA BumpFrame ==
    ASSUME TypeOK, NEW s \in Slot, SlotInv(s), NEW ids, lease' = Bumped(ids),
           slot'[s] = slot[s], handoff'[s] = handoff[s], horizon'[s] = horizon[s]
    PROVE  SlotInv(s)'
  BY BumpedFields, Frame

LEMMA StartDrainInv ==
    ASSUME TypeOK, AuthorityInv, NEW s \in Slot, NEW row \in HandoffRow,
           row.source = slot[s].owner, row.epoch = slot[s].epoch,
           slot[s].state = "OWNED",
           row.target # None => lease[row.target].state # "ABSENT",
           StartDrain(row, s)
    PROVE  AuthorityInv'
<1>1. ASSUME NEW t \in Slot, t # s
      PROVE  SlotInv(t)'
  BY <1>1, SlotBySlot, BumpFrame DEF StartDrain, TypeOK
<1>2. SlotInv(s)'
  <2> DEFINE owner == slot[s].owner
             new == [row EXCEPT !.phase = "DRAINING", !.notBefore = DrainFence(row.source)]
  <2>1. SlotInv(s)
    BY SlotBySlot
  <2>2. owner \in Instance /\ lease[owner].state # "ABSENT"
    BY <2>1 DEF TypeOK, SlotRow, SlotInv, Registered
  <2>3. /\ handoff'[s] = new
        /\ new.source = owner /\ new.epoch = slot[s].epoch /\ new.target = row.target
        /\ new.phase = "DRAINING" /\ new.notBefore = DrainFence(owner)
    BY DEF StartDrain, TypeOK, HandoffRow
  <2>4. /\ slot'[s].owner = owner /\ slot'[s].epoch = slot[s].epoch
        /\ slot'[s].state = "DRAINING" /\ horizon'[s] = horizon[s]
    BY DEF StartDrain, TypeOK, SlotRow
  <2>5. Matched(s)'
    BY <2>3, <2>4 DEF Matched, SourceMatches
  <2>6. row.target \in Instance \cup {None}
    BY DEF HandoffRow
  <2>7. Registered(s)'
    <3>1. \A i \in Instance : lease'[i].state = lease[i].state
      BY BumpedFields DEF StartDrain
    <3>2. handoff'[s].source = owner /\ handoff'[s].target = row.target
      BY <2>3
    <3> HIDE DEF owner, new
    <3>3. QED
      BY <2>2, <2>4, <2>6, <3>1, <3>2 DEF Registered
  <2>8. Fenced(s)'
    <3>1. horizon[s] <= lease[owner].granted
      BY <2>1 DEF SlotInv, Fenced
    <3>2. /\ DrainFence(owner) \in Nat /\ lease[owner].granted \in Nat
          /\ horizon[s] \in Nat
      BY <2>2, DrainFenceBounds DEF TypeOK, LeaseRow
    <3>3. horizon[s] + QuietWindow <= DrainFence(owner)
      BY <2>2, <3>1, <3>2, DrainFenceBounds, WindowAssumption
    <3>4. QED
      BY <2>3, <2>4, <3>3 DEF Fenced
  <2>9. QED
    BY <2>5, <2>7, <2>8 DEF SlotInv
<1>3. QED
  BY <1>1, <1>2, SlotBySlotNext

LEMMA ReleaseSlotInv ==
    ASSUME TypeOK, AuthorityInv, NEW s \in Slot, ReleaseSlot(s)
    PROVE  AuthorityInv'
<1>1. ASSUME NEW t \in Slot, t # s
      PROVE  SlotInv(t)'
  BY <1>1, SlotBySlot, BumpFrame DEF ReleaseSlot, TypeOK
<1>2. SlotInv(s)'
  <2>1. slot'[s].owner = None /\ slot'[s].state = "UNOWNED"
    BY DEF ReleaseSlot, TypeOK, SlotRow
  <2>2. handoff'[s].phase = "NONE"
    BY DEF ReleaseSlot, TypeOK, NoHandoff
  <2>3. QED
    BY <2>1, <2>2 DEF SlotInv, Matched, Registered, Fenced, Active
<1>3. QED
  BY <1>1, <1>2, SlotBySlotNext

-----------------------------------------------------------------------------
\* Every transaction preserves the invariant.

LEMMA InvInstanceStep ==
    ASSUME TypeOK, AuthorityInv, NEW i \in Instance, InstanceStep(i)
    PROVE  AuthorityInv'
<1> USE SlotBySlot, SlotBySlotNext
<1>1. CASE RegisterInstance(i)
  BY <1>1, Frame DEF RegisterInstance, TypeOK, LeaseRow
<1>2. ASSUME NEW revision \in 0..lease[i].revision, RenewInstance(i, revision)
      PROVE  AuthorityInv'
  <2> SUFFICES ASSUME NEW s \in Slot
               PROVE  SlotInv(s)'
    OBVIOUS
  <2>1. SlotInv(s) /\ slot[s] \in SlotRow
    BY DEF TypeOK
  <2>2. slot' = slot /\ handoff' = handoff
    BY <1>2 DEF RenewInstance
  <2>3. \A j \in Instance : /\ lease'[j].state = lease[j].state
                            /\ lease'[j].granted = IF j = i THEN now ELSE lease[j].granted
    BY <1>2 DEF RenewInstance, TypeOK, LeaseRow
  <2>4. Matched(s)'
    BY <2>1, <2>2 DEF SlotInv, Matched, SourceMatches, HeldBy
  <2>5. Registered(s)'
    BY <2>1, <2>2, <2>3 DEF SlotInv, Registered, Active, TypeOK, SlotRow, HandoffRow
  <2>6. Fenced(s)'
    <3>1. CASE slot[s].state = "OWNED" /\ slot[s].owner = i
      <4>1. horizon'[s] = now /\ lease'[i].granted = now /\ now \in Nat
        BY <1>2, <2>3, <3>1 DEF RenewInstance, TypeOK
      <4>2. QED
        BY <3>1, <4>1, <2>2 DEF Fenced
    <3>2. CASE slot[s].state = "OWNED" /\ slot[s].owner # i
      <4>1. horizon'[s] = horizon[s]
        BY <1>2, <3>2 DEF RenewInstance
      <4>2. lease'[slot[s].owner].granted = lease[slot[s].owner].granted
        BY <2>1, <2>3, <3>2 DEF SlotRow, TypeOK
      <4>3. QED
        BY <2>1, <2>2, <3>2, <4>1, <4>2 DEF SlotInv, Fenced
    <3>3. CASE slot[s].state # "OWNED"
      <4>1. horizon'[s] = horizon[s]
        BY <1>2, <3>3 DEF RenewInstance
      <4>2. QED
        BY <2>1, <2>2, <3>3, <4>1 DEF SlotInv, Fenced
    <3>4. QED
      BY <3>1, <3>2, <3>3
  <2>7. QED
    BY <2>4, <2>5, <2>6 DEF SlotInv
<1>3. CASE RetireInstance(i)
  <2>1. \A j \in Instance : lease[j].state # "ABSENT" =>
            lease'[j].state # "ABSENT" /\ lease'[j].granted = lease[j].granted
    BY <1>3 DEF RetireInstance, TypeOK, LeaseRow
  <2>2. QED
    BY <1>3, <2>1, Frame DEF RetireInstance
<1>4. CASE CollectInstance(i)
  <2> SUFFICES ASSUME NEW s \in Slot
               PROVE  SlotInv(s)'
    OBVIOUS
  <2>1. SlotInv(s) /\ slot[s] \in SlotRow /\ handoff[s] \in HandoffRow
    BY DEF TypeOK
  <2>2. slot' = slot /\ handoff' = handoff /\ horizon' = horizon
    BY <1>4 DEF CollectInstance
  <2>3. \A j \in Instance \ {i} : lease'[j] = lease[j]
    BY <1>4 DEF CollectInstance, TypeOK
  <2>4. /\ slot[s].owner # i
        /\ Active(s) => i # handoff[s].source /\ i # handoff[s].target
    BY <1>4 DEF CollectInstance
  <2>5. Matched(s)'
    BY <2>1, <2>2 DEF SlotInv, Matched, SourceMatches, HeldBy
  <2>6. Registered(s)'
    BY <2>1, <2>2, <2>3, <2>4 DEF SlotInv, Registered, Active, SlotRow, HandoffRow
  <2>7. Fenced(s)'
    BY <2>1, <2>2, <2>3, <2>4 DEF SlotInv, Fenced, TypeOK, SlotRow
  <2>8. QED
    BY <2>5, <2>6, <2>7 DEF SlotInv
<1>5. ASSUME NEW revision \in 0..lease[i].revision, NEW S \in SUBSET Slot,
             ClaimSlots(i, revision, S)
      PROVE  AuthorityInv'
  <2> SUFFICES ASSUME NEW s \in Slot
               PROVE  SlotInv(s)'
    OBVIOUS
  <2> DEFINE granted == {t \in S : ~HeldBy(i, t) /\ Claimable(t)}
             ids == {i} \cup ({slot[t].owner : t \in granted} \ {None})
  <2>1. lease' = Bumped(ids)
    BY <1>5 DEF ClaimSlots
  <2>2. CASE s \notin granted
    BY <1>5, <2>1, <2>2, BumpFrame DEF ClaimSlots
  <2>3. CASE s \in granted
    <3>1. /\ slot'[s] = [owner |-> i, epoch |-> slot[s].epoch + 1, state |-> "OWNED"]
          /\ handoff'[s] = NoHandoff /\ horizon'[s] = 0
      BY <1>5, <2>3 DEF ClaimSlots
    <3>2. lease[i].state = "ACTIVE" /\ lease[i].granted \in Nat
      BY <1>5 DEF ClaimSlots, Fresh, TypeOK, LeaseRow
    <3>3. lease'[i].state = "ACTIVE" /\ lease'[i].granted = lease[i].granted
      BY <2>1, <3>2, BumpedFields
    <3>4. QED
      BY <3>1, <3>2, <3>3 DEF SlotInv, Matched, Registered, Fenced, Active, NoHandoff
  <2>4. QED
    BY <2>2, <2>3
<1>6. QED
  BY <1>1, <1>2, <1>3, <1>4, <1>5 DEF InstanceStep

\* Changing one handoff row only: the other slots keep their invariant.
LEMMA OtherSlots ==
    ASSUME TypeOK, AuthorityInv, NEW s \in Slot, NEW row,
           handoff' = [handoff EXCEPT ![s] = row],
           UNCHANGED <<lease, slot, horizon>>
    PROVE  /\ handoff'[s] = row
           /\ \A t \in Slot \ {s} : SlotInv(t)'
<1>1. handoff'[s] = row /\ \A t \in Slot \ {s} : handoff'[t] = handoff[t]
  BY DEF TypeOK
<1>2. QED
  BY <1>1, SlotBySlot, Frame

\* A handoff row that is dropped while its slot does not drain.
LEMMA DropRowInv ==
    ASSUME TypeOK, AuthorityInv, NEW s \in Slot, slot[s].state # "DRAINING",
           handoff' = [handoff EXCEPT ![s] = NoHandoff],
           UNCHANGED <<lease, slot, horizon>>
    PROVE  AuthorityInv'
<1>1. handoff'[s] = NoHandoff /\ \A t \in Slot \ {s} : SlotInv(t)'
  BY OtherSlots
<1>2. SlotInv(s)
  BY SlotBySlot
<1>3. SlotInv(s)'
  BY <1>1, <1>2 DEF SlotInv, Matched, Registered, Fenced, Active, NoHandoff
<1>4. QED
  BY <1>1, <1>3, SlotBySlotNext

\* A row that is rewritten for the same authority, with a registered target.
LEMMA RewriteRowInv ==
    ASSUME TypeOK, AuthorityInv, NEW s \in Slot, NEW row \in HandoffRow, Active(s),
           handoff[s].phase # "TRANSFERRED",
           row.source = handoff[s].source, row.epoch = handoff[s].epoch,
           row.notBefore = handoff[s].notBefore,
           \/ row.phase = handoff[s].phase
           \/ handoff[s].phase = "PLANNED" /\ row.phase = "READY",
           row.target # None => lease[row.target].state # "ABSENT",
           handoff' = [handoff EXCEPT ![s] = row],
           UNCHANGED <<lease, slot, horizon>>
    PROVE  AuthorityInv'
<1>1. handoff'[s] = row /\ \A t \in Slot \ {s} : SlotInv(t)'
  BY OtherSlots
<1>2. SlotInv(s) /\ handoff[s] \in HandoffRow
  BY SlotBySlot DEF TypeOK
<1>3. Matched(s)'
  BY <1>1, <1>2 DEF SlotInv, Matched, SourceMatches, Active, HandoffRow
<1>4. Registered(s)'
  BY <1>1, <1>2 DEF SlotInv, Registered, Active
<1>5. Fenced(s)'
  BY <1>1, <1>2 DEF SlotInv, Fenced
<1>6. QED
  BY <1>1, <1>3, <1>4, <1>5, SlotBySlotNext DEF SlotInv

LEMMA InvCommandStep ==
    ASSUME TypeOK, AuthorityInv, NEW i \in Instance, NEW s \in Slot, CommandStep(i, s)
    PROVE  AuthorityInv'
<1>0. SlotInv(s) /\ slot[s] \in SlotRow /\ handoff[s] \in HandoffRow
  BY SlotBySlot DEF TypeOK
<1>1. ASSUME NEW revision \in 0..lease[i].revision, Prepare(i, revision, s)
      PROVE  AuthorityInv'
  <2>1. /\ handoff[s].phase \in {"PLANNED", "DRAINING"}
        /\ handoff' = [handoff EXCEPT ![s] = Prepared(handoff[s])]
        /\ handoff[s].target = i /\ lease[i].state # "ABSENT"
        /\ UNCHANGED <<lease, slot, horizon>>
    BY <1>1 DEF Prepare, Fresh
  <2>2. QED
    BY <1>0, <2>1, PreparedRow, RewriteRowInv DEF Active
<1>2. CASE Begin(i, s)
  <2>1. handoff[s].target # None => lease[handoff[s].target].state # "ABSENT"
    BY <1>2 DEF Begin, Fresh
  <2>2. QED
    BY <1>0, <1>2, <2>1, StartDrainInv DEF Begin, SourceMatches
<1>3. ASSUME NEW id \in HandoffId, Withdraw(i, slot[s].epoch, id, s)
      PROVE  AuthorityInv'
  <2> DEFINE row == [NoHandoff EXCEPT !.id = id, !.source = i, !.epoch = slot[s].epoch]
  <2>1. /\ row \in HandoffRow /\ row.source = i /\ row.epoch = slot[s].epoch
        /\ row.target = None
    BY <1>0 DEF NoHandoff, HandoffRow, SlotRow
  <2>2. slot[s].owner = i /\ slot[s].state = "OWNED" /\ StartDrain(row, s)
    BY <1>3 DEF Withdraw
  <2>3. QED
    BY <2>1, <2>2, StartDrainInv
<1>4. CASE AckDrain(i, s)
  <2> DEFINE row == [handoff[s] EXCEPT !.drained = TRUE]
  <2>1. handoff' = [handoff EXCEPT ![s] = row] /\ UNCHANGED <<lease, slot, horizon>>
    BY <1>4 DEF AckDrain
  <2>2. row \in HandoffRow
    BY <1>0 DEF HandoffRow
  <2>3. /\ row.source = handoff[s].source /\ row.epoch = handoff[s].epoch
        /\ row.notBefore = handoff[s].notBefore /\ row.phase = handoff[s].phase
        /\ row.target = handoff[s].target
    BY <1>0 DEF HandoffRow
  <2>4. Active(s) /\ handoff[s].phase # "TRANSFERRED"
    BY <1>4 DEF AckDrain, Active
  <2>5. row.target # None => lease[row.target].state # "ABSENT"
    BY <1>0, <2>3, <2>4 DEF SlotInv, Registered
  <2> HIDE DEF row
  <2>6. QED
    BY <2>1, <2>2, <2>3, <2>4, <2>5, RewriteRowInv
<1>5. CASE Transfer(i, s)
  <2>1. ASSUME NEW t \in Slot, t # s
        PROVE  SlotInv(t)'
    BY <1>5, <2>1, SlotBySlot, BumpFrame DEF Transfer, TypeOK
  <2>2. /\ slot'[s] = [owner |-> i, epoch |-> slot[s].epoch + 1, state |-> "OWNED"]
        /\ horizon'[s] = 0
    BY <1>5 DEF Transfer, TypeOK
  <2>3. handoff' = [handoff EXCEPT ![s].phase = "TRANSFERRED"]
    BY <1>5 DEF Transfer
  <2>4. /\ handoff'[s].phase = "TRANSFERRED" /\ handoff'[s].target = handoff[s].target
        /\ handoff'[s].source = handoff[s].source
        /\ handoff'[s].epoch = handoff[s].epoch
    BY <1>0, <2>3 DEF TypeOK, HandoffRow
  <2>5. /\ handoff[s].target = i /\ lease[i].state # "ABSENT" /\ Active(s)
        /\ handoff[s].epoch = slot[s].epoch
        /\ lease' = Bumped({i, handoff[s].source})
    BY <1>5 DEF Transfer, Fresh, Active, SourceMatches
  <2>6. \A j \in Instance : /\ lease'[j].state = lease[j].state
                            /\ lease'[j].granted = lease[j].granted
    BY <2>5, BumpedFields
  <2>7. Matched(s)'
    BY <2>2, <2>4, <2>5 DEF Matched, HeldBy
  <2>8. Registered(s)'
    <3>1. \A j \in {handoff[s].source, handoff[s].target} \ {None} :
            j \in Instance /\ lease[j].state # "ABSENT"
      BY <1>0, <2>5 DEF SlotInv, Registered, HandoffRow
    <3>2. \A j \in {handoff'[s].source, handoff'[s].target} \ {None} :
            lease'[j].state # "ABSENT"
      BY <2>4, <2>6, <3>1
    <3>3. lease[i].state # "ABSENT"
      BY <1>5 DEF Transfer, Fresh
    <3>4. lease'[i].state # "ABSENT"
      BY <2>6, <3>3
    <3>5. QED
      BY <2>2, <3>2, <3>4 DEF Registered
  <2>9. Fenced(s)'
    BY <2>2, <2>6 DEF Fenced, TypeOK, LeaseRow
  <2>10. QED
    BY <2>1, <2>7, <2>8, <2>9, SlotBySlotNext DEF SlotInv
<1>6. CASE FinishRelease(i, s)
  BY <1>6, ReleaseSlotInv DEF FinishRelease
<1>7. ASSUME NEW revision \in 0..lease[i].revision, AckActive(i, revision, s)
      PROVE  AuthorityInv'
  <2>1. /\ slot[s].state = "OWNED" /\ handoff' = [handoff EXCEPT ![s] = NoHandoff]
        /\ UNCHANGED <<lease, slot, horizon>>
    BY <1>7 DEF AckActive, HeldBy
  <2>2. QED
    BY <2>1, DropRowInv
<1>8. QED
  BY <1>1, <1>2, <1>3, <1>4, <1>5, <1>6, <1>7 DEF CommandStep

LEMMA InvCoordinatorStep ==
    ASSUME TypeOK, AuthorityInv, CoordinatorStep
    PROVE  AuthorityInv'
<1>1. ASSUME NEW P \in SUBSET Slot, NEW target \in Instance, NEW id \in HandoffId,
             PlanHandoffs(P, target, id)
      PROVE  AuthorityInv'
  <2> SUFFICES ASSUME NEW s \in Slot
               PROVE  SlotInv(s)'
    BY SlotBySlotNext
  <2>1. SlotInv(s) /\ slot[s] \in SlotRow
    BY SlotBySlot DEF TypeOK
  <2>2. UNCHANGED <<lease, slot, horizon>>
    BY <1>1 DEF PlanHandoffs
  <2>3. CASE s \notin P
    BY <1>1, <2>1, <2>2, <2>3, Frame DEF PlanHandoffs
  <2>4. CASE s \in P
    <3>1. /\ handoff'[s].phase = "PLANNED" /\ handoff'[s].source = slot[s].owner
          /\ handoff'[s].epoch = slot[s].epoch /\ handoff'[s].target = target
      BY <1>1, <2>4 DEF PlanHandoffs, NoHandoff
    <3>2. /\ slot[s].state = "OWNED"
          /\ lease[target].state # "ABSENT" /\ lease[slot[s].owner].state # "ABSENT"
      BY <1>1, <2>4 DEF PlanHandoffs, Fresh
    <3>3. QED
      BY <2>1, <2>2, <3>1, <3>2
         DEF SlotInv, Matched, SourceMatches, Registered, Fenced
  <2>5. QED
    BY <2>3, <2>4
<1>2. ASSUME NEW s \in Slot, RecoverRelease(s)
      PROVE  AuthorityInv'
  BY <1>2, ReleaseSlotInv DEF RecoverRelease
<1>3. ASSUME NEW s \in Slot, NEW nodes \in SUBSET Instance, RecoverCancel(nodes, s)
      PROVE  AuthorityInv'
  <2>1. SlotInv(s)
    BY SlotBySlot
  <2>2. slot[s].state # "DRAINING"
    BY <1>3, <2>1 DEF RecoverCancel, Abandoned, Drains, SlotInv, Matched
  <2>3. QED
    BY <1>3, <2>2, DropRowInv DEF RecoverCancel
<1>4. ASSUME NEW s \in Slot, NEW nodes \in SUBSET Instance, NEW id \in HandoffId,
             RecoverTarget(nodes, id, s)
      PROVE  AuthorityInv'
  <2>1. /\ handoff[s].phase = "DRAINING" /\ UNCHANGED <<lease, slot, horizon>>
        /\ handoff[s] \in HandoffRow
    BY <1>4 DEF RecoverTarget, TypeOK
  <2>2. ASSUME NEW target \in Replacements(nodes, s),
               handoff' = [handoff EXCEPT ![s] = Retargeted(handoff[s], target, id)]
        PROVE  AuthorityInv'
    <3>1. target \in Instance /\ lease[target].state # "ABSENT"
      BY <2>2 DEF Replacements, Fresh
    <3>2. QED
      BY <2>1, <2>2, <3>1, RetargetedRow, RewriteRowInv DEF Active
  <2>3. CASE handoff' = [handoff EXCEPT ![s] = Degraded(handoff[s], id)]
    BY <2>1, <2>3, DegradedRow, RewriteRowInv DEF Active
  <2>4. QED
    BY <1>4, <2>2, <2>3 DEF RecoverTarget
<1>5. QED
  BY <1>1, <1>2, <1>3, <1>4 DEF CoordinatorStep

\* The two tables agree, the rows a fence is dated by stay, and the fence of
\* every drain lies a quiet window behind its owner's last renewal.
THEOREM AuthorityHolds == Spec => []AuthorityInv
<1>1. Init => AuthorityInv
  BY DEF Init, NoHandoff, AuthorityInv, HandoffMatchesSlot, PartiesRegistered,
         HorizonBehindFence, Active
<1>2. TypeOK /\ AuthorityInv /\ [Next]_vars => AuthorityInv'
  <2> SUFFICES ASSUME TypeOK, AuthorityInv, [Next]_vars
               PROVE  AuthorityInv'
    OBVIOUS
  <2>1. CASE Tick
    BY <2>1, SlotBySlot, SlotBySlotNext, Frame DEF Tick
  <2>2. CASE CoordinatorStep
    BY <2>2, InvCoordinatorStep
  <2>3. ASSUME NEW i \in Instance, InstanceStep(i)
        PROVE  AuthorityInv'
    BY <2>3, InvInstanceStep
  <2>4. ASSUME NEW i \in Instance, NEW s \in Slot, CommandStep(i, s)
        PROVE  AuthorityInv'
    BY <2>4, InvCommandStep
  <2>5. CASE UNCHANGED vars
    BY <2>5, SlotBySlot, SlotBySlotNext, Frame DEF vars
  <2>6. QED
    BY <2>1, <2>2, <2>3, <2>4, <2>5 DEF Next
<1>3. QED
  BY <1>1, <1>2, TypeCorrect, PTL DEF Spec

\* The same, property by property.  A slot is in transit exactly when a handoff
\* of its epoch is under way, and its owner is a party of it (handoff_data.go).
COROLLARY TablesMatch == Spec => []HandoffMatchesSlot
<1>1. AuthorityInv => HandoffMatchesSlot
  BY DEF AuthorityInv
<1>2. QED
  BY <1>1, AuthorityHolds, PTL

\* No instance row is collected that a slot or a handoff names (CollectInstances).
COROLLARY PartiesStay == Spec => []PartiesRegistered
<1>1. AuthorityInv => PartiesRegistered
  BY DEF AuthorityInv
<1>2. QED
  BY <1>1, AuthorityHolds, PTL

\* A drain's fence lies a quiet window behind the last renewal of whom it drains
\* (beginDrain, RenewInstance).
COROLLARY FencesCover == Spec => []HorizonBehindFence
<1>1. AuthorityInv => HorizonBehindFence
  BY DEF AuthorityInv
<1>2. QED
  BY <1>1, AuthorityHolds, PTL

-----------------------------------------------------------------------------
\* What no transaction does.

\* The claims, transfers and releases name every instance whose authority they
\* change; the other transactions change no one's.
LEMMA SameAuthority ==
    ASSUME NEW i \in Instance,
           \A s \in Slot : /\ HeldBy(i, s)' <=> HeldBy(i, s)
                           /\ HeldBy(i, s) => slot'[s].epoch = slot[s].epoch
    PROVE  Authority(i)' = Authority(i)
<1>1. {s \in Slot : HeldBy(i, s)'} = {s \in Slot : HeldBy(i, s)}
  OBVIOUS
<1>2. QED
  BY <1>1 DEF Authority

LEMMA BumpFence ==
    ASSUME TypeOK, NEW i \in Instance, NEW ids, lease' = Bumped(ids),
           i \notin ids => Authority(i)' = Authority(i)
    PROVE  Authority(i)' # Authority(i) => lease'[i].revision > lease[i].revision
<1>1. lease[i].revision \in Nat
  BY DEF TypeOK, LeaseRow
<1>2. QED
  BY <1>1, BumpedFields
\* Every step that writes a slot row is one of these four; the rest leave them
\* all alone.
Writes ==
    \/ \E i \in Instance, revision \in Nat, S \in SUBSET Slot : ClaimSlots(i, revision, S)
    \/ \E s \in Slot : \E row :
        /\ slot[s].state = "OWNED"
        /\ slot[s].owner = row.source
        /\ StartDrain(row, s)
    \/ \E i \in Instance, s \in Slot : Transfer(i, s)
    \/ \E s \in Slot :
        /\ slot[s].state = "DRAINING"
        /\ SourceMatches(s)
        /\ DrainOver(s)
        /\ ReleaseSlot(s)

LEMMA SlotWriters ==
    ASSUME TypeOK, [Next]_vars
    PROVE  slot' = slot \/ Writes
<1>1. CASE Tick
  BY <1>1 DEF Tick
<1>2. CASE CoordinatorStep
  <2>1. ASSUME NEW s \in Slot, RecoverRelease(s)
        PROVE  Writes
    BY <2>1 DEF RecoverRelease, Drains, DrainOver, Writes
  <2>2. QED
    BY <1>2, <2>1 DEF CoordinatorStep, PlanHandoffs, RecoverCancel, RecoverTarget
<1>3. ASSUME NEW i \in Instance, InstanceStep(i)
      PROVE  slot' = slot \/ Writes
  <2>1. ASSUME NEW revision \in 0..lease[i].revision, NEW S \in SUBSET Slot,
               ClaimSlots(i, revision, S)
        PROVE  Writes
    <3>1. revision \in Nat
      BY DEF TypeOK, LeaseRow
    <3>2. QED
      BY <2>1, <3>1 DEF Writes
  <2>2. QED
    BY <1>3, <2>1
       DEF InstanceStep, RegisterInstance, RenewInstance, RetireInstance, CollectInstance
<1>4. ASSUME NEW i \in Instance, NEW s \in Slot, CommandStep(i, s)
      PROVE  slot' = slot \/ Writes
  <2>1. CASE Begin(i, s)
    BY <2>1 DEF Begin, SourceMatches, Writes
  <2>2. ASSUME NEW id \in HandoffId, Withdraw(i, slot[s].epoch, id, s)
        PROVE  Writes
    <3> DEFINE row == [NoHandoff EXCEPT !.id = id, !.source = i, !.epoch = slot[s].epoch]
    <3>1. row.source = i
      BY DEF NoHandoff
    <3>2. slot[s].state = "OWNED" /\ slot[s].owner = i /\ StartDrain(row, s)
      BY <2>2 DEF Withdraw
    <3> HIDE DEF row
    <3>3. QED
      BY <3>1, <3>2 DEF Writes
  <2>3. CASE Transfer(i, s)
    BY <2>3 DEF Writes
  <2>4. CASE FinishRelease(i, s)
    BY <2>4 DEF FinishRelease, Writes
  <2>5. QED
    BY <1>4, <2>1, <2>2, <2>3, <2>4 DEF CommandStep, Prepare, AckDrain, AckActive
<1>5. CASE UNCHANGED vars
  BY <1>5 DEF vars
<1>6. QED
  BY <1>1, <1>2, <1>3, <1>4, <1>5 DEF Next

\* One step of a slot's epoch.
LEMMA EpochStep ==
    ASSUME TypeOK, [Next]_vars, NEW t \in Slot
    PROVE  /\ slot'[t].epoch >= slot[t].epoch
           /\ slot'[t].epoch = slot[t].epoch =>
               /\ slot'[t].owner \in {slot[t].owner, None}
               /\ slot'[t].state = "OWNED" => slot[t].state = "OWNED"
<1>0. slot[t] \in SlotRow /\ slot[t].epoch \in Nat
  BY DEF TypeOK, SlotRow
<1>1. CASE slot' = slot
  BY <1>0, <1>1
<1>2. ASSUME NEW i \in Instance, NEW revision \in Nat, NEW S \in SUBSET Slot,
             ClaimSlots(i, revision, S)
      PROVE  \/ slot'[t] = slot[t]
             \/ slot'[t].epoch = slot[t].epoch + 1
  BY <1>2 DEF ClaimSlots
<1>3. ASSUME NEW s \in Slot, NEW row, slot[s].state = "OWNED", StartDrain(row, s)
      PROVE  \/ slot'[t] = slot[t]
             \/ /\ slot'[t].epoch = slot[t].epoch /\ slot'[t].owner = slot[t].owner
                /\ slot'[t].state = "DRAINING"
  BY <1>0, <1>3 DEF StartDrain, TypeOK, SlotRow
<1>4. ASSUME NEW i \in Instance, NEW s \in Slot, Transfer(i, s)
      PROVE  \/ slot'[t] = slot[t]
             \/ slot'[t].epoch = slot[t].epoch + 1
  BY <1>4 DEF Transfer, TypeOK
<1>5. ASSUME NEW s \in Slot, ReleaseSlot(s)
      PROVE  \/ slot'[t] = slot[t]
             \/ /\ slot'[t].epoch = slot[t].epoch /\ slot'[t].owner = None
                /\ slot'[t].state = "UNOWNED"
  BY <1>0, <1>5 DEF ReleaseSlot, TypeOK, SlotRow
<1>6. QED
  BY <1>0, <1>1, <1>2, <1>3, <1>4, <1>5, SlotWriters DEF Writes

\* No slot ever returns to an epoch it left, nor from DRAINING to OWNED at one
\* epoch: an epoch has one owner, and its gate closes once.
THEOREM EpochsOnlyRise == Spec => EpochFence
<1> DEFINE Step == \A s \in Slot :
        /\ slot'[s].epoch >= slot[s].epoch
        /\ slot'[s].epoch = slot[s].epoch =>
            /\ slot'[s].owner \in {slot[s].owner, None}
            /\ slot'[s].state = "OWNED" => slot[s].state = "OWNED"
<1>1. TypeOK /\ [Next]_vars => Step
  BY EpochStep
<1>2. QED
  BY <1>1, TypeCorrect, PTL DEF Spec, EpochFence

\* One step of an instance's authority.
LEMMA RevisionStep ==
    ASSUME TypeOK, [Next]_vars, NEW j \in Instance
    PROVE  Authority(j)' # Authority(j) => lease'[j].revision > lease[j].revision
<1> DEFINE Fence(i) == Authority(i)' # Authority(i) => lease'[i].revision > lease[i].revision
<1> SUFFICES Fence(j)
  OBVIOUS
<1>1. CASE slot' = slot
  <2>1. Authority(j)' = Authority(j)
    BY <1>1, SameAuthority DEF HeldBy
  <2>2. QED
    BY <2>1
<1>2. ASSUME NEW i \in Instance, NEW revision \in Nat, NEW S \in SUBSET Slot,
             ClaimSlots(i, revision, S)
      PROVE  Fence(j)
  <2> DEFINE granted == {t \in S : ~HeldBy(i, t) /\ Claimable(t)}
             ids == {i} \cup ({slot[t].owner : t \in granted} \ {None})
  <2>1. lease' = Bumped(ids)
    BY <1>2 DEF ClaimSlots
  <2>2. ASSUME j \notin ids, NEW t \in Slot
        PROVE  /\ HeldBy(j, t)' <=> HeldBy(j, t)
               /\ HeldBy(j, t) => slot'[t].epoch = slot[t].epoch
    <3>1. CASE t \in granted
      <4>1. slot'[t].owner = i
        BY <1>2, <3>1 DEF ClaimSlots
      <4>2. i # j /\ slot[t].owner # j
        BY <2>2, <3>1, NoneAssumption
      <4>3. QED
        BY <4>1, <4>2 DEF HeldBy
    <3>2. CASE t \notin granted
      <4>1. slot'[t] = slot[t]
        BY <1>2, <3>2 DEF ClaimSlots
      <4>2. QED
        BY <4>1 DEF HeldBy
    <3>3. QED
      BY <3>1, <3>2
  <2> HIDE DEF ids, granted
  <2>3. j \notin ids => Authority(j)' = Authority(j)
    BY <2>2, SameAuthority
  <2>4. QED
    BY <2>1, <2>3, BumpFence
<1>3. ASSUME NEW s \in Slot, NEW row, slot[s].owner = row.source, StartDrain(row, s)
      PROVE  Fence(j)
  <2>1. lease' = Bumped({row.source})
    BY <1>3 DEF StartDrain
  <2>2. ASSUME j # row.source, NEW t \in Slot
        PROVE  /\ HeldBy(j, t)' <=> HeldBy(j, t)
               /\ HeldBy(j, t) => slot'[t].epoch = slot[t].epoch
    <3>1. slot'[t].owner = slot[t].owner /\ slot'[t].epoch = slot[t].epoch
      BY <1>3 DEF StartDrain, TypeOK, SlotRow
    <3>2. t # s => slot'[t] = slot[t]
      BY <1>3 DEF StartDrain, TypeOK
    <3>3. QED
      BY <1>3, <2>2, <3>1, <3>2 DEF HeldBy
  <2>3. j \notin {row.source} => Authority(j)' = Authority(j)
    BY <2>2, SameAuthority
  <2>4. QED
    BY <2>1, <2>3, BumpFence
<1>4. ASSUME NEW i \in Instance, NEW s \in Slot, Transfer(i, s)
      PROVE  Fence(j)
  <2>1. lease' = Bumped({i, handoff[s].source})
    BY <1>4 DEF Transfer
  <2>2. ASSUME j # i, NEW t \in Slot
        PROVE  /\ HeldBy(j, t)' <=> HeldBy(j, t)
               /\ HeldBy(j, t) => slot'[t].epoch = slot[t].epoch
    <3>1. CASE t = s
      BY <1>4, <2>2, <3>1 DEF Transfer, HeldBy, TypeOK
    <3>2. CASE t # s
      BY <1>4, <3>2 DEF Transfer, HeldBy, TypeOK
    <3>3. QED
      BY <3>1, <3>2
  <2>3. j \notin {i, handoff[s].source} => Authority(j)' = Authority(j)
    BY <2>2, SameAuthority
  <2>4. QED
    BY <2>1, <2>3, BumpFence
<1>5. ASSUME NEW s \in Slot, slot[s].state = "DRAINING", ReleaseSlot(s)
      PROVE  Fence(j)
  <2>1. ASSUME NEW t \in Slot
        PROVE  /\ HeldBy(j, t)' <=> HeldBy(j, t)
               /\ HeldBy(j, t) => slot'[t].epoch = slot[t].epoch
    <3>1. CASE t = s
      <4>1. slot'[s].state = "UNOWNED"
        BY <1>5 DEF ReleaseSlot, TypeOK, SlotRow
      <4>2. QED
        BY <1>5, <3>1, <4>1 DEF HeldBy
    <3>2. CASE t # s
      BY <1>5, <3>2 DEF ReleaseSlot, HeldBy, TypeOK
    <3>3. QED
      BY <3>1, <3>2
  <2>2. Authority(j)' = Authority(j)
    BY <2>1, SameAuthority
  <2>3. QED
    BY <2>2
<1>6. QED
  BY <1>1, <1>2, <1>3, <1>4, <1>5, SlotWriters DEF Writes

\* An instance that still presents the revision it synchronized at has the
\* authority it synchronized.
THEOREM RevisionFences == Spec => RevisionFence
<1>1. TypeOK /\ [Next]_vars => \A i \in Instance :
          Authority(i)' # Authority(i) => lease'[i].revision > lease[i].revision
  BY RevisionStep
<1>2. QED
  BY <1>1, TypeCorrect, PTL DEF Spec, RevisionFence

\* One step that takes a slot from its owner.
LEMMA TakeoverStep ==
    ASSUME TypeOK, AuthorityInv, [Next]_vars, NEW t \in Slot,
           slot[t].owner # None,
           slot'[t].owner # slot[t].owner \/ slot'[t].epoch # slot[t].epoch
    PROVE  \/ slot[t].state = "DRAINING" /\ handoff[t].drained
           \/ now >= horizon[t] + QuietWindow
<1> DEFINE Over(s) == \/ slot[s].state = "DRAINING" /\ handoff[s].drained
                      \/ now >= horizon[s] + QuietWindow
<1> SUFFICES Over(t)
  OBVIOUS
<1>0. /\ slot[t] \in SlotRow /\ now \in Nat /\ horizon[t] \in Nat
      /\ handoff[t].notBefore \in Nat /\ QuietWindow \in Nat
      /\ Fenced(t)
  BY SlotBySlot, WindowAssumption DEF TypeOK, HandoffRow, SlotInv
<1>1. slot' # slot
  OBVIOUS
<1>2. ASSUME slot[t].state = "DRAINING", DrainOver(t)
      PROVE  Over(t)
  BY <1>0, <1>2 DEF DrainOver, Fenced
<1>3. ASSUME NEW i \in Instance, NEW revision \in Nat, NEW S \in SUBSET Slot,
             ClaimSlots(i, revision, S)
      PROVE  Over(t)
  <2>1. Claimable(t)
    BY <1>3 DEF ClaimSlots
  <2>2. slot[t].state # "UNOWNED"
    BY DEF TypeOK
  <2>3. ASSUME slot[t].state = "OWNED", now >= lease[slot[t].owner].granted + QuietWindow
        PROVE  Over(t)
    <3>1. lease[slot[t].owner].granted \in Nat
      BY <1>0 DEF TypeOK, LeaseRow, SlotRow
    <3>2. QED
      BY <1>0, <2>3, <3>1 DEF Fenced
  <2>4. QED
    BY <1>2, <2>1, <2>2, <2>3 DEF Claimable
<1>4. ASSUME NEW s \in Slot, NEW row, StartDrain(row, s)
      PROVE  FALSE
  BY <1>4 DEF StartDrain, TypeOK, SlotRow
<1>5. ASSUME NEW i \in Instance, NEW s \in Slot, Transfer(i, s)
      PROVE  Over(t)
  <2>1. t = s
    BY <1>5 DEF Transfer, TypeOK
  <2>2. QED
    BY <1>2, <1>5, <2>1 DEF Transfer
<1>6. ASSUME NEW s \in Slot, slot[s].state = "DRAINING", DrainOver(s), ReleaseSlot(s)
      PROVE  Over(t)
  <2>1. t = s
    BY <1>6 DEF ReleaseSlot, TypeOK
  <2>2. QED
    BY <1>2, <1>6, <2>1
<1>7. QED
  BY <1>1, <1>3, <1>4, <1>5, <1>6, SlotWriters DEF Writes

\* No transaction takes a slot from its owner before the drain is acknowledged
\* or the quiet window behind the owner's last renewal is over, for any lease
\* and any window no shorter than it.
THEOREM TakeoverWaits == Spec => TakeoverFence
<1>1. TypeOK /\ AuthorityInv /\ [Next]_vars => \A s \in Slot :
          (/\ slot[s].owner # None
           /\ \/ slot'[s].owner # slot[s].owner
              \/ slot'[s].epoch # slot[s].epoch)
          => \/ slot[s].state = "DRAINING" /\ handoff[s].drained
             \/ now >= horizon[s] + QuietWindow
  BY TakeoverStep
<1>2. QED
  BY <1>1, TypeCorrect, AuthorityHolds, PTL DEF Spec, TakeoverFence

-----------------------------------------------------------------------------
\* The migration budgets: the slots in flight are always finitely many, and within
\* the budgets.

\* Finiteness is what counting needs; nothing is assumed of Slot.
Budgets == IsFiniteSet(InFlight) /\ DrainsWithinBudget

-----------------------------------------------------------------------------
\* No slot gets in flight, and none in flight gets another source.
Shrinks ==
    \A s \in Slot :
        handoff'[s].phase \in {"DRAINING", "TRANSFERRED"} =>
            /\ handoff[s].phase \in {"DRAINING", "TRANSFERRED"}
            /\ handoff'[s].source = handoff[s].source

\* A transaction that empties rows or leaves them as they are takes no budget.
LEMMA Emptied ==
    ASSUME \A s \in Slot : handoff'[s] = handoff[s] \/ handoff'[s] = NoHandoff
    PROVE  Shrinks
  BY DEF Shrinks, NoHandoff

\* One that writes one row.
LEMMA OneRow ==
    ASSUME TypeOK, NEW s \in Slot, NEW row,
           handoff' = [handoff EXCEPT ![s] = row],
           row.phase \in {"DRAINING", "TRANSFERRED"} =>
               /\ handoff[s].phase \in {"DRAINING", "TRANSFERRED"}
               /\ row.source = handoff[s].source
    PROVE  Shrinks
  BY DEF Shrinks, TypeOK

LEMMA CoordinatorShrinks ==
    ASSUME TypeOK, CoordinatorStep
    PROVE  Shrinks
<1>1. ASSUME NEW P \in SUBSET Slot, NEW target \in Instance, NEW id \in HandoffId,
             PlanHandoffs(P, target, id)
      PROVE  Shrinks
  <2>1. ASSUME NEW s \in P
        PROVE  handoff'[s].phase = "PLANNED"
    BY <1>1, <2>1 DEF PlanHandoffs, NoHandoff
  <2>2. ASSUME NEW s \in Slot \ P
        PROVE  handoff'[s] = handoff[s]
    BY <1>1, <2>2 DEF PlanHandoffs
  <2>3. QED
    BY <2>1, <2>2 DEF Shrinks
<1>2. ASSUME NEW s \in Slot, RecoverRelease(s)
      PROVE  Shrinks
  BY <1>2, OneRow DEF RecoverRelease, ReleaseSlot, NoHandoff
<1>3. ASSUME NEW s \in Slot, NEW nodes \in SUBSET Instance, RecoverCancel(nodes, s)
      PROVE  Shrinks
  BY <1>3, OneRow DEF RecoverCancel, NoHandoff
<1>4. ASSUME NEW s \in Slot, NEW nodes \in SUBSET Instance, NEW id \in HandoffId,
             RecoverTarget(nodes, id, s)
      PROVE  Shrinks
  <2>0. handoff[s] \in HandoffRow /\ handoff[s].phase = "DRAINING"
    BY <1>4 DEF RecoverTarget, TypeOK
  <2>1. CASE \E target \in Replacements(nodes, s) :
                 handoff' = [handoff EXCEPT ![s] = Retargeted(handoff[s], target, id)]
    <3>1. PICK target \in Replacements(nodes, s) :
              handoff' = [handoff EXCEPT ![s] = Retargeted(handoff[s], target, id)]
      BY <2>1
    <3>2. target \in Instance
      BY DEF Replacements
    <3>3. Retargeted(handoff[s], target, id).source = handoff[s].source
      BY <2>0, <3>2, RetargetedRow
    <3>4. QED
      BY <2>0, <3>1, <3>3, OneRow
  <2>2. CASE handoff' = [handoff EXCEPT ![s] = Degraded(handoff[s], id)]
    <3>1. Degraded(handoff[s], id).source = handoff[s].source
      BY <2>0, DegradedRow
    <3>2. QED
      BY <2>0, <2>2, <3>1, OneRow
  <2>3. QED
    BY <1>4, <2>1, <2>2 DEF RecoverTarget
<1>5. QED
  BY <1>1, <1>2, <1>3, <1>4 DEF CoordinatorStep

LEMMA InstanceShrinks ==
    ASSUME TypeOK, NEW i \in Instance, InstanceStep(i)
    PROVE  Shrinks
<1>1. ASSUME NEW revision, NEW S \in SUBSET Slot, ClaimSlots(i, revision, S)
      PROVE  Shrinks
  <2>1. \A s \in Slot : handoff'[s] = handoff[s] \/ handoff'[s] = NoHandoff
    BY <1>1 DEF ClaimSlots
  <2>2. QED
    BY <2>1, Emptied
<1>2. CASE handoff' = handoff
  BY <1>2, Emptied
<1>3. QED
  BY <1>1, <1>2 DEF InstanceStep, RegisterInstance, RenewInstance, RetireInstance,
                    CollectInstance

-----------------------------------------------------------------------------
\* A command drains one more slot within the budgets, or none.
Starts(s, row) ==
    /\ handoff[s].phase \notin {"DRAINING", "TRANSFERRED"}
    /\ StartDrain(row, s)

LEMMA CommandStarts ==
    ASSUME TypeOK, NEW i \in Instance, NEW s \in Slot, CommandStep(i, s)
    PROVE  Shrinks \/ \E row \in HandoffRow : Starts(s, row)
<1>0. handoff[s] \in HandoffRow
  BY DEF TypeOK
<1>1. ASSUME NEW revision, Prepare(i, revision, s)
      PROVE  Shrinks
  <2>1. /\ Prepared(handoff[s]).source = handoff[s].source
        /\ handoff[s].phase = "PLANNED" => Prepared(handoff[s]).phase = "READY"
        /\ handoff[s].phase # "PLANNED" => Prepared(handoff[s]).phase = handoff[s].phase
    BY <1>0, PreparedRow
  <2>2. handoff' = [handoff EXCEPT ![s] = Prepared(handoff[s])]
    BY <1>1 DEF Prepare
  <2>3. QED
    BY <2>1, <2>2, OneRow
<1>2. CASE Begin(i, s)
  BY <1>0, <1>2 DEF Begin, Starts
<1>3. ASSUME NEW id \in HandoffId, Withdraw(i, slot[s].epoch, id, s)
      PROVE  \E row \in HandoffRow : Starts(s, row)
  <2>1. slot[s].epoch \in Nat
    BY DEF TypeOK, SlotRow
  <2>2. [NoHandoff EXCEPT !.id = id, !.source = i, !.epoch = slot[s].epoch] \in HandoffRow
    BY <2>1 DEF NoHandoff, HandoffRow
  <2>3. QED
    BY <1>3, <2>2 DEF Withdraw, Active, Starts
<1>4. CASE AckDrain(i, s)
  <2>1. handoff' = [handoff EXCEPT ![s] = [handoff[s] EXCEPT !.drained = TRUE]]
    BY <1>4 DEF AckDrain
  <2>2. [handoff[s] EXCEPT !.drained = TRUE].source = handoff[s].source
    BY <1>0 DEF HandoffRow
  <2>3. handoff[s].phase = "DRAINING"
    BY <1>4 DEF AckDrain
  <2>4. QED
    BY <2>1, <2>2, <2>3, OneRow
<1>5. CASE Transfer(i, s)
  <2>1. handoff' = [handoff EXCEPT ![s] = [handoff[s] EXCEPT !.phase = "TRANSFERRED"]]
    BY <1>5 DEF Transfer
  <2>2. [handoff[s] EXCEPT !.phase = "TRANSFERRED"].source = handoff[s].source
    BY <1>0 DEF HandoffRow
  <2>3. handoff[s].phase = "DRAINING"
    BY <1>5 DEF Transfer
  <2>4. QED
    BY <2>1, <2>2, <2>3, OneRow
<1>6. CASE FinishRelease(i, s)
  BY <1>6, OneRow DEF FinishRelease, ReleaseSlot, NoHandoff
<1>7. ASSUME NEW revision, AckActive(i, revision, s)
      PROVE  Shrinks
  BY <1>7, OneRow DEF AckActive, NoHandoff
<1>8. QED
  BY <1>1, <1>2, <1>3, <1>4, <1>5, <1>6, <1>7 DEF CommandStep

-----------------------------------------------------------------------------
\* What the two kinds of steps do to the budgets.

LEMMA OutgoingFinite ==
    ASSUME IsFiniteSet(InFlight), NEW i
    PROVE  IsFiniteSet(Outgoing(i))
<1>1. Outgoing(i) \in SUBSET InFlight
  BY DEF Outgoing
<1>2. QED
  BY <1>1, FS_Subset

LEMMA ShrinkingKeeps ==
    ASSUME Budgets, Shrinks
    PROVE  Budgets'
<1>1. InFlight' \in SUBSET InFlight
  BY DEF Shrinks, InFlight
<1>2. IsFiniteSet(InFlight') /\ Cardinality(InFlight') <= Cardinality(InFlight)
  BY <1>1, FS_Subset DEF Budgets
<1>3. Cardinality(InFlight) \in Nat /\ Cardinality(InFlight') \in Nat /\ MaxInflight \in Nat
  BY <1>2, FS_CardinalityType, BudgetAssumption DEF Budgets
<1>4. Cardinality(InFlight') <= MaxInflight
  BY <1>2, <1>3 DEF Budgets, DrainsWithinBudget
<1>5. ASSUME NEW i \in Instance
      PROVE  Cardinality(Outgoing(i)') <= MaxPerSource
  <2>1. Outgoing(i)' \in SUBSET Outgoing(i)
    BY DEF Shrinks, Outgoing, InFlight
  <2>2. IsFiniteSet(Outgoing(i))
    BY OutgoingFinite DEF Budgets
  <2>3. /\ IsFiniteSet(Outgoing(i)')
        /\ Cardinality(Outgoing(i)') <= Cardinality(Outgoing(i))
    BY <2>1, <2>2, FS_Subset
  <2>4. /\ Cardinality(Outgoing(i)) \in Nat
        /\ Cardinality(Outgoing(i)') \in Nat
        /\ MaxPerSource \in Nat
    BY <2>2, <2>3, FS_CardinalityType, BudgetAssumption
  <2>5. Cardinality(Outgoing(i)) <= MaxPerSource
    BY DEF Budgets, DrainsWithinBudget
  <2>6. QED
    BY <2>3, <2>4, <2>5
<1>6. QED
  BY <1>2, <1>4, <1>5 DEF Budgets, DrainsWithinBudget

LEMMA StartingKeeps ==
    ASSUME TypeOK, Budgets, NEW s \in Slot, NEW row \in HandoffRow, Starts(s, row)
    PROVE  Budgets'
<1> DEFINE new == [row EXCEPT !.phase = "DRAINING", !.notBefore = DrainFence(row.source)]
<1>1. /\ handoff' = [handoff EXCEPT ![s] = new]
      /\ Cardinality(InFlight) < MaxInflight
      /\ Cardinality(Outgoing(row.source)) < MaxPerSource
  BY DEF Starts, StartDrain
<1>2. new.phase = "DRAINING" /\ new.source = row.source
  BY DEF HandoffRow
<1>3. /\ handoff'[s].phase = "DRAINING" /\ handoff'[s].source = row.source
      /\ \A t \in Slot \ {s} : handoff'[t] = handoff[t]
  BY <1>1, <1>2 DEF TypeOK
<1>4. /\ {MaxInflight, MaxPerSource} \subseteq Nat
      /\ IsFiniteSet(InFlight) /\ Cardinality(InFlight) \in Nat
  BY BudgetAssumption, FS_CardinalityType DEF Budgets
<1>5. InFlight' = InFlight \cup {s}
  BY <1>3 DEF InFlight
<1>6. IsFiniteSet(InFlight') /\ Cardinality(InFlight') <= MaxInflight
  <2>1. /\ IsFiniteSet(InFlight \cup {s})
        /\ Cardinality(InFlight \cup {s}) <= Cardinality(InFlight) + 1
    BY <1>4, FS_AddElement
  <2>2. Cardinality(InFlight \cup {s}) \in Nat
    BY <2>1, FS_CardinalityType
  <2>3. QED
    BY <1>1, <1>4, <1>5, <2>1, <2>2
<1>7. ASSUME NEW i \in Instance
      PROVE  Cardinality(Outgoing(i)') <= MaxPerSource
  <2>1. IsFiniteSet(Outgoing(i)) /\ Cardinality(Outgoing(i)) \in Nat
    BY <1>4, OutgoingFinite, FS_CardinalityType
  <2>2. CASE i = row.source
    <3>1. Outgoing(i)' = Outgoing(i) \cup {s}
      BY <1>3, <1>5, <2>2 DEF Outgoing, InFlight, Starts
    <3>2. /\ IsFiniteSet(Outgoing(i) \cup {s})
          /\ Cardinality(Outgoing(i) \cup {s}) <= Cardinality(Outgoing(i)) + 1
      BY <2>1, FS_AddElement
    <3>3. Cardinality(Outgoing(i) \cup {s}) \in Nat
      BY <3>2, FS_CardinalityType
    <3>4. Cardinality(Outgoing(i)) < MaxPerSource
      BY <1>1, <2>2
    <3>5. QED
      BY <1>4, <2>1, <3>1, <3>2, <3>3, <3>4
  <2>3. CASE i # row.source
    <3>1. Outgoing(i)' = Outgoing(i)
      BY <1>3, <1>5, <2>3 DEF Outgoing, InFlight, Starts
    <3>2. QED
      BY <3>1 DEF Budgets, DrainsWithinBudget
  <2>4. QED
    BY <2>2, <2>3
<1>8. QED
  BY <1>6, <1>7 DEF Budgets, DrainsWithinBudget

-----------------------------------------------------------------------------
\* However commands, withdrawals and recovery interleave, the slots between two
\* owners stay within max_inflight, and those of one source within
\* max_per_source (StartDrain is the only door, and retargets keep the source).
THEOREM BudgetsHold == Spec => []DrainsWithinBudget
<1>1. Init => Budgets
  <2> SUFFICES ASSUME Init
               PROVE  Budgets
    OBVIOUS
  <2>1. InFlight = {}
    BY DEF Init, InFlight, NoHandoff
  <2>2. \A i \in Instance : Outgoing(i) = {}
    BY <2>1 DEF Outgoing
  <2>3. IsFiniteSet({}) /\ Cardinality({}) = 0
    BY FS_EmptySet
  <2>4. {MaxInflight, MaxPerSource} \subseteq Nat
    BY BudgetAssumption
  <2>5. QED
    BY <2>1, <2>2, <2>3, <2>4 DEF Budgets, DrainsWithinBudget
<1>2. TypeOK /\ Budgets /\ [Next]_vars => Budgets'
  <2> SUFFICES ASSUME TypeOK, Budgets, [Next]_vars
               PROVE  Budgets'
    OBVIOUS
  <2>1. CASE handoff' = handoff
    BY <2>1, Emptied, ShrinkingKeeps
  <2>2. CASE CoordinatorStep
    BY <2>2, CoordinatorShrinks, ShrinkingKeeps
  <2>3. ASSUME NEW i \in Instance, InstanceStep(i)
        PROVE  Budgets'
    BY <2>3, InstanceShrinks, ShrinkingKeeps
  <2>4. ASSUME NEW i \in Instance, NEW s \in Slot, CommandStep(i, s)
        PROVE  Budgets'
    BY <2>4, CommandStarts, ShrinkingKeeps, StartingKeeps
  <2>5. QED
    BY <2>1, <2>2, <2>3, <2>4 DEF Next, Tick, vars
<1>3. Budgets => DrainsWithinBudget
  BY DEF Budgets
<1>4. QED
  BY <1>1, <1>2, <1>3, TypeCorrect, PTL DEF Spec
=============================================================================
