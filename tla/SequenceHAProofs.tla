-------------------------- MODULE SequenceHAProofs -------------------------
(***************************************************************************)
(* First, the instances write storage through its transactions only, so    *)
(* all that is proved of SlotAuthority holds under them.  Then the gates   *)
(* of the processes, the calls that go through them and the ids they       *)
(* return: what a process may serve from memory is what storage lets it    *)
(* serve, no id leaves a process after its slot has moved on, and per key  *)
(* the ids are those MonotonicIds promises.  All for any number of         *)
(* instances, slots, callers and ids and any values of the times that keep *)
(* QuietWindowFloor.                                                       *)
(***************************************************************************)
EXTENDS SequenceHA, SlotAuthorityProofs

\* What a process does to storage in each of its parts.
LEMMA CallLeavesAuthority ==
    ASSUME NEW c \in Caller, CallNext(c)
    PROVE  UNCHANGED vars
  BY DEF CallNext, Enter, BeginGate, BeginDeadline, Advance, EndBound, EndGate,
         EndDeadline, Refill, Wake, Reserve, GiveUp, CallStep, Check

LEMMA AuthorityStepImplements ==
    ASSUME TypeOK, NEW i \in Instance, AuthorityNext(i)
    PROVE  InstanceStep(i) \/ UNCHANGED vars
<1>1. lease[i].revision \in 0..lease[i].revision
  BY DEF TypeOK, LeaseRow
<1>2. ASSUME Register(i)
      PROVE  InstanceStep(i) \/ UNCHANGED vars
  BY <1>2 DEF Register, InstanceStep
<1>3. ASSUME Renew(i)
      PROVE  InstanceStep(i) \/ UNCHANGED vars
  <2>1. ASSUME RenewInstance(i, ownershipRevision[i])
        PROVE  InstanceStep(i)
    <3>1. ownershipRevision[i] = lease[i].revision
      BY <2>1 DEF RenewInstance
    <3>2. QED
      BY <1>1, <2>1, <3>1 DEF InstanceStep
  <2>2. QED
    BY <1>3, <2>1 DEF Renew
<1>4. ASSUME NEW S \in SUBSET Slot \ {{}}, Claim(i, S)
      PROVE  InstanceStep(i) \/ UNCHANGED vars
  <2>1. ASSUME ClaimSlots(i, ownershipRevision[i], S)
        PROVE  InstanceStep(i)
    <3>1. ownershipRevision[i] = lease[i].revision
      BY <2>1 DEF ClaimSlots
    <3>2. QED
      BY <1>1, <2>1, <3>1 DEF InstanceStep
  <2>2. QED
    BY <1>4, <2>1 DEF Claim
<1>5. StartRenew(i) \/ Reanchor(i) \/ Publish(i) \/ ReadAuthority(i) \/ Apply(i)
      => UNCHANGED vars
  BY DEF StartRenew, Reanchor, Publish, ReadAuthority, Apply
<1>6. QED
  BY <1>2, <1>3, <1>4, <1>5 DEF AuthorityNext

LEMMA PassStepImplements ==
    ASSUME TypeOK, NEW i \in Instance, PassNext(i)
    PROVE  (\E s \in Slot : CommandStep(i, s)) \/ UNCHANGED vars
<1>1. ReadHandoffs(i) \/ DropGates(i) \/ SyncPass(i) \/ Decide(i) => UNCHANGED vars
  BY DEF ReadHandoffs, DropGates, SyncPass, Decide
<1>2. ASSUME NEW s \in Slot, Send(i, s)
      PROVE  CommandStep(i, s) \/ UNCHANGED vars
  <2> DEFINE revision == pass[i].revision
  <2>1. lease[i].revision \in 0..lease[i].revision
    BY DEF TypeOK, LeaseRow
  <2>2. Prepare(i, revision, s) => CommandStep(i, s)
    BY <2>1 DEF Prepare, CommandStep
  <2>3. AckActive(i, revision, s) => CommandStep(i, s)
    BY <2>1 DEF AckActive, CommandStep
  <2>4. QED
    BY <1>2, <2>2, <2>3 DEF Send, Execute, CommandStep
<1>3. QED
  BY <1>1, <1>2 DEF PassNext

LEMMA ShutdownCommands ==
    ASSUME NEW i \in Instance, ShutdownNext(i), ~Retire(i)
    PROVE  (\E s \in Slot : CommandStep(i, s)) \/ UNCHANGED vars
<1>1. Stop(i) \/ Detach(i) \/ IncludeHeld(i) => UNCHANGED vars
  BY DEF Stop, Detach, IncludeHeld
<1>2. ASSUME NEW s \in Slot, WithdrawSlot(i, s)
      PROVE  CommandStep(i, s) \/ UNCHANGED vars
  <2>1. ASSUME NEW id \in HandoffId, Withdraw(i, releases[i][s].epoch, id, s)
        PROVE  CommandStep(i, s)
    <3>1. releases[i][s].epoch = slot[s].epoch
      BY <2>1 DEF Withdraw
    <3>2. QED
      BY <2>1, <3>1 DEF CommandStep
  <2>2. QED
    BY <1>2, <2>1 DEF WithdrawSlot
<1>3. ASSUME NEW s \in Slot, FindDrain(i, s) \/ AckRelease(i, s) \/ FinishShutdown(i, s)
      PROVE  CommandStep(i, s) \/ UNCHANGED vars
  BY <1>3 DEF FindDrain, AckRelease, FinishShutdown, CommandStep
<1>4. QED
  BY <1>1, <1>2, <1>3 DEF ShutdownNext

LEMMA ShutdownStepImplements ==
    ASSUME NEW i \in Instance, ShutdownNext(i)
    PROVE  \/ InstanceStep(i)
           \/ \E s \in Slot : CommandStep(i, s)
           \/ UNCHANGED vars
<1>1. Retire(i) => InstanceStep(i) \/ UNCHANGED vars
  BY DEF Retire, InstanceStep
<1>2. QED
  BY <1>1, ShutdownCommands

\* Every step of the service is a transaction of SlotAuthority or none.
LEMMA StepImplements ==
    ASSUME TypeOK, [HANext]_haVars
    PROVE  [Next]_vars
<1>1. CASE Pass
  BY <1>1 DEF Pass, Next
<1>2. CASE Coordinate
  BY <1>2 DEF Coordinate, Next, InstanceStep
<1>3. ASSUME NEW c \in Caller, CallNext(c)
      PROVE  [Next]_vars
  BY <1>3, CallLeavesAuthority
<1>4. ASSUME NEW i \in Instance, AuthorityNext(i) \/ PassNext(i) \/ ShutdownNext(i)
      PROVE  [Next]_vars
  BY <1>4, AuthorityStepImplements, PassStepImplements, ShutdownStepImplements DEF Next
<1>5. ASSUME NEW i \in Instance, Crash(i)
      PROVE  UNCHANGED vars
  BY <1>5 DEF Crash
<1>6. CASE UNCHANGED haVars
  BY <1>6 DEF haVars
<1>7. QED
  BY <1>1, <1>2, <1>3, <1>4, <1>5, <1>6 DEF HANext

\* The service implements its storage specification: the instances, with their
\* loops, lost answers, shutdowns and crashes, change the three tables by the
\* transactions of SlotAuthority only.
THEOREM Implementation == HASpec => Spec
<1>1. HAInit => Init /\ TypeOK
  BY NoHandoffType DEF HAInit, Init, TypeOK, NoLease, LeaseRow, SlotRow
<1>2. TypeOK /\ [HANext]_haVars => [Next]_vars /\ TypeOK'
  BY StepImplements, TypeNext
<1>3. QED
  BY <1>1, <1>2, PTL DEF HASpec, Spec

-----------------------------------------------------------------------------
\* The shape of the local state, which needs to know that the ids that are out
\* have a greatest one, and that a pass waits where a synchronization is its own.

HasGreatest(S) == \E x \in S \cup {0} : \A y \in S : y <= x

ProcState == {"started", "initialized", "fenced", "stopping", "detached", "releasing",
              "gone", "crashed"}

ReleaseItem == [at: {"none", "withdraw", "look", "drain", "transfer"},
                epoch: Nat, id: HandoffId \cup {None}]

CachedRange == [next: Nat, end: Nat, standby: Nat, fresh: BOOLEAN]

Gate == [epoch: Nat, open: BOOLEAN]

Clocks == clock \in Nat /\ clock <= now /\ now <= clock + MaxSkew

Ids ==
    /\ mark \in [Slot -> 0..MaxMark]
    /\ cache \in [Instance -> [Slot -> CachedRange]]
    /\ call \in [Caller -> Call]
    /\ delivered \in [Slot -> SUBSET Nat]
    /\ \A s \in Slot : HasGreatest(delivered[s])

Gates ==
    /\ proc \in [Instance -> ProcState]
    /\ ownershipRevision \in [Instance -> Nat]
    /\ localDeadline \in [Instance -> Nat]
    /\ slots \in [Instance -> [Slot -> Gate]]
    /\ \A i \in Instance, s \in Slot : slots[i][s].open => slots[i][s].epoch # 0
    /\ drainingSlots \in [Instance -> [Slot -> Nat]]

Loops ==
    /\ authority \in [Instance -> Section]
    /\ pass \in [Instance -> HandoffLoop]
    /\ \A i \in Instance :
          authority[i].at \in {"sync", "read"} /\ authority[i].then = "pass"
          => pass[i].at = "syncing"
    /\ \A i \in Instance :
          authority[i].at \in {"anchored", "granted"} => authority[i].anchor <= clock
    /\ releases \in [Instance -> [Slot -> ReleaseItem]]

LocalOK == Clocks /\ Ids /\ Gates /\ Loops

LEMMA ConstantTypes ==
    /\ Lease \in Nat \ {0} /\ SafetyMargin \in Nat \ {0} /\ MaxPause \in Nat \ {0}
    /\ MaxSkew \in Nat /\ QuietWindow \in Nat /\ Step \in Nat \ {0} /\ MaxMark \in Nat
    /\ QuietWindow >= Lease + MaxPause + MaxSkew + SafetyMargin
  BY FloorAssumption, WindowAssumption

LEMMA GreatestId ==
    ASSUME NEW S \in SUBSET Nat, HasGreatest(S)
    PROVE  /\ Greatest(S) \in S \cup {0}
           /\ Greatest(S) \in Nat
           /\ \A y \in S : y <= Greatest(S)
<1>1. \E x \in S \cup {0} : \A y \in S : y <= x
  BY DEF HasGreatest
<1>2. Greatest(S) \in S \cup {0} /\ \A y \in S : y <= Greatest(S)
  BY <1>1, Zenon DEF Greatest
<1>3. S \cup {0} \subseteq Nat
  OBVIOUS
<1>4. QED
  BY <1>2, <1>3, Zenon

LEMMA GivenId ==
    ASSUME NEW S \in SUBSET Nat, HasGreatest(S), NEW id \in Nat
    PROVE  Given(S, id) \in SUBSET Nat /\ HasGreatest(Given(S, id))
<1>1. PICK x \in S \cup {0} : \A y \in S : y <= x
  BY DEF HasGreatest
<1> DEFINE new == IF id \in S THEN 0 ELSE id
           T == S \cup {new}
           z == IF new <= x THEN x ELSE new
<1>2. x \in Nat /\ new \in Nat /\ z \in Nat /\ x <= z /\ new <= z
  BY <1>1
<1>3. z \in T \cup {0}
  BY <1>1
<1>4. \A y \in T : y <= z
  <2>1. ASSUME NEW y \in S
        PROVE  y <= z
    <3>1. y <= x /\ y \in Nat
      BY <1>1
    <3> HIDE DEF z, new
    <3>2. QED
      BY <1>2, <3>1
  <2>2. QED
    BY <1>2, <2>1
<1>5. Given(S, id) = T
  BY DEF Given
<1> HIDE DEF z, T, new
<1>6. HasGreatest(T)
  BY <1>3, <1>4 DEF HasGreatest
<1>7. T \in SUBSET Nat
  BY <1>2 DEF T
<1>8. QED
  BY <1>5, <1>6, <1>7

-----------------------------------------------------------------------------
\* Type correctness, part by part.

LEMMA CacheEdit ==
    ASSUME Ids, NEW i \in Instance, NEW s \in Slot, NEW range \in CachedRange,
           cache' = cache \/ cache' = [cache EXCEPT ![i][s] = range]
    PROVE  cache' \in [Instance -> [Slot -> CachedRange]]
  BY DEF Ids

LEMMA CallEdit ==
    ASSUME Ids, NEW c \in Caller, NEW r \in Call, call' = [call EXCEPT ![c] = r]
    PROVE  call' \in [Caller -> Call]
  BY DEF Ids

LEMMA AdvancedCall ==
    ASSUME NEW r \in Call, r.at # "idle", NEW id \in Nat, NEW late \in BOOLEAN,
           NEW at \in {"dry", "advanced"}
    PROVE  [r EXCEPT !.id = id, !.at = at, !.late = late] \in Call
<1> DEFINE q == [r EXCEPT !.id = id]
           p == [q EXCEPT !.at = at]
<1>1. q \in Call /\ q.at # "idle"
  BY DEF Call, NoCall
<1> HIDE DEF q
<1>2. p \in Call /\ p.at # "idle"
  BY <1>1 DEF Call, NoCall
<1> HIDE DEF p
<1>3. [p EXCEPT !.late = late] \in Call
  BY <1>2 DEF Call, NoCall
<1>4. [p EXCEPT !.late = late] = [r EXCEPT !.id = id, !.at = at, !.late = late]
  BY DEF p, q
<1>5. QED
  BY <1>3, <1>4

LEMMA CallTypes ==
    ASSUME LocalOK, NEW c \in Caller, CallNext(c)
    PROVE  Ids'
<1> USE ConstantTypes
<1>0. call[c] \in Call /\ call \in [Caller -> Call]
  BY DEF LocalOK, Ids
<1>1. ASSUME NEW i \in Instance, NEW s \in Slot, Enter(c, i, s)
      PROVE  Ids'
  <2>1. Greatest(delivered[s]) \in Nat
    BY GreatestId DEF LocalOK, Ids
  <2>2. slots[i][s].epoch \in Nat
    BY DEF LocalOK, Gates, Gate
  <2>3. call' \in [Caller -> Call]
    BY <1>0, <1>1, <2>1, <2>2 DEF Enter, Call
  <2>4. QED
    BY <1>1, <2>3 DEF Enter, CallStep, LocalOK, Ids
<1>2. ASSUME BeginGate(c)
      PROVE  Ids'
  <2>1. call' \in [Caller -> Call]
    BY <1>0, <1>2 DEF BeginGate, Leave, Call, NoCall, LocalOK, Clocks
  <2>2. QED
    BY <1>2, <2>1 DEF BeginGate, CallStep, LocalOK, Ids
<1>3. ASSUME BeginDeadline(c) \/ EndGate(c)
      PROVE  Ids'
  <2>1. call' \in [Caller -> Call]
    BY <1>0, <1>3 DEF BeginDeadline, EndGate, Check, Goto, Leave, Call, NoCall
  <2>2. QED
    BY <1>3, <2>1 DEF BeginDeadline, EndGate, Check, CallStep, LocalOK, Ids
<1>4. ASSUME Advance(c)
      PROVE  Ids'
  <2> DEFINE i == call[c].inst
             s == call[c].slot
             range == cache[i][s]
             id == IF Current(c) /\ range.next <= range.end THEN range.next ELSE 0
  <2>1. i \in Instance /\ s \in Slot
    BY <1>0, <1>4 DEF Advance, Call, NoCall
  <2>2. range \in CachedRange
    BY <2>1 DEF LocalOK, Ids
  <2>3. id \in Nat
    BY <2>2 DEF CachedRange
  <2> DEFINE late == slot[s].owner # i \/ slot[s].epoch # call[c].epoch
             at == IF Current(c) /\ range.fresh THEN "dry" ELSE "advanced"
  <2>4. call' \in [Caller -> Call]
    <3>1. late \in BOOLEAN /\ at \in {"dry", "advanced"}
      OBVIOUS
    <3>2. call' = [call EXCEPT ![c].id = id, ![c].at = at, ![c].late = late]
      BY <1>4 DEF Advance
    <3>3. call[c].at # "idle"
      BY <1>4 DEF Advance
    <3> HIDE DEF late, at, id, range, i, s
    <3>4. PICK r \in Call : r = [call[c] EXCEPT !.id = id, !.at = at, !.late = late]
      BY <1>0, <2>3, <3>1, <3>3, AdvancedCall
    <3>5. call' = [call EXCEPT ![c] = r]
      BY <3>2, <3>4
    <3>6. QED
      BY <3>5, CallEdit DEF LocalOK
  <2>5. cache' \in [Instance -> [Slot -> CachedRange]]
    <3>1. range.next + 1 \in Nat
      BY <2>2 DEF CachedRange
    <3>2. [range EXCEPT !.next = range.next + 1] \in CachedRange
      BY <2>2, <3>1 DEF CachedRange
    <3>3. \/ cache' = cache
          \/ cache' = [cache EXCEPT ![i][s] = [range EXCEPT !.next = range.next + 1]]
      BY <1>4 DEF Advance
    <3> DEFINE edited == [range EXCEPT !.next = range.next + 1]
    <3> HIDE DEF range, i, s, edited
    <3>4. edited \in CachedRange
      BY <3>2 DEF edited
    <3>5. cache' = cache \/ cache' = [cache EXCEPT ![i][s] = edited]
      BY <3>3 DEF edited
    <3>6. QED
      BY <2>1, <3>4, <3>5, CacheEdit DEF LocalOK
  <2>6. QED
    BY <1>4, <2>4, <2>5 DEF Advance, CallStep, LocalOK, Ids
<1>5. ASSUME EndBound(c)
      PROVE  Ids'
  <2>1. call' \in [Caller -> Call]
    BY <1>0, <1>5 DEF EndBound, Goto, Leave, Call, NoCall
  <2>2. QED
    BY <1>5, <2>1 DEF EndBound, CallStep, LocalOK, Ids
<1>6. ASSUME EndDeadline(c)
      PROVE  Ids'
  <2> DEFINE s == call[c].slot
  <2>1. s \in Slot /\ call[c].id \in Nat
    BY <1>0, <1>6 DEF EndDeadline, Call, NoCall
  <2>2. call' \in [Caller -> Call]
    BY <1>0, <1>6 DEF EndDeadline, Goto, Leave, Call, NoCall
  <2>3. \/ delivered' = delivered
        \/ delivered' = [delivered EXCEPT ![s] = Given(delivered[s], call[c].id)]
    BY <1>6 DEF EndDeadline
  <2>4. delivered[s] \in SUBSET Nat /\ HasGreatest(delivered[s])
    BY <2>1 DEF LocalOK, Ids
  <2>5. /\ Given(delivered[s], call[c].id) \in SUBSET Nat
        /\ HasGreatest(Given(delivered[s], call[c].id))
    BY <2>1, <2>4, GivenId
  <2>6. /\ delivered' \in [Slot -> SUBSET Nat]
        /\ \A t \in Slot : HasGreatest(delivered'[t])
    BY <2>1, <2>3, <2>5 DEF LocalOK, Ids
  <2>7. QED
    BY <1>6, <2>2, <2>6 DEF EndDeadline, CallStep, LocalOK, Ids, HasGreatest
<1>7. ASSUME Refill(c)
      PROVE  Ids'
  <2> DEFINE i == call[c].inst
             s == call[c].slot
  <2>1. i \in Instance /\ s \in Slot
    BY <1>0, <1>7 DEF Refill, Call, NoCall
  <2>2. cache[i][s] \in CachedRange /\ ownershipRevision[i] \in Nat
    BY <2>1 DEF LocalOK, Ids, Gates
  <2>3. cache[i][s].standby \in Nat
    BY <2>2 DEF CachedRange
  <2>4. Activated(cache[i][s].standby) \in CachedRange
    BY <2>3 DEF Activated, CachedRange
  <2> DEFINE late == slot[s].owner # i \/ slot[s].epoch # call[c].epoch
  <2>5. call' \in [Caller -> Call]
    <3>1. late \in BOOLEAN
      OBVIOUS
    <3>2. \/ call' = [call EXCEPT ![c].at = "advanced", ![c].id = cache[i][s].standby,
                                  ![c].late = late]
          \/ call' = [call EXCEPT ![c].at = "waiting"]
          \/ call' = [call EXCEPT ![c].at = "reserving", ![c].revision = ownershipRevision[i]]
      BY <1>7 DEF Refill, Goto
    <3>3. call[c].at # "idle"
      BY <1>7 DEF Refill
    <3> HIDE DEF late
    <3>4. QED
      BY <1>0, <2>2, <2>3, <3>1, <3>2, <3>3 DEF Call, NoCall
  <2>6. cache' \in [Instance -> [Slot -> CachedRange]]
    <3>1. \/ cache' = cache
          \/ cache' = [cache EXCEPT ![i][s] = Activated(cache[i][s].standby)]
      BY <1>7 DEF Refill
    <3>2. QED
      BY <2>1, <2>4, <3>1 DEF LocalOK, Ids
  <2>7. QED
    BY <1>7, <2>5, <2>6 DEF Refill, CallStep, LocalOK, Ids
<1>8. ASSUME Wake(c) \/ GiveUp(c)
      PROVE  Ids'
  <2>1. call' \in [Caller -> Call]
    BY <1>0, <1>8 DEF Wake, GiveUp, Goto, Leave, Call, NoCall
  <2>2. QED
    BY <1>8, <2>1 DEF Wake, GiveUp, CallStep, LocalOK, Ids
<1>9. ASSUME Reserve(c)
      PROVE  Ids'
  <2> DEFINE i == call[c].inst
             s == call[c].slot
  <2>1. i \in Instance /\ s \in Slot
    BY <1>0, <1>9 DEF Reserve, Call, NoCall
  <2>2. cache[i][s] \in CachedRange /\ mark[s] \in Nat
    BY <2>1 DEF LocalOK, Ids
  <2>3. call' \in [Caller -> Call]
    BY <1>0, <1>9 DEF Reserve, Goto, Leave, Call, NoCall
  <2>4. cache' \in [Instance -> [Slot -> CachedRange]]
    <3>1. [cache[i][s] EXCEPT !.standby = mark[s] + 1] \in CachedRange
      BY <2>2 DEF CachedRange
    <3>2. \/ cache' = cache
          \/ cache' = [cache EXCEPT ![i][s] = [cache[i][s] EXCEPT !.standby = mark[s] + 1]]
      BY <1>9 DEF Reserve
    <3>3. QED
      BY <2>1, <3>1, <3>2 DEF LocalOK, Ids
  <2>5. mark' \in [Slot -> 0..MaxMark]
    BY <1>9, <2>1, <2>2 DEF Reserve, LocalOK, Ids
  <2>6. QED
    BY <1>9, <2>3, <2>4, <2>5 DEF Reserve, LocalOK, Ids
<1>10. QED
  BY <1>1, <1>2, <1>3, <1>4, <1>5, <1>6, <1>7, <1>8, <1>9 DEF CallNext

LEMMA SectionTypes ==
    /\ Unlocked \in Section
    /\ \A then \in {"renew", "again", "pass", "unlock"} : Syncing(then) \in Section
    /\ \A attempt \in {0, 1}, anchor \in Nat :
          [at |-> "anchored", anchor |-> anchor, attempt |-> attempt] \in Section
    /\ \A anchor \in Nat : [at |-> "granted", anchor |-> anchor] \in Section
    /\ \A then \in {"renew", "again", "pass", "unlock"} : AfterSync(then) \in Section
  BY DEF Section, Unlocked, Syncing, AfterSync

\* What the lock becomes: nothing that waits for the pass, and no anchor ahead of the
\* clock.
Settled(state) ==
    /\ ~(state.at \in {"sync", "read"} /\ state.then = "pass")
    /\ state.at \in {"anchored", "granted"} => state.anchor <= clock

LEMMA LockTypes ==
    ASSUME LocalOK, NEW i \in Instance, NEW state \in Section, Settled(state),
           Lock(i, state) \/ UNCHANGED authority, UNCHANGED <<clock, pass, releases>>
    PROVE  Loops'
  BY DEF LocalOK, Loops, Lock, Settled

LEMMA AuthorityTypes ==
    ASSUME TypeOK, LocalOK, NEW i \in Instance, AuthorityNext(i)
    PROVE  Ids' /\ Gates' /\ Loops'
<1> USE ConstantTypes
<1>0. authority[i] \in Section /\ clock \in Nat
  BY DEF LocalOK, Loops, Clocks
<1>1. ASSUME Register(i)
      PROVE  Ids' /\ Gates' /\ Loops'
  <2>1. Syncing("renew") \in Section /\ Settled(Syncing("renew"))
    BY SectionTypes DEF Syncing, Settled
  <2>2. Loops'
    BY <1>1, <2>1, LockTypes DEF Register, AuthorityStep
  <2>3. QED
    BY <1>1, <2>2 DEF Register, AuthorityStep, LocalOK, Ids, Gates
<1>2. ASSUME StartRenew(i) \/ Reanchor(i)
      PROVE  Ids' /\ Gates' /\ Loops'
  <2>1. PICK attempt \in {0, 1} : Lock(i, Anchored(attempt))
    BY <1>0, <1>2 DEF StartRenew, Reanchor, Section, Unlocked
  <2>2. Anchored(attempt) \in Section /\ Settled(Anchored(attempt))
    BY <1>0, SectionTypes DEF Anchored, Settled
  <2>3. Loops'
    BY <1>2, <2>1, <2>2, LockTypes DEF StartRenew, Reanchor, AuthorityStep
  <2>4. QED
    BY <1>2, <2>3 DEF StartRenew, Reanchor, AuthorityStep, LocalOK, Ids, Gates
<1>3. ASSUME Renew(i)
      PROVE  Ids' /\ Gates' /\ Loops'
  <2> DEFINE granted == [at |-> "granted", anchor |-> authority[i].anchor]
  <2>1. authority[i].anchor \in Nat /\ authority[i].anchor <= clock
    BY <1>0, <1>3 DEF Renew, Section, Unlocked, LocalOK, Loops
  <2>2. granted \in Section /\ Settled(granted)
    BY <2>1, SectionTypes DEF Settled
  <2>3. Syncing("again") \in Section /\ Settled(Syncing("again"))
    BY SectionTypes DEF Syncing, Settled
  <2>4. Unlocked \in Section /\ Settled(Unlocked)
    BY SectionTypes DEF Unlocked, Settled
  <2>5. Lock(i, granted) \/ Lock(i, Unlocked) \/ Lock(i, Syncing("again"))
    BY <1>3 DEF Renew, Unlock
  <2>6. UNCHANGED <<clock, pass, releases>>
    BY <1>3 DEF Renew, AuthorityStep
  <2> HIDE DEF granted
  <2>7. Loops'
    BY <2>2, <2>3, <2>4, <2>5, <2>6, LockTypes
  <2>8. QED
    BY <1>3, <2>7 DEF Renew, AuthorityStep, LocalOK, Ids, Gates
<1>4. ASSUME Publish(i)
      PROVE  Ids' /\ Gates' /\ Loops'
  <2>1. Unlocked \in Section /\ Settled(Unlocked)
    BY SectionTypes DEF Unlocked, Settled
  <2>2. Loops'
    BY <1>4, <2>1, LockTypes DEF Publish, AuthorityStep, Unlock
  <2>3. authority[i].anchor \in Nat
    BY <1>0, <1>4 DEF Publish, Section, Unlocked
  <2>4. Deadline(i) \in Int
    BY <2>3 DEF Deadline
  <2>5. localDeadline' \in [Instance -> Nat]
    <3> DEFINE d == Deadline(i)
    <3>1. \/ localDeadline' = localDeadline
          \/ clock < d /\ localDeadline' = [localDeadline EXCEPT ![i] = d]
      BY <1>4 DEF Publish
    <3>2. d \in Int /\ clock \in Nat
      BY <1>0, <2>4
    <3>3. localDeadline \in [Instance -> Nat]
      BY DEF LocalOK, Gates
    <3> HIDE DEF d
    <3>4. QED
      BY <3>1, <3>2, <3>3
  <2>6. /\ slots' \in [Instance -> [Slot -> Gate]]
        /\ \A j \in Instance, s \in Slot : slots'[j][s].open => slots'[j][s].epoch # 0
    <3>1. ASSUME NEW s \in Slot
          PROVE  /\ Opened(slots[i])[s] \in Gate
                 /\ Opened(slots[i])[s].open => Opened(slots[i])[s].epoch # 0
      <4> DEFINE there == (slots[i][s].epoch # 0)
      <4>1. Opened(slots[i])[s] = [slots[i][s] EXCEPT !.open = there]
        BY DEF Opened
      <4>2. there \in BOOLEAN /\ (there => slots[i][s].epoch # 0)
        OBVIOUS
      <4>3. slots[i][s] \in Gate
        BY DEF LocalOK, Gates
      <4> HIDE DEF there
      <4>4. QED
        BY <4>1, <4>2, <4>3 DEF Gate
    <3>2. Opened(slots[i]) \in [Slot -> Gate]
      BY <3>1 DEF Opened
    <3>3. slots' = slots \/ slots' = [slots EXCEPT ![i] = Opened(slots[i])]
      BY <1>4 DEF Publish
    <3>4. QED
      BY <3>1, <3>2, <3>3 DEF LocalOK, Gates
  <2>7. QED
    BY <1>4, <2>2, <2>5, <2>6 DEF Publish, AuthorityStep, LocalOK, Ids, Gates
<1>5. ASSUME NEW S \in SUBSET Slot, Claim(i, S)
      PROVE  Ids' /\ Gates' /\ Loops'
  <2>1. /\ Syncing("renew") \in Section /\ Settled(Syncing("renew"))
        /\ Syncing("unlock") \in Section /\ Settled(Syncing("unlock"))
    BY SectionTypes DEF Syncing, Settled
  <2>2. Lock(i, Syncing("renew")) \/ Lock(i, Syncing("unlock")) \/ UNCHANGED authority
    BY <1>5 DEF Claim
  <2>3. UNCHANGED <<clock, pass, releases>>
    BY <1>5 DEF Claim, AuthorityStep
  <2>4. Loops'
    BY <2>1, <2>2, <2>3, LockTypes
  <2>5. QED
    BY <1>5, <2>4 DEF Claim, AuthorityStep, LocalOK, Ids, Gates
<1>6. ASSUME ReadAuthority(i)
      PROVE  Ids' /\ Gates' /\ Loops'
  <2> DEFINE owned == [s \in Slot |-> IF HeldBy(i, s) THEN slot[s].epoch ELSE 0]
             read == [at |-> "read", then |-> authority[i].then,
                      revision |-> lease[i].revision, owned |-> owned]
  <2>1. authority[i].then \in {"renew", "again", "pass", "unlock"}
    BY <1>0, <1>6 DEF ReadAuthority, Section, Unlocked
  <2>2. owned \in [Slot -> Nat] /\ lease[i].revision \in Nat
    BY DEF TypeOK, SlotRow, LeaseRow
  <2>3. read \in Section
    BY <2>1, <2>2 DEF Section
  <2>4. \/ Lock(i, read) /\ UNCHANGED pass
        \/ /\ Lock(i, Unlocked)
           /\ pass' = IF authority[i].then = "pass"
                      THEN [pass EXCEPT ![i] = NoPass] ELSE pass
    BY <1>6 DEF ReadAuthority, Unlock
  <2>5. authority[i].at = "sync" /\ UNCHANGED <<clock, releases>>
    BY <1>6 DEF ReadAuthority
  <2>6. NoPass \in HandoffLoop /\ Unlocked \in Section
    BY SectionTypes DEF HandoffLoop
  <2>7. read.at = "read" /\ read.then = authority[i].then
    OBVIOUS
  <2> HIDE DEF read
  <2>8. Loops'
    <3>1. CASE Lock(i, read) /\ UNCHANGED pass
      BY <3>1, <2>3, <2>5, <2>7 DEF Lock, LocalOK, Loops
    <3>2. CASE Lock(i, Unlocked) /\ authority[i].then = "pass"
      <4>1. pass' = [pass EXCEPT ![i] = NoPass] \/ pass' = pass
        BY <2>4
      <4>2. QED
        BY <3>2, <4>1, <2>5, <2>6 DEF Lock, LocalOK, Loops, Unlocked
    <3>3. CASE Lock(i, Unlocked) /\ authority[i].then # "pass"
      <4>1. pass' = pass
        BY <3>3, <2>4
      <4>2. QED
        BY <3>3, <4>1, <2>5, <2>6 DEF Lock, LocalOK, Loops, Unlocked
    <3>4. QED
      BY <2>4, <3>1, <3>2, <3>3
  <2>9. QED
    BY <1>6, <2>8 DEF ReadAuthority, LocalOK, Ids, Gates
<1>7. ASSUME Apply(i)
      PROVE  Ids' /\ Gates' /\ Loops'
  <2>1. /\ authority[i].at = "read"
        /\ authority[i].then \in {"renew", "again", "pass", "unlock"}
        /\ authority[i].revision \in Nat
        /\ authority[i].owned \in [Slot -> Nat]
    BY <1>0, <1>7 DEF Apply, Section, Unlocked
  <2>2. /\ AfterSync(authority[i].then) \in Section
        /\ Settled(AfterSync(authority[i].then))
    BY <2>1, SectionTypes DEF AfterSync, Settled, Unlocked
  <2>3. NoPass \in HandoffLoop /\ Unlocked \in Section /\ Settled(Unlocked)
    BY SectionTypes DEF HandoffLoop, Settled, Unlocked
  <2>4. pass' \in [Instance -> HandoffLoop]
    <3>1. \/ pass' = pass
          \/ pass' = [pass EXCEPT ![i] = NoPass]
          \/ /\ authority[i].then = "pass"
             /\ pass' = [pass EXCEPT ![i].at = "synced"]
      BY <1>7 DEF Apply
    <3>2. ASSUME authority[i].then = "pass"
          PROVE  [pass[i] EXCEPT !.at = "synced"] \in HandoffLoop
      <4>1. pass[i] \in HandoffLoop /\ pass[i].at = "syncing"
        BY <2>1, <3>2 DEF LocalOK, Loops
      <4>2. QED
        BY <4>1 DEF HandoffLoop, NoPass
    <3>3. QED
      BY <2>3, <3>1, <3>2 DEF LocalOK, Loops
  <2>5. Loops'
    <3>1. Lock(i, AfterSync(authority[i].then)) \/ Lock(i, Unlocked)
      BY <1>7 DEF Apply, Unlock
    <3>2. UNCHANGED <<clock, releases>>
      BY <1>7 DEF Apply
    <3>3. \A j \in Instance : j # i => pass'[j] = pass[j]
      BY <1>7 DEF Apply, LocalOK, Loops
    <3>4. QED
      BY <2>2, <2>3, <2>4, <3>1, <3>2, <3>3 DEF LocalOK, Loops, Lock, Settled
  <2>6. Gates'
    <3>1. /\ proc' \in [Instance -> ProcState]
          /\ ownershipRevision' \in [Instance -> Nat]
          /\ localDeadline' \in [Instance -> Nat]
      BY <1>7, <2>1 DEF Apply, LocalOK, Gates, ProcState
    <3>2. drainingSlots' \in [Instance -> [Slot -> Nat]]
      <4> DEFINE drained == [s \in Slot |->
                    IF slots[i][s].epoch # 0 /\ ~Stays(slots[i][s].epoch, authority[i].owned[s])
                    THEN slots[i][s].epoch ELSE drainingSlots[i][s]]
      <4>1. drained \in [Slot -> Nat]
        BY DEF LocalOK, Gates, Gate
      <4>2. drainingSlots' = drainingSlots \/ drainingSlots' = [drainingSlots EXCEPT ![i] = drained]
        BY <1>7 DEF Apply
      <4> HIDE DEF drained
      <4>3. QED
        BY <4>1, <4>2 DEF LocalOK, Gates
    <3>3. /\ slots' \in [Instance -> [Slot -> Gate]]
          /\ \A j \in Instance, s \in Slot : slots'[j][s].open => slots'[j][s].epoch # 0
      <4> DEFINE gates == [s \in Slot |->
                    IF Stays(slots[i][s].epoch, authority[i].owned[s]) THEN slots[i][s]
                    ELSE [epoch |-> authority[i].owned[s], open |-> FALSE]]
      <4>1. gates \in [Slot -> Gate] /\ \A s \in Slot : gates[s].open => gates[s].epoch # 0
        BY <2>1 DEF LocalOK, Gates, Gate
      <4>2. slots' = slots \/ slots' = [slots EXCEPT ![i] = gates]
        BY <1>7 DEF Apply
      <4> HIDE DEF gates
      <4>3. QED
        BY <4>1, <4>2 DEF LocalOK, Gates
    <3>4. QED
      BY <3>1, <3>2, <3>3 DEF Gates
  <2>7. Ids'
    <3> DEFINE cached == [s \in Slot |->
                  IF Stays(slots[i][s].epoch, authority[i].owned[s]) THEN cache[i][s]
                  ELSE NoRange]
    <3>1. cached \in [Slot -> CachedRange]
      BY DEF LocalOK, Ids, NoRange, CachedRange
    <3>2. cache' = cache \/ cache' = [cache EXCEPT ![i] = cached]
      BY <1>7 DEF Apply
    <3> HIDE DEF cached
    <3>3. UNCHANGED <<mark, call, delivered>>
      BY <1>7 DEF Apply
    <3>4. QED
      BY <3>1, <3>2, <3>3 DEF LocalOK, Ids
  <2>8. QED
    BY <2>5, <2>6, <2>7
<1>8. QED
  BY <1>1, <1>2, <1>3, <1>4, <1>5, <1>6, <1>7 DEF AuthorityNext

LEMMA PassEdit ==
    ASSUME LocalOK, NEW i \in Instance, NEW p \in HandoffLoop, pass[i].at # "syncing",
           pass' = [pass EXCEPT ![i] = p], UNCHANGED <<authority, clock, releases>>
    PROVE  Loops'
  BY DEF LocalOK, Loops

LEMMA PassTypes ==
    ASSUME TypeOK, LocalOK, NEW i \in Instance, PassNext(i)
    PROVE  Ids' /\ Gates' /\ Loops'
<1>0. pass[i] \in HandoffLoop /\ NoPass \in HandoffLoop
  BY DEF LocalOK, Loops, HandoffLoop
<1>1. ASSUME ReadHandoffs(i)
      PROVE  Ids' /\ Gates' /\ Loops'
  <2> DEFINE rows == [s \in Slot |->
                        IF i \in {handoff[s].source, handoff[s].target}
                        THEN handoff[s] ELSE NoHandoff]
             read == [at |-> "read", rows |-> rows]
  <2>1. rows \in [Slot -> HandoffRow]
    BY NoHandoffType DEF TypeOK
  <2>2. pass' = [pass EXCEPT ![i] = read]
    BY <1>1 DEF ReadHandoffs
  <2>3. pass[i].at # "syncing"
    BY <1>1 DEF ReadHandoffs, NoPass
  <2> HIDE DEF rows
  <2>4. read \in HandoffLoop
    BY <2>1 DEF HandoffLoop
  <2> HIDE DEF read
  <2>5. Loops'
    BY <1>1, <2>2, <2>3, <2>4, PassEdit DEF ReadHandoffs, PassStep
  <2>6. QED
    BY <1>1, <2>5 DEF ReadHandoffs, PassStep, LocalOK, Ids, Gates
<1>2. ASSUME DropGates(i)
      PROVE  Ids' /\ Gates' /\ Loops'
  <2> DEFINE dropped == [at |-> "dropped", rows |-> pass[i].rows]
             gates == [s \in Slot |->
                         IF /\ NeedsDrain(i, pass[i].rows[s]) # drainingSlots[i][s]
                            /\ Inflight(i, s, drainingSlots[i][s]) = {}
                         THEN 0 ELSE drainingSlots[i][s]]
  <2>1. pass[i].at = "read" /\ pass[i].rows \in [Slot -> HandoffRow]
    BY <1>0, <1>2 DEF DropGates, HandoffLoop, NoPass
  <2>2. dropped \in HandoffLoop
    BY <2>1 DEF HandoffLoop
  <2>3. pass' = [pass EXCEPT ![i] = NoPass] \/ pass' = [pass EXCEPT ![i] = dropped]
    BY <1>2 DEF DropGates
  <2> HIDE DEF dropped
  <2>4. UNCHANGED <<authority, clock, releases>>
    BY <1>2 DEF DropGates, PassStep
  <2>5. Loops'
    BY <1>0, <2>1, <2>2, <2>3, <2>4, PassEdit
  <2>6. drainingSlots' \in [Instance -> [Slot -> Nat]]
    <3>1. gates \in [Slot -> Nat]
      BY DEF LocalOK, Gates
    <3>2. drainingSlots' = [drainingSlots EXCEPT ![i] = gates]
      BY <1>2 DEF DropGates
    <3> HIDE DEF gates
    <3>3. QED
      BY <3>1, <3>2 DEF LocalOK, Gates
  <2>7. QED
    BY <1>2, <2>5, <2>6 DEF DropGates, PassStep, LocalOK, Ids, Gates
<1>3. ASSUME SyncPass(i)
      PROVE  Ids' /\ Gates' /\ Loops'
  <2>1. Syncing("pass") \in Section
    BY SectionTypes
  <2>2. [pass[i] EXCEPT !.at = "syncing"] \in HandoffLoop
    BY <1>0, <1>3 DEF SyncPass, HandoffLoop, NoPass
  <2> DEFINE p == [pass[i] EXCEPT !.at = "syncing"]
  <2>3. pass' = [pass EXCEPT ![i] = p] /\ p.at = "syncing"
    BY <1>0, <1>3 DEF SyncPass, HandoffLoop, NoPass
  <2>4. p \in HandoffLoop
    BY <2>2
  <2> HIDE DEF p
  <2>5. authority' = [authority EXCEPT ![i] = Syncing("pass")] /\ Syncing("pass").at = "sync"
    BY <1>3 DEF SyncPass, Lock, Syncing
  <2>6. UNCHANGED <<clock, releases>>
    BY <1>3 DEF SyncPass, PassStep
  <2>7. Loops'
    BY <2>1, <2>3, <2>4, <2>5, <2>6 DEF LocalOK, Loops
  <2>8. QED
    BY <1>3, <2>7 DEF SyncPass, PassStep, LocalOK, Ids, Gates
<1>4. ASSUME Decide(i)
      PROVE  Ids' /\ Gates' /\ Loops'
  <2> DEFINE action(s) == Action(i, s, pass[i].rows[s])
             wanted == {s \in Slot : action(s) # "NONE"}
             Sending(K) ==
                [at |-> "send", rows |-> pass[i].rows, revision |-> ownershipRevision[i],
                 command |-> [s \in Slot |-> IF s \in K THEN action(s) ELSE "NONE"]]
  <2>1. pass[i].at = "synced" /\ pass[i].rows \in [Slot -> HandoffRow]
    BY <1>0, <1>4 DEF Decide, HandoffLoop, NoPass
  <2>2. ASSUME NEW s \in Slot
        PROVE  action(s) \in {"NONE", "PREPARE", "BEGIN", "TRANSFER", "ACK_DRAIN",
                              "ACK_ACTIVE"}
    BY DEF Action
  <2>3. ASSUME NEW K
        PROVE  Sending(K) \in HandoffLoop
    <3> DEFINE command == [s \in Slot |-> IF s \in K THEN action(s) ELSE "NONE"]
    <3>1. command \in [Slot -> {"NONE", "PREPARE", "BEGIN", "TRANSFER", "ACK_DRAIN",
                                "ACK_ACTIVE"}]
      BY <2>2
    <3>2. ownershipRevision[i] \in Nat
      BY DEF LocalOK, Gates
    <3>3. Sending(K) = [at |-> "send", rows |-> pass[i].rows,
                        revision |-> ownershipRevision[i], command |-> command]
      OBVIOUS
    <3> HIDE DEF command, Sending
    <3>4. QED
      BY <2>1, <3>1, <3>2, <3>3 DEF HandoffLoop
  <2>4. PICK K : pass' = [pass EXCEPT ![i] = IF K = {} THEN NoPass ELSE Sending(K)]
    BY <1>4 DEF Decide
  <2> HIDE DEF Sending
  <2>5. Loops'
    BY <1>0, <1>4, <2>1, <2>3, <2>4, PassEdit DEF Decide, PassStep
  <2>6. QED
    BY <1>4, <2>5 DEF Decide, PassStep, LocalOK, Ids, Gates
<1>5. ASSUME NEW s \in Slot, Send(i, s)
      PROVE  Ids' /\ Gates' /\ Loops'
  <2> DEFINE rest == [pass[i].command EXCEPT ![s] = "NONE"]
             sent == [pass[i] EXCEPT !.command = rest]
  <2>1. pass[i].at = "send"
    BY <1>5 DEF Send
  <2>2. rest \in [Slot -> {"NONE", "PREPARE", "BEGIN", "TRANSFER", "ACK_DRAIN",
                           "ACK_ACTIVE"}]
    BY <1>0, <2>1 DEF HandoffLoop, NoPass
  <2>3. pass' = [pass EXCEPT ![i] = NoPass] \/ pass' = [pass EXCEPT ![i] = sent]
    BY <1>5 DEF Send
  <2> HIDE DEF rest
  <2>4. sent \in HandoffLoop
    BY <1>0, <2>1, <2>2 DEF HandoffLoop, NoPass
  <2> HIDE DEF sent
  <2>5. UNCHANGED <<authority, clock, releases>>
    BY <1>5 DEF Send, PassStep
  <2>6. Loops'
    BY <1>0, <2>1, <2>3, <2>4, <2>5, PassEdit
  <2>7. QED
    BY <1>5, <2>6 DEF Send, PassStep, LocalOK, Ids, Gates
<1>6. QED
  BY <1>1, <1>2, <1>3, <1>4, <1>5 DEF PassNext

LEMMA ShutdownTypes ==
    ASSUME TypeOK, LocalOK, NEW i \in Instance, ShutdownNext(i)
    PROVE  Ids' /\ Gates' /\ Loops'
<1>0. NoRelease \in ReleaseItem /\ NoGate \in Gate /\ NoRange \in CachedRange
  BY DEF NoRelease, ReleaseItem, NoGate, Gate, NoRange, CachedRange
<1> DEFINE Withdrawing(e) == [NoRelease EXCEPT !.at = "withdraw", !.epoch = e]
<1>1. ASSUME NEW e \in Nat
      PROVE  Withdrawing(e) \in ReleaseItem
  BY DEF NoRelease, ReleaseItem
<1>2. ASSUME releases' \in [Instance -> [Slot -> ReleaseItem]], ShutdownStep
      PROVE  Loops'
  BY <1>2 DEF ShutdownStep, LocalOK, Loops
<1>3. ASSUME Stop(i)
      PROVE  Ids' /\ Gates' /\ Loops'
  <2>1. proc' \in [Instance -> ProcState]
    BY <1>3 DEF Stop, LocalOK, Gates, ProcState
  <2>2. QED
    BY <1>3, <2>1 DEF Stop, ShutdownStep, LocalOK, Ids, Gates, Loops
<1>4. ASSUME Detach(i)
      PROVE  Ids' /\ Gates' /\ Loops'
  <2> DEFINE withdrawn == [s \in Slot |->
                IF slots[i][s].epoch # 0 THEN slots[i][s].epoch ELSE drainingSlots[i][s]]
             items == [s \in Slot |->
                IF slots[i][s].epoch # 0 THEN Withdrawing(slots[i][s].epoch) ELSE NoRelease]
             gates == [s \in Slot |-> NoGate]
             ranges == [s \in Slot |-> NoRange]
  <2>1. \A s \in Slot : slots[i][s].epoch \in Nat
    BY DEF LocalOK, Gates, Gate
  <2>2. withdrawn \in [Slot -> Nat]
    BY <2>1 DEF LocalOK, Gates
  <2>3. items \in [Slot -> ReleaseItem]
    <3> HIDE DEF Withdrawing
    <3>1. QED
      BY <1>0, <1>1, <2>1
  <2>4. /\ gates \in [Slot -> Gate] /\ ranges \in [Slot -> CachedRange]
        /\ \A s \in Slot : ~gates[s].open
    BY <1>0 DEF NoGate
  <2>5. /\ drainingSlots' = [drainingSlots EXCEPT ![i] = withdrawn]
        /\ releases' = [releases EXCEPT ![i] = items]
        /\ slots' = [slots EXCEPT ![i] = gates]
        /\ cache' = [cache EXCEPT ![i] = ranges]
        /\ proc' = [proc EXCEPT ![i] = "detached"]
    BY <1>4 DEF Detach
  <2> HIDE DEF withdrawn, items, gates, ranges
  <2>6. /\ releases' \in [Instance -> [Slot -> ReleaseItem]]
        /\ cache' \in [Instance -> [Slot -> CachedRange]]
        /\ proc' \in [Instance -> ProcState]
    BY <2>3, <2>4, <2>5 DEF LocalOK, Ids, Gates, Loops, ProcState
  <2>7. Gates'
    <3>1. UNCHANGED <<ownershipRevision, localDeadline>>
      BY <1>4 DEF Detach, ShutdownStep
    <3>2. QED
      BY <2>2, <2>4, <2>5, <2>6, <3>1 DEF LocalOK, Gates
  <2>8. QED
    BY <1>2, <1>4, <2>6, <2>7 DEF Detach, ShutdownStep, LocalOK, Ids
<1>5. ASSUME IncludeHeld(i)
      PROVE  Ids' /\ Gates' /\ Loops'
  <2> DEFINE items == [s \in Slot |->
                IF HeldBy(i, s) /\ releases[i][s].at = "none"
                THEN Withdrawing(slot[s].epoch) ELSE releases[i][s]]
  <2>1. items \in [Slot -> ReleaseItem]
    <3>1. \A s \in Slot : slot[s].epoch \in Nat /\ releases[i][s] \in ReleaseItem
      BY DEF TypeOK, SlotRow, LocalOK, Loops
    <3> HIDE DEF Withdrawing
    <3>2. QED
      BY <1>1, <3>1
  <2>2. releases' = releases \/ releases' = [releases EXCEPT ![i] = items]
    BY <1>5 DEF IncludeHeld
  <2> HIDE DEF items
  <2>3. /\ releases' \in [Instance -> [Slot -> ReleaseItem]]
        /\ proc' \in [Instance -> ProcState]
    BY <1>5, <2>1, <2>2 DEF IncludeHeld, LocalOK, Loops, Gates, ProcState
  <2>4. QED
    BY <1>2, <1>5, <2>3 DEF IncludeHeld, ShutdownStep, LocalOK, Ids, Gates
<1>6. ASSUME NEW s \in Slot, NEW item \in ReleaseItem, ReleaseStep(i, s, item)
      PROVE  Ids' /\ Gates' /\ Loops'
  <2>1. releases' \in [Instance -> [Slot -> ReleaseItem]]
    BY <1>6 DEF ReleaseStep, LocalOK, Loops
  <2>2. QED
    BY <1>2, <1>6, <2>1 DEF ReleaseStep, ShutdownStep, LocalOK, Ids, Gates
<1>7. ASSUME NEW s \in Slot,
             WithdrawSlot(i, s) \/ FindDrain(i, s) \/ AckRelease(i, s) \/ FinishShutdown(i, s)
      PROVE  \E item \in ReleaseItem : ReleaseStep(i, s, item)
  <2> DEFINE item == releases[i][s]
  <2>1. item \in ReleaseItem /\ handoff[s].id \in HandoffId \cup {None}
    BY DEF LocalOK, Loops, TypeOK, HandoffRow
  <2>2. /\ [item EXCEPT !.at = "look"] \in ReleaseItem
        /\ [item EXCEPT !.at = "transfer"] \in ReleaseItem
    BY <2>1 DEF ReleaseItem
  <2>3. [item EXCEPT !.at = "drain", !.id = handoff[s].id] \in ReleaseItem
    <3> DEFINE draining == [item EXCEPT !.at = "drain"]
    <3>1. draining \in ReleaseItem
      BY <2>1 DEF ReleaseItem
    <3>2. [item EXCEPT !.at = "drain", !.id = handoff[s].id]
              = [draining EXCEPT !.id = handoff[s].id]
      OBVIOUS
    <3> HIDE DEF draining, item
    <3>3. [draining EXCEPT !.id = handoff[s].id] \in ReleaseItem
      BY <2>1, <3>1 DEF ReleaseItem
    <3>4. QED
      BY <3>2, <3>3
  <2>4. \/ ReleaseStep(i, s, [item EXCEPT !.at = "look"])
        \/ ReleaseStep(i, s, [item EXCEPT !.at = "transfer"])
        \/ ReleaseStep(i, s, NoRelease)
        \/ ReleaseStep(i, s, [item EXCEPT !.at = "drain", !.id = handoff[s].id])
    BY <1>7, Zenon DEF WithdrawSlot, FindDrain, AckRelease, FinishShutdown
  <2> HIDE DEF item
  <2>5. QED
    BY <1>0, <2>2, <2>3, <2>4, Zenon
<1>8. ASSUME Retire(i)
      PROVE  Ids' /\ Gates' /\ Loops'
  <2> DEFINE items == [s \in Slot |-> NoRelease]
  <2>1. items \in [Slot -> ReleaseItem]
    BY <1>0
  <2>2. releases' = [releases EXCEPT ![i] = items]
    BY <1>8 DEF Retire
  <2> HIDE DEF items
  <2>3. /\ releases' \in [Instance -> [Slot -> ReleaseItem]]
        /\ proc' \in [Instance -> ProcState]
    BY <1>8, <2>1, <2>2 DEF Retire, LocalOK, Loops, Gates, ProcState
  <2>4. QED
    BY <1>2, <1>8, <2>3 DEF Retire, ShutdownStep, LocalOK, Ids, Gates
<1>9. QED
  BY <1>3, <1>4, <1>5, <1>6, <1>7, <1>8 DEF ShutdownNext

LEMMA CrashTypes ==
    ASSUME LocalOK, NEW i \in Instance, Crash(i)
    PROVE  Ids' /\ Gates' /\ Loops'
<1> DEFINE gates == [s \in Slot |-> NoGate]
           ranges == [s \in Slot |-> NoRange]
           items == [s \in Slot |-> NoRelease]
           none == [s \in Slot |-> 0]
<1>1. /\ gates \in [Slot -> Gate] /\ (\A s \in Slot : ~gates[s].open)
      /\ ranges \in [Slot -> CachedRange]
      /\ items \in [Slot -> ReleaseItem]
      /\ none \in [Slot -> Nat]
  BY DEF NoRelease, ReleaseItem, NoGate, Gate, NoRange, CachedRange
<1>2. /\ Unlocked \in Section /\ Unlocked.at = "idle"
      /\ NoPass \in HandoffLoop /\ NoCall \in Call
  BY SectionTypes DEF Unlocked, HandoffLoop, Call
<1>3. /\ proc' = [proc EXCEPT ![i] = "crashed"]
      /\ ownershipRevision' = [ownershipRevision EXCEPT ![i] = 0]
      /\ localDeadline' = [localDeadline EXCEPT ![i] = 0]
      /\ slots' = [slots EXCEPT ![i] = gates]
      /\ drainingSlots' = [drainingSlots EXCEPT ![i] = none]
      /\ cache' = [cache EXCEPT ![i] = ranges]
      /\ authority' = [authority EXCEPT ![i] = Unlocked]
      /\ pass' = [pass EXCEPT ![i] = NoPass]
      /\ releases' = [releases EXCEPT ![i] = items]
  BY DEF Crash
<1> HIDE DEF gates, ranges, items, none
<1>4. Gates'
  BY <1>1, <1>3 DEF LocalOK, Gates, ProcState
<1>5. Loops'
  <2>1. clock' = clock
    BY DEF Crash
  <2>2. QED
    BY <1>1, <1>2, <1>3, <2>1 DEF LocalOK, Loops
<1>6. Ids'
  <2>1. call' \in [Caller -> Call]
    BY <1>2 DEF Crash, LocalOK, Ids
  <2>2. UNCHANGED <<mark, delivered>>
    BY DEF Crash
  <2>3. QED
    BY <1>1, <1>3, <2>1, <2>2 DEF LocalOK, Ids
<1>7. QED
  BY <1>4, <1>5, <1>6

-----------------------------------------------------------------------------
\* The storage clock moves in Pass only.

LEMMA StorageClock ==
    /\ \A i \in Instance : InstanceStep(i) => now' = now
    /\ \A i \in Instance, s \in Slot : CommandStep(i, s) => now' = now
    /\ CoordinatorStep => now' = now
<1>1. \A i \in Instance : InstanceStep(i) => now' = now
  BY DEF InstanceStep, RegisterInstance, RenewInstance, RetireInstance, CollectInstance,
         ClaimSlots
<1>2. \A i \in Instance, s \in Slot : CommandStep(i, s) => now' = now
  <2> SUFFICES ASSUME NEW i \in Instance, NEW s \in Slot, CommandStep(i, s)
               PROVE  now' = now
    OBVIOUS
  <2>1. Begin(i, s) \/ (\E id \in HandoffId : Withdraw(i, slot[s].epoch, id, s)) => now' = now
    BY DEF Begin, Withdraw, StartDrain
  <2>2. AckDrain(i, s) \/ Transfer(i, s) \/ FinishRelease(i, s) => now' = now
    BY DEF AckDrain, Transfer, FinishRelease, ReleaseSlot
  <2>3. \A revision \in 0..lease[i].revision :
            Prepare(i, revision, s) \/ AckActive(i, revision, s) => now' = now
    BY DEF Prepare, AckActive
  <2>4. QED
    BY <2>1, <2>2, <2>3 DEF CommandStep
<1>3. CoordinatorStep => now' = now
  BY DEF CoordinatorStep, PlanHandoffs, RecoverRelease, ReleaseSlot, RecoverCancel,
         RecoverTarget
<1>4. QED
  BY <1>1, <1>2, <1>3

\* Only Pass moves a clock.
LEMMA ClocksStep ==
    ASSUME TypeOK, [HANext]_haVars
    PROVE  \/ Pass
           \/ UNCHANGED <<now, clock>>
<1>1. ASSUME NEW c \in Caller, CallNext(c)
      PROVE  UNCHANGED <<now, clock>>
  BY <1>1 DEF CallNext, Enter, BeginGate, BeginDeadline, Advance, EndBound, EndGate,
         EndDeadline, Refill, Wake, Reserve, GiveUp, CallStep, Check, vars
<1>2. ASSUME NEW i \in Instance, AuthorityNext(i)
      PROVE  UNCHANGED <<now, clock>>
  <2>1. clock' = clock
    BY <1>2 DEF AuthorityNext, Register, StartRenew, Reanchor, Renew, Publish, Claim,
           ReadAuthority, Apply, AuthorityStep
  <2>2. QED
    BY <1>2, <2>1, AuthorityStepImplements, StorageClock DEF vars
<1>3. ASSUME NEW i \in Instance, PassNext(i)
      PROVE  UNCHANGED <<now, clock>>
  <2>1. clock' = clock
    BY <1>3 DEF PassNext, ReadHandoffs, DropGates, SyncPass, Decide, Send, PassStep
  <2>2. QED
    BY <1>3, <2>1, PassStepImplements, StorageClock DEF vars
<1>4. ASSUME NEW i \in Instance, ShutdownNext(i)
      PROVE  UNCHANGED <<now, clock>>
  <2>1. clock' = clock
    BY <1>4 DEF ShutdownNext, Stop, Detach, IncludeHeld, WithdrawSlot, FindDrain,
           AckRelease, FinishShutdown, Retire, ReleaseStep, ShutdownStep
  <2>2. QED
    BY <1>4, <2>1, ShutdownStepImplements, StorageClock DEF vars
<1>5. ASSUME NEW i \in Instance, Crash(i)
      PROVE  UNCHANGED <<now, clock>>
  BY <1>5 DEF Crash, vars
<1>6. CASE Coordinate
  BY <1>6, StorageClock DEF Coordinate, InstanceStep
<1>7. CASE UNCHANGED haVars
  BY <1>7 DEF haVars, vars
<1>8. QED
  BY <1>1, <1>2, <1>3, <1>4, <1>5, <1>6, <1>7 DEF HANext

LEMMA LocalTypesStep ==
    ASSUME TypeOK, LocalOK, [HANext]_haVars
    PROVE  LocalOK'
<1>1. Clocks'
  <2>1. CASE Pass
    BY <2>1, ConstantTypes DEF Pass, Tick, TypeOK, LocalOK, Clocks
  <2>2. CASE UNCHANGED <<now, clock>>
    BY <2>2 DEF LocalOK, Clocks
  <2>3. QED
    BY <2>1, <2>2, ClocksStep
<1>2. CASE Pass \/ Coordinate \/ UNCHANGED haVars
  <2>1. UNCHANGED <<mark, delivered, proc, ownershipRevision, localDeadline, slots,
                    drainingSlots, cache, authority, pass, releases, call>>
    BY <1>2 DEF Pass, Coordinate, haVars, local
  <2>2. clock' \in Nat /\ clock' >= clock
    BY <1>2 DEF Pass, Coordinate, haVars, LocalOK, Clocks
  <2>3. Ids' /\ Gates'
    BY <2>1 DEF LocalOK, Ids, Gates
  <2>4. Loops'
    <3>1. ASSUME NEW i \in Instance, authority[i].at \in {"anchored", "granted"}
          PROVE  authority[i].anchor \in Nat
      BY <3>1 DEF LocalOK, Loops, Section, Unlocked
    <3>2. QED
      BY <2>1, <2>2, <3>1 DEF LocalOK, Loops, Clocks
  <2>5. QED
    BY <1>1, <2>3, <2>4 DEF LocalOK
<1>3. ASSUME NEW c \in Caller, CallNext(c)
      PROVE  LocalOK'
  <2>1. Ids'
    BY <1>3, CallTypes
  <2>2. UNCHANGED <<clock, ownershipRevision, localDeadline, slots, drainingSlots,
                    authority, pass, releases>>
    BY <1>3 DEF CallNext, Enter, BeginGate, BeginDeadline, Advance, EndBound, EndGate,
           EndDeadline, Refill, Wake, Reserve, GiveUp, CallStep, Check
  <2>3. proc' \in [Instance -> ProcState]
    <3>1. proc' = proc \/ proc' = [proc EXCEPT ![call[c].inst] = "fenced"]
      BY <1>3 DEF CallNext, Enter, BeginGate, BeginDeadline, Advance, EndBound, EndGate,
             EndDeadline, Refill, Wake, Reserve, GiveUp, Check
    <3>2. QED
      BY <3>1 DEF LocalOK, Gates, ProcState
  <2>4. QED
    BY <1>1, <2>1, <2>2, <2>3 DEF LocalOK, Gates, Loops
<1>4. ASSUME NEW i \in Instance,
             AuthorityNext(i) \/ PassNext(i) \/ ShutdownNext(i) \/ Crash(i)
      PROVE  LocalOK'
  BY <1>1, <1>4, AuthorityTypes, PassTypes, ShutdownTypes, CrashTypes DEF LocalOK
<1>5. QED
  BY <1>2, <1>3, <1>4 DEF HANext

LEMMA LocalTypesInit ==
    ASSUME HAInit
    PROVE  LocalOK
<1>1. Clocks
  BY ConstantTypes DEF HAInit, Init, Clocks
<1>2. Ids
  BY ConstantTypes DEF HAInit, Ids, NoRange, CachedRange, Call, HasGreatest
<1>3. Gates
  BY DEF HAInit, Gates, ProcState, NoGate, Gate
<1>4. Loops
  BY SectionTypes DEF HAInit, Loops, HandoffLoop, NoPass, NoRelease, ReleaseItem, Unlocked
<1>5. QED
  BY <1>1, <1>2, <1>3, <1>4 DEF LocalOK

\* The local state of every process keeps its shape, the storage clock is never more
\* than MaxSkew ahead of theirs, and no anchor lies in the future.
THEOREM LocalTypes == HASpec => []LocalOK
<1>1. HASpec => []TypeOK
  BY Implementation, TypeCorrect
<1>2. QED
  BY <1>1, LocalTypesInit, LocalTypesStep, PTL DEF HASpec

-----------------------------------------------------------------------------
\* What storage does to the rows a process relies on.

\* A lease is ACTIVE only if it was, and its revision does not fall.
LeaseKept(i) ==
    lease'[i].state = "ACTIVE" =>
        lease[i].state = "ACTIVE" /\ lease'[i].revision >= lease[i].revision

\* A drain is acknowledged only if it was, by the same source at the same epoch.
DrainKept(s) ==
    handoff'[s].drained =>
        /\ handoff[s].drained
        /\ handoff'[s].phase \in {"DRAINING", "TRANSFERRED"}
        /\ handoff'[s].phase = "DRAINING" =>
            /\ handoff[s].phase = "DRAINING"
            /\ handoff'[s].source = handoff[s].source
            /\ handoff'[s].epoch = handoff[s].epoch

DrainedRows ==
    \A s \in Slot : handoff[s].drained => handoff[s].phase \in {"DRAINING", "TRANSFERRED"}

\* An owned slot has an epoch, and no renewal lies in the future.
OwnedEpochs == \A s \in Slot : slot[s].owner # None => slot[s].epoch # 0
HorizonPast == \A s \in Slot : horizon[s] <= now

LEMMA BumpKeepsLeases ==
    ASSUME TypeOK, NEW ids, lease' = Bumped(ids), NEW j \in Instance
    PROVE  LeaseKept(j)
<1>1. lease[j].revision \in Nat
  BY DEF TypeOK, LeaseRow
<1>2. QED
  BY <1>1, BumpedFields DEF LeaseKept

LEMMA SameLeases ==
    ASSUME TypeOK, lease' = lease, NEW j \in Instance
    PROVE  LeaseKept(j)
<1>1. lease[j].revision \in Nat
  BY DEF TypeOK, LeaseRow
<1>2. QED
  BY <1>1 DEF LeaseKept

LEMMA InstanceLeases ==
    ASSUME TypeOK, NEW i \in Instance, InstanceStep(i), NEW j \in Instance
    PROVE  LeaseKept(j) \/ (j = i /\ lease[i].state = "ABSENT" /\ lease'[i].revision = 0)
<1>0. lease[j] \in LeaseRow /\ lease[j].revision \in Nat
  BY DEF TypeOK, LeaseRow
<1>1. CASE RegisterInstance(i)
  BY <1>0, <1>1 DEF RegisterInstance, TypeOK, LeaseKept
<1>2. ASSUME NEW revision \in Nat, RenewInstance(i, revision)
      PROVE  LeaseKept(j)
  BY <1>0, <1>2 DEF RenewInstance, TypeOK, LeaseRow, LeaseKept
<1>3. CASE RetireInstance(i)
  <2>1. lease'[i].state = "RETIRED"
    BY <1>3 DEF RetireInstance, TypeOK, LeaseRow
  <2>2. j # i => lease'[j] = lease[j]
    BY <1>3 DEF RetireInstance, TypeOK
  <2>3. QED
    BY <1>0, <2>1, <2>2 DEF LeaseKept
<1>4. CASE CollectInstance(i)
  BY <1>0, <1>4 DEF CollectInstance, NoLease, TypeOK, LeaseKept
<1>5. ASSUME NEW revision \in Nat, NEW S \in SUBSET Slot, ClaimSlots(i, revision, S)
      PROVE  LeaseKept(j)
  BY <1>5, BumpKeepsLeases DEF ClaimSlots
<1>6. 0..lease[i].revision \subseteq Nat
  OBVIOUS
<1>7. QED
  BY <1>1, <1>2, <1>3, <1>4, <1>5, <1>6 DEF InstanceStep

LEMMA CommandLeases ==
    ASSUME TypeOK, NEW i \in Instance, NEW s \in Slot, CommandStep(i, s), NEW j \in Instance
    PROVE  LeaseKept(j)
<1>1. \/ lease' = lease
      \/ \E ids : lease' = Bumped(ids)
  <2>1. \A revision : Prepare(i, revision, s) \/ AckActive(i, revision, s) => lease' = lease
    BY DEF Prepare, AckActive
  <2>2. AckDrain(i, s) => lease' = lease
    BY DEF AckDrain
  <2>3. Begin(i, s) \/ (\E id \in HandoffId : Withdraw(i, slot[s].epoch, id, s))
        => \E ids : lease' = Bumped(ids)
    BY DEF Begin, Withdraw, StartDrain
  <2>4. Transfer(i, s) \/ FinishRelease(i, s) => \E ids : lease' = Bumped(ids)
    BY DEF Transfer, FinishRelease, ReleaseSlot
  <2>5. QED
    BY <2>1, <2>2, <2>3, <2>4 DEF CommandStep
<1>2. QED
  BY <1>1, SameLeases, BumpKeepsLeases

LEMMA CoordinatorLeases ==
    ASSUME TypeOK, CoordinatorStep, NEW j \in Instance
    PROVE  LeaseKept(j)
<1>1. \/ lease' = lease
      \/ \E ids : lease' = Bumped(ids)
  BY DEF CoordinatorStep, PlanHandoffs, RecoverRelease, ReleaseSlot, RecoverCancel,
         RecoverTarget
<1>2. QED
  BY <1>1, SameLeases, BumpKeepsLeases

LEMMA SameDrains ==
    ASSUME DrainedRows, NEW t \in Slot, handoff'[t] = handoff[t]
    PROVE  DrainKept(t)
  BY DEF DrainedRows, DrainKept

\* An update of one row that keeps its acknowledgement, or has none.
LEMMA RowDrains ==
    ASSUME TypeOK, DrainedRows, NEW s \in Slot, NEW row,
           handoff' = [handoff EXCEPT ![s] = row],
           row.drained => /\ handoff[s].drained
                          /\ \/ row.phase = "TRANSFERRED"
                             \/ /\ row.phase = handoff[s].phase
                                /\ row.source = handoff[s].source
                                /\ row.epoch = handoff[s].epoch,
           NEW t \in Slot
    PROVE  DrainKept(t)
<1>1. handoff'[s] = row /\ (t # s => handoff'[t] = handoff[t])
  BY DEF TypeOK
<1>2. CASE t = s
  BY <1>1, <1>2 DEF DrainedRows, DrainKept
<1>3. CASE t # s
  BY <1>1, <1>3, SameDrains
<1>4. QED
  BY <1>2, <1>3

LEMMA InstanceDrains ==
    ASSUME TypeOK, DrainedRows, NEW i \in Instance, InstanceStep(i), NEW t \in Slot
    PROVE  DrainKept(t)
<1>1. CASE handoff' = handoff
  BY <1>1, SameDrains
<1>2. ASSUME NEW revision, NEW S \in SUBSET Slot, ClaimSlots(i, revision, S)
      PROVE  DrainKept(t)
  <2>1. handoff'[t] = NoHandoff \/ handoff'[t] = handoff[t]
    BY <1>2 DEF ClaimSlots
  <2>2. QED
    BY <2>1, SameDrains DEF NoHandoff, DrainKept
<1>3. QED
  BY <1>1, <1>2 DEF InstanceStep, RegisterInstance, RenewInstance, RetireInstance,
                    CollectInstance

\* All commands but the acknowledgement itself.
LEMMA CommandDrains ==
    ASSUME TypeOK, DrainedRows, NEW i \in Instance, NEW s \in Slot,
           \/ \E revision : Prepare(i, revision, s) \/ AckActive(i, revision, s)
           \/ Begin(i, s)
           \/ \E id \in HandoffId : \E epoch : Withdraw(i, epoch, id, s)
           \/ Transfer(i, s)
           \/ FinishRelease(i, s),
           NEW t \in Slot
    PROVE  DrainKept(t)
<1>0. handoff[s] \in HandoffRow
  BY DEF TypeOK
<1>1. ASSUME NEW revision, Prepare(i, revision, s)
      PROVE  DrainKept(t)
  <2>1. /\ Prepared(handoff[s]).drained = handoff[s].drained
        /\ Prepared(handoff[s]).source = handoff[s].source
        /\ Prepared(handoff[s]).epoch = handoff[s].epoch
        /\ handoff[s].phase = "DRAINING" => Prepared(handoff[s]).phase = "DRAINING"
    BY <1>0 DEF Prepared, HandoffRow
  <2>2. handoff[s].drained => handoff[s].phase = "DRAINING"
    BY <1>1 DEF Prepare, DrainedRows
  <2>3. handoff' = [handoff EXCEPT ![s] = Prepared(handoff[s])]
    BY <1>1 DEF Prepare
  <2> DEFINE row == Prepared(handoff[s])
  <2> HIDE DEF row
  <2>4. handoff' = [handoff EXCEPT ![s] = row]
    BY <2>3 DEF row
  <2>5. row.drained => /\ handoff[s].drained
                       /\ row.phase = handoff[s].phase
                       /\ row.source = handoff[s].source
                       /\ row.epoch = handoff[s].epoch
    BY <2>1, <2>2 DEF row
  <2>6. QED
    BY <2>4, <2>5, RowDrains
<1>2. ASSUME handoff' = [handoff EXCEPT ![s] = NoHandoff]
      PROVE  DrainKept(t)
  BY <1>2, RowDrains DEF NoHandoff
<1>3. ASSUME NEW row \in HandoffRow, ~row.drained, StartDrain(row, s)
      PROVE  DrainKept(t)
  <2> DEFINE draining == [row EXCEPT !.phase = "DRAINING", !.notBefore = DrainFence(row.source)]
  <2>1. handoff' = [handoff EXCEPT ![s] = draining]
    BY <1>3 DEF StartDrain
  <2>2. ~draining.drained
    BY <1>3 DEF HandoffRow
  <2> HIDE DEF draining
  <2>3. QED
    BY <2>1, <2>2, RowDrains
<1>4. CASE Begin(i, s)
  <2>1. ~handoff[s].drained
    BY <1>4 DEF Begin, DrainedRows
  <2>2. QED
    BY <1>0, <1>3, <1>4, <2>1 DEF Begin
<1>5. ASSUME NEW epoch, NEW id \in HandoffId, Withdraw(i, epoch, id, s)
      PROVE  DrainKept(t)
  <2> DEFINE row == [NoHandoff EXCEPT !.id = id, !.source = i, !.epoch = epoch]
  <2>1. row \in HandoffRow /\ ~row.drained
    BY <1>5 DEF Withdraw, NoHandoff, HandoffRow, TypeOK, SlotRow
  <2>2. StartDrain(row, s)
    BY <1>5 DEF Withdraw
  <2> HIDE DEF row
  <2>3. QED
    BY <1>3, <2>1, <2>2
<1>6. CASE Transfer(i, s)
  <2> DEFINE row == [handoff[s] EXCEPT !.phase = "TRANSFERRED"]
  <2>1. handoff' = [handoff EXCEPT ![s] = row]
    BY <1>6 DEF Transfer
  <2>2. row.phase = "TRANSFERRED" /\ row.drained = handoff[s].drained
    BY <1>0 DEF HandoffRow
  <2> HIDE DEF row
  <2>3. QED
    BY <2>1, <2>2, RowDrains
<1>7. QED
  BY <1>1, <1>2, <1>4, <1>5, <1>6 DEF FinishRelease, ReleaseSlot, AckActive

LEMMA CoordinatorDrains ==
    ASSUME TypeOK, DrainedRows, CoordinatorStep, NEW t \in Slot
    PROVE  DrainKept(t)
<1>1. ASSUME NEW P \in SUBSET Slot, NEW target \in Instance, NEW id \in HandoffId,
             PlanHandoffs(P, target, id)
      PROVE  DrainKept(t)
  <2>1. t \in P => ~handoff'[t].drained
    BY <1>1 DEF PlanHandoffs, NoHandoff
  <2>2. t \notin P => handoff'[t] = handoff[t]
    BY <1>1 DEF PlanHandoffs
  <2>3. QED
    BY <2>1, <2>2, SameDrains DEF DrainKept
<1>2. ASSUME NEW s \in Slot, handoff' = [handoff EXCEPT ![s] = NoHandoff]
      PROVE  DrainKept(t)
  BY <1>2, RowDrains DEF NoHandoff
<1>3. ASSUME NEW s \in Slot, NEW nodes \in SUBSET Instance, NEW id \in HandoffId,
             RecoverTarget(nodes, id, s)
      PROVE  DrainKept(t)
  <2>0. handoff[s] \in HandoffRow
    BY DEF TypeOK
  <2>1. ASSUME NEW target \in Instance,
               handoff' = [handoff EXCEPT ![s] = Retargeted(handoff[s], target, id)]
        PROVE  DrainKept(t)
    <3> DEFINE row == Retargeted(handoff[s], target, id)
    <3>1. ~row.drained
      BY <2>0 DEF Retargeted, HandoffRow
    <3>2. handoff' = [handoff EXCEPT ![s] = row]
      BY <2>1
    <3> HIDE DEF row
    <3>3. QED
      BY <3>1, <3>2, RowDrains
  <2>2. ASSUME handoff' = [handoff EXCEPT ![s] = Degraded(handoff[s], id)]
        PROVE  DrainKept(t)
    <3> DEFINE row == Degraded(handoff[s], id)
    <3>1. /\ row.drained = handoff[s].drained /\ row.phase = handoff[s].phase
          /\ row.source = handoff[s].source /\ row.epoch = handoff[s].epoch
      BY <2>0 DEF Degraded, HandoffRow
    <3>2. handoff' = [handoff EXCEPT ![s] = row]
      BY <2>2
    <3> HIDE DEF row
    <3>3. QED
      BY <3>1, <3>2, RowDrains
  <2>3. QED
    BY <1>3, <2>1, <2>2 DEF RecoverTarget, Replacements
<1>4. QED
  BY <1>1, <1>2, <1>3 DEF CoordinatorStep, RecoverRelease, ReleaseSlot, RecoverCancel

LEMMA HorizonStep ==
    ASSUME TypeOK, [Next]_vars, NEW t \in Slot
    PROVE  \/ horizon'[t] \in {horizon[t], now}
           \/ /\ horizon'[t] = 0
              /\ slot'[t].epoch # slot[t].epoch \/ slot'[t].owner = None
<1> DEFINE Goal == \/ horizon'[t] \in {horizon[t], now}
                   \/ /\ horizon'[t] = 0
                      /\ slot'[t].epoch # slot[t].epoch \/ slot'[t].owner = None
<1> SUFFICES Goal
  OBVIOUS
<1>0. slot[t].epoch \in Nat
  BY DEF TypeOK, SlotRow
<1>1. horizon' = horizon => Goal
  OBVIOUS
<1>2. ASSUME NEW i \in Instance, NEW revision, RenewInstance(i, revision)
      PROVE  Goal
  BY <1>2 DEF RenewInstance
<1>3. ASSUME NEW i \in Instance, NEW revision, NEW S \in SUBSET Slot,
             ClaimSlots(i, revision, S)
      PROVE  Goal
  BY <1>0, <1>3 DEF ClaimSlots
<1>4. ASSUME NEW i \in Instance, NEW s \in Slot, Transfer(i, s)
      PROVE  Goal
  <2>1. CASE t = s
    BY <1>0, <1>4, <2>1 DEF Transfer, TypeOK
  <2>2. CASE t # s
    BY <1>4, <2>2 DEF Transfer, TypeOK
  <2>3. QED
    BY <2>1, <2>2
<1>5. ASSUME NEW s \in Slot, ReleaseSlot(s)
      PROVE  Goal
  <2>1. CASE t = s
    BY <1>5, <2>1 DEF ReleaseSlot, TypeOK, SlotRow
  <2>2. CASE t # s
    BY <1>5, <2>2 DEF ReleaseSlot, TypeOK
  <2>3. QED
    BY <2>1, <2>2
<1> HIDE DEF Goal
<1>6. ASSUME NEW i \in Instance, InstanceStep(i)
      PROVE  Goal
  BY <1>1, <1>2, <1>3, <1>6 DEF InstanceStep, RegisterInstance, RetireInstance,
                               CollectInstance
<1>7. ASSUME NEW i \in Instance, NEW s \in Slot, CommandStep(i, s)
      PROVE  Goal
  <2>1. Begin(i, s) \/ (\E id \in HandoffId : Withdraw(i, slot[s].epoch, id, s))
        => horizon' = horizon
    BY DEF Begin, Withdraw, StartDrain
  <2>2. QED
    BY <1>1, <1>4, <1>5, <1>7, <2>1 DEF CommandStep, Prepare, AckDrain, FinishRelease,
                                        AckActive
<1>8. CASE CoordinatorStep
  BY <1>1, <1>5, <1>8 DEF CoordinatorStep, PlanHandoffs, RecoverRelease, RecoverCancel,
                          RecoverTarget
<1>9. QED
  BY <1>1, <1>6, <1>7, <1>8 DEF Next, Tick, vars

LEMMA OwnedEpochsStep ==
    ASSUME TypeOK, OwnedEpochs, [Next]_vars
    PROVE  OwnedEpochs'
<1> SUFFICES ASSUME NEW t \in Slot
             PROVE  slot'[t].owner # None => slot'[t].epoch # 0
  BY DEF OwnedEpochs
<1>0. slot[t] \in SlotRow /\ slot[t].epoch \in Nat /\ (slot[t].owner # None => slot[t].epoch # 0)
  BY DEF TypeOK, SlotRow, OwnedEpochs
<1>1. QED
  BY EpochStep, <1>0

LEMMA HorizonPastStep ==
    ASSUME TypeOK, HorizonPast, [Next]_vars
    PROVE  HorizonPast'
<1> SUFFICES ASSUME NEW t \in Slot
             PROVE  horizon'[t] <= now'
  BY DEF HorizonPast
<1>1. now \in Nat /\ horizon[t] \in Nat /\ horizon[t] <= now
  BY DEF TypeOK, HorizonPast
<1>2. now' = now \/ now' = now + 1
  BY StorageClock DEF Next, Tick, vars
<1>3. QED
  BY <1>1, <1>2, HorizonStep

LEMMA DrainedRowsStep ==
    ASSUME TypeOK, DrainedRows, [Next]_vars
    PROVE  DrainedRows'
<1> SUFFICES ASSUME NEW t \in Slot
             PROVE  handoff'[t].drained => handoff'[t].phase \in {"DRAINING", "TRANSFERRED"}
  BY DEF DrainedRows
<1>1. DrainKept(t) => (handoff'[t].drained => handoff'[t].phase \in {"DRAINING", "TRANSFERRED"})
  BY DEF DrainKept
<1>2. CASE Tick \/ UNCHANGED vars
  BY <1>1, <1>2, SameDrains DEF Tick, vars
<1>3. ASSUME NEW i \in Instance, NEW s \in Slot, AckDrain(i, s)
      PROVE  handoff'[t].drained => handoff'[t].phase \in {"DRAINING", "TRANSFERRED"}
  BY <1>3 DEF AckDrain, TypeOK, HandoffRow, DrainedRows
<1>4. ASSUME NEW i \in Instance, NEW s \in Slot, CommandStep(i, s)
      PROVE  handoff'[t].drained => handoff'[t].phase \in {"DRAINING", "TRANSFERRED"}
  <2>1. ASSUME \/ \E revision : Prepare(i, revision, s) \/ AckActive(i, revision, s)
               \/ Begin(i, s)
               \/ \E id \in HandoffId : \E epoch : Withdraw(i, epoch, id, s)
               \/ Transfer(i, s)
               \/ FinishRelease(i, s)
        PROVE  DrainKept(t)
    BY <2>1, CommandDrains
  <2>2. ASSUME NEW revision, Prepare(i, revision, s) \/ AckActive(i, revision, s)
        PROVE  DrainKept(t)
    BY <2>1, <2>2
  <2>3. ASSUME NEW epoch, NEW id \in HandoffId, Withdraw(i, epoch, id, s)
        PROVE  DrainKept(t)
    BY <2>1, <2>3
  <2>4. Begin(i, s) \/ Transfer(i, s) \/ FinishRelease(i, s) => DrainKept(t)
    BY <2>1
  <2>5. QED
    BY <1>1, <1>3, <1>4, <2>2, <2>3, <2>4 DEF CommandStep
<1>5. QED
  BY <1>1, <1>2, <1>4, InstanceDrains, CoordinatorDrains DEF Next

-----------------------------------------------------------------------------
\* The same, by what the processes do.

\* The drain of s is acknowledged by its source, out of the handoff loop or at shutdown.
Acknowledged(i, s) ==
    /\ AckDrain(i, s)
    /\ \/ Send(i, s) /\ SameHandoff(s, pass[i].rows[s]) /\ pass[i].command[s] = "ACK_DRAIN"
       \/ AckRelease(i, s) /\ ReadBack(s, releases[i][s])

LEMMA LeaseEffect ==
    ASSUME TypeOK, [HANext]_haVars, NEW j \in Instance
    PROVE  LeaseKept(j) \/ (Register(j) /\ lease'[j].revision = 0)
<1>1. ASSUME UNCHANGED vars
      PROVE  LeaseKept(j)
  BY <1>1, SameLeases DEF vars
<1>2. CASE Pass
  BY <1>2, SameLeases DEF Pass, Tick
<1>3. CASE Coordinate
  <2>1. ASSUME NEW i \in Instance, CollectInstance(i)
        PROVE  LeaseKept(j)
    <3>1. InstanceStep(i) /\ lease[i].state # "ABSENT"
      BY <2>1 DEF InstanceStep, CollectInstance
    <3>2. QED
      BY <3>1, InstanceLeases
  <2>2. QED
    BY <1>3, <2>1, CoordinatorLeases DEF Coordinate
<1>4. ASSUME NEW i \in Instance, AuthorityNext(i)
      PROVE  LeaseKept(j) \/ (Register(j) /\ lease'[j].revision = 0)
  <2>1. CASE Register(i)
    <3>1. InstanceStep(i) \/ UNCHANGED vars
      BY <2>1 DEF Register, InstanceStep
    <3>2. QED
      BY <1>1, <2>1, <3>1, InstanceLeases
  <2>2. CASE ~Register(i)
    <3>1. lease[i].state # "ABSENT" \/ UNCHANGED vars
      BY <1>4, <2>2 DEF AuthorityNext, StartRenew, Reanchor, Renew, RenewInstance, Publish,
             Claim, ClaimSlots, Fresh, ReadAuthority, Apply
    <3>2. QED
      BY <1>1, <1>4, <3>1, AuthorityStepImplements, InstanceLeases
  <2>3. QED
    BY <2>1, <2>2
<1>5. ASSUME NEW i \in Instance, PassNext(i)
      PROVE  LeaseKept(j)
  <2>1. ASSUME NEW s \in Slot, CommandStep(i, s)
        PROVE  LeaseKept(j)
    BY <2>1, CommandLeases
  <2>2. QED
    BY <1>1, <1>5, <2>1, PassStepImplements
<1>6. ASSUME NEW i \in Instance, ShutdownNext(i)
      PROVE  LeaseKept(j)
  <2>1. CASE Retire(i)
    <3>1. (InstanceStep(i) /\ lease[i].state # "ABSENT") \/ UNCHANGED vars
      BY <2>1 DEF Retire, RetireInstance, InstanceStep
    <3>2. ASSUME InstanceStep(i), lease[i].state # "ABSENT"
          PROVE  LeaseKept(j)
      BY <3>2, InstanceLeases
    <3>3. QED
      BY <1>1, <3>1, <3>2
  <2>2. CASE ~Retire(i)
    <3>1. (\E s \in Slot : CommandStep(i, s)) \/ UNCHANGED vars
      BY <1>6, <2>2, ShutdownCommands
    <3>2. ASSUME NEW s \in Slot, CommandStep(i, s)
          PROVE  LeaseKept(j)
      BY <3>2, CommandLeases
    <3>3. QED
      BY <1>1, <3>1, <3>2
  <2>3. QED
    BY <2>1, <2>2
<1>7. QED
  BY <1>1, <1>2, <1>3, <1>4, <1>5, <1>6, CallLeavesAuthority DEF HANext, Crash, haVars

LEMMA DrainEffect ==
    ASSUME TypeOK, DrainedRows, [HANext]_haVars, NEW t \in Slot
    PROVE  DrainKept(t) \/ (\E i \in Instance : Acknowledged(i, t))
<1>1. ASSUME UNCHANGED vars
      PROVE  DrainKept(t)
  BY <1>1, SameDrains DEF vars
<1>2. CASE Pass
  BY <1>2, SameDrains DEF Pass, Tick
<1>3. CASE Coordinate
  BY <1>3, CoordinatorDrains, SameDrains DEF Coordinate, CollectInstance
<1>4. ASSUME NEW i \in Instance, InstanceStep(i)
      PROVE  DrainKept(t)
  BY <1>4, InstanceDrains
<1>5. ASSUME NEW i \in Instance, NEW s \in Slot, AckDrain(i, s), s # t
      PROVE  DrainKept(t)
  BY <1>5, SameDrains DEF AckDrain, TypeOK
<1>6. ASSUME NEW i \in Instance, NEW s \in Slot,
             \/ \E revision : Prepare(i, revision, s) \/ AckActive(i, revision, s)
             \/ Begin(i, s)
             \/ \E id \in HandoffId : \E epoch : Withdraw(i, epoch, id, s)
             \/ Transfer(i, s)
             \/ FinishRelease(i, s)
      PROVE  DrainKept(t)
  BY <1>6, CommandDrains
<1>7. ASSUME NEW i \in Instance, PassNext(i)
      PROVE  DrainKept(t) \/ Acknowledged(i, t)
  <2>1. ReadHandoffs(i) \/ DropGates(i) \/ SyncPass(i) \/ Decide(i) => UNCHANGED vars
    BY DEF ReadHandoffs, DropGates, SyncPass, Decide
  <2>2. ASSUME NEW s \in Slot, Send(i, s)
        PROVE  DrainKept(t) \/ Acknowledged(i, t)
    <3>1. CASE UNCHANGED vars
      BY <1>1, <3>1
    <3>2. CASE /\ SameHandoff(s, pass[i].rows[s]) /\ pass[i].command[s] = "ACK_DRAIN"
               /\ AckDrain(i, s)
      BY <1>5, <2>2, <3>2 DEF Acknowledged
    <3>3. CASE \/ Prepare(i, pass[i].revision, s) \/ AckActive(i, pass[i].revision, s)
               \/ Begin(i, s) \/ Transfer(i, s) \/ FinishRelease(i, s)
      <4>1. \/ \E revision : Prepare(i, revision, s) \/ AckActive(i, revision, s)
            \/ Begin(i, s)
            \/ \E id \in HandoffId : \E epoch : Withdraw(i, epoch, id, s)
            \/ Transfer(i, s)
            \/ FinishRelease(i, s)
        BY <3>3
      <4>2. QED
        BY <1>6, <4>1
    <3>4. QED
      BY <2>2, <3>1, <3>2, <3>3 DEF Send, Execute
  <2>3. QED
    BY <1>1, <1>7, <2>1, <2>2 DEF PassNext
<1>8. ASSUME NEW i \in Instance, ShutdownNext(i)
      PROVE  DrainKept(t) \/ Acknowledged(i, t)
  <2>1. Stop(i) \/ Detach(i) \/ IncludeHeld(i) => UNCHANGED vars
    BY DEF Stop, Detach, IncludeHeld
  <2>2. Retire(i) => DrainKept(t)
    BY <1>1, <1>4 DEF Retire, InstanceStep
  <2>3. ASSUME NEW s \in Slot, WithdrawSlot(i, s) \/ FindDrain(i, s) \/ FinishShutdown(i, s)
        PROVE  DrainKept(t)
    <3>1. \/ UNCHANGED vars \/ FinishRelease(i, s)
          \/ \E id \in HandoffId : \E epoch : Withdraw(i, epoch, id, s)
      BY <2>3 DEF WithdrawSlot, FindDrain, FinishShutdown
    <3>2. QED
      BY <1>1, <1>6, <3>1
  <2>4. ASSUME NEW s \in Slot, AckRelease(i, s)
        PROVE  DrainKept(t) \/ Acknowledged(i, t)
    <3>1. UNCHANGED vars \/ (ReadBack(s, releases[i][s]) /\ AckDrain(i, s))
      BY <2>4 DEF AckRelease
    <3>2. QED
      BY <1>1, <1>5, <2>4, <3>1 DEF Acknowledged
  <2>5. QED
    BY <1>1, <1>8, <2>1, <2>2, <2>3, <2>4 DEF ShutdownNext
<1>9. ASSUME NEW i \in Instance, AuthorityNext(i)
      PROVE  DrainKept(t)
  BY <1>1, <1>4, <1>9, AuthorityStepImplements
<1>10. QED
  BY <1>1, <1>2, <1>3, <1>7, <1>8, <1>9, CallLeavesAuthority DEF HANext, Crash, haVars

-----------------------------------------------------------------------------
\* What a step does to the gates of one process.

Kept(i) ==
    /\ ownershipRevision'[i] = ownershipRevision[i]
    /\ localDeadline'[i] = localDeadline[i]
    /\ slots'[i] = slots[i]

\* Nothing, or it gives up serving.
Steady(i) ==
    /\ Kept(i)
    /\ \/ proc'[i] = proc[i]
       \/ proc'[i] \in {"fenced", "stopping"}
       \/ proc[i] \in {"detached", "releasing"} /\ proc'[i] \in {"releasing", "gone"}
    /\ authority'[i] = authority[i] \/ authority'[i].at \notin {"read", "granted"}

\* It reads its authority.
Reading(i) ==
    /\ UNCHANGED vars /\ Kept(i) /\ proc'[i] = proc[i]
    /\ lease[i].state = "ACTIVE"
    /\ authority'[i].at = "read"
    /\ authority'[i].revision = lease[i].revision
    /\ \A s \in Slot : authority'[i].owned[s] = IF HeldBy(i, s) THEN slot[s].epoch ELSE 0

\* It is granted its lease.
Granting(i) ==
    /\ RenewInstance(i, ownershipRevision[i])
    /\ Kept(i) /\ proc'[i] = proc[i]
    /\ authority[i].at = "anchored"
    /\ authority'[i] = [at |-> "granted", anchor |-> authority[i].anchor]

\* It publishes the grant.
Publishing(i) ==
    /\ UNCHANGED vars /\ proc'[i] = proc[i] /\ Up(i)
    /\ ownershipRevision'[i] = ownershipRevision[i]
    /\ authority[i].at = "granted"
    /\ localDeadline'[i] = Deadline(i)
    /\ clock < Deadline(i)
    /\ \A s \in Slot :
        /\ slots'[i][s].epoch = slots[i][s].epoch
        /\ slots[i][s].open => slots'[i][s] = slots[i][s]
    /\ authority'[i].at \notin {"read", "granted"}

\* It makes the authority it read its own.
Applying(i) ==
    /\ UNCHANGED vars /\ Up(i) /\ proc'[i] = "initialized"
    /\ authority[i].at = "read"
    /\ authority[i].revision >= ownershipRevision[i]
    /\ ownershipRevision'[i] = authority[i].revision
    /\ localDeadline'[i] = localDeadline[i]
    /\ \A s \in Slot :
        /\ slots'[i][s].epoch = authority[i].owned[s]
        /\ slots'[i][s].open => slots'[i][s] = slots[i][s]
        /\ slots[i][s].epoch = authority[i].owned[s] => slots'[i][s] = slots[i][s]
    /\ authority'[i].at \notin {"read", "granted"}

\* It drops its gates.
Dropping(i) ==
    /\ UNCHANGED vars
    /\ proc'[i] \in {"detached", "crashed"}
    /\ authority'[i] = authority[i] \/ authority'[i].at \notin {"read", "granted"}
    /\ \A s \in Slot : slots'[i][s].epoch = 0

LEMMA AuthorityKinds ==
    ASSUME LocalOK, NEW i \in Instance, AuthorityNext(i)
    PROVE  Steady(i) \/ Reading(i) \/ Granting(i) \/ Publishing(i) \/ Applying(i)
<1>0. /\ authority \in [Instance -> Section] /\ authority[i] \in Section
      /\ proc \in [Instance -> ProcState]
      /\ ownershipRevision \in [Instance -> Nat]
      /\ localDeadline \in [Instance -> Nat]
      /\ slots \in [Instance -> [Slot -> Gate]]
      /\ Unlocked.at = "idle"
  BY DEF LocalOK, Loops, Gates, Unlocked
<1>1. ASSUME Kept(i), proc'[i] = proc[i],
             NEW state, Lock(i, state), state.at \notin {"read", "granted"}
      PROVE  Steady(i)
  BY <1>0, <1>1 DEF Lock, Steady
<1>2. ASSUME UNCHANGED <<proc, ownershipRevision, localDeadline, slots>>
      PROVE  Kept(i) /\ proc'[i] = proc[i]
  BY <1>2 DEF Kept
<1>3. \A then : Syncing(then).at = "sync"
  BY DEF Syncing
<1>4. \A attempt : Anchored(attempt).at = "anchored"
  BY DEF Anchored
<1>5. CASE Register(i)
  BY <1>1, <1>2, <1>3, <1>5 DEF Register
<1>6. CASE StartRenew(i) \/ Reanchor(i)
  BY <1>1, <1>2, <1>4, <1>6 DEF StartRenew, Reanchor
<1>7. CASE Renew(i)
  <2> DEFINE granted == [at |-> "granted", anchor |-> authority[i].anchor]
  <2>1. UNCHANGED <<proc, ownershipRevision, localDeadline, slots>> /\ authority[i].at = "anchored"
    BY <1>7 DEF Renew
  <2>2. \/ RenewInstance(i, ownershipRevision[i]) /\ Lock(i, granted)
        \/ Lock(i, Unlocked)
        \/ Lock(i, Syncing("again"))
    BY <1>7 DEF Renew, Unlock
  <2>3. Lock(i, granted) => authority'[i] = granted
    BY <1>0 DEF Lock
  <2>4. QED
    BY <1>0, <1>1, <1>2, <1>3, <2>1, <2>2, <2>3 DEF Granting
<1>8. CASE Publish(i)
  <2>1. CASE clock < Deadline(i) /\ Up(i)
    <3>1. /\ UNCHANGED vars /\ proc'[i] = proc[i]
          /\ ownershipRevision'[i] = ownershipRevision[i]
          /\ authority[i].at = "granted"
      BY <1>8 DEF Publish
    <3>2. localDeadline'[i] = Deadline(i)
      BY <1>0, <1>8, <2>1 DEF Publish
    <3>3. slots' = [slots EXCEPT ![i] = Opened(slots[i])]
      BY <1>8, <2>1 DEF Publish
    <3>4. ASSUME NEW s \in Slot
          PROVE  /\ slots'[i][s].epoch = slots[i][s].epoch
                 /\ slots[i][s].open => slots'[i][s] = slots[i][s]
      <4>1. slots'[i][s] = [slots[i][s] EXCEPT !.open = (slots[i][s].epoch # 0)]
        BY <1>0, <3>3 DEF Opened
      <4>2. slots[i][s] \in Gate
        BY <1>0
      <4> DEFINE open == (slots[i][s].epoch # 0)
      <4>3. /\ slots'[i][s] = [slots[i][s] EXCEPT !.open = open]
            /\ slots[i][s].open => open = TRUE
        BY <4>1 DEF LocalOK, Gates
      <4> HIDE DEF open
      <4>4. QED
        BY <4>2, <4>3 DEF Gate
    <3>5. authority'[i] = Unlocked
      BY <1>0, <1>8 DEF Publish, Unlock, Lock
    <3>6. QED
      BY <1>0, <2>1, <3>1, <3>2, <3>4, <3>5 DEF Publishing
  <2>2. CASE ~(clock < Deadline(i) /\ Up(i))
    BY <1>0, <1>1, <1>2, <1>8, <2>2 DEF Publish, Unlock
  <2>3. QED
    BY <2>1, <2>2
<1>9. ASSUME NEW S, Claim(i, S)
      PROVE  Steady(i)
  <2>1. UNCHANGED <<proc, ownershipRevision, localDeadline, slots>>
    BY <1>9 DEF Claim
  <2>2. Lock(i, Syncing("renew")) \/ Lock(i, Syncing("unlock")) \/ UNCHANGED authority
    BY <1>9 DEF Claim
  <2>3. UNCHANGED authority => Steady(i)
    BY <1>2, <2>1 DEF Steady
  <2>4. QED
    BY <1>1, <1>2, <1>3, <2>1, <2>2, <2>3
<1>10. CASE ReadAuthority(i)
  <2> DEFINE read == [at |-> "read", then |-> authority[i].then,
                      revision |-> lease[i].revision,
                      owned |-> [s \in Slot |-> IF HeldBy(i, s) THEN slot[s].epoch ELSE 0]]
  <2>1. UNCHANGED <<proc, ownershipRevision, localDeadline, slots>> /\ UNCHANGED vars
    BY <1>10 DEF ReadAuthority
  <2>2. \/ lease[i].state = "ACTIVE" /\ Lock(i, read)
        \/ Lock(i, Unlocked)
    BY <1>10 DEF ReadAuthority, Unlock
  <2>3. Lock(i, read) => authority'[i] = read
    BY <1>0 DEF Lock
  <2>4. /\ read.at = "read" /\ read.revision = lease[i].revision
        /\ \A s \in Slot : read.owned[s] = IF HeldBy(i, s) THEN slot[s].epoch ELSE 0
    OBVIOUS
  <2> HIDE DEF read
  <2>5. CASE lease[i].state = "ACTIVE" /\ Lock(i, read)
    BY <1>2, <2>1, <2>3, <2>4, <2>5 DEF Reading
  <2>6. CASE Lock(i, Unlocked)
    BY <1>0, <1>1, <1>2, <2>1, <2>6
  <2>7. QED
    BY <2>2, <2>5, <2>6
<1>11. CASE Apply(i)
  <2>0. \A then : AfterSync(then).at \in {"renew", "idle"}
    BY <1>0 DEF AfterSync
  <2>1. CASE Up(i) /\ authority[i].revision >= ownershipRevision[i]
    <3>1. /\ UNCHANGED vars /\ authority[i].at = "read"
          /\ localDeadline'[i] = localDeadline[i]
      BY <1>11 DEF Apply
    <3>2. /\ ownershipRevision' = [ownershipRevision EXCEPT ![i] = authority[i].revision]
          /\ proc' = IF proc[i] = "started" THEN [proc EXCEPT ![i] = "initialized"] ELSE proc
          /\ Lock(i, AfterSync(authority[i].then))
          /\ slots' = [slots EXCEPT ![i] = [s \in Slot |->
                IF Stays(slots[i][s].epoch, authority[i].owned[s]) THEN slots[i][s]
                ELSE [epoch |-> authority[i].owned[s], open |-> FALSE]]]
      BY <1>11, <2>1 DEF Apply
    <3>3. proc'[i] = "initialized"
      BY <1>0, <2>1, <3>2 DEF Up
    <3>4. ownershipRevision'[i] = authority[i].revision
      BY <1>0, <3>2
    <3>5. authority'[i].at \notin {"read", "granted"}
      BY <1>0, <2>0, <3>2 DEF Lock
    <3>6. ASSUME NEW s \in Slot
          PROVE  /\ slots'[i][s].epoch = authority[i].owned[s]
                 /\ slots'[i][s].open => slots'[i][s] = slots[i][s]
                 /\ slots[i][s].epoch = authority[i].owned[s] => slots'[i][s] = slots[i][s]
      <4>1. slots'[i][s] = IF Stays(slots[i][s].epoch, authority[i].owned[s]) THEN slots[i][s]
                           ELSE [epoch |-> authority[i].owned[s], open |-> FALSE]
        BY <1>0, <3>2
      <4>2. QED
        BY <4>1 DEF Stays
    <3>7. QED
      BY <2>1, <3>1, <3>3, <3>4, <3>5, <3>6 DEF Applying
  <2>2. CASE ~(Up(i) /\ authority[i].revision >= ownershipRevision[i])
    <3>1. UNCHANGED <<proc, ownershipRevision, localDeadline, slots>> /\ Lock(i, Unlocked)
      BY <1>11, <2>2 DEF Apply, Unlock
    <3>2. QED
      BY <1>0, <1>1, <1>2, <3>1
  <2>3. QED
    BY <2>1, <2>2
<1>12. QED
  BY <1>5, <1>6, <1>7, <1>8, <1>9, <1>10, <1>11 DEF AuthorityNext

Still(i) ==
    /\ Kept(i) /\ proc'[i] = proc[i] /\ authority'[i] = authority[i]
    /\ drainingSlots'[i] = drainingSlots[i] /\ pass'[i] = pass[i]

\* A process leaves the others alone.
LEMMA OthersStill ==
    ASSUME LocalOK, NEW i \in Instance, NEW j \in Instance, i # j,
           AuthorityNext(j) \/ PassNext(j) \/ ShutdownNext(j) \/ Crash(j)
    PROVE  Still(i)
<1>0. /\ authority \in [Instance -> Section]
      /\ pass \in [Instance -> HandoffLoop]
      /\ proc \in [Instance -> ProcState]
      /\ ownershipRevision \in [Instance -> Nat]
      /\ localDeadline \in [Instance -> Nat]
      /\ slots \in [Instance -> [Slot -> Gate]]
      /\ drainingSlots \in [Instance -> [Slot -> Nat]]
  BY DEF LocalOK, Loops, Gates
<1> DEFINE Locally(v, w) == w = v \/ \E x : w = [v EXCEPT ![j] = x]
<1>1. ASSUME /\ Locally(authority, authority') /\ Locally(pass, pass') /\ Locally(proc, proc')
             /\ Locally(ownershipRevision, ownershipRevision')
             /\ Locally(localDeadline, localDeadline')
             /\ Locally(slots, slots') /\ Locally(drainingSlots, drainingSlots')
      PROVE  Still(i)
  BY <1>0, <1>1 DEF Still, Kept
<1>2. CASE AuthorityNext(j)
  <2>1. UNCHANGED pass \/ ReadAuthority(j) \/ Apply(j)
    BY <1>2 DEF AuthorityNext, Register, StartRenew, Reanchor, Renew, Publish, Claim,
           AuthorityStep
  <2>2. CASE Apply(j)
    <3>1. Locally(pass, pass')
      <4>1. pass' = pass \/ pass' = [pass EXCEPT ![j] = NoPass]
            \/ pass' = [pass EXCEPT ![j].at = "synced"]
        BY <2>2 DEF Apply
      <4>2. QED
        BY <4>1
    <3>2. /\ Locally(authority, authority') /\ Locally(proc, proc')
          /\ Locally(ownershipRevision, ownershipRevision')
          /\ Locally(slots, slots') /\ Locally(drainingSlots, drainingSlots')
      BY <2>2 DEF Apply, Lock, Unlock
    <3>3. localDeadline' = localDeadline
      BY <2>2 DEF Apply
    <3>4. QED
      BY <1>1, <3>1, <3>2, <3>3
  <2>3. CASE ReadAuthority(j)
    <3>1. Locally(authority, authority') /\ Locally(pass, pass')
      BY <2>3 DEF ReadAuthority, Lock, Unlock
    <3>2. UNCHANGED <<proc, ownershipRevision, localDeadline, slots, drainingSlots>>
      BY <2>3 DEF ReadAuthority
    <3>3. QED
      BY <1>1, <3>1, <3>2
  <2>4. CASE ~Apply(j) /\ ~ReadAuthority(j)
    <3>1. UNCHANGED <<proc, ownershipRevision, drainingSlots>>
      BY <1>2, <2>4 DEF AuthorityNext, Register, StartRenew, Reanchor, Renew, Publish, Claim
    <3>2. Locally(authority, authority')
      BY <1>2, <2>4 DEF AuthorityNext, Register, StartRenew, Reanchor, Renew, Publish, Claim,
             Lock, Unlock
    <3>3. Locally(localDeadline, localDeadline') /\ Locally(slots, slots')
      BY <1>2, <2>4 DEF AuthorityNext, Register, StartRenew, Reanchor, Renew, Publish, Claim
    <3>4. QED
      BY <1>1, <2>1, <2>4, <3>1, <3>2, <3>3
  <2>5. QED
    BY <2>2, <2>3, <2>4
<1>3. CASE PassNext(j)
  <2>1. UNCHANGED <<proc, ownershipRevision, localDeadline, slots>>
    BY <1>3 DEF PassNext, ReadHandoffs, DropGates, SyncPass, Decide, Send, PassStep
  <2>2. Locally(authority, authority') /\ Locally(drainingSlots, drainingSlots')
    BY <1>3 DEF PassNext, ReadHandoffs, DropGates, SyncPass, Decide, Send, Lock
  <2>3. Locally(pass, pass')
    <3>1. Decide(j) => Locally(pass, pass')
      BY Zenon DEF Decide
    <3>2. SyncPass(j) => Locally(pass, pass')
      BY DEF SyncPass
    <3>3. QED
      BY <1>3, <3>1, <3>2 DEF PassNext, ReadHandoffs, DropGates, Send
  <2>4. QED
    BY <1>1, <2>1, <2>2, <2>3
<1>4. CASE ShutdownNext(j)
  <2>1. UNCHANGED <<ownershipRevision, localDeadline, authority, pass>>
    BY <1>4 DEF ShutdownNext, Stop, Detach, IncludeHeld, WithdrawSlot, FindDrain,
           AckRelease, FinishShutdown, Retire, ReleaseStep, ShutdownStep
  <2>2. Locally(proc, proc') /\ Locally(slots, slots') /\ Locally(drainingSlots, drainingSlots')
    BY <1>4 DEF ShutdownNext, Stop, Detach, IncludeHeld, WithdrawSlot, FindDrain,
           AckRelease, FinishShutdown, Retire, ReleaseStep
  <2>3. QED
    BY <1>1, <2>1, <2>2
<1>5. CASE Crash(j)
  BY <1>1, <1>5 DEF Crash
<1>6. QED
  BY <1>2, <1>3, <1>4, <1>5

LEMMA Kinds ==
    ASSUME LocalOK, [HANext]_haVars, NEW i \in Instance
    PROVE  Steady(i) \/ Reading(i) \/ Granting(i) \/ Publishing(i) \/ Applying(i) \/ Dropping(i)
<1>0. /\ proc \in [Instance -> ProcState] /\ slots \in [Instance -> [Slot -> Gate]]
      /\ authority \in [Instance -> Section]
  BY DEF LocalOK, Gates, Loops
<1>1. Still(i) => Steady(i)
  BY DEF Still, Steady
<1>2. CASE Pass \/ Coordinate \/ UNCHANGED haVars
  BY <1>1, <1>2 DEF Pass, Coordinate, haVars, local, Still, Kept
<1>3. ASSUME NEW c \in Caller, CallNext(c)
      PROVE  Steady(i)
  <2>1. UNCHANGED <<ownershipRevision, localDeadline, slots, authority>>
    BY <1>3 DEF CallNext, Enter, BeginGate, BeginDeadline, Advance, EndBound, EndGate,
           EndDeadline, Refill, Wake, Reserve, GiveUp, CallStep, Check
  <2>2. proc' = proc \/ proc' = [proc EXCEPT ![call[c].inst] = "fenced"]
    BY <1>3 DEF CallNext, Enter, BeginGate, BeginDeadline, Advance, EndBound, EndGate,
           EndDeadline, Refill, Wake, Reserve, GiveUp, Check
  <2>3. QED
    BY <1>0, <2>1, <2>2 DEF Steady, Kept
<1>4. CASE PassNext(i)
  <2>1. UNCHANGED <<proc, ownershipRevision, localDeadline, slots>>
    BY <1>4 DEF PassNext, ReadHandoffs, DropGates, SyncPass, Decide, Send, PassStep
  <2>2. authority' = authority \/ Lock(i, Syncing("pass"))
    BY <1>4 DEF PassNext, ReadHandoffs, DropGates, SyncPass, Decide, Send
  <2>3. QED
    BY <1>0, <2>1, <2>2 DEF Steady, Kept, Lock, Syncing
<1>5. CASE ShutdownNext(i)
  <2>1. UNCHANGED <<ownershipRevision, localDeadline, authority>>
    BY <1>5 DEF ShutdownNext, Stop, Detach, IncludeHeld, WithdrawSlot, FindDrain,
           AckRelease, FinishShutdown, Retire, ReleaseStep, ShutdownStep
  <2>2. Detach(i) => Dropping(i)
    <3>1. Detach(i) => /\ slots' = [slots EXCEPT ![i] = [s \in Slot |-> NoGate]]
                       /\ proc' = [proc EXCEPT ![i] = "detached"]
                       /\ UNCHANGED vars
      BY Zenon DEF Detach
    <3>2. QED
      BY <1>0, <2>1, <3>1 DEF Dropping, NoGate
  <2>3. ~Detach(i) => UNCHANGED slots
    BY <1>5 DEF ShutdownNext, Stop, IncludeHeld, WithdrawSlot, FindDrain,
           AckRelease, FinishShutdown, Retire, ReleaseStep
  <2>4. ~Detach(i) => \/ proc' = proc
                      \/ proc' = [proc EXCEPT ![i] = "stopping"]
                      \/ proc[i] = "detached" /\ proc' = [proc EXCEPT ![i] = "releasing"]
                      \/ proc[i] = "releasing" /\ proc' = [proc EXCEPT ![i] = "gone"]
    BY <1>5 DEF ShutdownNext, Stop, IncludeHeld, WithdrawSlot, FindDrain,
           AckRelease, FinishShutdown, Retire, ReleaseStep
  <2>5. QED
    BY <1>0, <2>1, <2>2, <2>3, <2>4 DEF Steady, Kept
<1>6. CASE Crash(i)
  BY <1>0, <1>6 DEF Crash, Dropping, NoGate, Unlocked
<1>7. QED
  BY <1>1, <1>2, <1>3, <1>4, <1>5, <1>6, AuthorityKinds, OthersStill DEF HANext

-----------------------------------------------------------------------------
\* What a process takes for its authority.

\* An epoch of i at s is over: it will never be listed as i's again.
Closed(i, s, epoch) ==
    slot[s].epoch > epoch \/ (slot[s].epoch = epoch /\ ~HeldBy(i, s))

\* Before the first synchronization and after the last one there are no gates.
ProcInv(i) ==
    /\ proc[i] = "started" =>
        ownershipRevision[i] = 0 /\ \A s \in Slot : slots[i][s].epoch = 0
    /\ proc[i] \in {"detached", "releasing", "gone", "crashed"} =>
        \A s \in Slot : slots[i][s].epoch = 0

\* What a process knows of a slot is not ahead of storage, and a gate it is about to
\* drop is over.
EpochInv(i, s) ==
    /\ slots[i][s].epoch <= slot[s].epoch
    /\ authority[i].at = "read" =>
        /\ authority[i].owned[s] <= slot[s].epoch
        /\ slots[i][s].epoch \notin {0, authority[i].owned[s]} =>
             Closed(i, s, slots[i][s].epoch)

\* The revisions a process knows are not ahead of storage, and the one storage is at
\* comes with the slots storage lists.
RevisionInv(i) ==
    Up(i) /\ lease[i].state = "ACTIVE" =>
        /\ ownershipRevision[i] <= lease[i].revision
        /\ ownershipRevision[i] = lease[i].revision => \A s \in Slot :
            slots[i][s].epoch # 0 => HeldBy(i, s) /\ slot[s].epoch = slots[i][s].epoch
        /\ authority[i].at = "read" =>
            /\ authority[i].revision <= lease[i].revision
            /\ authority[i].revision = lease[i].revision => \A s \in Slot :
                authority[i].owned[s] = IF HeldBy(i, s) THEN slot[s].epoch ELSE 0

LEMMA UpStep ==
    ASSUME LocalOK, [HANext]_haVars, NEW i \in Instance, Up(i)'
    PROVE  Up(i)
  BY Kinds DEF Up, Steady, Reading, Granting, Publishing, Applying, Dropping

LEMMA ProcStep ==
    ASSUME LocalOK, [HANext]_haVars, NEW i \in Instance, ProcInv(i)
    PROVE  ProcInv(i)'
<1>1. CASE Steady(i) \/ Reading(i) \/ Granting(i)
  BY <1>1 DEF Steady, Reading, Granting, Kept, ProcInv
<1>2. CASE Publishing(i)
  BY <1>2 DEF Publishing, Up, ProcInv
<1>3. CASE Applying(i)
  BY <1>3 DEF Applying, ProcInv
<1>4. CASE Dropping(i)
  BY <1>4 DEF Dropping, ProcInv
<1>5. QED
  BY <1>1, <1>2, <1>3, <1>4, Kinds

LEMMA ClosedStep ==
    ASSUME TypeOK, [Next]_vars, NEW i \in Instance, NEW s \in Slot, NEW epoch \in Nat,
           Closed(i, s, epoch)
    PROVE  Closed(i, s, epoch)'
<1>1. slot[s].epoch \in Nat /\ slot'[s].epoch \in Nat
  BY TypeNext DEF TypeOK, SlotRow
<1>2. i # None
  BY NoneAssumption
<1>3. QED
  BY <1>1, <1>2, EpochStep DEF Closed, HeldBy

LEMMA LocalEpochs ==
    ASSUME LocalOK, NEW i \in Instance, NEW s \in Slot
    PROVE  /\ slots[i][s].epoch \in Nat
           /\ authority[i].at = "read" =>
                authority[i].revision \in Nat /\ authority[i].owned[s] \in Nat
           /\ drainingSlots[i][s] \in Nat
           /\ ownershipRevision[i] \in Nat
<1>1. slots[i][s] \in Gate /\ authority[i] \in Section
  BY DEF LocalOK, Gates, Loops
<1>2. authority[i].at = "read" =>
        authority[i].revision \in Nat /\ authority[i].owned[s] \in Nat
  BY <1>1 DEF Section, Unlocked
<1>3. QED
  BY <1>1, <1>2 DEF LocalOK, Gates, Gate

LEMMA EpochInvStep ==
    ASSUME TypeOK, LocalOK, [HANext]_haVars, NEW i \in Instance, NEW s \in Slot,
           EpochInv(i, s)
    PROVE  EpochInv(i, s)'
<1>0. /\ [Next]_vars
      /\ slot[s].epoch \in Nat /\ slot'[s].epoch \in Nat
      /\ slot'[s].epoch >= slot[s].epoch
  BY StepImplements, TypeNext, EpochStep DEF TypeOK, SlotRow
<1>1. \A epoch \in Nat : Closed(i, s, epoch) => Closed(i, s, epoch)'
  BY <1>0, ClosedStep
<1>2. CASE Steady(i) \/ Granting(i) \/ Publishing(i)
  <2>1. slots'[i][s].epoch = slots[i][s].epoch
    BY <1>2 DEF Steady, Granting, Publishing, Kept
  <2>2. authority'[i] = authority[i] \/ authority'[i].at # "read"
    BY <1>2 DEF Steady, Granting, Publishing
  <2>3. slots[i][s].epoch \in Nat /\ (authority[i].at = "read" => authority[i].owned[s] \in Nat)
    BY LocalEpochs
  <2>4. Closed(i, s, slots[i][s].epoch) => Closed(i, s, slots[i][s].epoch)'
    BY <1>1, <2>1, <2>3 DEF Closed, HeldBy
  <2>5. QED
    BY <1>0, <2>1, <2>2, <2>3, <2>4 DEF EpochInv, Closed, HeldBy
<1>3. CASE Reading(i)
  <2>1. slot' = slot
    BY <1>3 DEF Reading, vars
  <2>2. QED
    BY <1>0, <1>3, <2>1, LocalEpochs DEF Reading, Kept, EpochInv, Closed, HeldBy
<1>4. CASE Applying(i)
  <2>1. slot' = slot
    BY <1>4 DEF Applying, vars
  <2>2. QED
    BY <1>0, <1>4, <2>1, LocalEpochs DEF Applying, EpochInv
<1>5. CASE Dropping(i)
  <2>1. slot' = slot
    BY <1>5 DEF Dropping, vars
  <2>2. QED
    BY <1>0, <1>5, <2>1, LocalEpochs DEF Dropping, EpochInv
<1>6. QED
  BY <1>2, <1>3, <1>4, <1>5, Kinds

LEMMA AuthorityUnchanged ==
    ASSUME NEW i \in Instance, Authority(i)' = Authority(i), NEW s \in Slot
    PROVE  /\ HeldBy(i, s)' <=> HeldBy(i, s)
           /\ HeldBy(i, s) => slot'[s].epoch = slot[s].epoch
<1>1. HeldBy(i, s) <=> \E epoch : <<s, epoch>> \in Authority(i)
  BY DEF Authority
<1>2. HeldBy(i, s)' <=> \E epoch : <<s, epoch>> \in Authority(i)'
  BY DEF Authority
<1>3. ASSUME HeldBy(i, s)
      PROVE  slot'[s].epoch = slot[s].epoch
  <2>1. <<s, slot[s].epoch>> \in Authority(i)'
    BY <1>3 DEF Authority
  <2>2. QED
    BY <2>1 DEF Authority
<1>4. QED
  BY <1>1, <1>2, <1>3

LEMMA RevisionInvStep ==
    ASSUME TypeOK, LocalOK, [HANext]_haVars, NEW i \in Instance, ProcInv(i), RevisionInv(i)
    PROVE  RevisionInv(i)'
<1> SUFFICES ASSUME Up(i)', lease'[i].state = "ACTIVE"
             PROVE  /\ ownershipRevision'[i] <= lease'[i].revision
                    /\ ownershipRevision'[i] = lease'[i].revision => \A s \in Slot :
                        slots'[i][s].epoch # 0 =>
                            HeldBy(i, s)' /\ slot'[s].epoch = slots'[i][s].epoch
                    /\ authority'[i].at = "read" =>
                        /\ authority'[i].revision <= lease'[i].revision
                        /\ authority'[i].revision = lease'[i].revision => \A s \in Slot :
                            authority'[i].owned[s] =
                                IF HeldBy(i, s)' THEN slot'[s].epoch ELSE 0
  BY DEF RevisionInv
<1>0. /\ [Next]_vars /\ Up(i)
      /\ lease[i].revision \in Nat /\ lease'[i].revision \in Nat
      /\ ownershipRevision[i] \in Nat
      /\ authority[i].at = "read" => authority[i].revision \in Nat
  <2>1. [Next]_vars /\ Up(i)
    BY StepImplements, UpStep
  <2>2. lease[i].revision \in Nat /\ lease'[i].revision \in Nat
    BY <2>1, TypeNext DEF TypeOK, LeaseRow
  <2>3. authority[i] \in Section /\ ownershipRevision[i] \in Nat
    BY DEF LocalOK, Gates, Loops
  <2>4. QED
    BY <2>1, <2>2, <2>3 DEF Section, Unlocked
<1>1. CASE Register(i) /\ lease'[i].revision = 0
  <2>1. /\ proc[i] = "started"
        /\ UNCHANGED <<ownershipRevision, slots>>
        /\ authority' = [authority EXCEPT ![i] = Syncing("renew")]
    BY <1>1 DEF Register, Lock
  <2>2. authority'[i].at = "sync"
    BY <2>1 DEF Syncing, LocalOK, Loops
  <2>3. QED
    BY <1>1, <2>1, <2>2 DEF ProcInv
<1>2. CASE LeaseKept(i)
  <2>1. lease[i].state = "ACTIVE" /\ lease'[i].revision >= lease[i].revision
    BY <1>2 DEF LeaseKept
  <2>2. ASSUME lease'[i].revision = lease[i].revision
        PROVE  \A s \in Slot : /\ HeldBy(i, s)' <=> HeldBy(i, s)
                               /\ HeldBy(i, s) => slot'[s].epoch = slot[s].epoch
    <3>1. Authority(i)' = Authority(i)
      BY <1>0, <2>2, RevisionStep
    <3>2. QED
      BY <3>1, AuthorityUnchanged
  <2>3. UNCHANGED vars => lease'[i] = lease[i] /\ slot' = slot
    BY DEF vars
  <2>4. CASE Steady(i) \/ Granting(i)
    <3>1. /\ ownershipRevision'[i] = ownershipRevision[i] /\ slots'[i] = slots[i]
          /\ authority'[i] = authority[i] \/ authority'[i].at # "read"
      BY <2>4 DEF Steady, Granting, Kept
    <3>2. QED
      BY <1>0, <2>1, <2>2, <3>1 DEF RevisionInv
  <2>5. CASE Reading(i)
    BY <1>0, <2>1, <2>2, <2>3, <2>5 DEF Reading, Kept, RevisionInv
  <2>6. CASE Publishing(i)
    BY <1>0, <2>1, <2>2, <2>3, <2>6 DEF Publishing, RevisionInv
  <2>7. CASE Applying(i)
    BY <1>0, <2>1, <2>2, <2>3, <2>7 DEF Applying, RevisionInv
  <2>8. CASE Dropping(i)
    BY <2>8 DEF Dropping, Up
  <2>9. QED
    BY <2>4, <2>5, <2>6, <2>7, <2>8, Kinds
<1>3. QED
  BY <1>1, <1>2, LeaseEffect

\* What the processes take for their authority, all of it.
AuthorityKnown ==
    /\ OwnedEpochs
    /\ \A i \in Instance : ProcInv(i) /\ RevisionInv(i)
    /\ \A i \in Instance, s \in Slot : EpochInv(i, s)

\* It always holds: a process never knows more than storage, and the revision it
\* acknowledged comes with the slots of that revision.
THEOREM KnownAuthority == HASpec => []AuthorityKnown
<1>1. HAInit => AuthorityKnown
  BY DEF HAInit, Init, NoLease, NoGate, Unlocked, AuthorityKnown, OwnedEpochs, ProcInv,
         RevisionInv, EpochInv
<1>2. TypeOK /\ LocalOK /\ AuthorityKnown /\ [HANext]_haVars => AuthorityKnown'
  <2> SUFFICES ASSUME TypeOK, LocalOK, AuthorityKnown, [HANext]_haVars
               PROVE  AuthorityKnown'
    OBVIOUS
  <2>1. OwnedEpochs'
    BY StepImplements, OwnedEpochsStep DEF AuthorityKnown
  <2>2. \A i \in Instance : ProcInv(i)' /\ RevisionInv(i)'
    BY ProcStep, RevisionInvStep DEF AuthorityKnown
  <2>3. \A i \in Instance, s \in Slot : EpochInv(i, s)'
    BY EpochInvStep DEF AuthorityKnown
  <2>4. QED
    BY <2>1, <2>2, <2>3 DEF AuthorityKnown
<1>3. HASpec => []TypeOK /\ []LocalOK
  BY Implementation, TypeCorrect, LocalTypes
<1>4. QED
  BY <1>1, <1>2, <1>3, PTL DEF HASpec

\* The gates are closed before the revision is acknowledged, for any number of
\* instances and slots.
THEOREM AcknowledgedHolds == HASpec => []AcknowledgedGates
<1>1. AuthorityKnown => AcknowledgedGates
  BY DEF AuthorityKnown, RevisionInv, AcknowledgedGates
<1>2. QED
  BY <1>1, KnownAuthority, PTL

-----------------------------------------------------------------------------
\* Withdrawn gates.

\* The gate of an epoch is not in use, and will not be again.
Gone(i, s, epoch) ==
    /\ slots[i][s].epoch # epoch
    /\ Up(i) =>
        /\ Closed(i, s, epoch)
        /\ authority[i].at = "read" => authority[i].owned[s] # epoch

\* Nor is anyone inside it.
Drained(i, s, epoch) == epoch # 0 /\ Gone(i, s, epoch) /\ Inflight(i, s, epoch) = {}

LEMMA GoneStep ==
    ASSUME TypeOK, LocalOK, [HANext]_haVars, NEW i \in Instance, NEW s \in Slot,
           NEW epoch \in Nat, epoch # 0, Gone(i, s, epoch)
    PROVE  Gone(i, s, epoch)'
<1>0. [Next]_vars /\ slot[s].epoch \in Nat
  BY StepImplements DEF TypeOK, SlotRow
<1>1. Up(i)' => Up(i) /\ Closed(i, s, epoch)'
  BY <1>0, UpStep, ClosedStep DEF Gone
<1>2. CASE Steady(i) \/ Granting(i) \/ Publishing(i)
  <2>1. slots'[i][s].epoch = slots[i][s].epoch
    BY <1>2 DEF Steady, Granting, Publishing, Kept
  <2>2. authority'[i] = authority[i] \/ authority'[i].at # "read"
    BY <1>2 DEF Steady, Granting, Publishing
  <2>3. QED
    BY <1>1, <2>1, <2>2 DEF Gone
<1>3. CASE Reading(i)
  <2>1. slots'[i][s].epoch = slots[i][s].epoch
    BY <1>3 DEF Reading, Kept
  <2>2. Up(i) => authority'[i].owned[s] # epoch
    BY <1>0, <1>3 DEF Reading, Gone, Closed
  <2>3. QED
    BY <1>1, <2>1, <2>2 DEF Gone
<1>4. CASE Applying(i)
  BY <1>1, <1>4 DEF Applying, Gone
<1>5. CASE Dropping(i)
  <2>1. ~Up(i)'
    BY <1>5 DEF Dropping, Up
  <2>2. QED
    BY <1>5, <2>1 DEF Dropping, Gone
<1>6. QED
  BY <1>2, <1>3, <1>4, <1>5, Kinds

LEMMA EditedCall ==
    ASSUME NEW r \in Call, r.at # "idle", NEW id, NEW at, NEW late
    PROVE  /\ [r EXCEPT !.id = id, !.at = at, !.late = late].inst = r.inst
           /\ [r EXCEPT !.id = id, !.at = at, !.late = late].slot = r.slot
           /\ [r EXCEPT !.id = id, !.at = at, !.late = late].epoch = r.epoch
           /\ [r EXCEPT !.at = at, !.id = id, !.late = late].inst = r.inst
           /\ [r EXCEPT !.at = at, !.id = id, !.late = late].slot = r.slot
           /\ [r EXCEPT !.at = at, !.id = id, !.late = late].epoch = r.epoch
  BY DEF Call, NoCall

LEMMA CallEffect ==
    ASSUME LocalOK, [HANext]_haVars, NEW c \in Caller, call'[c].at # "idle"
    PROVE  \/ /\ call[c].at # "idle" /\ call'[c].inst = call[c].inst
              /\ call'[c].slot = call[c].slot /\ call'[c].epoch = call[c].epoch
           \/ slots[call'[c].inst][call'[c].slot].epoch = call'[c].epoch
<1> DEFINE Same == /\ call[c].at # "idle" /\ call'[c].inst = call[c].inst
                   /\ call'[c].slot = call[c].slot /\ call'[c].epoch = call[c].epoch
<1>0. call \in [Caller -> Call] /\ call[c] \in Call
  BY DEF LocalOK, Ids
<1>1. call'[c] = call[c] => Same
  OBVIOUS
<1>2. ASSUME NEW d \in Caller, CallNext(d), d # c
      PROVE  call'[c] = call[c]
  BY <1>0, <1>2 DEF CallNext, Enter, BeginGate, BeginDeadline, Advance, EndBound, EndGate,
         EndDeadline, Refill, Wake, Reserve, GiveUp, Check, Leave, Goto
<1>3. ASSUME NEW i \in Instance, NEW s \in Slot, Enter(c, i, s)
      PROVE  slots[call'[c].inst][call'[c].slot].epoch = call'[c].epoch
  BY <1>0, <1>3 DEF Enter
<1>4. Leave(c) => call'[c].at = "idle"
  BY <1>0 DEF Leave, NoCall
<1>5. ASSUME call[c].at # "idle"
      PROVE  /\ \A label : Goto(c, label) => Same
             /\ \A label, t : call' = [call EXCEPT ![c].at = label, ![c].started = t] => Same
             /\ \A label, r : call' = [call EXCEPT ![c].at = label, ![c].revision = r] => Same
  BY <1>0, <1>5 DEF Goto, Call, NoCall
<1>11. ASSUME call[c].at # "idle", NEW label, NEW id, NEW late,
              \/ call' = [call EXCEPT ![c].at = label, ![c].id = id, ![c].late = late]
              \/ call' = [call EXCEPT ![c].id = id, ![c].at = label, ![c].late = late]
      PROVE  Same
  <2> DEFINE q == [call[c] EXCEPT !.at = label, !.id = id, !.late = late]
             p == [call[c] EXCEPT !.id = id, !.at = label, !.late = late]
  <2>1. /\ q.inst = call[c].inst /\ q.slot = call[c].slot /\ q.epoch = call[c].epoch
        /\ p.inst = call[c].inst /\ p.slot = call[c].slot /\ p.epoch = call[c].epoch
    BY <1>0, <1>11, EditedCall
  <2>2. call'[c] = q \/ call'[c] = p
    BY <1>0, <1>11
  <2> HIDE DEF q, p
  <2>3. QED
    BY <1>11, <2>1, <2>2
<1> HIDE DEF Same
<1>6. ASSUME CallNext(c)
      PROVE  Same \/ slots[call'[c].inst][call'[c].slot].epoch = call'[c].epoch
  <2>1. CASE BeginGate(c)
    BY <1>4, <1>5, <2>1 DEF BeginGate
  <2>2. CASE BeginDeadline(c) \/ EndGate(c)
    BY <1>4, <1>5, <2>2 DEF BeginDeadline, EndGate, Check
  <2>3. CASE Advance(c)
    <3> DEFINE range == cache[call[c].inst][call[c].slot]
               id == IF Current(c) /\ range.next <= range.end THEN range.next ELSE 0
               label == IF Current(c) /\ range.fresh THEN "dry" ELSE "advanced"
               late == \/ slot[call[c].slot].owner # call[c].inst
                       \/ slot[call[c].slot].epoch # call[c].epoch
    <3>1. /\ call[c].at = "begun"
          /\ call' = [call EXCEPT ![c].id = id, ![c].at = label, ![c].late = late]
      BY <2>3 DEF Advance
    <3> HIDE DEF id, label, late, range
    <3>2. QED
      BY <1>11, <3>1, Zenon
  <2>4. CASE EndBound(c) \/ EndDeadline(c)
    BY <1>4, <1>5, <2>4 DEF EndBound, EndDeadline
  <2>5. CASE Refill(c)
    <3> DEFINE standby == cache[call[c].inst][call[c].slot].standby
               late == \/ slot[call[c].slot].owner # call[c].inst
                       \/ slot[call[c].slot].epoch # call[c].epoch
    <3>1. /\ call[c].at = "dry"
          /\ \/ call' = [call EXCEPT ![c].at = "advanced", ![c].id = standby, ![c].late = late]
             \/ Goto(c, "waiting")
             \/ call' = [call EXCEPT ![c].at = "reserving",
                                     ![c].revision = ownershipRevision[call[c].inst]]
      BY <2>5 DEF Refill
    <3> HIDE DEF late, standby
    <3>2. call[c].at # "idle"
      BY <3>1
    <3>3. ASSUME call' = [call EXCEPT ![c].at = "advanced", ![c].id = standby, ![c].late = late]
          PROVE  Same
      BY <1>11, <3>2, <3>3
    <3>4. QED
      BY <1>5, <3>1, <3>2, <3>3, Zenon
  <2>6. CASE Wake(c) \/ Reserve(c) \/ GiveUp(c)
    BY <1>4, <1>5, <2>6 DEF Wake, Reserve, GiveUp
  <2>7. QED
    BY <1>3, <1>6, <2>1, <2>2, <2>3, <2>4, <2>5, <2>6 DEF CallNext
<1>7. ASSUME NEW i \in Instance, Crash(i)
      PROVE  Same
  BY <1>0, <1>1, <1>7 DEF Crash, NoCall
<1>8. ASSUME NEW i \in Instance, AuthorityNext(i) \/ PassNext(i) \/ ShutdownNext(i)
      PROVE  Same
  <2>1. AuthorityNext(i) => call' = call
    BY DEF AuthorityNext, Register, StartRenew, Reanchor, Renew, Publish, Claim,
           ReadAuthority, Apply, AuthorityStep
  <2>2. PassNext(i) => call' = call
    BY DEF PassNext, ReadHandoffs, DropGates, SyncPass, Decide, Send, PassStep
  <2>3. ShutdownNext(i) => call' = call
    BY DEF ShutdownNext, Stop, Detach, IncludeHeld, WithdrawSlot, FindDrain,
           AckRelease, FinishShutdown, Retire, ReleaseStep, ShutdownStep
  <2>4. QED
    BY <1>1, <1>8, <2>1, <2>2, <2>3
<1>9. CASE Pass \/ Coordinate \/ UNCHANGED haVars
  BY <1>1, <1>9 DEF Pass, Coordinate, local, haVars
<1>10. QED
  BY <1>1, <1>2, <1>6, <1>7, <1>8, <1>9 DEF HANext, Same

LEMMA DrainedStep ==
    ASSUME TypeOK, LocalOK, [HANext]_haVars, NEW i \in Instance, NEW s \in Slot,
           NEW epoch \in Nat, Drained(i, s, epoch)
    PROVE  Drained(i, s, epoch)'
<1>1. Gone(i, s, epoch)'
  BY GoneStep DEF Drained
<1>2. ASSUME NEW c \in Caller, call'[c].at # "idle", call'[c].inst = i, call'[c].slot = s,
             call'[c].epoch = epoch
      PROVE  FALSE
  BY <1>2, CallEffect DEF Drained, Gone, Inflight
<1>3. QED
  BY <1>1, <1>2 DEF Drained, Inflight

\* What drainingSlots keeps is over, a pass acknowledges only drains that are over, and
\* so is every drain storage holds acknowledged.
WithdrawnInv(i, s) == drainingSlots[i][s] # 0 => Gone(i, s, drainingSlots[i][s])

PassInv(i, s) ==
    /\ pass[i].at # "idle" /\ pass[i].rows[s].phase = "DRAINING" =>
        pass[i].rows[s].epoch # 0
    /\ pass[i].at = "send" /\ pass[i].command[s] = "ACK_DRAIN" =>
        Drained(i, s, pass[i].rows[s].epoch)

DrainInv(s) ==
    handoff[s].phase = "DRAINING" /\ handoff[s].drained =>
        Drained(handoff[s].source, s, handoff[s].epoch)

LEMMA WithdrawnStep ==
    ASSUME TypeOK, LocalOK, [HANext]_haVars, NEW i \in Instance, NEW s \in Slot,
           EpochInv(i, s), WithdrawnInv(i, s)
    PROVE  WithdrawnInv(i, s)'
<1>0. /\ drainingSlots \in [Instance -> [Slot -> Nat]] /\ slots \in [Instance -> [Slot -> Gate]]
      /\ slots[i][s].epoch \in Nat
  BY LocalEpochs DEF LocalOK, Gates
<1>1. \A epoch \in Nat : epoch # 0 /\ Gone(i, s, epoch) => Gone(i, s, epoch)'
  BY GoneStep
<1>2. ASSUME drainingSlots'[i][s] \in {drainingSlots[i][s], 0}
      PROVE  WithdrawnInv(i, s)'
  <2>1. CASE drainingSlots'[i][s] = 0
    BY <2>1 DEF WithdrawnInv
  <2>2. CASE drainingSlots'[i][s] = drainingSlots[i][s] /\ drainingSlots[i][s] # 0
    <3>1. PICK epoch \in Nat : epoch = drainingSlots[i][s]
      BY <1>0
    <3>2. Gone(i, s, epoch)'
      BY <1>1, <2>2, <3>1 DEF WithdrawnInv
    <3>3. QED
      BY <2>2, <3>1, <3>2 DEF WithdrawnInv, Gone, Closed, HeldBy
  <2>3. QED
    BY <1>2, <2>1, <2>2
<1>3. CASE Dropping(i) /\ drainingSlots'[i][s] \in Nat
  <2>1. ~Up(i)'
    BY <1>3 DEF Dropping, Up
  <2>2. QED
    BY <1>3, <2>1 DEF Dropping, WithdrawnInv, Gone
<1>4. CASE Apply(i)
  <2>1. CASE Up(i) /\ authority[i].revision >= ownershipRevision[i]
    <3>1. CASE slots[i][s].epoch # 0 /\ ~Stays(slots[i][s].epoch, authority[i].owned[s])
      <4>1. drainingSlots'[i][s] = slots[i][s].epoch
        BY <1>0, <1>4, <2>1, <3>1 DEF Apply
      <4>2. /\ slots'[i][s].epoch = authority[i].owned[s]
            /\ authority[i].at = "read"
            /\ slot' = slot
        BY <1>0, <1>4, <2>1, <3>1 DEF Apply, Stays, vars
      <4>3. authority'[i].at # "read"
        BY <1>4, <2>1 DEF Apply, Lock, AfterSync, Unlocked, LocalOK, Loops
      <4>4. Closed(i, s, slots[i][s].epoch) /\ slots[i][s].epoch # authority[i].owned[s]
        BY <3>1, <4>2 DEF EpochInv, Stays
      <4>5. QED
        BY <4>1, <4>2, <4>3, <4>4 DEF WithdrawnInv, Gone, Closed, HeldBy
    <3>2. CASE ~(slots[i][s].epoch # 0 /\ ~Stays(slots[i][s].epoch, authority[i].owned[s]))
      <4>1. drainingSlots'[i][s] = drainingSlots[i][s]
        BY <1>0, <1>4, <2>1, <3>2 DEF Apply
      <4>2. QED
        BY <1>2, <4>1
    <3>3. QED
      BY <3>1, <3>2
  <2>2. CASE ~(Up(i) /\ authority[i].revision >= ownershipRevision[i])
    BY <1>2, <1>4, <2>2 DEF Apply
  <2>3. QED
    BY <2>1, <2>2
<1>5. CASE AuthorityNext(i) /\ ~Apply(i)
  <2>1. drainingSlots' = drainingSlots
    BY <1>5 DEF AuthorityNext, Register, StartRenew, Reanchor, Renew, Publish, Claim,
           ReadAuthority
  <2>2. QED
    BY <1>2, <2>1
<1>6. CASE PassNext(i)
  <2>1. CASE DropGates(i)
    BY <1>0, <1>2, <2>1 DEF DropGates
  <2>2. CASE ~DropGates(i)
    <3>1. drainingSlots' = drainingSlots
      BY <1>6, <2>2 DEF PassNext, ReadHandoffs, SyncPass, Decide, Send
    <3>2. QED
      BY <1>2, <3>1
  <2>3. QED
    BY <2>1, <2>2
<1>7. CASE ShutdownNext(i)
  <2>1. CASE Detach(i)
    <3>1. Dropping(i)
      <4>1. Detach(i) => /\ slots' = [slots EXCEPT ![i] = [t \in Slot |-> NoGate]]
                         /\ proc' = [proc EXCEPT ![i] = "detached"]
                         /\ UNCHANGED vars
        BY Zenon DEF Detach
      <4>2. authority' = authority
        BY <2>1 DEF Detach, ShutdownStep
      <4>3. proc \in [Instance -> ProcState]
        BY DEF LocalOK, Gates
      <4>4. QED
        BY <1>0, <2>1, <4>1, <4>2, <4>3 DEF Dropping, NoGate
    <3>2. drainingSlots'[i][s] \in Nat
      <4>1. LocalOK'
        BY LocalTypesStep
      <4>2. QED
        BY <4>1 DEF LocalOK, Gates
    <3>3. QED
      BY <1>3, <3>1, <3>2
  <2>2. CASE ~Detach(i)
    <3>1. drainingSlots' = drainingSlots
      BY <1>7, <2>2 DEF ShutdownNext, Stop, IncludeHeld, WithdrawSlot, FindDrain,
             AckRelease, FinishShutdown, Retire, ReleaseStep
    <3>2. QED
      BY <1>2, <3>1
  <2>3. QED
    BY <2>1, <2>2
<1>8. CASE Crash(i)
  BY <1>0, <1>2, <1>8 DEF Crash
<1>9. ASSUME NEW c \in Caller, CallNext(c)
      PROVE  WithdrawnInv(i, s)'
  <2>1. drainingSlots' = drainingSlots
    BY <1>9 DEF CallNext, Enter, BeginGate, BeginDeadline, Advance, EndBound, EndGate,
           EndDeadline, Refill, Wake, Reserve, GiveUp, CallStep, Check
  <2>2. QED
    BY <1>2, <2>1
<1>10. CASE Pass \/ Coordinate \/ UNCHANGED haVars
  BY <1>2, <1>10 DEF Pass, Coordinate, local, haVars
<1>11. ASSUME NEW j \in Instance, i # j,
              AuthorityNext(j) \/ PassNext(j) \/ ShutdownNext(j) \/ Crash(j)
       PROVE  WithdrawnInv(i, s)'
  BY <1>2, <1>11, OthersStill DEF Still
<1>12. QED
  BY <1>4, <1>5, <1>6, <1>7, <1>8, <1>9, <1>10, <1>11 DEF HANext

\* A step of the pass: none, the end of it, one that keeps its rows and decides nothing,
\* or one of those that do.
LEMMA PassKinds ==
    ASSUME LocalOK, [HANext]_haVars, NEW i \in Instance
    PROVE  \/ pass'[i] = pass[i]
           \/ pass'[i].at = "idle"
           \/ /\ pass[i].at # "idle" /\ pass'[i].at # "send"
              /\ pass'[i].rows = pass[i].rows
           \/ ReadHandoffs(i)
           \/ Decide(i)
           \/ \E s \in Slot : Send(i, s)
<1> DEFINE Goal == \/ pass'[i] = pass[i]
                   \/ pass'[i].at = "idle"
                   \/ /\ pass[i].at # "idle" /\ pass'[i].at # "send"
                      /\ pass'[i].rows = pass[i].rows
                   \/ ReadHandoffs(i)
                   \/ Decide(i)
                   \/ \E s \in Slot : Send(i, s)
<1> SUFFICES Goal
  OBVIOUS
<1>0. /\ pass \in [Instance -> HandoffLoop] /\ pass[i] \in HandoffLoop
      /\ NoPass.at = "idle"
      /\ authority[i].at = "read" /\ authority[i].then = "pass" => pass[i].at = "syncing"
  BY DEF LocalOK, Loops, NoPass
<1>1. pass' = pass => Goal
  OBVIOUS
<1>2. pass' = [pass EXCEPT ![i] = NoPass] => Goal
  BY <1>0
<1>3. ASSUME NEW at, at # "send", pass[i].at \in {"dropped", "syncing"},
             pass' = [pass EXCEPT ![i].at = at]
      PROVE  Goal
  <2>1. pass[i] \in [at: {"read", "dropped", "syncing", "synced"}, rows: [Slot -> HandoffRow]]
    BY <1>0, <1>3 DEF HandoffLoop, NoPass
  <2>2. pass'[i] = [pass[i] EXCEPT !.at = at]
    BY <1>0, <1>3
  <2>3. pass'[i].at = at /\ pass'[i].rows = pass[i].rows
    BY <2>1, <2>2
  <2>4. QED
    BY <1>3, <2>3
<1>4. CASE DropGates(i)
  <2> DEFINE rows == pass[i].rows
             dropped == [at |-> "dropped", rows |-> rows]
  <2>1. pass' = [pass EXCEPT ![i] = NoPass] \/ pass' = [pass EXCEPT ![i] = dropped]
    BY <1>4 DEF DropGates
  <2>2. dropped.at = "dropped" /\ dropped.rows = rows /\ pass[i].at = "read"
    BY <1>4 DEF DropGates
  <2> HIDE DEF dropped
  <2>3. pass' = [pass EXCEPT ![i] = dropped] => Goal
    BY <1>0, <2>2
  <2>4. QED
    BY <1>2, <2>1, <2>3
<1>5. CASE AuthorityNext(i)
  <2>1. CASE ReadAuthority(i)
    BY <1>1, <1>2, <2>1 DEF ReadAuthority
  <2>2. CASE Apply(i)
    <3>1. \/ pass' = pass \/ pass' = [pass EXCEPT ![i] = NoPass]
          \/ /\ authority[i].at = "read" /\ authority[i].then = "pass"
             /\ pass' = [pass EXCEPT ![i].at = "synced"]
      BY <2>2 DEF Apply
    <3>2. QED
      BY <1>0, <1>1, <1>2, <1>3, <3>1
  <2>3. CASE ~ReadAuthority(i) /\ ~Apply(i)
    BY <1>1, <1>5, <2>3 DEF AuthorityNext, Register, StartRenew, Reanchor, Renew, Publish,
           Claim, AuthorityStep
  <2>4. QED
    BY <2>1, <2>2, <2>3
<1>6. CASE PassNext(i)
  <2>1. CASE SyncPass(i)
    <3>1. pass[i].at = "dropped" /\ pass' = [pass EXCEPT ![i].at = "syncing"]
      BY <2>1 DEF SyncPass
    <3>2. QED
      BY <1>3, <3>1
  <2>2. QED
    BY <1>4, <1>6, <2>1 DEF PassNext
<1>7. CASE ShutdownNext(i)
  BY <1>1, <1>7 DEF ShutdownNext, Stop, Detach, IncludeHeld, WithdrawSlot, FindDrain,
         AckRelease, FinishShutdown, Retire, ReleaseStep, ShutdownStep
<1>8. CASE Crash(i)
  BY <1>2, <1>8 DEF Crash
<1>9. ASSUME NEW j \in Instance, i # j,
             AuthorityNext(j) \/ PassNext(j) \/ ShutdownNext(j) \/ Crash(j)
      PROVE  Goal
  BY <1>9, OthersStill DEF Still
<1>10. ASSUME NEW c \in Caller, CallNext(c)
       PROVE  Goal
  BY <1>1, <1>10 DEF CallNext, Enter, BeginGate, BeginDeadline, Advance, EndBound, EndGate,
         EndDeadline, Refill, Wake, Reserve, GiveUp, CallStep, Check
<1>11. CASE Pass \/ Coordinate \/ UNCHANGED haVars
  BY <1>1, <1>11 DEF Pass, Coordinate, local, haVars
<1> HIDE DEF Goal
<1>12. QED
  BY <1>5, <1>6, <1>7, <1>8, <1>9, <1>10, <1>11 DEF HANext

\* An active drain is at an epoch.
LEMMA DrainEpoch ==
    ASSUME TypeOK, AuthorityInv, OwnedEpochs, NEW s \in Slot, handoff[s].phase = "DRAINING"
    PROVE  handoff[s].epoch # 0 /\ handoff[s].epoch \in Nat /\ handoff[s].source \in Instance
<1>1. slot[s] \in SlotRow /\ slot[s].state = "DRAINING" /\ SourceMatches(s)
  BY DEF TypeOK, AuthorityInv, HandoffMatchesSlot
<1>2. slot[s].owner # None
  BY <1>1 DEF TypeOK
<1>3. QED
  BY <1>1, <1>2 DEF OwnedEpochs, SourceMatches, SlotRow

LEMMA DrainAction ==
    ASSUME NEW i, NEW s, NEW row, Action(i, s, row) = "ACK_DRAIN"
    PROVE  row.phase = "DRAINING" /\ Quiet(i, s, row.epoch)
<1>1. CASE row.target = i /\ InTime(i)
  <2> DEFINE installed == slots[i][s] = [epoch |-> row.epoch + 1, open |-> TRUE]
             active == row.phase = "TRANSFERRED" /\ installed
             command == CASE row.phase = "PLANNED" -> "PREPARE"
                          [] row.phase = "READY" -> "BEGIN"
                          [] row.phase = "DRAINING" -> IF row.ready THEN "TRANSFER" ELSE "PREPARE"
                          [] active -> "ACK_ACTIVE"
                          [] OTHER -> "NONE"
  <2>1. Action(i, s, row) = command
    BY <1>1 DEF Action
  <2>2. active => row.phase = "TRANSFERRED"
    OBVIOUS
  <2> HIDE DEF active
  <2>3. command # "ACK_DRAIN"
    BY <2>2
  <2>4. QED
    BY <2>1, <2>3
<1>2. CASE ~(row.target = i /\ InTime(i))
  BY <1>2 DEF Action
<1>3. QED
  BY <1>1, <1>2

LEMMA PassInvStep ==
    ASSUME TypeOK, AuthorityInv, OwnedEpochs, LocalOK, [HANext]_haVars,
           NEW i \in Instance, NEW s \in Slot, WithdrawnInv(i, s), PassInv(i, s)
    PROVE  PassInv(i, s)'
<1>0. /\ pass \in [Instance -> HandoffLoop] /\ pass[i] \in HandoffLoop /\ NoPass.at = "idle"
      /\ pass[i].at # "idle" => pass[i].rows \in [Slot -> HandoffRow]
      /\ pass[i].at # "idle" => pass[i].rows[s].epoch \in Nat
  <2>1. pass \in [Instance -> HandoffLoop] /\ pass[i] \in HandoffLoop /\ NoPass.at = "idle"
    BY DEF LocalOK, Loops, NoPass
  <2>2. pass[i].at # "idle" => pass[i].rows \in [Slot -> HandoffRow]
    BY <2>1 DEF HandoffLoop
  <2>3. QED
    BY <2>1, <2>2 DEF HandoffRow
<1>1. \A epoch \in Nat : Drained(i, s, epoch) => Drained(i, s, epoch)'
  BY DrainedStep
<1>2. ASSUME pass'[i].at = "idle"
      PROVE  PassInv(i, s)'
  BY <1>2 DEF PassInv
<1>3. ASSUME pass[i].at # "idle", pass'[i].rows = pass[i].rows,
             pass'[i].at = "send" /\ pass'[i].command[s] = "ACK_DRAIN" =>
                Drained(i, s, pass[i].rows[s].epoch)
      PROVE  PassInv(i, s)'
  <2>1. PICK epoch \in Nat : epoch = pass[i].rows[s].epoch
    BY <1>0, <1>3
  <2>2. Drained(i, s, epoch) => Drained(i, s, epoch)'
    BY <1>1
  <2>3. pass'[i].at = "send" /\ pass'[i].command[s] = "ACK_DRAIN" => Drained(i, s, epoch)'
    BY <1>3, <2>1, <2>2
  <2>4. Drained(i, s, epoch)' => Drained(i, s, pass[i].rows[s].epoch)'
    BY <1>3, <2>1 DEF Drained, Gone, Closed, HeldBy, Inflight
  <2>5. QED
    BY <1>3, <2>3, <2>4 DEF PassInv
<1>4. CASE pass'[i] = pass[i]
  BY <1>2, <1>3, <1>4 DEF PassInv
<1>5. CASE pass[i].at # "idle" /\ pass'[i].at # "send" /\ pass'[i].rows = pass[i].rows
  BY <1>3, <1>5
<1>6. CASE ReadHandoffs(i)
  <2> DEFINE row == IF i \in {handoff[s].source, handoff[s].target}
                    THEN handoff[s] ELSE NoHandoff
  <2>1. pass'[i].at = "read" /\ pass'[i].rows[s] = row
    BY <1>0, <1>6 DEF ReadHandoffs
  <2>2. row.phase = "DRAINING" => row.epoch # 0
    BY DrainEpoch DEF NoHandoff
  <2> HIDE DEF row
  <2>3. QED
    BY <2>1, <2>2 DEF PassInv
<1>7. CASE Decide(i)
  <2> DEFINE rows == pass[i].rows
             action(t) == Action(i, t, rows[t])
             wanted == {t \in Slot : action(t) # "NONE"}
  <2>1. PICK K \in Batches(wanted, rows) :
          pass' = [pass EXCEPT ![i] =
              IF K = {} THEN NoPass
              ELSE [at |-> "send", rows |-> rows, revision |-> ownershipRevision[i],
                    command |-> [t \in Slot |-> IF t \in K THEN action(t) ELSE "NONE"]]]
    BY <1>7 DEF Decide
  <2>2. pass[i].at = "synced"
    BY <1>7 DEF Decide
  <2>3. CASE K = {}
    BY <1>0, <1>2, <2>1, <2>3
  <2>4. CASE K # {}
    <3>1. /\ pass'[i].at = "send" /\ pass'[i].rows = rows
          /\ pass'[i].command[s] = IF s \in K THEN action(s) ELSE "NONE"
      BY <1>0, <2>1, <2>4
    <3>2. ASSUME Action(i, s, rows[s]) = "ACK_DRAIN"
          PROVE  Drained(i, s, rows[s].epoch)
      <4>1. rows[s].phase = "DRAINING" /\ Quiet(i, s, rows[s].epoch)
        BY <3>2, DrainAction
      <4>2. rows[s].epoch # 0
        BY <2>2, <4>1 DEF PassInv
      <4>3. QED
        BY <4>1, <4>2 DEF Quiet, Drained, WithdrawnInv
    <3>3. QED
      BY <1>3, <2>2, <3>1, <3>2
  <2>5. QED
    BY <2>3, <2>4
<1>8. ASSUME NEW t \in Slot, Send(i, t)
      PROVE  PassInv(i, s)'
  <2> DEFINE rest == [pass[i].command EXCEPT ![t] = "NONE"]
             sent == [pass[i] EXCEPT !.command = rest]
  <2>1. /\ pass[i].at = "send"
        /\ pass' = [pass EXCEPT ![i] = NoPass] \/ pass' = [pass EXCEPT ![i] = sent]
    BY <1>8 DEF Send
  <2>2. pass[i] \in [at: {"send"}, rows: [Slot -> HandoffRow], revision: Nat,
                     command: [Slot -> {"NONE", "PREPARE", "BEGIN", "TRANSFER", "ACK_DRAIN",
                                        "ACK_ACTIVE"}]]
    BY <1>0, <2>1 DEF HandoffLoop
  <2>3. rest[s] = "ACK_DRAIN" => pass[i].command[s] = "ACK_DRAIN"
    BY <2>2
  <2> HIDE DEF rest
  <2>4. sent.at = "send" /\ sent.rows = pass[i].rows /\ sent.command = rest
    BY <2>2
  <2> HIDE DEF sent
  <2>5. pass'[i] \in {NoPass, sent}
    BY <1>0, <2>1
  <2>6. QED
    BY <1>0, <1>2, <1>3, <2>1, <2>3, <2>4, <2>5 DEF PassInv
<1>9. QED
  BY <1>2, <1>4, <1>5, <1>6, <1>7, <1>8, PassKinds

LEMMA DrainInvStep ==
    ASSUME TypeOK, AuthorityInv, OwnedEpochs, DrainedRows, LocalOK, [HANext]_haVars,
           NEW s \in Slot, \A i \in Instance : ProcInv(i) /\ PassInv(i, s), DrainInv(s)
    PROVE  DrainInv(s)'
<1> SUFFICES ASSUME handoff'[s].phase = "DRAINING", handoff'[s].drained
             PROVE  Drained(handoff[s].source, s, handoff[s].epoch)'
  BY DEF DrainInv
<1>1. ASSUME handoff[s].phase = "DRAINING",
             handoff'[s].source = handoff[s].source, handoff'[s].epoch = handoff[s].epoch,
             Drained(handoff[s].source, s, handoff[s].epoch)
      PROVE  Drained(handoff[s].source, s, handoff[s].epoch)'
  <2>1. PICK i \in Instance, epoch \in Nat :
          i = handoff[s].source /\ epoch = handoff[s].epoch
    BY <1>1, DrainEpoch
  <2>2. Drained(i, s, epoch)'
    BY <1>1, <2>1, DrainedStep
  <2>3. QED
    BY <1>1, <2>1, <2>2 DEF Drained, Gone, Closed, HeldBy, Inflight, Up
<1>2. CASE DrainKept(s)
  BY <1>1, <1>2 DEF DrainKept, DrainInv
<1>3. ASSUME NEW i \in Instance, Acknowledged(i, s)
      PROVE  Drained(handoff[s].source, s, handoff[s].epoch)'
  <2>1. /\ handoff[s].phase = "DRAINING" /\ handoff[s].source = i
        /\ handoff' = [handoff EXCEPT ![s].drained = TRUE]
    BY <1>3 DEF Acknowledged, AckDrain
  <2>2. handoff'[s].source = i /\ handoff'[s].epoch = handoff[s].epoch
    <3>1. handoff'[s] = [handoff[s] EXCEPT !.drained = TRUE] /\ handoff[s] \in HandoffRow
      BY <2>1 DEF TypeOK
    <3>2. QED
      BY <2>1, <3>1 DEF HandoffRow
  <2>3. handoff[s].epoch # 0
    BY <2>1, DrainEpoch
  <2>4. CASE /\ Send(i, s) /\ SameHandoff(s, pass[i].rows[s])
             /\ pass[i].command[s] = "ACK_DRAIN"
    <3>1. pass[i].at = "send" /\ handoff[s].epoch = pass[i].rows[s].epoch
      BY <2>4 DEF Send, SameHandoff
    <3>2. QED
      BY <1>1, <2>1, <2>2, <2>4, <3>1 DEF PassInv
  <2>5. CASE AckRelease(i, s) /\ ReadBack(s, releases[i][s])
    <3>1. proc[i] = "releasing" /\ Inflight(i, s, handoff[s].epoch) = {}
      BY <2>5 DEF AckRelease, ReleaseStep, ReadBack
    <3>2. slots[i][s].epoch = 0 /\ ~Up(i)
      BY <3>1 DEF ProcInv, Up
    <3>3. Drained(i, s, handoff[s].epoch)
      BY <2>3, <3>1, <3>2 DEF Drained, Gone
    <3>4. QED
      BY <1>1, <2>1, <2>2, <3>3
  <2>6. QED
    BY <1>3, <2>4, <2>5 DEF Acknowledged
<1>4. QED
  BY <1>2, <1>3, DrainEffect

\* What is known of withdrawn gates, all of it.
DrainsKnown ==
    /\ DrainedRows
    /\ \A i \in Instance, s \in Slot : WithdrawnInv(i, s) /\ PassInv(i, s)
    /\ \A s \in Slot : DrainInv(s)

\* It always holds: a gate that is withdrawn is over, a pass acknowledges only such a
\* drain, and so does a shutdown.
THEOREM KnownDrains == HASpec => []DrainsKnown
<1>1. HAInit => DrainsKnown
  BY DEF HAInit, Init, NoHandoff, NoPass, DrainsKnown, DrainedRows, WithdrawnInv, PassInv,
         DrainInv
<1>2. /\ TypeOK /\ AuthorityInv /\ LocalOK /\ AuthorityKnown /\ DrainsKnown
      /\ [HANext]_haVars
      => DrainsKnown'
  <2> SUFFICES ASSUME TypeOK, AuthorityInv, LocalOK, AuthorityKnown, DrainsKnown,
                      [HANext]_haVars
               PROVE  DrainsKnown'
    OBVIOUS
  <2>1. DrainedRows'
    BY StepImplements, DrainedRowsStep DEF DrainsKnown
  <2>2. \A i \in Instance, s \in Slot : WithdrawnInv(i, s)'
    BY WithdrawnStep DEF DrainsKnown, AuthorityKnown
  <2>3. \A i \in Instance, s \in Slot : PassInv(i, s)'
    BY PassInvStep DEF DrainsKnown, AuthorityKnown
  <2>4. \A s \in Slot : DrainInv(s)'
    BY DrainInvStep DEF DrainsKnown, AuthorityKnown
  <2>5. QED
    BY <2>1, <2>2, <2>3, <2>4 DEF DrainsKnown
<1>3. HASpec => []TypeOK /\ []AuthorityInv /\ []LocalOK
  BY Implementation, TypeCorrect, AuthorityHolds, LocalTypes
<1>4. QED
  BY <1>1, <1>2, <1>3, KnownAuthority, PTL DEF HASpec

\* An acknowledged drain is over, for any number of instances, slots and callers: no
\* call is inside the gate of that epoch, and the gate is not in use.
THEOREM DrainedHolds == HASpec => []DrainedIsQuiet
<1>1. DrainsKnown => DrainedIsQuiet
  BY DEF DrainsKnown, DrainInv, Drained, Gone, DrainedIsQuiet
<1>2. QED
  BY <1>1, KnownDrains, PTL

-----------------------------------------------------------------------------
\* Gates inside the local deadline.

\* Storage backs the gate of i at s until this deadline: the slot is still i's at that
\* epoch, and i renewed it no earlier than the deadline says.
Backed(i, s, epoch, deadline) ==
    /\ slot[s].owner = i
    /\ slot[s].epoch = epoch
    /\ deadline + SafetyMargin <= horizon[s] + Lease

\* The deadline in force, and the one that is granted but not published yet.
BackedInv(i, s) ==
    /\ Up(i) /\ slots[i][s].open /\ InTime(i) =>
        Backed(i, s, slots[i][s].epoch, localDeadline[i])
    /\ Up(i) /\ authority[i].at = "granted" /\ slots[i][s].epoch # 0 /\ clock < Deadline(i) =>
        Backed(i, s, slots[i][s].epoch, Deadline(i))

LEMMA BackedStep ==
    ASSUME TypeOK, AuthorityInv, LocalOK, AuthorityKnown, DrainsKnown, HorizonPast,
           [HANext]_haVars, NEW i \in Instance, NEW s \in Slot, NEW epoch \in Nat,
           NEW deadline \in Int, clock < deadline,
           slots[i][s].epoch = epoch, epoch # 0, Backed(i, s, epoch, deadline)
    PROVE  Backed(i, s, epoch, deadline)'
<1>0. /\ [Next]_vars /\ i # None
      /\ horizon[s] \in Nat /\ now \in Nat /\ clock \in Nat
      /\ horizon[s] <= now /\ now <= clock + MaxSkew
      /\ Lease \in Nat /\ SafetyMargin \in Nat \ {0} /\ MaxSkew \in Nat /\ MaxPause \in Nat
      /\ QuietWindow \in Nat /\ QuietWindow >= Lease + MaxPause + MaxSkew + SafetyMargin
  BY StepImplements, NoneAssumption, ConstantTypes DEF TypeOK, LocalOK, Clocks, HorizonPast
<1>1. slot[s].owner = i /\ slot[s].epoch = epoch /\ deadline + SafetyMargin <= horizon[s] + Lease
  BY DEF Backed
<1>2. ~(now >= horizon[s] + QuietWindow)
  BY <1>0, <1>1
<1>3. ~(slot[s].state = "DRAINING" /\ handoff[s].drained)
  <2>1. ASSUME slot[s].state = "DRAINING", handoff[s].drained
        PROVE  FALSE
    <3>1. handoff[s].phase = "DRAINING" /\ SourceMatches(s)
      BY <2>1 DEF AuthorityInv, HandoffMatchesSlot
    <3>2. handoff[s].source = i /\ handoff[s].epoch = epoch
      BY <1>1, <3>1 DEF SourceMatches
    <3>3. Drained(i, s, epoch)
      BY <2>1, <3>1, <3>2 DEF DrainsKnown, DrainInv
    <3>4. QED
      BY <3>3 DEF Drained, Gone
  <2>2. QED
    BY <2>1
<1>4. slot'[s].owner = i /\ slot'[s].epoch = epoch
  BY <1>0, <1>1, <1>2, <1>3, TakeoverStep
<1>5. horizon'[s] \in {horizon[s], now}
  BY <1>0, <1>1, <1>4, HorizonStep
<1>6. deadline + SafetyMargin <= horizon'[s] + Lease
  BY <1>0, <1>1, <1>5
<1>7. QED
  BY <1>4, <1>6 DEF Backed

LEMMA BackedInvStep ==
    ASSUME TypeOK, AuthorityInv, LocalOK, AuthorityKnown, DrainsKnown, HorizonPast,
           [HANext]_haVars, NEW i \in Instance, NEW s \in Slot, BackedInv(i, s)
    PROVE  BackedInv(i, s)'
<1>0. /\ clock \in Nat /\ clock' \in Nat /\ clock <= clock' /\ clock <= now /\ now \in Nat
      /\ Lease \in Nat /\ SafetyMargin \in Nat
  BY ClocksStep, LocalTypesStep, ConstantTypes DEF LocalOK, Clocks, Pass, TypeOK
<1>1. /\ slots[i][s].epoch \in Nat /\ localDeadline[i] \in Nat
      /\ slots[i][s].open => slots[i][s].epoch # 0
      /\ slots'[i][s].open => slots'[i][s].epoch # 0
  BY LocalEpochs, LocalTypesStep DEF LocalOK, Gates
<1>2. authority[i].at \in {"anchored", "granted"} =>
        /\ authority[i].anchor \in Nat /\ authority[i].anchor <= clock
        /\ Deadline(i) \in Int
  <2>1. authority[i] \in Section
    BY DEF LocalOK, Loops
  <2>2. authority[i].at \in {"anchored", "granted"} => authority[i].anchor \in Nat
    BY <2>1 DEF Section, Unlocked
  <2>3. QED
    BY <1>0, <2>2 DEF LocalOK, Loops, Deadline
<1>3. Up(i)' => Up(i)
  BY UpStep
<1>4. \A epoch \in Nat, deadline \in Int :
        clock < deadline /\ slots[i][s].epoch = epoch /\ epoch # 0
            /\ Backed(i, s, epoch, deadline)
        => Backed(i, s, epoch, deadline)'
  BY BackedStep
\* The deadline in force stays backed while the gate stays.
<1>5. ASSUME localDeadline'[i] = localDeadline[i],
             slots'[i][s].open => slots'[i][s] = slots[i][s],
             Up(i)', slots'[i][s].open, InTime(i)'
      PROVE  Backed(i, s, slots[i][s].epoch, localDeadline[i])'
  <2>1. PICK epoch \in Nat, deadline \in Int :
          epoch = slots[i][s].epoch /\ deadline = localDeadline[i]
    BY <1>1
  <2>2. InTime(i) /\ slots[i][s].open /\ Up(i)
    BY <1>0, <1>1, <1>3, <1>5 DEF InTime
  <2>3. Backed(i, s, epoch, deadline)'
    BY <1>1, <1>4, <2>1, <2>2 DEF BackedInv, InTime
  <2>4. QED
    BY <1>5, <2>1, <2>3 DEF Backed
<1>6. CASE Steady(i)
  <2>1. slots'[i] = slots[i] /\ localDeadline'[i] = localDeadline[i]
    BY <1>6 DEF Steady, Kept
  <2>2. authority'[i] = authority[i] \/ authority'[i].at # "granted"
    BY <1>6 DEF Steady
  <2>3. ASSUME Up(i)', authority'[i].at = "granted", slots'[i][s].epoch # 0,
               clock' < Deadline(i)'
        PROVE  Backed(i, s, slots[i][s].epoch, Deadline(i))'
    <3>1. authority'[i] = authority[i] /\ Deadline(i)' = Deadline(i)
      BY <2>2, <2>3 DEF Deadline
    <3>2. PICK epoch \in Nat, deadline \in Int :
            epoch = slots[i][s].epoch /\ deadline = Deadline(i)
      BY <1>1, <1>2, <2>3, <3>1
    <3>3. Backed(i, s, epoch, deadline)'
      BY <1>0, <1>3, <1>4, <2>1, <2>3, <3>1, <3>2 DEF BackedInv
    <3>4. QED
      BY <2>1, <3>1, <3>2, <3>3 DEF Backed
  <2>4. QED
    BY <1>5, <2>1, <2>3 DEF BackedInv
<1>7. CASE Reading(i)
  BY <1>5, <1>7 DEF Reading, Kept, BackedInv
<1>8. CASE Granting(i)
  <2>1. slots'[i] = slots[i] /\ localDeadline'[i] = localDeadline[i]
    BY <1>8 DEF Granting, Kept
  <2>2. ASSUME Up(i)', slots'[i][s].epoch # 0
        PROVE  Backed(i, s, slots[i][s].epoch, Deadline(i))'
    <3>1. /\ lease[i].state = "ACTIVE" /\ lease[i].revision = ownershipRevision[i]
          /\ slot' = slot
          /\ horizon' = [t \in Slot |-> IF slot[t].owner = i /\ slot[t].state = "OWNED"
                                        THEN now ELSE horizon[t]]
      BY <1>8 DEF Granting, RenewInstance
    <3>2. HeldBy(i, s) /\ slot[s].epoch = slots[i][s].epoch
      BY <1>3, <2>1, <2>2, <3>1 DEF AuthorityKnown, RevisionInv
    <3>3. horizon'[s] = now
      BY <3>1, <3>2 DEF HeldBy
    <3>4. authority'[i].anchor = authority[i].anchor /\ authority[i].at = "anchored"
      BY <1>8 DEF Granting
    <3>5. Deadline(i)' = authority[i].anchor + Lease - SafetyMargin
      BY <3>4 DEF Deadline
    <3>6. Deadline(i)' + SafetyMargin <= horizon'[s] + Lease
      BY <1>0, <1>2, <3>3, <3>4, <3>5
    <3>7. QED
      BY <2>1, <3>1, <3>2, <3>6 DEF Backed, HeldBy
  <2>3. QED
    BY <1>5, <2>1, <2>2 DEF BackedInv
<1>9. CASE Publishing(i)
  <2>1. /\ slots'[i][s].epoch = slots[i][s].epoch /\ localDeadline'[i] = Deadline(i)
        /\ authority[i].at = "granted" /\ authority'[i].at # "granted"
        /\ clock < Deadline(i) /\ Up(i)
        /\ slot' = slot /\ horizon' = horizon
    BY <1>9 DEF Publishing, vars
  <2>2. ASSUME slots'[i][s].open
        PROVE  Backed(i, s, slots[i][s].epoch, localDeadline[i])'
    <3>1. Backed(i, s, slots[i][s].epoch, Deadline(i))
      BY <1>1, <2>1, <2>2 DEF BackedInv
    <3>2. QED
      BY <2>1, <3>1 DEF Backed
  <2>3. QED
    BY <2>1, <2>2 DEF BackedInv
<1>10. CASE Applying(i)
  BY <1>5, <1>10 DEF Applying, BackedInv
<1>11. CASE Dropping(i)
  BY <1>11 DEF Dropping, Up, BackedInv
<1>12. QED
  BY <1>6, <1>7, <1>8, <1>9, <1>10, <1>11, Kinds

\* The deadlines, all of them.
BackingKnown ==
    /\ HorizonPast
    /\ \A i \in Instance, s \in Slot : BackedInv(i, s)

\* It always holds: storage backs a gate up to the deadline that is in force or about
\* to be, because no takeover is due before it.
THEOREM KnownBacking == HASpec => []BackingKnown
<1>1. HAInit => BackingKnown
  BY DEF HAInit, Init, NoGate, Unlocked, BackingKnown, HorizonPast, BackedInv
<1>2. /\ TypeOK /\ AuthorityInv /\ LocalOK /\ AuthorityKnown /\ DrainsKnown /\ BackingKnown
      /\ [HANext]_haVars
      => BackingKnown'
  <2> SUFFICES ASSUME TypeOK, AuthorityInv, LocalOK, AuthorityKnown, DrainsKnown,
                      BackingKnown, [HANext]_haVars
               PROVE  BackingKnown'
    OBVIOUS
  <2>1. HorizonPast'
    BY StepImplements, HorizonPastStep DEF BackingKnown
  <2>2. \A i \in Instance, s \in Slot : BackedInv(i, s)'
    BY BackedInvStep DEF BackingKnown
  <2>3. QED
    BY <2>1, <2>2 DEF BackingKnown
<1>3. HASpec => []TypeOK /\ []AuthorityInv /\ []LocalOK
  BY Implementation, TypeCorrect, AuthorityHolds, LocalTypes
<1>4. QED
  BY <1>1, <1>2, <1>3, KnownAuthority, KnownDrains, PTL DEF HASpec

\* An open gate inside the local deadline is backed by storage, for any number of
\* instances and slots and any times that keep QuietWindowFloor.
THEOREM ServingHolds == HASpec => []ServingIsBacked
<1>1. BackingKnown => ServingIsBacked
  BY DEF BackingKnown, BackedInv, Backed, ServingIsBacked
<1>2. QED
  BY <1>1, KnownBacking, PTL

-----------------------------------------------------------------------------
\* A call that is under way, and how it goes on.

RunLabel == {"entered", "gated", "begun", "advanced", "bounded", "confirmed", "dry",
             "reserving", "waiting"}

Running ==
    [at: RunLabel, inst: Instance, slot: Slot, epoch: Nat, floor: Nat, started: Nat,
     id: Nat, revision: Nat, late: BOOLEAN]

\* The gate the call went through is open; or it will not be again, or never serve.
OpenTo(r) == slots[r.inst][r.slot] = [epoch |-> r.epoch, open |-> TRUE]
Lost(r) == ~Up(r.inst) \/ Gone(r.inst, r.slot, r.epoch)

\* The slot has moved on; storage backs the call; the call has been at it for too long.
MovedOn(r) == slot[r.slot].owner # r.inst \/ slot[r.slot].epoch # r.epoch
Intact(r) == Backed(r.inst, r.slot, r.epoch, r.started + 1)
Over(r) == clock - r.started > MaxPause

\* The ids of a range, the standby block included.
InRange(range, x) ==
    \/ range.next <= x /\ x <= range.end
    \/ range.standby # 0 /\ range.standby <= x /\ x < range.standby + Step

\* The call finds the ranges of its own gate, and this id among them.
Takes(r, id) ==
    slots[r.inst][r.slot].epoch = r.epoch /\ InRange(cache[r.inst][r.slot], id)

SameRequest(q, r) ==
    r.inst = q.inst /\ r.slot = q.slot /\ r.epoch = q.epoch /\ r.floor = q.floor

SameRest(q, r) == r.started = q.started /\ r.id = q.id /\ r.late = q.late

\* A step of a call from q to r.
Move(q, r) ==
    /\ SameRequest(q, r)
    /\ \/ /\ q.at = "entered" /\ r.at = "gated"
          /\ Up(q.inst) /\ OpenTo(q) /\ r.started = clock
       \/ /\ q.at = "gated" /\ r.at = "begun"
          /\ InTime(q.inst) /\ SameRest(q, r)
       \/ /\ q.at \in {"begun", "dry"} /\ r.at \in {"advanced", "dry"}
          /\ r.started = q.started /\ r.late = MovedOn(q)
          /\ r.id = 0 \/ Takes(q, r.id)
       \/ /\ q.at = "advanced" /\ r.at = "bounded"
          /\ ~Over(q) /\ SameRest(q, r)
       \/ /\ q.at = "bounded" /\ r.at = "confirmed"
          /\ Up(q.inst) /\ OpenTo(q) /\ SameRest(q, r)
       \/ /\ q.at = "confirmed" /\ r.at = "dry"
          /\ q.id = 0 /\ SameRest(q, r)
       \/ /\ q.at \in {"dry", "waiting", "reserving"}
          /\ r.at \in {"waiting", "reserving", "entered"}

LEMMA RunningCalls ==
    ASSUME LocalOK, NEW c \in Caller, call[c].at # "idle"
    PROVE  call[c] \in Running
  BY DEF LocalOK, Ids, Call, NoCall, Running, RunLabel

\* The edits of a call, field by field.
LEMMA GotoFields ==
    ASSUME LocalOK, NEW c \in Caller, call[c].at # "idle", NEW label, Goto(c, label)
    PROVE  /\ call'[c].at = label
           /\ SameRequest(call[c], call'[c]) /\ SameRest(call[c], call'[c])
<1>1. call[c] \in Running /\ call'[c] = [call[c] EXCEPT !.at = label]
  BY RunningCalls DEF Goto, LocalOK, Ids
<1>2. QED
  BY <1>1 DEF Running, SameRequest, SameRest

LEMMA TakeFields ==
    ASSUME LocalOK, NEW c \in Caller, call[c].at # "idle", NEW id, NEW at, NEW late,
           call' = [call EXCEPT ![c].id = id, ![c].at = at, ![c].late = late]
    PROVE  /\ call'[c].at = at /\ call'[c].id = id /\ call'[c].late = late
           /\ call'[c].started = call[c].started /\ SameRequest(call[c], call'[c])
<1> DEFINE r == [call[c] EXCEPT !.id = id, !.at = at, !.late = late]
<1>1. call[c] \in Running /\ call'[c] = r
  BY RunningCalls DEF LocalOK, Ids
<1>2. /\ r.at = at /\ r.id = id /\ r.late = late
      /\ r.started = call[c].started /\ SameRequest(call[c], r)
  BY <1>1 DEF Running, SameRequest
<1> HIDE DEF r
<1>3. QED
  BY <1>1, <1>2

LEMMA LeaveFields ==
    ASSUME LocalOK, NEW c \in Caller, Leave(c)
    PROVE  call'[c] = NoCall /\ call'[c].at = "idle"
  BY DEF Leave, NoCall, LocalOK, Ids

\* A call under way goes on or ends.
LEMMA CallMoves ==
    ASSUME LocalOK, NEW c \in Caller, CallNext(c), call[c].at # "idle",
           call'[c].at # "idle"
    PROVE  Move(call[c], call'[c])
<1> DEFINE q == call[c]
<1>0. q \in Running /\ clock \in Nat
  BY RunningCalls DEF LocalOK, Clocks
<1>1. ~Leave(c)
  BY LeaveFields
<1>2. \A label : Goto(c, label) =>
        call'[c].at = label /\ SameRequest(q, call'[c]) /\ SameRest(q, call'[c])
  BY GotoFields
<1>3. CASE BeginGate(c)
  <2>1. /\ q.at = "entered" /\ Up(q.inst) /\ Open(c)
        /\ call' = [call EXCEPT ![c].at = "gated", ![c].started = clock]
    BY <1>1, <1>3 DEF BeginGate
  <2>2. call'[c] = [call[c] EXCEPT !.at = "gated", !.started = clock]
    BY <2>1 DEF LocalOK, Ids
  <2>3. call'[c].at = "gated" /\ call'[c].started = clock /\ SameRequest(q, call'[c])
    BY <1>0, <2>2 DEF Running, SameRequest
  <2>4. QED
    BY <2>1, <2>3 DEF Move, Open, OpenTo
<1>4. CASE BeginDeadline(c)
  <2>1. q.at = "gated" /\ InTime(q.inst) /\ Goto(c, "begun")
    BY <1>1, <1>4 DEF BeginDeadline, Check
  <2>2. QED
    BY <1>2, <2>1 DEF Move
<1>5. CASE Advance(c)
  <2> DEFINE range == cache[q.inst][q.slot]
             id == IF Current(c) /\ range.next <= range.end THEN range.next ELSE 0
             at == IF Current(c) /\ range.fresh THEN "dry" ELSE "advanced"
             late == slot[q.slot].owner # q.inst \/ slot[q.slot].epoch # q.epoch
  <2>1. /\ q.at = "begun" /\ at \in {"advanced", "dry"} /\ late = MovedOn(q)
        /\ call' = [call EXCEPT ![c].id = id, ![c].at = at, ![c].late = late]
    BY <1>5 DEF Advance, MovedOn
  <2>0. id = 0 \/ Takes(q, id)
    <3>1. range \in CachedRange
      BY <1>0 DEF LocalOK, Ids, Running
    <3>2. range.next \in Nat /\ range.end \in Nat
      BY <3>1 DEF CachedRange
    <3>3. QED
      BY <3>2 DEF Takes, InRange, Current
  <2> HIDE DEF id, at, late
  <2>2. call'[c].at = at /\ call'[c].id = id /\ call'[c].late = late
        /\ call'[c].started = q.started /\ SameRequest(q, call'[c])
    <3>1. call[c].at # "idle"
      BY <2>1
    <3>2. QED
      BY <2>1, <3>1, TakeFields, Zenon
  <2>3. QED
    BY <2>0, <2>1, <2>2 DEF Move
<1>6. CASE EndBound(c)
  <2>1. q.at = "advanced" /\ clock - q.started <= MaxPause /\ Goto(c, "bounded")
    BY <1>1, <1>6 DEF EndBound
  <2>2. ~Over(q)
    BY <1>0, <2>1, ConstantTypes DEF Over, Running
  <2>3. QED
    BY <1>2, <2>1, <2>2 DEF Move
<1>7. CASE EndGate(c)
  <2>1. q.at = "bounded" /\ Up(q.inst) /\ Open(c) /\ Goto(c, "confirmed")
    BY <1>1, <1>7 DEF EndGate, Check
  <2>2. QED
    BY <1>2, <2>1 DEF Move, Open, OpenTo
<1>8. CASE EndDeadline(c)
  <2>1. q.at = "confirmed" /\ q.id = 0 /\ Goto(c, "dry")
    BY <1>1, <1>8 DEF EndDeadline
  <2>2. QED
    BY <1>2, <2>1 DEF Move
<1>9. CASE Refill(c)
  <2> DEFINE standby == cache[q.inst][q.slot].standby
             late == slot[q.slot].owner # q.inst \/ slot[q.slot].epoch # q.epoch
  <2>1. /\ q.at = "dry" /\ late = MovedOn(q)
        /\ \/ /\ Current(c) /\ standby # 0
              /\ call' = [call EXCEPT ![c].at = "advanced", ![c].id = standby, ![c].late = late]
           \/ Goto(c, "waiting")
           \/ call' = [call EXCEPT ![c].at = "reserving",
                                   ![c].revision = ownershipRevision[q.inst]]
    BY <1>9 DEF Refill, MovedOn
  <2>0. Current(c) /\ standby # 0 => Takes(q, standby)
    <3>1. cache[q.inst][q.slot] \in CachedRange
      BY <1>0 DEF LocalOK, Ids, Running
    <3>2. standby \in Nat
      BY <3>1 DEF CachedRange
    <3>3. QED
      BY <3>2, ConstantTypes DEF Takes, InRange, Current
  <2> HIDE DEF standby, late
  <2>2. ASSUME Current(c), standby # 0,
               call' = [call EXCEPT ![c].at = "advanced", ![c].id = standby, ![c].late = late]
        PROVE  Move(q, call'[c])
    <3> DEFINE r == [call[c] EXCEPT !.at = "advanced", !.id = standby, !.late = late]
    <3>1. call'[c] = r
      BY <2>2 DEF LocalOK, Ids
    <3>2. /\ r.at = "advanced" /\ r.late = late /\ r.started = q.started
          /\ r.id = standby /\ SameRequest(q, r)
      BY <1>0 DEF Running, SameRequest
    <3> HIDE DEF r
    <3>3. QED
      BY <2>0, <2>1, <2>2, <3>1, <3>2 DEF Move
  <2>3. ASSUME NEW revision,
               call' = [call EXCEPT ![c].at = "reserving", ![c].revision = revision]
        PROVE  Move(q, call'[c])
    <3>1. call'[c] = [call[c] EXCEPT !.at = "reserving", !.revision = revision]
      BY <2>3 DEF LocalOK, Ids
    <3>2. call'[c].at = "reserving" /\ SameRequest(q, call'[c])
      BY <1>0, <3>1 DEF Running, SameRequest
    <3>3. QED
      BY <2>1, <3>2 DEF Move
  <2>4. Goto(c, "waiting") => Move(q, call'[c])
    BY <1>2, <2>1 DEF Move
  <2>5. QED
    BY <2>1, <2>2, <2>3, <2>4
<1>10. CASE Wake(c) \/ Reserve(c)
  <2>1. q.at \in {"waiting", "reserving"} /\ Goto(c, "entered")
    BY <1>1, <1>10 DEF Wake, Reserve
  <2>2. QED
    BY <1>2, <2>1 DEF Move
<1>11. CASE GiveUp(c)
  BY <1>1, <1>11 DEF GiveUp
<1>12. ASSUME NEW i \in Instance, NEW s \in Slot, Enter(c, i, s)
       PROVE  FALSE
  BY <1>12 DEF Enter
<1>13. QED
  BY <1>3, <1>4, <1>5, <1>6, <1>7, <1>8, <1>9, <1>10, <1>11, <1>12 DEF CallNext

\* What enters a gate.
LEMMA EnteredFields ==
    ASSUME LocalOK, NEW c \in Caller, CallNext(c), call[c].at = "idle"
    PROVE  \E i \in Instance, s \in Slot :
              /\ Enter(c, i, s)
              /\ call'[c].at = "entered" /\ call'[c].inst = i /\ call'[c].slot = s
              /\ call'[c].epoch = slots[i][s].epoch /\ call'[c].floor = Greatest(delivered[s])
<1>1. PICK i \in Instance, s \in Slot : Enter(c, i, s)
  BY DEF CallNext, BeginGate, BeginDeadline, Advance, EndBound, EndGate, EndDeadline, Refill,
         Wake, Reserve, GiveUp
<1> DEFINE floor == Greatest(delivered[s])
           epoch == slots[i][s].epoch
           entered == [at |-> "entered", inst |-> i, slot |-> s, epoch |-> epoch,
                       floor |-> floor, started |-> 0, id |-> 0, revision |-> 0,
                       late |-> FALSE]
<1>2. call' = [call EXCEPT ![c] = entered]
  BY <1>1 DEF Enter
<1> HIDE DEF floor, epoch
<1>3. call'[c] = entered
  BY <1>2 DEF LocalOK, Ids
<1>4. QED
  BY <1>1, <1>3 DEF floor, epoch

-----------------------------------------------------------------------------
\* No late allocation.

\* The labels between the check of the deadline and the end of the call.
Begun == {"begun", "advanced", "bounded", "confirmed", "dry"}

\* What is known of a call under way: its gate is open or over; what it was checked
\* against still stands, or it is too late for it to be answered; and the cursor moved
\* late only if the checks to come refuse it.
RunInv(r) ==
    /\ r.epoch # 0
    /\ OpenTo(r) \/ Lost(r)
    /\ r.at \in Begun \cup {"gated"} => r.started <= clock
    /\ r.at \in Begun => Lost(r) \/ Over(r) \/ Intact(r)
    /\ r.at = "advanced" /\ r.late => Lost(r) \/ Over(r)
    /\ r.at = "bounded" /\ r.late => Lost(r)
    /\ r.at = "confirmed" => ~r.late

\* All that the steps below rest on.
Known ==
    /\ TypeOK /\ AuthorityInv /\ LocalOK
    /\ AuthorityKnown /\ DrainsKnown /\ BackingKnown

LEMMA CallFrame ==
    ASSUME LocalOK, [HANext]_haVars, NEW c \in Caller
    PROVE  CallNext(c) \/ call'[c] = call[c] \/ call'[c].at = "idle"
<1>0. call \in [Caller -> Call]
  BY DEF LocalOK, Ids
<1>1. ASSUME NEW d \in Caller, CallNext(d), d # c
      PROVE  call'[c] = call[c]
  BY <1>0, <1>1 DEF CallNext, Enter, BeginGate, BeginDeadline, Advance, EndBound, EndGate,
         EndDeadline, Refill, Wake, Reserve, GiveUp, Check, Leave, Goto
<1>2. ASSUME NEW i \in Instance, Crash(i)
      PROVE  call'[c] = call[c] \/ call'[c].at = "idle"
  BY <1>0, <1>2 DEF Crash, NoCall
<1>3. ASSUME NEW i \in Instance, AuthorityNext(i) \/ PassNext(i) \/ ShutdownNext(i)
      PROVE  call' = call
  <2>1. AuthorityNext(i) => call' = call
    BY DEF AuthorityNext, Register, StartRenew, Reanchor, Renew, Publish, Claim,
           ReadAuthority, Apply, AuthorityStep
  <2>2. PassNext(i) => call' = call
    BY DEF PassNext, ReadHandoffs, DropGates, SyncPass, Decide, Send, PassStep
  <2>3. ShutdownNext(i) => call' = call
    BY DEF ShutdownNext, Stop, Detach, IncludeHeld, WithdrawSlot, FindDrain,
           AckRelease, FinishShutdown, Retire, ReleaseStep, ShutdownStep
  <2>4. QED
    BY <1>3, <2>1, <2>2, <2>3
<1>4. CASE Pass \/ Coordinate \/ UNCHANGED haVars
  BY <1>4 DEF Pass, Coordinate, local, haVars
<1>5. QED
  BY <1>1, <1>2, <1>3, <1>4 DEF HANext

LEMMA ClockGrows ==
    ASSUME TypeOK, LocalOK, [HANext]_haVars
    PROVE  /\ clock \in Nat /\ clock' \in Nat /\ clock <= clock'
           /\ now \in Nat /\ now <= clock + MaxSkew
<1>1. clock \in Nat /\ now <= clock + MaxSkew /\ clock' \in Nat
  BY LocalTypesStep DEF LocalOK, Clocks
<1>2. QED
  BY <1>1, ClocksStep DEF Pass, TypeOK

\* A gate that is lost stays lost, and an open one stays open until it is lost.
LEMMA LostStep ==
    ASSUME TypeOK, LocalOK, [HANext]_haVars, NEW r \in Running, r.epoch # 0, Lost(r)
    PROVE  Lost(r)'
<1>1. r.inst \in Instance /\ r.slot \in Slot /\ r.epoch \in Nat
  BY DEF Running
<1>2. Gone(r.inst, r.slot, r.epoch) => Gone(r.inst, r.slot, r.epoch)'
  BY <1>1, GoneStep
<1>3. Up(r.inst)' => Up(r.inst)
  BY <1>1, UpStep
<1>4. QED
  BY <1>2, <1>3 DEF Lost

LEMMA OpenStep ==
    ASSUME TypeOK, LocalOK, AuthorityKnown, [HANext]_haVars,
           NEW r \in Running, r.epoch # 0, OpenTo(r)
    PROVE  OpenTo(r)' \/ Lost(r)'
<1> DEFINE i == r.inst
           s == r.slot
<1>1. /\ i \in Instance /\ s \in Slot /\ r.epoch \in Nat
      /\ slots[i][s].epoch = r.epoch /\ slots[i][s].open
  BY DEF Running, OpenTo
<1>2. slots'[i][s] = slots[i][s] => OpenTo(r)'
  BY DEF OpenTo
<1>3. CASE Steady(i) \/ Reading(i) \/ Granting(i)
  BY <1>2, <1>3 DEF Steady, Reading, Granting, Kept
<1>4. CASE Publishing(i)
  BY <1>1, <1>2, <1>4 DEF Publishing
<1>5. CASE Applying(i)
  <2>1. ASSUME authority[i].owned[s] # r.epoch
        PROVE  Gone(i, s, r.epoch)'
    <3>1. Closed(i, s, r.epoch)
      BY <1>1, <1>5, <2>1 DEF AuthorityKnown, EpochInv, Applying
    <3>2. Closed(i, s, r.epoch)'
      BY <3>1, <1>5 DEF Applying, Closed, HeldBy, vars
    <3>3. slots'[i][s].epoch # r.epoch /\ authority'[i].at # "read"
      BY <1>1, <1>5, <2>1 DEF Applying
    <3>4. QED
      BY <3>2, <3>3 DEF Gone
  <2>2. QED
    BY <1>1, <1>2, <1>5, <2>1 DEF Applying, Lost
<1>6. CASE Dropping(i)
  BY <1>6 DEF Dropping, Up, Lost
<1>7. QED
  BY <1>1, <1>3, <1>4, <1>5, <1>6, Kinds

\* Storage does not move on before the call has been at it for too long.
LEMMA IntactStep ==
    ASSUME Known, [HANext]_haVars, NEW r \in Running, r.epoch # 0, r.started <= clock,
           NEW c \in Caller, call[c].at # "idle", SameRequest(call[c], r),
           ~Over(r), Intact(r)
    PROVE  Intact(r)'
<1> DEFINE i == r.inst
           s == r.slot
<1>0. /\ [Next]_vars /\ i # None /\ i \in Instance /\ s \in Slot
      /\ r.epoch \in Nat /\ r.started \in Nat
      /\ TypeOK /\ AuthorityInv /\ LocalOK
      /\ horizon[s] \in Nat /\ horizon[s] <= now
      /\ Lease \in Nat /\ SafetyMargin \in Nat \ {0} /\ MaxSkew \in Nat /\ MaxPause \in Nat
      /\ QuietWindow \in Nat /\ QuietWindow >= Lease + MaxPause + MaxSkew + SafetyMargin
  BY StepImplements, NoneAssumption, ConstantTypes
     DEF Known, Running, TypeOK, BackingKnown, HorizonPast
<1>1. clock \in Nat /\ now \in Nat /\ now <= clock + MaxSkew /\ clock - r.started <= MaxPause
  BY <1>0, ClockGrows DEF Over
<1>2. /\ slot[s].owner = i /\ slot[s].epoch = r.epoch
      /\ (r.started + 1) + SafetyMargin <= horizon[s] + Lease
  BY DEF Intact, Backed
<1>3. ~(now >= horizon[s] + QuietWindow)
  BY <1>0, <1>1, <1>2
<1>4. ~(slot[s].state = "DRAINING" /\ handoff[s].drained)
  <2>1. ASSUME slot[s].state = "DRAINING", handoff[s].drained
        PROVE  FALSE
    <3>1. handoff[s].phase = "DRAINING" /\ SourceMatches(s)
      BY <1>0, <2>1 DEF AuthorityInv, HandoffMatchesSlot
    <3>2. handoff[s].source = i /\ handoff[s].epoch = r.epoch
      BY <1>2, <3>1 DEF SourceMatches
    <3>3. Drained(i, s, r.epoch)
      BY <1>0, <2>1, <3>1, <3>2 DEF Known, DrainsKnown, DrainInv
    <3>4. c \in Inflight(i, s, r.epoch)
      BY DEF Inflight, SameRequest
    <3>5. QED
      BY <3>3, <3>4 DEF Drained
  <2>2. QED
    BY <2>1
<1>5. slot'[s].owner = i /\ slot'[s].epoch = r.epoch
  BY <1>0, <1>2, <1>3, <1>4, TakeoverStep
<1>6. horizon'[s] \in {horizon[s], now}
  BY <1>0, <1>2, <1>5, HorizonStep
<1>7. (r.started + 1) + SafetyMargin <= horizon'[s] + Lease
  BY <1>0, <1>1, <1>2, <1>6
<1>8. QED
  BY <1>5, <1>7 DEF Intact, Backed

\* What is known of a call stays known, whatever step is taken.
LEMMA RunStable ==
    ASSUME Known, [HANext]_haVars, NEW r \in Running,
           NEW c \in Caller, call[c].at # "idle", SameRequest(call[c], r), RunInv(r)
    PROVE  RunInv(r)'
<1>1. /\ clock \in Nat /\ clock' \in Nat /\ clock <= clock'
      /\ r.started \in Nat /\ r.at \in RunLabel /\ r.epoch # 0
      /\ MaxPause \in Nat /\ TypeOK /\ LocalOK /\ AuthorityKnown
  BY ClockGrows, ConstantTypes DEF Known, Running, RunInv
<1>2. Lost(r) => Lost(r)'
  BY <1>1, LostStep
<1>3. OpenTo(r)' \/ Lost(r)'
  BY <1>1, <1>2, OpenStep DEF RunInv
<1>4. Over(r) => Over(r)'
  BY <1>1 DEF Over
<1>5. r.started <= clock /\ Intact(r) => Over(r)' \/ Intact(r)'
  BY <1>1, <1>4, IntactStep
<1>6. r.at \in Begun => r.started <= clock /\ (Lost(r)' \/ Over(r)' \/ Intact(r)')
  BY <1>2, <1>4, <1>5 DEF RunInv
<1>7. r.at \in Begun \cup {"gated"} => r.started <= clock'
  BY <1>1 DEF RunInv
<1>8. /\ r.at = "advanced" /\ r.late => Lost(r)' \/ Over(r)'
      /\ r.at = "bounded" /\ r.late => Lost(r)'
  BY <1>2, <1>4 DEF RunInv
<1>9. r.epoch # 0 /\ (r.at = "confirmed" => ~r.late)
  BY DEF RunInv
<1>10. QED
  BY <1>3, <1>6, <1>7, <1>8, <1>9 DEF RunInv

\* A call that goes on keeps it.
LEMMA RunMoves ==
    ASSUME TypeOK, LocalOK, NEW q \in Running, NEW r \in Running, Move(q, r), RunInv(q),
           BackedInv(q.inst, q.slot)
    PROVE  RunInv(r)
<1>1. /\ q.inst \in Instance /\ q.slot \in Slot /\ q.epoch \in Nat /\ q.epoch # 0
      /\ r.inst = q.inst /\ r.slot = q.slot /\ r.epoch = q.epoch
      /\ q.started \in Nat /\ r.started \in Nat /\ clock \in Nat
      /\ MaxPause \in Nat /\ SafetyMargin \in Nat /\ Lease \in Nat
      /\ horizon[q.slot] \in Nat
      /\ OpenTo(q) \/ Lost(q)
  BY ConstantTypes DEF TypeOK, Move, SameRequest, Running, RunInv, LocalOK, Clocks
<1>2. (OpenTo(r) <=> OpenTo(q)) /\ (Lost(r) <=> Lost(q))
  BY <1>1 DEF OpenTo, Lost
<1>3. r.started = q.started => (Over(r) <=> Over(q)) /\ (Intact(r) <=> Intact(q))
  BY <1>1 DEF Over, Intact
<1>4. OpenTo(q) /\ Up(q.inst) => ~Lost(q)
  BY DEF OpenTo, Lost, Gone
<1>5. Intact(q) => ~MovedOn(q)
  BY DEF Intact, Backed, MovedOn
<1>6. CASE q.at = "entered" /\ r.at = "gated" /\ r.started = clock
  BY <1>1, <1>2, <1>6 DEF RunInv, Begun
<1>7. CASE q.at = "gated" /\ r.at = "begun" /\ InTime(q.inst) /\ SameRest(q, r)
  <2>1. ASSUME ~Lost(q)
        PROVE  Intact(q)
    <3>1. /\ OpenTo(q) /\ Up(q.inst)
          /\ slots[q.inst][q.slot].open /\ slots[q.inst][q.slot].epoch = q.epoch
      BY <1>1, <2>1 DEF OpenTo, Lost
    <3>2. Backed(q.inst, q.slot, q.epoch, localDeadline[q.inst])
      BY <1>7, <3>1 DEF BackedInv
    <3>3. localDeadline[q.inst] \in Nat /\ clock < localDeadline[q.inst] /\ q.started <= clock
      BY <1>1, <1>7 DEF LocalOK, Gates, InTime, RunInv
    <3>4. q.started + 1 <= localDeadline[q.inst]
      BY <1>1, <3>3
    <3>5. localDeadline[q.inst] + SafetyMargin <= horizon[q.slot] + Lease
      BY <3>2 DEF Backed
    <3>6. QED
      BY <1>1, <3>2, <3>3, <3>4, <3>5 DEF Intact, Backed
  <2>2. QED
    BY <1>1, <1>2, <1>3, <1>7, <2>1 DEF RunInv, Begun, SameRest
<1>8. CASE /\ q.at \in {"begun", "dry"} /\ r.at \in {"advanced", "dry"}
           /\ r.started = q.started /\ r.late = MovedOn(q)
  BY <1>1, <1>2, <1>3, <1>5, <1>8 DEF RunInv, Begun
<1>9. CASE q.at = "advanced" /\ r.at = "bounded" /\ ~Over(q) /\ SameRest(q, r)
  BY <1>1, <1>2, <1>3, <1>9 DEF RunInv, Begun, SameRest
<1>10. CASE /\ q.at = "bounded" /\ r.at = "confirmed"
            /\ Up(q.inst) /\ OpenTo(q) /\ SameRest(q, r)
  BY <1>1, <1>2, <1>3, <1>4, <1>10 DEF RunInv, Begun, SameRest
<1>11. CASE q.at = "confirmed" /\ r.at = "dry" /\ SameRest(q, r)
  BY <1>1, <1>2, <1>3, <1>11 DEF RunInv, Begun, SameRest
<1>12. CASE r.at \in {"waiting", "reserving", "entered"}
  BY <1>1, <1>2, <1>12 DEF RunInv, Begun
<1>13. QED
  BY <1>6, <1>7, <1>8, <1>9, <1>10, <1>11, <1>12 DEF Move

\* All calls under way.
CallsKnown == \A r \in Running : (\E c \in Caller : call[c] = r) => RunInv(r)

LEMMA CallsStep ==
    ASSUME Known, CallsKnown, [HANext]_haVars
    PROVE  CallsKnown'
<1>0. TypeOK /\ LocalOK /\ LocalOK'
  BY LocalTypesStep DEF Known
<1> SUFFICES ASSUME NEW r \in Running, NEW c \in Caller, call'[c] = r
             PROVE  RunInv(r)'
  BY DEF CallsKnown
<1>1. r.at # "idle"
  BY DEF Running, RunLabel
<1>2. CASE call[c].at # "idle"
  <2>1. PICK q \in Running : call[c] = q
    BY <1>0, <1>2, RunningCalls
  <2>2. RunInv(q)
    BY <2>1 DEF CallsKnown
  <2>3. q = r \/ Move(q, r)
    BY <1>0, <1>1, <1>2, <2>1, CallFrame, CallMoves
  <2>4. SameRequest(q, r)
    BY <2>3 DEF SameRequest, Move
  <2>5. BackedInv(q.inst, q.slot)
    BY DEF Known, BackingKnown, Running
  <2>6. RunInv(r)
    BY <1>0, <2>2, <2>3, <2>5, RunMoves
  <2>7. QED
    BY <1>2, <2>1, <2>4, <2>6, RunStable
<1>3. CASE call[c].at = "idle"
  <2>1. CallNext(c)
    BY <1>0, <1>1, <1>3, CallFrame
  <2>2. PICK i \in Instance, s \in Slot :
          /\ Enter(c, i, s)
          /\ r.at = "entered" /\ r.inst = i /\ r.slot = s /\ r.epoch = slots[i][s].epoch
    BY <1>0, <1>3, <2>1, EnteredFields
  <2>3. slots' = slots /\ slots[i][s].open /\ slots[i][s] \in Gate
    BY <1>0, <2>2 DEF Enter, CallStep, LocalOK, Gates
  <2>4. OpenTo(r)' /\ r.epoch # 0
    BY <1>0, <2>2, <2>3 DEF OpenTo, LocalOK, Gates, Gate
  <2>5. QED
    BY <2>2, <2>4 DEF RunInv, Begun
<1>4. QED
  BY <1>2, <1>3

LEMMA AllKnown == HASpec => []Known
<1>1. HASpec => []TypeOK /\ []AuthorityInv /\ []LocalOK
  BY Implementation, TypeCorrect, AuthorityHolds, LocalTypes
<1>2. QED
  BY <1>1, KnownAuthority, KnownDrains, KnownBacking, PTL DEF Known

\* It always holds: a call whose cursor moved after its slot had moved on is refused.
THEOREM KnownCalls == HASpec => []CallsKnown
<1>1. HAInit => CallsKnown
  BY DEF HAInit, NoCall, CallsKnown, Running, RunLabel
<1>2. HASpec => []Known
  BY AllKnown
<1>3. Known /\ CallsKnown /\ [HANext]_haVars => CallsKnown'
  BY CallsStep
<1>4. QED
  BY <1>1, <1>2, <1>3, PTL DEF HASpec

\* No id leaves a process whose cursor advanced after the slot had moved on, for any
\* number of instances, slots and callers and any times that keep QuietWindowFloor.
THEOREM NoLateHolds == HASpec => NoLateAllocation
<1>1. Known /\ CallsKnown /\ [HANext]_haVars =>
        \A s \in Slot, c \in Caller :
          delivered'[s] # delivered[s] /\ call[c].at = "confirmed" /\ call'[c] = NoCall
            => ~call[c].late
  <2>1. ASSUME Known, CallsKnown, NEW c \in Caller, call[c].at = "confirmed"
        PROVE  ~call[c].late
    <3>1. call[c] \in Running
      BY <2>1, RunningCalls DEF Known
    <3>2. RunInv(call[c])
      BY <2>1, <3>1 DEF CallsKnown
    <3>3. QED
      BY <2>1, <3>2 DEF RunInv
  <2>2. QED
    BY <2>1
<1>2. HASpec => []Known
  BY AllKnown
<1>3. QED
  BY <1>1, <1>2, KnownCalls, PTL DEF HASpec, NoLateAllocation

-----------------------------------------------------------------------------
\* What a step does to the ids of one slot.

\* The call has taken this id and not handed it out.
Carrying(c, s, y) ==
    /\ call[c].at \in {"advanced", "bounded", "confirmed"}
    /\ call[c].slot = s
    /\ call[c].id = y
    /\ y # 0

\* Nobody else's call.
Others(c) == \A d \in Caller \ {c} : call'[d] = call[d]

\* Ids are given up, or nothing happens to them.
IdsKept(s) ==
    /\ mark'[s] = mark[s] /\ delivered'[s] = delivered[s]
    /\ \A d \in Caller, y \in Nat : Carrying(d, s, y)' => Carrying(d, s, y)
    /\ \A i \in Instance :
        \/ cache'[i][s] = cache[i][s] /\ slots'[i][s].epoch = slots[i][s].epoch
        \/ cache'[i][s] = NoRange

\* A call that found its gate takes an id from the ranges.
Taken(c, i, s, y) ==
    /\ UNCHANGED <<slot, slots>> /\ mark'[s] = mark[s] /\ delivered'[s] = delivered[s]
    /\ call[c].at # "idle" /\ call[c].inst = i /\ call[c].slot = s
    /\ slots[i][s].epoch = call[c].epoch
    /\ \A j \in Instance \ {i} : cache'[j][s] = cache[j][s]
    /\ \/ /\ y = cache[i][s].next /\ y <= cache[i][s].end
          /\ cache'[i][s] = [cache[i][s] EXCEPT !.next = y + 1]
       \/ /\ y = cache[i][s].standby /\ y # 0
          /\ cache'[i][s] = Activated(y)
    /\ Others(c)
    /\ \A z \in Nat : Carrying(c, s, z)' => z = y

\* It hands out what it carries.
Handed(c, s, y) ==
    /\ UNCHANGED <<slot, slots, cache>> /\ mark'[s] = mark[s]
    /\ call[c].at = "confirmed" /\ Carrying(c, s, y)
    /\ delivered'[s] = Given(delivered[s], y)
    /\ Others(c)
    /\ \A z \in Nat : ~Carrying(c, s, z)'

\* It reserves another block.
Reserved(c, i, s) ==
    /\ UNCHANGED <<slot, slots>> /\ mark'[s] = mark[s] + Step
    /\ delivered'[s] = delivered[s]
    /\ call[c].at # "idle" /\ call[c].inst = i /\ call[c].slot = s
    /\ HeldBy(i, s) /\ slot[s].epoch = call[c].epoch
    /\ \A j \in Instance :
        \/ cache'[j][s] = cache[j][s]
        \/ /\ j = i /\ slots[i][s].epoch = call[c].epoch
           /\ cache'[i][s] = [cache[i][s] EXCEPT !.standby = mark[s] + 1]
    /\ Others(c)
    /\ \A z \in Nat : ~Carrying(c, s, z)'

LEMMA CallOthers ==
    ASSUME LocalOK, NEW c \in Caller, CallNext(c)
    PROVE  Others(c)
<1>1. call \in [Caller -> Call]
  BY DEF LocalOK, Ids
<1>2. ASSUME NEW d \in Caller, c # d
      PROVE  call'[d] = call[d]
  <2>1. (\E i \in Instance, s \in Slot : Enter(c, i, s)) => call'[d] = call[d]
    BY <1>1, <1>2 DEF Enter
  <2>2. BeginGate(c) \/ BeginDeadline(c) \/ EndBound(c) \/ EndGate(c) \/ EndDeadline(c)
        => call'[d] = call[d]
    BY <1>1, <1>2 DEF BeginGate, BeginDeadline, EndBound, EndGate, EndDeadline, Check, Leave,
                      Goto
  <2>3. Advance(c) => call'[d] = call[d]
    BY <1>1, <1>2 DEF Advance
  <2>4. Refill(c) => call'[d] = call[d]
    BY <1>1, <1>2 DEF Refill, Goto
  <2>5. Wake(c) \/ Reserve(c) \/ GiveUp(c) => call'[d] = call[d]
    BY <1>1, <1>2 DEF Wake, Reserve, GiveUp, Leave, Goto
  <2>6. QED
    BY <2>1, <2>2, <2>3, <2>4, <2>5 DEF CallNext
<1>3. QED
  BY <1>2 DEF Others

LEMMA OthersCarry ==
    ASSUME NEW c \in Caller, NEW s \in Slot, Others(c), NEW d \in Caller, d # c, NEW y
    PROVE  Carrying(d, s, y)' <=> Carrying(d, s, y)
  BY DEF Others, Carrying

\* A call that takes nothing.
LEMMA CarriersKept ==
    ASSUME LocalOK, NEW c \in Caller, NEW s \in Slot, Others(c),
           UNCHANGED <<mark, delivered, cache, slots>>,
           \/ call'[c].at \notin {"advanced", "bounded", "confirmed"}
           \/ /\ call[c].at \in {"advanced", "bounded", "confirmed"}
              /\ call'[c].slot = call[c].slot /\ call'[c].id = call[c].id
    PROVE  IdsKept(s)
<1>1. \A d \in Caller, y \in Nat : Carrying(d, s, y)' => Carrying(d, s, y)
  BY DEF Carrying, Others
<1>2. QED
  BY <1>1 DEF IdsKept

LEMMA TakenKinds ==
    ASSUME LocalOK, NEW c \in Caller, NEW s \in Slot, Advance(c) \/ Refill(c)
    PROVE  IdsKept(s) \/ (\E y \in Nat : Taken(c, call[c].inst, s, y))
<1> DEFINE i == call[c].inst
           t == call[c].slot
           range == cache[i][t]
<1>0. /\ call[c].at \in {"begun", "dry"} /\ call[c].at # "idle"
      /\ UNCHANGED <<slot, slots, mark, delivered>>
  <2>1. Advance(c) => call[c].at = "begun" /\ UNCHANGED <<slot, slots, mark, delivered>>
    BY DEF Advance, CallStep, vars
  <2>2. Refill(c) => call[c].at = "dry" /\ UNCHANGED <<slot, slots, mark, delivered>>
    BY DEF Refill, CallStep, vars
  <2>3. QED
    BY <2>1, <2>2
<1>1. call[c] \in Running /\ i \in Instance /\ t \in Slot
  BY <1>0, RunningCalls DEF Running
<1>2. /\ range \in CachedRange
      /\ range.next \in Nat /\ range.end \in Nat /\ range.standby \in Nat
  BY <1>1 DEF LocalOK, Ids, CachedRange
<1>3. Others(c)
  BY CallOthers DEF CallNext
<1>6. \A d \in Caller, y \in Nat : d # c => (Carrying(d, s, y)' <=> Carrying(d, s, y))
  BY <1>3, OthersCarry
<1>4. CASE Advance(c)
  <2> DEFINE id == IF Current(c) /\ range.next <= range.end THEN range.next ELSE 0
             at == IF Current(c) /\ range.fresh THEN "dry" ELSE "advanced"
             late == slot[t].owner # i \/ slot[t].epoch # call[c].epoch
  <2>1. /\ call' = [call EXCEPT ![c].id = id, ![c].at = at, ![c].late = late]
        /\ cache' = IF id = 0 THEN cache ELSE [cache EXCEPT ![i][t].next = range.next + 1]
    BY <1>4 DEF Advance
  <2>2. call'[c].id = id /\ call'[c].slot = t
    <3> HIDE DEF id, at, late
    <3>1. QED
      BY <1>0, <2>1, TakeFields, Zenon DEF SameRequest
  <2>3. \A z \in Nat : Carrying(c, s, z)' => s = t /\ z = id /\ id # 0
    BY <2>2 DEF Carrying
  <2>4. CASE id = 0
    <3>1. cache' = cache
      BY <2>1, <2>4
    <3>2. \A d \in Caller, y \in Nat : Carrying(d, s, y)' => Carrying(d, s, y)
      BY <1>6, <2>3, <2>4
    <3>3. QED
      BY <1>0, <3>1, <3>2 DEF IdsKept
  <2>5. CASE id # 0
    <3>1. id = range.next /\ range.next <= range.end /\ Current(c)
      BY <2>5
    <3>2. cache' = [cache EXCEPT ![i][t] = [range EXCEPT !.next = range.next + 1]]
      BY <2>1, <2>5, <1>1 DEF LocalOK, Ids
    <3>3. /\ cache'[i][t] = [range EXCEPT !.next = range.next + 1]
          /\ \A j \in Instance, u \in Slot : j # i \/ u # t => cache'[j][u] = cache[j][u]
      <4> DEFINE new == [range EXCEPT !.next = range.next + 1]
      <4>1. cache' = [cache EXCEPT ![i][t] = new]
        BY <3>2
      <4> HIDE DEF new
      <4>2. /\ cache'[i][t] = new
            /\ \A j \in Instance, u \in Slot : j # i \/ u # t => cache'[j][u] = cache[j][u]
        BY <1>1, <4>1 DEF LocalOK, Ids
      <4>3. QED
        BY <4>2 DEF new
    <3>4. CASE s = t
      <4>1. Taken(c, i, s, range.next)
        <5> HIDE DEF id
        <5>1. QED
          BY <1>0, <1>1, <1>3, <2>3, <3>1, <3>3, <3>4 DEF Taken, Current
      <4>2. QED
        BY <1>2, <4>1
    <3>5. CASE s # t
      <4>1. \A d \in Caller, y \in Nat : Carrying(d, s, y)' => Carrying(d, s, y)
        BY <1>6, <2>3, <3>5
      <4>2. QED
        BY <1>0, <3>3, <3>5, <4>1 DEF IdsKept
    <3>6. QED
      BY <3>4, <3>5
  <2>6. QED
    BY <2>4, <2>5
<1>5. CASE Refill(c)
  <2> DEFINE late == slot[t].owner # i \/ slot[t].epoch # call[c].epoch
  <2>1. CASE Current(c) /\ range.standby # 0
    <3>1. /\ cache' = [cache EXCEPT ![i][t] = Activated(range.standby)]
          /\ call' = [call EXCEPT ![c].at = "advanced", ![c].id = range.standby,
                                  ![c].late = late]
      BY <1>5, <2>1 DEF Refill
    <3>2. call'[c].id = range.standby /\ call'[c].slot = t
      <4> DEFINE r == [call[c] EXCEPT !.at = "advanced", !.id = range.standby, !.late = late]
      <4>1. call'[c] = r
        BY <3>1 DEF LocalOK, Ids
      <4>2. r.id = range.standby /\ r.slot = t
        BY <1>1 DEF Running
      <4> HIDE DEF r
      <4>3. QED
        BY <4>1, <4>2
    <3>3. \A z \in Nat : Carrying(c, s, z)' => s = t /\ z = range.standby
      BY <3>2 DEF Carrying
    <3>4. /\ cache'[i][t] = Activated(range.standby)
          /\ \A j \in Instance, u \in Slot : j # i \/ u # t => cache'[j][u] = cache[j][u]
      <4> DEFINE new == Activated(range.standby)
      <4>1. cache' = [cache EXCEPT ![i][t] = new]
        BY <3>1
      <4> HIDE DEF new
      <4>2. /\ cache'[i][t] = new
            /\ \A j \in Instance, u \in Slot : j # i \/ u # t => cache'[j][u] = cache[j][u]
        BY <1>1, <4>1 DEF LocalOK, Ids
      <4>3. QED
        BY <4>2 DEF new
    <3>5. CASE s = t
      <4>1. Taken(c, i, s, range.standby)
        BY <1>0, <1>1, <1>3, <2>1, <3>3, <3>4, <3>5 DEF Taken, Current
      <4>2. QED
        BY <1>2, <4>1
    <3>6. CASE s # t
      <4>1. \A d \in Caller, y \in Nat : Carrying(d, s, y)' => Carrying(d, s, y)
        BY <1>6, <3>3, <3>6
      <4>2. QED
        BY <1>0, <3>4, <3>6, <4>1 DEF IdsKept
    <3>7. QED
      BY <3>5, <3>6
  <2>2. CASE ~(Current(c) /\ range.standby # 0)
    <3>1. /\ cache' = cache
          /\ \/ Goto(c, "waiting")
             \/ call' = [call EXCEPT ![c].at = "reserving",
                                     ![c].revision = ownershipRevision[i]]
      BY <1>5, <2>2 DEF Refill
    <3>2. call'[c].at \in {"waiting", "reserving"}
      <4>1. Goto(c, "waiting") => call'[c].at = "waiting"
        BY <1>0, GotoFields
      <4>2. ASSUME call' = [call EXCEPT ![c].at = "reserving",
                                        ![c].revision = ownershipRevision[i]]
            PROVE  call'[c].at = "reserving"
        <5>1. call'[c] = [call[c] EXCEPT !.at = "reserving",
                                         !.revision = ownershipRevision[i]]
          BY <4>2 DEF LocalOK, Ids
        <5>2. QED
          BY <1>1, <5>1 DEF Running
      <4>3. QED
        BY <3>1, <4>1, <4>2
    <3>3. QED
      BY <1>0, <1>3, <3>1, <3>2, CarriersKept
  <2>3. QED
    BY <2>1, <2>2
<1>7. QED
  BY <1>4, <1>5

LEMMA ReservedKinds ==
    ASSUME LocalOK, NEW c \in Caller, NEW s \in Slot, Reserve(c)
    PROVE  IdsKept(s) \/ Reserved(c, call[c].inst, s)
<1> DEFINE i == call[c].inst
           t == call[c].slot
<1>0. /\ call[c].at = "reserving" /\ call[c].at # "idle"
      /\ UNCHANGED <<slot, slots, delivered>>
      /\ mark' = [mark EXCEPT ![t] = mark[t] + Step]
      /\ HeldBy(i, t) /\ slot[t].epoch = call[c].epoch
  BY DEF Reserve, Authorized, vars
<1>1. call[c] \in Running /\ i \in Instance /\ t \in Slot
  BY <1>0, RunningCalls DEF Running
<1>2. Others(c)
  BY CallOthers DEF CallNext
<1>3. call'[c].at \in {"entered", "idle"}
  BY <1>0, GotoFields, LeaveFields DEF Reserve
<1>4. \A d \in Caller, y \in Nat : Carrying(d, s, y)' => Carrying(d, s, y) /\ d # c
  <2>1. \A y \in Nat : ~Carrying(c, s, y)'
    BY <1>3 DEF Carrying
  <2>2. \A d \in Caller, y \in Nat : d # c => (Carrying(d, s, y)' <=> Carrying(d, s, y))
    BY <1>2, OthersCarry
  <2>3. QED
    BY <2>1, <2>2
<1>5. \A u \in Slot : mark'[u] = IF u = t THEN mark[t] + Step ELSE mark[u]
  BY <1>0, <1>1 DEF LocalOK, Ids
<1>6. /\ \A j \in Instance, u \in Slot : j # i \/ u # t => cache'[j][u] = cache[j][u]
      /\ \/ cache'[i][t] = cache[i][t]
         \/ /\ slots[i][t].epoch = call[c].epoch
            /\ cache'[i][t] = [cache[i][t] EXCEPT !.standby = mark[t] + 1]
  <2>1. CASE cache' = cache
    BY <2>1
  <2>2. CASE Current(c) /\ cache' = [cache EXCEPT ![i][t].standby = mark[t] + 1]
    BY <1>1, <2>2 DEF Current, LocalOK, Ids
  <2>3. QED
    BY <2>1, <2>2 DEF Reserve
<1>7. CASE s = t
  <2>1. Reserved(c, i, s)
    BY <1>0, <1>1, <1>2, <1>4, <1>5, <1>6, <1>7 DEF Reserved
  <2>2. QED
    BY <2>1
<1>8. CASE s # t
  BY <1>0, <1>4, <1>5, <1>6, <1>8 DEF IdsKept
<1>9. QED
  BY <1>7, <1>8

LEMMA HandedKinds ==
    ASSUME LocalOK, NEW c \in Caller, NEW s \in Slot, EndDeadline(c)
    PROVE  IdsKept(s) \/ (\E y \in Nat : Handed(c, s, y))
<1> DEFINE t == call[c].slot
           y == call[c].id
<1>0. /\ call[c].at = "confirmed" /\ call[c].at # "idle"
      /\ UNCHANGED <<slot, slots, mark, cache>>
      /\ \/ delivered' = delivered
         \/ /\ y # 0 /\ Leave(c)
            /\ delivered' = [delivered EXCEPT ![t] = Given(delivered[t], y)]
  BY DEF EndDeadline, CallStep, vars
<1>1. call[c] \in Running /\ t \in Slot /\ y \in Nat
  BY <1>0, RunningCalls DEF Running
<1>2. Others(c)
  BY CallOthers DEF CallNext
<1>3. call'[c].at \in {"dry", "idle"}
  BY <1>0, GotoFields, LeaveFields DEF EndDeadline
<1>4. CASE delivered' = delivered
  BY <1>0, <1>2, <1>3, <1>4, CarriersKept
<1>5. CASE /\ y # 0 /\ Leave(c)
           /\ delivered' = [delivered EXCEPT ![t] = Given(delivered[t], y)]
  <2>1. \A u \in Slot : delivered'[u] = IF u = t THEN Given(delivered[t], y) ELSE delivered[u]
    BY <1>1, <1>5 DEF LocalOK, Ids
  <2>2. \A z \in Nat : ~Carrying(c, s, z)'
    BY <1>3 DEF Carrying
  <2>3. CASE s = t
    <3>1. Carrying(c, s, y)
      BY <1>0, <1>5, <2>3 DEF Carrying
    <3>2. Handed(c, s, y)
      BY <1>0, <1>2, <2>1, <2>2, <2>3, <3>1 DEF Handed
    <3>3. QED
      BY <1>1, <3>2
  <2>4. CASE s # t
    <3>1. \A d \in Caller, z \in Nat : d # c => (Carrying(d, s, z)' <=> Carrying(d, s, z))
      BY <1>2, OthersCarry
    <3>2. QED
      BY <1>0, <2>1, <2>2, <2>4, <3>1 DEF IdsKept
  <2>5. QED
    BY <2>3, <2>4
<1>6. QED
  BY <1>0, <1>4, <1>5

LEMMA CallKinds ==
    ASSUME LocalOK, NEW c \in Caller, NEW s \in Slot, CallNext(c)
    PROVE  \/ IdsKept(s)
           \/ \E y \in Nat : Taken(c, call[c].inst, s, y) \/ Handed(c, s, y)
           \/ Reserved(c, call[c].inst, s)
<1>1. Others(c)
  BY CallOthers
<1>2. ASSUME NEW i \in Instance, NEW t \in Slot, Enter(c, i, t)
      PROVE  IdsKept(s)
  <2>1. call[c].at = "idle" /\ UNCHANGED <<mark, delivered, cache, slots>>
    BY <1>2 DEF Enter, CallStep
  <2>2. call'[c].at = "entered"
    BY <2>1, EnteredFields
  <2>3. QED
    BY <1>1, <2>1, <2>2, CarriersKept
<1>3. CASE BeginGate(c) \/ BeginDeadline(c) \/ Wake(c) \/ GiveUp(c)
  <2>1. call[c].at # "idle" /\ UNCHANGED <<mark, delivered, cache, slots>>
    BY <1>3 DEF BeginGate, BeginDeadline, Check, Wake, GiveUp, CallStep
  <2>2. call'[c].at \in {"gated", "begun", "entered", "idle"}
    <3>1. \A label : Goto(c, label) => call'[c].at = label
      BY <2>1, GotoFields
    <3>2. Leave(c) => call'[c].at = "idle"
      BY LeaveFields
    <3>3. CASE BeginGate(c)
      <4>1. \/ Leave(c)
            \/ call' = [call EXCEPT ![c].at = "gated", ![c].started = clock]
        BY <3>3 DEF BeginGate
      <4>2. ASSUME call' = [call EXCEPT ![c].at = "gated", ![c].started = clock]
            PROVE  call'[c].at = "gated"
        <5>1. call'[c] = [call[c] EXCEPT !.at = "gated", !.started = clock]
          BY <4>2 DEF LocalOK, Ids
        <5>2. call[c] \in Running
          BY <2>1, RunningCalls
        <5>3. QED
          BY <5>1, <5>2 DEF Running
      <4>3. QED
        BY <3>2, <4>1, <4>2
    <3>4. CASE BeginDeadline(c)
      BY <3>1, <3>2, <3>4 DEF BeginDeadline, Check
    <3>5. CASE Wake(c) \/ GiveUp(c)
      BY <3>1, <3>2, <3>5 DEF Wake, GiveUp
    <3>6. QED
      BY <1>3, <3>3, <3>4, <3>5
  <2>3. QED
    BY <1>1, <2>1, <2>2, CarriersKept
<1>4. CASE EndBound(c) \/ EndGate(c)
  <2>1. /\ call[c].at \in {"advanced", "bounded"} /\ call[c].at # "idle"
        /\ UNCHANGED <<mark, delivered, cache, slots>>
        /\ Leave(c) \/ Goto(c, "bounded") \/ Goto(c, "confirmed")
    BY <1>4 DEF EndBound, EndGate, Check, CallStep
  <2>2. \A label : Goto(c, label) =>
          call'[c].slot = call[c].slot /\ call'[c].id = call[c].id
    BY <2>1, GotoFields DEF SameRequest, SameRest
  <2>3. Leave(c) => call'[c].at = "idle"
    BY LeaveFields
  <2>4. QED
    BY <1>1, <2>1, <2>2, <2>3, CarriersKept
<1>5. CASE EndDeadline(c)
  BY <1>5, HandedKinds
<1>6. CASE Advance(c) \/ Refill(c)
  BY <1>6, TakenKinds
<1>7. CASE Reserve(c)
  BY <1>7, ReservedKinds
<1>8. QED
  BY <1>2, <1>3, <1>4, <1>5, <1>6, <1>7 DEF CallNext

\* Only calls move ids; the other steps leave the ranges of a slot as they are, with
\* the epoch of its gate, or drop them.
LEMMA IdKinds ==
    ASSUME LocalOK, [HANext]_haVars, NEW s \in Slot
    PROVE  \/ IdsKept(s)
           \/ \E c \in Caller :
                \/ CallNext(c)
                   /\ \E y \in Nat : Taken(c, call[c].inst, s, y) \/ Handed(c, s, y)
                \/ CallNext(c) /\ Reserved(c, call[c].inst, s)
<1> DEFINE Ranges(i) == \/ cache'[i][s] = cache[i][s] /\ slots'[i][s].epoch = slots[i][s].epoch
                        \/ cache'[i][s] = NoRange
<1>0. /\ slots \in [Instance -> [Slot -> Gate]]
      /\ cache \in [Instance -> [Slot -> CachedRange]]
      /\ call \in [Caller -> Call]
  BY DEF LocalOK, Gates, Ids
<1>1. ASSUME NEW c \in Caller, CallNext(c)
      PROVE  \/ IdsKept(s)
             \/ \E y \in Nat : Taken(c, call[c].inst, s, y) \/ Handed(c, s, y)
             \/ Reserved(c, call[c].inst, s)
  BY <1>1, CallKinds
<1>2. ASSUME UNCHANGED <<mark, delivered>>, \A i \in Instance : Ranges(i),
             \A c \in Caller : call'[c] = call[c] \/ call'[c] = NoCall
      PROVE  IdsKept(s)
  <2>1. \A d \in Caller, y \in Nat : Carrying(d, s, y)' => Carrying(d, s, y)
    BY <1>2 DEF Carrying, NoCall
  <2>2. QED
    BY <1>2, <2>1 DEF IdsKept
<1>3. ASSUME NEW i \in Instance, AuthorityNext(i)
      PROVE  IdsKept(s)
  <2>1. UNCHANGED <<mark, delivered, call>>
    BY <1>3 DEF AuthorityNext, Register, StartRenew, Reanchor, Renew, Publish, Claim,
           ReadAuthority, Apply, AuthorityStep
  <2>2. CASE UNCHANGED <<slots, cache>>
    BY <1>2, <2>1, <2>2
  <2>3. CASE Publish(i)
    <3>1. cache' = cache
      BY <2>3 DEF Publish
    <3>2. \A j \in Instance : slots'[j][s].epoch = slots[j][s].epoch
      <4>1. slots' = slots \/ slots' = [slots EXCEPT ![i] = Opened(slots[i])]
        BY <2>3 DEF Publish
      <4>2. CASE slots' = slots
        BY <4>2
      <4>3. CASE slots' = [slots EXCEPT ![i] = Opened(slots[i])]
        <5> DEFINE open == (slots[i][s].epoch # 0)
        <5>1. slots'[i][s] = [slots[i][s] EXCEPT !.open = open]
          BY <1>0, <4>3 DEF Opened
        <5> HIDE DEF open
        <5>2. slots[i][s] \in Gate
          BY <1>0
        <5>3. slots'[i][s].epoch = slots[i][s].epoch
          BY <5>1, <5>2 DEF Gate
        <5>4. \A j \in Instance : j # i => slots'[j] = slots[j]
          BY <1>0, <4>3
        <5>5. QED
          BY <5>3, <5>4
      <4>4. QED
        BY <4>1, <4>2, <4>3
    <3>3. QED
      BY <1>2, <2>1, <3>1, <3>2
  <2>4. CASE Apply(i)
    <3>1. CASE UNCHANGED <<slots, cache>>
      BY <1>2, <2>1, <3>1
    <3>2. CASE /\ slots' = [slots EXCEPT ![i] = [t \in Slot |->
                      IF Stays(slots[i][t].epoch, authority[i].owned[t]) THEN slots[i][t]
                      ELSE [epoch |-> authority[i].owned[t], open |-> FALSE]]]
               /\ cache' = [cache EXCEPT ![i] = [t \in Slot |->
                      IF Stays(slots[i][t].epoch, authority[i].owned[t]) THEN cache[i][t]
                      ELSE NoRange]]
      <4>1. \A j \in Instance : Ranges(j)
        BY <1>0, <3>2
      <4>2. QED
        BY <1>2, <2>1, <4>1
    <3>3. QED
      BY <2>4, <3>1, <3>2 DEF Apply
  <2>5. QED
    BY <1>3, <2>2, <2>3, <2>4 DEF AuthorityNext, Register, StartRenew, Reanchor, Renew, Claim,
           ReadAuthority
<1>4. ASSUME NEW i \in Instance, PassNext(i)
      PROVE  IdsKept(s)
  <2>1. UNCHANGED <<mark, delivered, call, slots, cache>>
    BY <1>4 DEF PassNext, ReadHandoffs, DropGates, SyncPass, Decide, Send, PassStep
  <2>2. QED
    BY <1>2, <2>1
<1>5. ASSUME NEW i \in Instance, ShutdownNext(i)
      PROVE  IdsKept(s)
  <2>1. UNCHANGED <<mark, delivered, call>>
    BY <1>5 DEF ShutdownNext, Stop, Detach, IncludeHeld, WithdrawSlot, FindDrain,
           AckRelease, FinishShutdown, Retire, ReleaseStep, ShutdownStep
  <2>2. \A j \in Instance : Ranges(j)
    <3>1. CASE Detach(i)
      <4>1. /\ slots' = [slots EXCEPT ![i] = [t \in Slot |-> NoGate]]
            /\ cache' = [cache EXCEPT ![i] = [t \in Slot |-> NoRange]]
        BY <3>1, Zenon DEF Detach
      <4>2. cache'[i][s] = NoRange
        BY <1>0, <4>1
      <4>3. \A j \in Instance : j # i => cache'[j] = cache[j] /\ slots'[j] = slots[j]
        BY <1>0, <4>1
      <4>4. Ranges(i) /\ \A j \in Instance : j # i => Ranges(j)
        BY <4>2, <4>3
      <4>5. QED
        BY <4>4
    <3>2. CASE UNCHANGED <<slots, cache>>
      BY <3>2
    <3>3. ShutdownNext(i) => Detach(i) \/ UNCHANGED <<slots, cache>>
      <4>1. Stop(i) \/ IncludeHeld(i) \/ Retire(i) => UNCHANGED <<slots, cache>>
        BY Zenon DEF Stop, IncludeHeld, Retire
      <4>2. \A t \in Slot : WithdrawSlot(i, t) \/ FindDrain(i, t) \/ AckRelease(i, t)
                \/ FinishShutdown(i, t) => UNCHANGED <<slots, cache>>
        BY DEF WithdrawSlot, FindDrain, AckRelease, FinishShutdown, ReleaseStep
      <4>3. QED
        BY <4>1, <4>2 DEF ShutdownNext
    <3>4. QED
      BY <1>5, <3>1, <3>2, <3>3
  <2>3. QED
    BY <1>2, <2>1, <2>2
<1>6. ASSUME NEW i \in Instance, Crash(i)
      PROVE  IdsKept(s)
  <2>1. UNCHANGED <<mark, delivered>> /\ \A j \in Instance : Ranges(j)
    BY <1>0, <1>6 DEF Crash
  <2>2. \A c \in Caller : call'[c] = call[c] \/ call'[c] = NoCall
    BY <1>6 DEF Crash
  <2>3. QED
    BY <1>2, <2>1, <2>2
<1>7. CASE Pass \/ Coordinate \/ UNCHANGED haVars
  <2>1. UNCHANGED <<mark, delivered, call, slots, cache>>
    BY <1>7 DEF Pass, Coordinate, local, haVars
  <2>2. QED
    BY <1>2, <2>1
<1>8. QED
  BY <1>1, <1>3, <1>4, <1>5, <1>6, <1>7 DEF HANext

-----------------------------------------------------------------------------
\* Where the ids of a slot are: in the ranges of a process, with a call, or out.

Held(i, s, x) == InRange(cache[i][s], x)
Out(s, y) == y \in delivered[s] \/ \E c \in Caller : Carrying(c, s, y)
Elsewhere(i, s, y) == Out(s, y) \/ \E j \in Instance \ {i} : Held(j, s, y)

\* A range is below the watermark, and its standby block behind the active one.
Sound(range, m) ==
    /\ 1 <= range.next /\ range.end <= m
    /\ range.standby # 0 => range.end < range.standby /\ range.standby + Step <= m + 1

\* Storage says that the slot is i's at the epoch of its gate.
Owns(i, s) ==
    slots[i][s].epoch # 0 /\ slot[s].owner = i /\ slot[s].epoch = slots[i][s].epoch

\* An id is in one place, and the owner's ranges are above all the others.
Apart(i, s) == \A x, y \in Nat :
    Held(i, s, x) /\ Elsewhere(i, s, y) => x # y /\ (Owns(i, s) => y < x)

IdInv(s) ==
    /\ \A i \in Instance : Sound(cache[i][s], mark[s])
    /\ \A y \in Nat : Out(s, y) => 1 <= y /\ y <= mark[s]
    /\ \A c \in Caller, y \in Nat : Carrying(c, s, y) =>
         y \notin delivered[s] /\ \A d \in Caller \ {c} : ~Carrying(d, s, y)
    /\ \A i \in Instance : Apart(i, s)

LEMMA RangeTypes ==
    ASSUME LocalOK, NEW i \in Instance, NEW s \in Slot
    PROVE  /\ cache[i][s] \in CachedRange
           /\ cache[i][s].next \in Nat /\ cache[i][s].end \in Nat
           /\ cache[i][s].standby \in Nat
           /\ mark[s] \in Nat /\ delivered[s] \in SUBSET Nat
           /\ Step \in Nat /\ Step # 0
<1>1. cache[i][s] \in CachedRange /\ mark[s] \in 0..MaxMark /\ delivered[s] \in SUBSET Nat
  BY DEF LocalOK, Ids
<1>2. QED
  BY <1>1, ConstantTypes DEF CachedRange

LEMMA HeldBelow ==
    ASSUME LocalOK, NEW i \in Instance, NEW s \in Slot, Sound(cache[i][s], mark[s]),
           NEW x \in Nat, Held(i, s, x)
    PROVE  1 <= x /\ x <= mark[s]
  BY RangeTypes DEF Sound, Held, InRange

LEMMA OwnsStep ==
    ASSUME TypeOK, LocalOK, AuthorityKnown, [HANext]_haVars, NEW i \in Instance,
           NEW s \in Slot, slots'[i][s].epoch = slots[i][s].epoch, Owns(i, s)'
    PROVE  Owns(i, s)
<1>1. /\ slots[i][s].epoch \in Nat /\ slot[s].epoch \in Nat
      /\ slots[i][s].epoch <= slot[s].epoch
  BY LocalEpochs DEF TypeOK, SlotRow, AuthorityKnown, EpochInv
<1>2. slot'[s].owner = i /\ slot'[s].epoch = slots[i][s].epoch /\ slots[i][s].epoch # 0
  BY DEF Owns
<1>3. [Next]_vars /\ slot'[s].epoch \in Nat /\ i # None
  BY <1>1, <1>2, StepImplements, NoneAssumption
<1>4. QED
  BY <1>1, <1>2, <1>3, EpochStep DEF Owns

\* Nothing is taken and nothing handed out.
LEMMA KeptIds ==
    ASSUME TypeOK, LocalOK, AuthorityKnown, [HANext]_haVars, NEW s \in Slot, IdInv(s),
           IdsKept(s)
    PROVE  IdInv(s)'
<1>1. /\ mark'[s] = mark[s] /\ delivered'[s] = delivered[s]
      /\ \A d \in Caller, y \in Nat : Carrying(d, s, y)' => Carrying(d, s, y)
  BY DEF IdsKept
<1>2. \A y \in Nat : Out(s, y)' => Out(s, y)
  BY <1>1 DEF Out
<1>3. ASSUME NEW i \in Instance, NEW x \in Nat, Held(i, s, x)'
      PROVE  Held(i, s, x) /\ slots'[i][s].epoch = slots[i][s].epoch
  BY <1>3 DEF IdsKept, Held, InRange, NoRange
<1>4. ASSUME NEW i \in Instance
      PROVE  Sound(cache'[i][s], mark'[s])
  <2>1. Sound(NoRange, mark[s])
    BY <1>4, RangeTypes DEF Sound, NoRange
  <2>2. QED
    BY <1>1, <1>4, <2>1 DEF IdsKept, IdInv
<1>5. ASSUME NEW i \in Instance, NEW x \in Nat, NEW y \in Nat, Held(i, s, x)',
             Elsewhere(i, s, y)'
      PROVE  x # y /\ (Owns(i, s)' => y < x)
  <2>1. Held(i, s, x) /\ slots'[i][s].epoch = slots[i][s].epoch
    BY <1>3, <1>5
  <2>2. Elsewhere(i, s, y)
    BY <1>2, <1>3, <1>5 DEF Elsewhere
  <2>3. Owns(i, s)' => Owns(i, s)
    BY <2>1, OwnsStep
  <2>4. QED
    BY <2>1, <2>2, <2>3 DEF IdInv, Apart
<1>6. \A i \in Instance : Apart(i, s)'
  BY <1>5 DEF Apart
<1>7. \A y \in Nat : Out(s, y)' => 1 <= y /\ y <= mark'[s]
  BY <1>1, <1>2 DEF IdInv
<1>8. \A c \in Caller, y \in Nat : Carrying(c, s, y)' =>
        y \notin delivered'[s] /\ \A d \in Caller \ {c} : ~Carrying(d, s, y)'
  BY <1>1 DEF IdInv
<1>9. QED
  BY <1>4, <1>6, <1>7, <1>8 DEF IdInv

\* What taking an id leaves.
LEMMA TakenRange ==
    ASSUME LocalOK, NEW i \in Instance, NEW s \in Slot, Sound(cache[i][s], mark[s]),
           NEW y,
           \/ /\ y = cache[i][s].next /\ y <= cache[i][s].end
              /\ cache'[i][s] = [cache[i][s] EXCEPT !.next = y + 1]
           \/ /\ y = cache[i][s].standby /\ y # 0
              /\ cache'[i][s] = Activated(y)
    PROVE  /\ y \in Nat /\ Held(i, s, y)
           /\ Sound(cache'[i][s], mark[s])
           /\ \A x \in Nat : Held(i, s, x)' => Held(i, s, x) /\ y < x
<1> DEFINE range == cache[i][s]
<1>0. /\ range \in CachedRange
      /\ range.next \in Nat /\ range.end \in Nat /\ range.standby \in Nat
      /\ mark[s] \in Nat /\ Step \in Nat /\ Step # 0
  BY RangeTypes
<1>1. CASE /\ y = range.next /\ y <= range.end
           /\ cache'[i][s] = [range EXCEPT !.next = y + 1]
  <2>1. /\ cache'[i][s].next = y + 1 /\ cache'[i][s].end = range.end
        /\ cache'[i][s].standby = range.standby
    BY <1>0, <1>1 DEF CachedRange
  <2>2. y \in Nat /\ Held(i, s, y)
    BY <1>0, <1>1 DEF Held, InRange
  <2>3. Sound(cache'[i][s], mark[s])
    BY <1>0, <1>1, <2>1 DEF Sound
  <2>4. \A x \in Nat : InRange(cache'[i][s], x) => InRange(range, x) /\ y < x
    BY <1>0, <1>1, <2>1 DEF InRange, Sound
  <2>5. QED
    BY <2>2, <2>3, <2>4 DEF Held
<1>2. CASE /\ y = range.standby /\ y # 0
           /\ cache'[i][s] = Activated(y)
  <2>1. /\ cache'[i][s].next = y + 1 /\ cache'[i][s].end = y + Step - 1
        /\ cache'[i][s].standby = 0
    BY <1>2 DEF Activated
  <2>2. y \in Nat /\ Held(i, s, y)
    BY <1>0, <1>2 DEF Held, InRange
  <2>3. Sound(cache'[i][s], mark[s])
    BY <1>0, <1>2, <2>1 DEF Sound
  <2>4. \A x \in Nat : InRange(cache'[i][s], x) => InRange(range, x) /\ y < x
    BY <1>0, <1>2, <2>1 DEF InRange, Sound
  <2>5. QED
    BY <2>2, <2>3, <2>4 DEF Held
<1>3. QED
  BY <1>1, <1>2

LEMMA TakenIds ==
    ASSUME LocalOK, NEW s \in Slot, IdInv(s),
           NEW c \in Caller, NEW i \in Instance, NEW y, Taken(c, i, s, y)
    PROVE  IdInv(s)'
<1>1. /\ mark'[s] = mark[s] /\ delivered'[s] = delivered[s]
      /\ slot' = slot /\ slots' = slots
      /\ \A j \in Instance \ {i} : cache'[j][s] = cache[j][s]
      /\ \A z \in Nat : Carrying(c, s, z)' => z = y
      /\ Others(c)
  BY DEF Taken
<1>2. /\ y \in Nat /\ Held(i, s, y)
      /\ Sound(cache'[i][s], mark[s])
      /\ \A x \in Nat : Held(i, s, x)' => Held(i, s, x) /\ y < x
  BY TakenRange DEF Taken, IdInv
<1>3. \A d \in Caller, z \in Nat : d # c => (Carrying(d, s, z)' <=> Carrying(d, s, z))
  BY <1>1, OthersCarry
<1>4. \A z \in Nat : Out(s, z)' => Out(s, z) \/ z = y
  BY <1>1, <1>3 DEF Out
<1>5. \A j \in Instance, x \in Nat : j # i => (Held(j, s, x)' <=> Held(j, s, x))
  BY <1>1 DEF Held
<1>6. \A j \in Instance, x \in Nat : Held(j, s, x)' => Held(j, s, x)
  BY <1>2, <1>5
<1>7. ~Out(s, y) /\ 1 <= y /\ y <= mark[s]
  <2>1. ~Elsewhere(i, s, y)
    BY <1>2 DEF IdInv, Apart
  <2>2. QED
    BY <1>2, <2>1, HeldBelow DEF Elsewhere, IdInv
<1>8. \A j \in Instance : Owns(j, s)' <=> Owns(j, s)
  BY <1>1 DEF Owns
<1>9. ASSUME NEW j \in Instance, NEW x \in Nat, NEW z \in Nat, Held(j, s, x)',
             Elsewhere(j, s, z)'
      PROVE  x # z /\ (Owns(j, s)' => z < x)
  <2>1. Held(j, s, x) /\ (j = i => y < x)
    BY <1>2, <1>6, <1>9
  <2>2. Elsewhere(j, s, z) \/ z = y
    BY <1>4, <1>6, <1>9 DEF Elsewhere
  <2>3. CASE Elsewhere(j, s, z)
    BY <1>8, <2>1, <2>3 DEF IdInv, Apart
  <2>4. CASE z = y /\ j = i
    BY <1>2, <2>1, <2>4
  <2>5. CASE z = y /\ j # i
    <3>1. Elsewhere(j, s, z)
      BY <1>2, <2>5 DEF Elsewhere
    <3>2. QED
      BY <2>3, <3>1
  <2>6. QED
    BY <2>2, <2>3, <2>4, <2>5
<1>10. \A j \in Instance : Apart(j, s)'
  BY <1>9 DEF Apart
<1>11. \A j \in Instance : Sound(cache'[j][s], mark'[s])
  BY <1>1, <1>2 DEF IdInv
<1>12. \A z \in Nat : Out(s, z)' => 1 <= z /\ z <= mark'[s]
  BY <1>1, <1>4, <1>7 DEF IdInv
<1>13. ASSUME NEW d \in Caller, NEW z \in Nat, Carrying(d, s, z)'
       PROVE  z \notin delivered'[s] /\ \A e \in Caller \ {d} : ~Carrying(e, s, z)'
  <2>1. CASE d = c
    <3>1. z = y
      BY <1>1, <1>13, <2>1
    <3>2. QED
      BY <1>1, <1>2, <1>3, <1>7, <2>1, <3>1 DEF Out
  <2>2. CASE d # c
    <3>1. Carrying(d, s, z)
      BY <1>3, <1>13, <2>2
    <3>2. z # y
      BY <1>2, <1>7, <3>1 DEF Out
    <3>3. QED
      BY <1>1, <1>3, <3>1, <3>2 DEF IdInv
  <2>3. QED
    BY <2>1, <2>2
<1>14. QED
  BY <1>10, <1>11, <1>12, <1>13 DEF IdInv

LEMMA HandedIds ==
    ASSUME LocalOK, NEW s \in Slot, IdInv(s),
           NEW c \in Caller, NEW y \in Nat, Handed(c, s, y)
    PROVE  IdInv(s)'
<1>1. /\ mark'[s] = mark[s] /\ UNCHANGED <<slot, slots, cache>>
      /\ Carrying(c, s, y) /\ Others(c)
      /\ delivered'[s] = Given(delivered[s], y)
      /\ \A z \in Nat : ~Carrying(c, s, z)'
  BY DEF Handed
<1>2. \A d \in Caller, z \in Nat : d # c => (Carrying(d, s, z)' <=> Carrying(d, s, z))
  BY <1>1, OthersCarry
<1>3. y \notin delivered[s] /\ \A d \in Caller \ {c} : ~Carrying(d, s, y)
  BY <1>1 DEF IdInv
<1>4. delivered'[s] = delivered[s] \cup {y}
  BY <1>1, <1>3 DEF Given
<1>5. Out(s, y)
  BY <1>1 DEF Out
<1>6. \A z \in Nat : Out(s, z)' => Out(s, z)
  BY <1>1, <1>2, <1>4, <1>5 DEF Out
<1>7. \A i \in Instance, z \in Nat : Held(i, s, z)' <=> Held(i, s, z)
  BY <1>1 DEF Held
<1>8. \A i \in Instance : Owns(i, s)' <=> Owns(i, s)
  BY <1>1 DEF Owns
<1>9. ASSUME NEW i \in Instance, NEW x \in Nat, NEW z \in Nat, Held(i, s, x)',
             Elsewhere(i, s, z)'
      PROVE  x # z /\ (Owns(i, s)' => z < x)
  <2>1. Held(i, s, x) /\ Elsewhere(i, s, z)
    BY <1>6, <1>7, <1>9 DEF Elsewhere
  <2>2. QED
    BY <1>8, <2>1 DEF IdInv, Apart
<1>10. \A i \in Instance : Apart(i, s)'
  BY <1>9 DEF Apart
<1>11. \A i \in Instance : Sound(cache'[i][s], mark'[s])
  BY <1>1 DEF IdInv
<1>12. \A z \in Nat : Out(s, z)' => 1 <= z /\ z <= mark'[s]
  BY <1>1, <1>6 DEF IdInv
<1>13. ASSUME NEW d \in Caller, NEW z \in Nat, Carrying(d, s, z)'
       PROVE  z \notin delivered'[s] /\ \A e \in Caller \ {d} : ~Carrying(e, s, z)'
  <2>1. d # c /\ Carrying(d, s, z)
    BY <1>1, <1>2, <1>13
  <2>2. z # y
    BY <1>3, <2>1
  <2>3. QED
    BY <1>1, <1>2, <1>4, <2>1, <2>2 DEF IdInv
<1>14. QED
  BY <1>10, <1>11, <1>12, <1>13 DEF IdInv

LEMMA ReservedIds ==
    ASSUME LocalOK, NEW s \in Slot, IdInv(s), NEW c \in Caller, NEW i \in Instance,
           Reserved(c, i, s), call[c].epoch # 0
    PROVE  IdInv(s)'
<1>0. /\ mark[s] \in Nat /\ Step \in Nat /\ Step # 0 /\ mark'[s] = mark[s] + Step
      /\ cache[i][s] \in CachedRange
      /\ cache[i][s].next \in Nat /\ cache[i][s].end \in Nat
  BY RangeTypes DEF Reserved
<1>1. /\ UNCHANGED <<slot, slots>> /\ delivered'[s] = delivered[s]
      /\ HeldBy(i, s) /\ slot[s].epoch = call[c].epoch
      /\ \A z \in Nat : ~Carrying(c, s, z)'
      /\ Others(c)
      /\ \A j \in Instance : j # i => cache'[j][s] = cache[j][s]
  BY DEF Reserved
<1>2. \A d \in Caller, z \in Nat : Carrying(d, s, z)' => Carrying(d, s, z)
  <2>1. \A d \in Caller, z \in Nat : d # c => (Carrying(d, s, z)' <=> Carrying(d, s, z))
    BY <1>1, OthersCarry
  <2>2. QED
    BY <1>1, <2>1
<1>3. \A z \in Nat : Out(s, z)' => Out(s, z)
  BY <1>1, <1>2 DEF Out
<1>4. \A j \in Instance, x \in Nat : j # i => (Held(j, s, x)' <=> Held(j, s, x))
  BY <1>1 DEF Held
<1>5. \/ cache'[i][s] = cache[i][s]
      \/ /\ Owns(i, s)
         /\ cache'[i][s] = [cache[i][s] EXCEPT !.standby = mark[s] + 1]
  BY <1>1 DEF Reserved, Owns, HeldBy
<1>6. ASSUME Owns(i, s), cache'[i][s] = [cache[i][s] EXCEPT !.standby = mark[s] + 1]
      PROVE  /\ Sound(cache'[i][s], mark'[s])
             /\ \A x \in Nat : InRange(cache'[i][s], x) =>
                  InRange(cache[i][s], x) \/ mark[s] < x
  <2>1. /\ cache'[i][s].next = cache[i][s].next /\ cache'[i][s].end = cache[i][s].end
        /\ cache'[i][s].standby = mark[s] + 1
    BY <1>0, <1>6 DEF CachedRange
  <2>2. Sound(cache[i][s], mark[s])
    BY DEF IdInv
  <2>3. QED
    BY <1>0, <2>1, <2>2 DEF Sound, InRange
<1>7. \A x \in Nat : Held(i, s, x)' => Held(i, s, x) \/ (mark[s] < x /\ Owns(i, s))
  BY <1>5, <1>6 DEF Held
<1>8. ASSUME NEW j \in Instance
      PROVE  Sound(cache'[j][s], mark'[s])
  <2>1. Sound(cache[j][s], mark[s])
    BY DEF IdInv
  <2>2. cache'[j][s] = cache[j][s] => Sound(cache'[j][s], mark'[s])
    BY <1>0, <2>1, RangeTypes DEF Sound
  <2>3. QED
    BY <1>1, <1>5, <1>6, <2>2
<1>9. \A j \in Instance, x \in Nat : Held(j, s, x) => 1 <= x /\ x <= mark[s]
  BY HeldBelow DEF IdInv
<1>10. \A y \in Nat : Out(s, y) => 1 <= y /\ y <= mark[s]
  BY DEF IdInv
<1>11. \A j \in Instance : (Owns(j, s)' <=> Owns(j, s)) /\ (Owns(j, s) => j = i)
  BY <1>1 DEF Owns, HeldBy
<1>12. ASSUME NEW j \in Instance, NEW x \in Nat, NEW z \in Nat, Held(j, s, x)',
              Elsewhere(j, s, z)'
       PROVE  x # z /\ (Owns(j, s)' => z < x)
  <2>1. CASE j = i
    <3>1. Elsewhere(i, s, z)
      BY <1>3, <1>4, <1>12, <2>1 DEF Elsewhere
    <3>2. z <= mark[s]
      BY <1>9, <1>10, <3>1 DEF Elsewhere
    <3>3. CASE Held(i, s, x)
      BY <1>11, <2>1, <3>1, <3>3 DEF IdInv, Apart
    <3>4. CASE mark[s] < x
      BY <1>0, <3>2, <3>4
    <3>5. QED
      BY <1>7, <1>12, <2>1, <3>3, <3>4
  <2>2. CASE j # i
    <3>1. Held(j, s, x) /\ ~Owns(j, s)'
      BY <1>4, <1>11, <1>12, <2>2
    <3>2. Elsewhere(j, s, z) \/ mark[s] < z
      BY <1>3, <1>4, <1>7, <1>12 DEF Elsewhere
    <3>3. CASE Elsewhere(j, s, z)
      BY <3>1, <3>3 DEF IdInv, Apart
    <3>4. CASE mark[s] < z
      BY <1>0, <1>9, <3>1, <3>4
    <3>5. QED
      BY <3>2, <3>3, <3>4
  <2>3. QED
    BY <2>1, <2>2
<1>13. \A j \in Instance : Apart(j, s)'
  BY <1>12 DEF Apart
<1>14. \A y \in Nat : Out(s, y)' => 1 <= y /\ y <= mark'[s]
  BY <1>0, <1>3, <1>10
<1>15. \A d \in Caller, y \in Nat : Carrying(d, s, y)' =>
         y \notin delivered'[s] /\ \A e \in Caller \ {d} : ~Carrying(e, s, y)'
  BY <1>1, <1>2 DEF IdInv
<1>16. QED
  BY <1>8, <1>13, <1>14, <1>15 DEF IdInv

LEMMA IdInvStep ==
    ASSUME Known, CallsKnown, [HANext]_haVars, NEW s \in Slot, IdInv(s)
    PROVE  IdInv(s)'
<1>0. TypeOK /\ LocalOK /\ AuthorityKnown
  BY DEF Known
<1>1. CASE IdsKept(s)
  BY <1>0, <1>1, KeptIds
<1>2. ASSUME NEW c \in Caller, NEW y \in Nat, Taken(c, call[c].inst, s, y)
      PROVE  IdInv(s)'
  <2>1. call[c].inst \in Instance
    BY <1>0, <1>2, RunningCalls DEF Taken, Running
  <2>2. QED
    BY <1>0, <1>2, <2>1, TakenIds
<1>3. ASSUME NEW c \in Caller, NEW y \in Nat, Handed(c, s, y)
      PROVE  IdInv(s)'
  BY <1>0, <1>3, HandedIds
<1>4. ASSUME NEW c \in Caller, Reserved(c, call[c].inst, s)
      PROVE  IdInv(s)'
  <2>1. call[c] \in Running
    BY <1>0, <1>4, RunningCalls DEF Reserved
  <2>2. call[c].inst \in Instance /\ RunInv(call[c])
    BY <2>1 DEF Running, CallsKnown
  <2>3. call[c].epoch # 0
    BY <2>2 DEF RunInv
  <2>4. QED
    BY <1>0, <1>4, <2>2, <2>3, ReservedIds
<1>5. QED
  BY <1>0, <1>1, <1>2, <1>3, <1>4, IdKinds

\* The greatest id that was out when the call began, and the id it carries.
FloorInv(r) ==
    /\ r.floor \in delivered[r.slot] \cup {0}
    /\ r.at \in {"advanced", "bounded", "confirmed"} /\ r.id # 0 /\ ~r.late =>
         r.floor < r.id

FloorsKnown == \A r \in Running : (\E c \in Caller : call[c] = r) => FloorInv(r)

LEMMA DeliveredGrow ==
    ASSUME LocalOK, [HANext]_haVars, NEW s \in Slot
    PROVE  delivered[s] \subseteq delivered'[s]
  BY IdKinds DEF IdsKept, Taken, Handed, Reserved, Given

LEMMA FloorMoves ==
    ASSUME LocalOK, NEW q \in Running, NEW r \in Running, Move(q, r), FloorInv(q),
           q.epoch # 0, IdInv(q.slot)
    PROVE  FloorInv(r)
<1>1. /\ q.inst \in Instance /\ q.slot \in Slot /\ q.floor \in Nat
      /\ r.slot = q.slot /\ r.floor = q.floor /\ r.id \in Nat
  BY DEF Move, SameRequest, Running
<1>2. r.floor \in delivered[r.slot] \cup {0}
  BY <1>1 DEF FloorInv
<1>3. ASSUME r.at = "advanced", r.id # 0, ~r.late
      PROVE  r.floor < r.id
  <2>1. ~MovedOn(q) /\ Takes(q, r.id)
    BY <1>3 DEF Move
  <2>2. Owns(q.inst, q.slot) /\ Held(q.inst, q.slot, r.id)
    BY <2>1 DEF MovedOn, Takes, Owns, Held
  <2>3. q.floor \in delivered[q.slot] => Elsewhere(q.inst, q.slot, q.floor)
    BY DEF Elsewhere, Out
  <2>4. q.floor \in delivered[q.slot] => q.floor < r.id
    BY <1>1, <2>2, <2>3 DEF IdInv, Apart
  <2>5. QED
    BY <1>1, <1>2, <1>3, <2>4
<1>4. r.at \in {"bounded", "confirmed"} =>
        q.at \in {"advanced", "bounded"} /\ r.id = q.id /\ r.late = q.late
  BY DEF Move, SameRest
<1>5. QED
  BY <1>1, <1>2, <1>3, <1>4 DEF FloorInv

LEMMA FloorsStep ==
    ASSUME Known, CallsKnown, FloorsKnown, [HANext]_haVars, \A s \in Slot : IdInv(s)
    PROVE  FloorsKnown'
<1>0. TypeOK /\ LocalOK /\ LocalOK'
  BY LocalTypesStep DEF Known
<1> SUFFICES ASSUME NEW r \in Running, NEW c \in Caller, call'[c] = r
             PROVE  FloorInv(r)'
  BY DEF FloorsKnown
<1>1. r.at # "idle" /\ r.slot \in Slot
  BY DEF Running, RunLabel
<1>2. delivered[r.slot] \subseteq delivered'[r.slot]
  BY <1>0, <1>1, DeliveredGrow
<1>3. CASE call[c].at # "idle"
  <2>1. PICK q \in Running : call[c] = q
    BY <1>0, <1>3, RunningCalls
  <2>2. FloorInv(q) /\ RunInv(q)
    BY <2>1 DEF CallsKnown, FloorsKnown
  <2>3. q.epoch # 0 /\ IdInv(q.slot)
    BY <2>2 DEF RunInv, Running
  <2>4. q = r \/ Move(q, r)
    BY <1>0, <1>1, <1>3, <2>1, CallFrame, CallMoves
  <2>5. FloorInv(r)
    BY <1>0, <2>2, <2>3, <2>4, FloorMoves
  <2>6. QED
    BY <1>2, <2>5 DEF FloorInv
<1>4. CASE call[c].at = "idle"
  <2>1. CallNext(c)
    BY <1>0, <1>1, <1>4, CallFrame
  <2>2. PICK i \in Instance, s \in Slot :
          /\ Enter(c, i, s)
          /\ r.at = "entered" /\ r.slot = s /\ r.floor = Greatest(delivered[s])
    BY <1>0, <1>4, <2>1, EnteredFields
  <2>3. Greatest(delivered[s]) \in delivered[s] \cup {0}
    BY <1>0, GreatestId DEF LocalOK, Ids
  <2>4. QED
    BY <1>2, <2>2, <2>3 DEF FloorInv
<1>5. QED
  BY <1>3, <1>4

\* Where the ids are, and what they are compared with, all of it.
IdsKnown ==
    /\ \A s \in Slot : IdInv(s)
    /\ FloorsKnown

\* It always holds: an id is in one place, and the ranges of a slot's owner are above
\* all that any other process or call ever took.
THEOREM KnownIds == HASpec => []IdsKnown
<1>1. HAInit => IdsKnown
  <2> SUFFICES ASSUME HAInit
               PROVE  IdsKnown
    OBVIOUS
  <2>1. \A r \in Running, c \in Caller : call[c] # r
    BY DEF HAInit, NoCall, Running, RunLabel
  <2>2. ASSUME NEW s \in Slot
        PROVE  IdInv(s)
    <3>1. \A y : ~Out(s, y) /\ \A c \in Caller : ~Carrying(c, s, y)
      BY DEF HAInit, NoCall, Out, Carrying
    <3>2. \A i \in Instance, x \in Nat : ~Held(i, s, x)
      BY DEF HAInit, NoRange, Held, InRange
    <3>3. \A i \in Instance : Sound(cache[i][s], mark[s])
      BY DEF HAInit, NoRange, Sound
    <3>4. \A i \in Instance : Apart(i, s)
      BY <3>2 DEF Apart
    <3>5. QED
      BY <3>1, <3>3, <3>4 DEF IdInv
  <2>3. QED
    BY <2>1, <2>2 DEF IdsKnown, FloorsKnown
<1>2. Known /\ CallsKnown /\ IdsKnown /\ [HANext]_haVars => IdsKnown'
  <2> SUFFICES ASSUME Known, CallsKnown, IdsKnown, [HANext]_haVars
               PROVE  IdsKnown'
    OBVIOUS
  <2>1. \A s \in Slot : IdInv(s)'
    BY IdInvStep DEF IdsKnown
  <2>2. FloorsKnown'
    BY FloorsStep DEF IdsKnown
  <2>3. QED
    BY <2>1, <2>2 DEF IdsKnown
<1>3. HASpec => []Known
  BY AllKnown
<1>4. QED
  BY <1>1, <1>2, <1>3, KnownCalls, PTL DEF HASpec

-----------------------------------------------------------------------------
\* The promise to the callers.

\* The request a caller has, to MonotonicIds.
Request(r) == IF r.at = "idle" THEN [floor |-> -1] ELSE [key |-> r.slot, floor |-> r.floor]
Requests == [c \in Caller |-> Request(call[c])]

LEMMA EnterStarts ==
    ASSUME LocalOK, IdsKnown, NEW c \in Caller, NEW i \in Instance, NEW s \in Slot,
           Enter(c, i, s)
    PROVE  Promise!Next
<1> DEFINE floor == Greatest(delivered[s])
<1>1. /\ floor \in delivered[s] \cup {0} /\ floor \in Nat
      /\ \A y \in delivered[s] : y <= floor
      /\ delivered[s] \subseteq Nat
  BY GreatestId DEF LocalOK, Ids
<1>2. floor \in (1..MaxMark) \cup {0}
  <2>1. floor \in delivered[s] => 1 <= floor /\ floor <= mark[s]
    BY <1>1 DEF IdsKnown, IdInv, Out
  <2>2. mark[s] \in 0..MaxMark /\ MaxMark \in Nat
    BY ConstantTypes DEF LocalOK, Ids
  <2>3. QED
    BY <1>1, <2>1, <2>2
<1>3. \A y \in delivered[s] : y < floor + 1
  BY <1>1
<1>4. /\ call[c].at = "idle" /\ delivered' = delivered
      /\ call'[c].at = "entered" /\ call'[c].slot = s /\ call'[c].floor = floor
      /\ \A d \in Caller : d # c => call'[d] = call[d]
  <2>1. call[c].at = "idle" /\ delivered' = delivered
    BY DEF Enter
  <2>2. CallNext(c)
    BY DEF CallNext
  <2>3. Others(c)
    BY <2>2, CallOthers
  <2>4. call'[c] = [at |-> "entered", inst |-> i, slot |-> s, epoch |-> slots[i][s].epoch,
                    floor |-> floor, started |-> 0, id |-> 0, revision |-> 0,
                    late |-> FALSE]
    BY DEF Enter, LocalOK, Ids
  <2>5. QED
    BY <2>1, <2>3, <2>4 DEF Others
<1> HIDE DEF floor
<1>5. Requests[c] = [floor |-> -1]
  BY <1>4 DEF Requests, Request
<1>6. Requests' = [Requests EXCEPT ![c] = [key |-> s, floor |-> floor]]
  BY <1>4 DEF Requests, Request
<1>7. /\ floor \in delivered[s] \cup {0}
      /\ \A y \in delivered[s] : y < floor + 1
      /\ UNCHANGED delivered
  BY <1>1, <1>3, <1>4
<1>8. \E d \in Caller, k \in Slot, f \in (1..MaxMark) \cup {0} :
        /\ Requests[d] = [floor |-> -1]
        /\ f \in delivered[k] \cup {0}
        /\ \A y \in delivered[k] : y < f + 1
        /\ Requests' = [Requests EXCEPT ![d] = [key |-> k, floor |-> f]]
        /\ UNCHANGED delivered
  BY <1>2, <1>5, <1>6, <1>7
<1>9. QED
  BY <1>8, Zenon DEF Promise!Next, Promise!Start, Promise!NoRequest, Promise!Below, Requests, Request

LEMMA HandReturns ==
    ASSUME Known, CallsKnown, IdsKnown, NEW c \in Caller,
           call[c].at = "confirmed", call[c].id # 0, Leave(c), Others(c),
           delivered' = [delivered EXCEPT ![call[c].slot] = Given(@, call[c].id)]
    PROVE  Promise!Next
<1> DEFINE s == call[c].slot
           y == call[c].id
<1>1. /\ call[c] \in Running /\ s \in Slot /\ y \in Nat /\ call[c].floor \in Nat
      /\ LocalOK
  BY RunningCalls DEF Known, Running
<1>2. RunInv(call[c]) /\ FloorInv(call[c]) /\ IdInv(s)
  BY <1>1 DEF CallsKnown, IdsKnown, FloorsKnown
<1>3. call[c].floor < y
  BY <1>2 DEF RunInv, FloorInv
<1>4. Carrying(c, s, y)
  BY DEF Carrying
<1>5. y \notin delivered[s] /\ 1 <= y /\ y <= mark[s]
  BY <1>1, <1>2, <1>4 DEF IdInv, Out
<1>6. y \in 1..MaxMark
  <2>1. mark[s] \in 0..MaxMark /\ MaxMark \in Nat
    BY <1>1, ConstantTypes DEF LocalOK, Ids
  <2>2. QED
    BY <1>1, <1>5, <2>1
<1>7. y..y = {y}
  BY <1>1
<1>8. delivered' = [delivered EXCEPT ![s] = delivered[s] \cup y..y]
  BY <1>5, <1>7 DEF Given
<1>9. /\ call'[c].at = "idle"
      /\ \A d \in Caller : d # c => call'[d] = call[d]
  BY <1>1, LeaveFields DEF Others
<1>10. Requests[c] = [key |-> s, floor |-> call[c].floor]
  BY DEF Requests, Request
<1>11. Requests' = [Requests EXCEPT ![c] = [floor |-> -1]]
  BY <1>9 DEF Requests, Request
<1> HIDE DEF y, s
<1> USE <1>6
<1>12. Requests[c] # [floor |-> -1]
  <2>1. Requests[c].floor = call[c].floor
    BY <1>10
  <2>2. QED
    BY <1>1, <2>1
<1>13. delivered[Requests[c].key] \cap y..y = {}
  BY <1>5, <1>7, <1>10
<1>14. delivered' = [delivered EXCEPT ![Requests[c].key] = delivered[Requests[c].key] \cup y..y]
  <2>1. Requests[c].key = s
    BY <1>10
  <2>2. QED
    BY <1>8, <2>1
<1>15. y > Requests[c].floor /\ y <= y
  BY <1>1, <1>3, <1>10
<1>16. \E d \in Caller, first, last \in 1..MaxMark :
         /\ Requests[d] # [floor |-> -1]
         /\ first > Requests[d].floor
         /\ first <= last
         /\ delivered[Requests[d].key] \cap first..last = {}
         /\ delivered' = [delivered EXCEPT ![Requests[d].key] = @ \cup first..last]
         /\ Requests' = [Requests EXCEPT ![d] = [floor |-> -1]]
  BY <1>6, <1>11, <1>12, <1>13, <1>14, <1>15
<1>17. QED
  BY <1>16, Zenon DEF Promise!Next, Promise!Return, Promise!NoRequest, Requests, Request

LEMMA RestFails ==
    ASSUME LocalOK, delivered' = delivered,
           \A c \in Caller :
              \/ call'[c] = call[c]
              \/ call'[c].at = "idle"
              \/ /\ call[c].at # "idle" /\ call'[c].at # "idle"
                 /\ SameRequest(call[c], call'[c])
    PROVE  Promise!Next
<1> DEFINE failed == {c \in Caller : call'[c].at = "idle"}
<1>1. Requests' = [c \in Caller |-> IF c \in failed THEN [floor |-> -1] ELSE Requests[c]]
  BY DEF Requests, Request, SameRequest
<1>2. failed \in SUBSET Caller
  OBVIOUS
<1> HIDE DEF failed
<1>3. \E T \in SUBSET Caller :
        /\ Requests' = [c \in Caller |-> IF c \in T THEN [floor |-> -1] ELSE Requests[c]]
        /\ UNCHANGED delivered
  BY <1>1, <1>2, Zenon
<1>4. QED
  BY <1>3, Zenon DEF Promise!Next, Promise!Fail, Promise!NoRequest, Requests, Request

\* Only the last check of a call hands out an id.
LEMMA OnlyEndDelivers ==
    ASSUME LocalOK, [HANext]_haVars, delivered' # delivered
    PROVE  \E c \in Caller :
              /\ CallNext(c)
              /\ call[c].at = "confirmed" /\ call[c].id # 0 /\ Leave(c)
              /\ delivered' = [delivered EXCEPT ![call[c].slot] = Given(@, call[c].id)]
<1>1. ASSUME NEW c \in Caller, CallNext(c)
      PROVE  EndDeadline(c)
  <2>1. ~(\E i \in Instance, s \in Slot : Enter(c, i, s))
    BY DEF Enter
  <2>2. ~BeginGate(c) /\ ~BeginDeadline(c) /\ ~EndBound(c) /\ ~EndGate(c)
    BY DEF BeginGate, BeginDeadline, EndBound, EndGate, Check
  <2>3. ~Advance(c) /\ ~Refill(c) /\ ~Wake(c) /\ ~Reserve(c) /\ ~GiveUp(c)
    BY Zenon DEF Advance, Refill, Wake, Reserve, GiveUp
  <2>4. QED
    BY <1>1, <2>1, <2>2, <2>3 DEF CallNext
<1>2. ASSUME NEW c \in Caller, EndDeadline(c)
      PROVE  /\ call[c].at = "confirmed" /\ call[c].id # 0 /\ Leave(c)
             /\ delivered' = [delivered EXCEPT ![call[c].slot] = Given(@, call[c].id)]
  BY <1>2 DEF EndDeadline
<1>3. ASSUME NEW i \in Instance,
             AuthorityNext(i) \/ PassNext(i) \/ ShutdownNext(i) \/ Crash(i)
      PROVE  FALSE
  <2>1. ~AuthorityNext(i)
    BY DEF AuthorityNext, Register, StartRenew, Reanchor, Renew, Publish, Claim,
           ReadAuthority, Apply, AuthorityStep
  <2>2. ~PassNext(i)
    BY DEF PassNext, ReadHandoffs, DropGates, SyncPass, Decide, Send, PassStep
  <2>3. ~ShutdownNext(i)
    BY Zenon DEF ShutdownNext, Stop, Detach, IncludeHeld, WithdrawSlot, FindDrain,
           AckRelease, FinishShutdown, Retire, ReleaseStep, ShutdownStep
  <2>4. ~Crash(i)
    BY DEF Crash
  <2>5. QED
    BY <1>3, <2>1, <2>2, <2>3, <2>4
<1>4. ~Pass /\ ~Coordinate /\ ~UNCHANGED haVars
  BY DEF Pass, Coordinate, haVars
<1>5. PICK c \in Caller : CallNext(c)
  BY <1>3, <1>4 DEF HANext
<1>6. QED
  BY <1>1, <1>2, <1>5

LEMMA PromiseStep ==
    ASSUME Known, CallsKnown, IdsKnown, [HANext]_haVars
    PROVE  Promise!Next
<1>0. LocalOK
  BY DEF Known
<1>1. CASE \E c \in Caller, i \in Instance, s \in Slot : Enter(c, i, s)
  BY <1>0, <1>1, EnterStarts
<1>2. CASE delivered' # delivered
  <2>1. PICK c \in Caller :
          /\ CallNext(c)
          /\ call[c].at = "confirmed" /\ call[c].id # 0 /\ Leave(c)
          /\ delivered' = [delivered EXCEPT ![call[c].slot] = Given(@, call[c].id)]
    BY <1>0, <1>2, OnlyEndDelivers
  <2>2. QED
    BY <1>0, <2>1, CallOthers, HandReturns
<1>3. CASE /\ delivered' = delivered
           /\ ~\E c \in Caller, i \in Instance, s \in Slot : Enter(c, i, s)
  <2>1. ASSUME NEW c \in Caller, call'[c] # call[c], call'[c].at # "idle"
        PROVE  call[c].at # "idle" /\ SameRequest(call[c], call'[c])
    <3>1. CallNext(c)
      BY <1>0, <2>1, CallFrame
    <3>2. call[c].at # "idle"
      BY <1>0, <1>3, <3>1, EnteredFields
    <3>3. QED
      BY <1>0, <2>1, <3>1, <3>2, CallMoves DEF Move
  <2>2. QED
    BY <1>0, <1>3, <2>1, RestFails
<1>4. QED
  BY <1>1, <1>2, <1>3

\* What the service promises its callers, per key, for any number of instances, slots,
\* callers and ids and any times that keep QuietWindowFloor: no id twice, and every id
\* above those that were out when the call began.
THEOREM MonotonicHolds == HASpec => Monotonic
<1>1. HAInit => Promise!Init
  BY DEF HAInit, NoCall, Promise!Init, Promise!NoRequest
<1>2. Known /\ CallsKnown /\ IdsKnown /\ [HANext]_haVars => [Promise!Next]_Promise!vars
  BY PromiseStep
<1>3. QED
  BY <1>1, <1>2, AllKnown, KnownCalls, KnownIds, PTL DEF HASpec, Monotonic, Promise!Spec

-----------------------------------------------------------------------------
\* The shape of the local state, the ids included: none is out that storage has not
\* reserved.
THEOREM HATypes == HASpec => []HATypeOK
<1>1. TypeOK /\ LocalOK /\ IdsKnown => HATypeOK
  <2> SUFFICES ASSUME TypeOK, LocalOK, IdsKnown
               PROVE  HATypeOK
    OBVIOUS
  <2>1. clock \in 0..now
    BY DEF LocalOK, Clocks, TypeOK
  <2>2. ASSUME NEW s \in Slot
        PROVE  delivered[s] \in SUBSET (1..MaxMark)
    <3>1. mark[s] \in 0..MaxMark /\ MaxMark \in Nat /\ delivered[s] \in SUBSET Nat
      BY ConstantTypes DEF LocalOK, Ids
    <3>2. \A y \in delivered[s] : 1 <= y /\ y <= mark[s]
      BY <3>1 DEF IdsKnown, IdInv, Out
    <3>3. QED
      BY <3>1, <3>2
  <2>3. delivered \in [Slot -> SUBSET (1..MaxMark)]
    BY <2>2 DEF LocalOK, Ids
  <2>4. /\ mark \in [Slot -> 0..MaxMark] /\ call \in [Caller -> Call]
        /\ cache \in [Instance -> [Slot ->
                        [next: Nat, end: Nat, standby: Nat, fresh: BOOLEAN]]]
    BY DEF LocalOK, Ids, CachedRange
  <2>5. /\ proc \in [Instance -> {"started", "initialized", "fenced", "stopping", "detached",
                                  "releasing", "gone", "crashed"}]
        /\ ownershipRevision \in [Instance -> Nat]
        /\ localDeadline \in [Instance -> Nat]
        /\ slots \in [Instance -> [Slot -> [epoch: Nat, open: BOOLEAN]]]
        /\ \A i \in Instance, s \in Slot : slots[i][s].open => slots[i][s].epoch # 0
        /\ drainingSlots \in [Instance -> [Slot -> Nat]]
    BY DEF LocalOK, Gates, Gate, ProcState
  <2>6. /\ authority \in [Instance -> Section]
        /\ pass \in [Instance -> HandoffLoop]
        /\ releases \in [Instance -> [Slot ->
                           [at: {"none", "withdraw", "look", "drain", "transfer"},
                            epoch: Nat, id: HandoffId \cup {None}]]]
    BY DEF LocalOK, Loops, ReleaseItem
  <2>7. QED
    BY <2>1, <2>3, <2>4, <2>5, <2>6, Zenon DEF HATypeOK
<1>2. HASpec => []TypeOK
  BY Implementation, TypeCorrect
<1>3. QED
  BY <1>1, <1>2, LocalTypes, KnownIds, PTL
=============================================================================
