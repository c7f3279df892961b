----------------------------- MODULE SequenceHA -----------------------------
(***************************************************************************)
(* The instances of the sequence service over their storage: every process *)
(* with its local lease, its slot gates and its cached ranges, the callers *)
(* it serves, the loops that renew, claim and hand off, its shutdown and   *)
(* its crash (internal/sequence/biz/authority.go, allocator.go and the     *)
(* gates of allocation.go), over the transactions of SlotAuthority.        *)
(*                                                                         *)
(* A process is not one action: it talks to storage between two local      *)
(* steps, its loops run concurrently, and a caller reads the gate, the     *)
(* deadline, the cursor and the clock one after the other.                 *)
(*                                                                         *)
(* Abstractions.                                                           *)
(*  - A slot serves one key, so mark[s] is the reserved_end of its row and *)
(*    one cached range stands for the slot's key states.  A call is for    *)
(*    one id; the fast and the slow path of an allocation are one path.    *)
(*    Background prefetch and eviction are left to a module of key states. *)
(*  - clock is the monotonic time all processes share; the storage clock   *)
(*    `now' may run ahead of it by MaxSkew, which stands for ClockDrift    *)
(*    and ClockJump together.                                              *)
(*  - The early check of authorize is left out: it only refuses what the   *)
(*    same check refuses later.  So are the counters and the recorder.     *)
(*  - An answer lost on its way is a commit whose caller learns nothing.   *)
(*  - A process registers its id once; a restarted one has another id.     *)
(***************************************************************************)
EXTENDS SlotAuthority

CONSTANTS
    Caller,        \* outstanding calls
    SafetyMargin, MaxPause,   \* HAConfig
    MaxSkew,       \* ClockDrift + ClockJump
    Step,          \* ids per reservation
    MaxMark,       \* bound: the last id storage may reserve
    StartTime,     \* bound: the tick from which each process is up
    Stopping, Crashing   \* bound: the instances that may shut down, or die

\* HAConfig.QuietWindowFloor, and what ValidateAuthority asks of its terms.
ASSUME FloorAssumption ==
    /\ {SafetyMargin, MaxPause} \subseteq Nat \ {0}
    /\ MaxSkew \in Nat
    /\ QuietWindow >= Lease + MaxPause + MaxSkew + SafetyMargin
    /\ Step \in Nat \ {0}
    /\ MaxMark \in Nat
    /\ StartTime \in [Instance -> Nat]
    /\ Stopping \subseteq Instance /\ Crashing \subseteq Instance

VARIABLES
    clock,              \* the monotonic clock of the processes
    mark,               \* sequence_ranges.reserved_end
    proc,               \* how far each process got: initialized, fenced, stopping
    ownershipRevision, localDeadline,   \* the allocator's atomics
    slots,              \* a.slots: the gate of each slot, and its epoch
    drainingSlots,      \* a.drainingSlots: the epoch of the withdrawn gate, or 0
    cache,              \* the range of the key in a.slots[s]
    authority,          \* what holds authorityMu, and how far it got
    pass,               \* the handoff loop
    releases,           \* the slots a shutdown gives back
    call,               \* the callers
    delivered           \* history: the ids handed out

local == <<proc, ownershipRevision, localDeadline, slots, drainingSlots, cache,
           authority, pass, releases, call>>
haVars == <<vars, clock, mark, proc, ownershipRevision, localDeadline, slots,
            drainingSlots, cache, authority, pass, releases, call, delivered>>

-----------------------------------------------------------------------------
\* What a process keeps.

\* A gate: the epoch of the allocationSlot in a.slots, 0 when there is none, and
\* whether it is open.  A gate that is not open yet is in a.pendingActive.
NoGate == [epoch |-> 0, open |-> FALSE]

\* next is the next id to hand out; the range is used up when next > end.
NoRange == [next |-> 1, end |-> 0, standby |-> 0, fresh |-> TRUE]

Unlocked == [at |-> "idle"]
NoPass == [at |-> "idle"]
NoRelease == [at |-> "none", epoch |-> 0, id |-> None]
NoCall == [at |-> "idle"]

Up(i) == proc[i] \in {"started", "initialized"}

\* The gate a call went through is in a.slots, and it is still open.
Current(c) == slots[call[c].inst][call[c].slot].epoch = call[c].epoch
Open(c) ==
    slots[call[c].inst][call[c].slot] = [epoch |-> call[c].epoch, open |-> TRUE]

\* checkLocalLease.  Its mutant forgets that a lease ends.
LeaseGranted(i) == localDeadline[i] # 0
InTime(i) == clock < localDeadline[i]

\* slot.inflight of the gate of s at this epoch
Inflight(i, s, epoch) ==
    {c \in Caller : /\ call[c].at # "idle"
                    /\ call[c].inst = i
                    /\ call[c].slot = s
                    /\ call[c].epoch = epoch}

\* The ids that are out, with one more; a 0 says that it was out already.
Given(ids, id) == ids \cup {IF id \in ids THEN 0 ELSE id}

Greatest(S) == CHOOSE x \in S \cup {0} : \A y \in S : y <= x

\* What holds authorityMu.
Section ==
    {Unlocked}
    \cup [at: {"sync"}, then: {"renew", "again", "pass", "unlock"}]
    \cup [at: {"read"}, then: {"renew", "again", "pass", "unlock"},
          revision: Nat, owned: [Slot -> Nat]]
    \cup [at: {"renew"}, attempt: {0, 1}]
    \cup [at: {"anchored"}, anchor: Nat, attempt: {0, 1}]
    \cup [at: {"granted"}, anchor: Nat]

HandoffLoop ==
    {NoPass}
    \cup [at: {"read", "dropped", "syncing", "synced"}, rows: [Slot -> HandoffRow]]
    \cup [at: {"send"}, rows: [Slot -> HandoffRow], revision: Nat,
          command: [Slot -> {"NONE", "PREPARE", "BEGIN", "TRANSFER", "ACK_DRAIN",
                             "ACK_ACTIVE"}]]

Call ==
    {NoCall}
    \cup [at: {"entered", "gated", "begun", "advanced", "bounded", "confirmed", "dry",
               "reserving", "waiting"},
          inst: Instance, slot: Slot, epoch: Nat, floor: Nat, started: Nat, id: Nat,
          revision: Nat, late: BOOLEAN]

HAInit ==
    /\ Init
    /\ clock = 0
    /\ mark = [s \in Slot |-> 0]
    /\ proc = [i \in Instance |-> "started"]
    /\ ownershipRevision = [i \in Instance |-> 0]
    /\ localDeadline = [i \in Instance |-> 0]
    /\ slots = [i \in Instance |-> [s \in Slot |-> NoGate]]
    /\ drainingSlots = [i \in Instance |-> [s \in Slot |-> 0]]
    /\ cache = [i \in Instance |-> [s \in Slot |-> NoRange]]
    /\ authority = [i \in Instance |-> Unlocked]
    /\ pass = [i \in Instance |-> NoPass]
    /\ releases = [i \in Instance |-> [s \in Slot |-> NoRelease]]
    /\ call = [c \in Caller |-> NoCall]
    /\ delivered = [s \in Slot |-> {}]

-----------------------------------------------------------------------------
\* Calls (FetchNext, allocate, allocateSlow).

CallStep == UNCHANGED <<vars, clock, mark, ownershipRevision, localDeadline, slots,
                        drainingSlots, authority, pass, releases>>

Leave(c) == call' = [call EXCEPT ![c] = NoCall]
Goto(c, label) == call' = [call EXCEPT ![c].at = label]
\* A check of the call: on to the next label, or out with an error.
Check(c, label, condition) ==
    /\ IF condition THEN Goto(c, label) ELSE Leave(c)
    /\ CallStep
    /\ UNCHANGED <<proc, cache, delivered>>

\* enterSlot: the gate is looked up, found open and counted under slotsMu.
Enter(c, i, s) ==
    /\ call[c].at = "idle"
    /\ Up(i)
    /\ slots[i][s].open
    /\ call' = [call EXCEPT ![c] =
          [at |-> "entered", inst |-> i, slot |-> s, epoch |-> slots[i][s].epoch,
           floor |-> Greatest(delivered[s]), started |-> 0, id |-> 0,
           revision |-> 0, late |-> FALSE]]
    /\ CallStep
    /\ UNCHANGED <<proc, cache, delivered>>

\* beginLinearization: the clock and the gate; then, as a read of its own, the
\* deadline, which a renewal may have moved in between.
BeginGate(c) ==
    /\ call[c].at = "entered"
    /\ IF Up(call[c].inst) /\ Open(c)
       THEN call' = [call EXCEPT ![c].at = "gated", ![c].started = clock]
       ELSE Leave(c)
    /\ CallStep
    /\ UNCHANGED <<proc, cache, delivered>>

BeginDeadline(c) ==
    /\ call[c].at = "gated"
    /\ Check(c, "begun", InTime(call[c].inst))

\* The cursor moves on; late remembers that the slot had left this epoch.  A
\* call that finds the range used up still passes the checks that follow.
Advance(c) ==
    LET i == call[c].inst
        s == call[c].slot
        range == cache[i][s]
        id == IF Current(c) /\ range.next <= range.end THEN range.next ELSE 0
    IN  /\ call[c].at = "begun"
        /\ call' = [call EXCEPT ![c].id = id,
                      ![c].at = IF Current(c) /\ range.fresh THEN "dry" ELSE "advanced",
                      ![c].late = slot[s].owner # i \/ slot[s].epoch # call[c].epoch]
        /\ cache' = IF id = 0 THEN cache
                    ELSE [cache EXCEPT ![i][s].next = range.next + 1]
        /\ CallStep
        /\ UNCHANGED <<proc, delivered>>

\* checkFastPathBound: a pause beyond its bound fences the whole process.
EndBound(c) ==
    LET i == call[c].inst
    IN  /\ call[c].at = "advanced"
        /\ IF clock - call[c].started <= MaxPause
           THEN Goto(c, "bounded") /\ UNCHANGED proc
           ELSE /\ Leave(c)
                /\ proc' = IF Up(i) THEN [proc EXCEPT ![i] = "fenced"] ELSE proc
        /\ CallStep
        /\ UNCHANGED <<cache, delivered>>

EndGate(c) ==
    /\ call[c].at = "bounded"
    /\ Check(c, "confirmed", Up(call[c].inst) /\ Open(c))

\* The last check; the id leaves the process, or there was none to hand out.
EndDeadline(c) ==
    LET s == call[c].slot
    IN  /\ call[c].at = "confirmed"
        /\ IF ~InTime(call[c].inst)
           THEN Leave(c) /\ UNCHANGED delivered
           ELSE IF call[c].id = 0
                THEN Goto(c, "dry") /\ UNCHANGED delivered
                ELSE /\ Leave(c)
                     /\ delivered' = [delivered EXCEPT ![s] = Given(@, call[c].id)]
        /\ CallStep
        /\ UNCHANGED <<proc, cache>>

\* allocateSlow under k.mu: the standby range becomes the active one, or the
\* call waits for the fetch in flight, or starts one with the authority it
\* reads now (withEpoch).
Fetching(i, s, epoch) == {c \in Inflight(i, s, epoch) : call[c].at = "reserving"}

\* activateStandbyLocked, which hands out the first id of the standby range at once.
\* Its mutant leaves the cursor before that id.
ActivatedTwice(standby) ==
    [next |-> standby, end |-> standby + Step - 1, standby |-> 0, fresh |-> FALSE]
Activated(standby) ==
    [next |-> standby + 1, end |-> standby + Step - 1, standby |-> 0, fresh |-> FALSE]

Refill(c) ==
    LET i == call[c].inst
        s == call[c].slot
        standby == cache[i][s].standby
    IN  /\ call[c].at = "dry"
        /\ IF Current(c) /\ standby # 0
           THEN /\ cache' = [cache EXCEPT ![i][s] = Activated(standby)]
                /\ call' = [call EXCEPT ![c].at = "advanced", ![c].id = standby,
                      ![c].late = slot[s].owner # i \/ slot[s].epoch # call[c].epoch]
           ELSE /\ IF Fetching(i, s, call[c].epoch) # {}
                   THEN Goto(c, "waiting")
                   ELSE call' = [call EXCEPT ![c].at = "reserving",
                                             ![c].revision = ownershipRevision[i]]
                /\ UNCHANGED cache
        /\ CallStep
        /\ UNCHANGED <<proc, delivered>>

\* Waiting ends when the fetch does, one way or the other.
Wake(c) ==
    /\ call[c].at = "waiting"
    /\ Fetching(call[c].inst, call[c].slot, call[c].epoch) = {}
    /\ Goto(c, "entered")
    /\ CallStep
    /\ UNCHANGED <<proc, cache, delivered>>

\* ReserveRanges: checkAuthority under locks, then the watermark moves.
Authorized(i, s, epoch, revision) ==
    /\ Fresh(i)
    /\ lease[i].revision = revision
    /\ HeldBy(i, s)
    /\ slot[s].epoch = epoch

Reserve(c) ==
    LET i == call[c].inst
        s == call[c].slot
    IN  /\ call[c].at = "reserving"
        /\ Authorized(i, s, call[c].epoch, call[c].revision)
        /\ mark[s] + Step <= MaxMark
        /\ mark' = [mark EXCEPT ![s] = @ + Step]
        /\ \/ /\ Goto(c, "entered")       \* completeFetch, and round the loop
              /\ cache' = IF Current(c)
                          THEN [cache EXCEPT ![i][s].standby = mark[s] + 1]
                          ELSE cache
           \/ Leave(c) /\ UNCHANGED cache   \* committed, but not confirmed
        /\ UNCHANGED <<vars, clock, ownershipRevision, localDeadline, slots,
                       drainingSlots, authority, pass, releases, proc, delivered>>

\* The reservation is refused or fails, or the caller's context ends.
GiveUp(c) ==
    /\ call[c].at \in {"reserving", "waiting"}
    /\ Leave(c)
    /\ CallStep
    /\ UNCHANGED <<proc, cache, delivered>>

-----------------------------------------------------------------------------
\* The authority section: RenewLeases, Claim and SyncAuthority, one at a time
\* under authorityMu, each a row of local steps and storage transactions.

AuthorityStep == UNCHANGED <<clock, mark, pass, releases, call, delivered>>

Lock(i, state) == authority' = [authority EXCEPT ![i] = state]
Unlock(i) == Lock(i, Unlocked)

\* A synchronization, and what it goes on to: to renewLocked (from RenewLeases
\* and Claim), to its second attempt (from renewLocked itself), to the decisions of
\* the handoff loop, or to nothing (a claim that was refused).
Syncing(then) == [at |-> "sync", then |-> then]

\* renewLocked reads its anchor; attempt 1 is the one after a synchronization.
Anchored(attempt) == [at |-> "anchored", anchor |-> clock, attempt |-> attempt]

\* The first pass registers the id and synchronizes before it renews.
Register(i) ==
    /\ proc[i] = "started"
    /\ clock >= StartTime[i]
    /\ authority[i] = Unlocked
    /\ \/ RegisterInstance(i)
       \/ lease[i].state = "ACTIVE" /\ UNCHANGED vars
    /\ Lock(i, Syncing("renew"))
    /\ AuthorityStep
    /\ UNCHANGED <<proc, ownershipRevision, localDeadline, slots, drainingSlots, cache>>

StartRenew(i) ==
    /\ proc[i] = "initialized"
    /\ authority[i] = Unlocked
    /\ Lock(i, Anchored(0))
    /\ AuthorityStep
    /\ UNCHANGED <<vars, proc, ownershipRevision, localDeadline, slots, drainingSlots, cache>>

\* renewLocked after a synchronization: the anchor is read again.
Reanchor(i) ==
    /\ authority[i].at = "renew"
    /\ Lock(i, Anchored(authority[i].attempt))
    /\ AuthorityStep
    /\ UNCHANGED <<vars, proc, ownershipRevision, localDeadline, slots, drainingSlots, cache>>

\* The compare-and-set succeeds, or is refused and once answered by a
\* synchronization, or its answer does not arrive.
Renew(i) ==
    LET renewed == lease[i].state = "ACTIVE" /\ lease[i].revision = ownershipRevision[i]
    IN  /\ authority[i].at = "anchored"
        /\ \/ /\ RenewInstance(i, ownershipRevision[i])
              /\ \/ Lock(i, [at |-> "granted", anchor |-> authority[i].anchor])
                 \/ Unlock(i)
           \/ UNCHANGED vars /\ Unlock(i)
           \/ /\ ~renewed /\ authority[i].attempt = 0
              /\ UNCHANGED vars /\ Lock(i, Syncing("again"))
        /\ AuthorityStep
        /\ UNCHANGED <<proc, ownershipRevision, localDeadline, slots, drainingSlots, cache>>

\* The deadline counts from the anchor.  The mutant counts from the answer.
DeadlineFromAnswer(i) == clock + Lease - SafetyMargin
Deadline(i) == authority[i].anchor + Lease - SafetyMargin

\* The gates of a.pendingActive open.  The mutant opens what is not there.
OpenedAll(gates) == [s \in Slot |-> [gates[s] EXCEPT !.open = TRUE]]
Opened(gates) == [s \in Slot |-> [gates[s] EXCEPT !.open = (gates[s].epoch # 0)]]

\* The grant is published: the deadline first, then the new gates.
Publish(i) ==
    /\ authority[i].at = "granted"
    /\ IF clock < Deadline(i) /\ Up(i)
       THEN /\ localDeadline' = [localDeadline EXCEPT ![i] = Deadline(i)]
            /\ slots' = [slots EXCEPT ![i] = Opened(slots[i])]
       ELSE UNCHANGED <<localDeadline, slots>>
    /\ Unlock(i)
    /\ AuthorityStep
    /\ UNCHANGED <<vars, proc, ownershipRevision, drainingSlots, cache>>

\* One batch of a claim for slots that are not in a.slots.  Whatever came of it,
\* the process synchronizes; it renews unless the claim was refused.
Claim(i, S) ==
    /\ proc[i] = "initialized"
    /\ authority[i] = Unlocked
    /\ \A s \in S : slots[i][s].epoch = 0
    /\ \/ /\ ClaimSlots(i, ownershipRevision[i], S)
          /\ Lock(i, Syncing("renew")) \/ UNCHANGED authority
       \/ /\ UNCHANGED vars
          /\ IF lease[i].state = "ACTIVE" /\ lease[i].revision = ownershipRevision[i]
             THEN Fresh(i) /\ Lock(i, Syncing("renew"))
             ELSE Lock(i, Syncing("unlock"))
    /\ AuthorityStep
    /\ UNCHANGED <<proc, ownershipRevision, localDeadline, slots, drainingSlots, cache>>

\* InstanceAuthority: the revision and the slots of one transaction, 0 for a
\* slot that is not OWNED by the caller.  An error ends the section.
ReadAuthority(i) ==
    /\ authority[i].at = "sync"
    /\ \/ /\ lease[i].state = "ACTIVE"
          /\ Lock(i, [at |-> "read", then |-> authority[i].then,
                      revision |-> lease[i].revision,
                      owned |-> [s \in Slot |-> IF HeldBy(i, s) THEN slot[s].epoch ELSE 0]])
          /\ UNCHANGED pass
       \/ /\ Unlock(i)
          /\ pass' = IF authority[i].then = "pass"
                     THEN [pass EXCEPT ![i] = NoPass] ELSE pass
    /\ UNCHANGED <<vars, clock, mark, proc, ownershipRevision, localDeadline, slots,
                   drainingSlots, cache, releases, call, delivered>>

\* What follows the synchronization.
AfterSync(then) ==
    CASE then = "renew" -> [at |-> "renew", attempt |-> 0]
      [] then = "again" -> [at |-> "renew", attempt |-> 1]
      [] OTHER -> Unlocked

\* What the gate at an epoch, or no gate, is to storage.  The mutant overlooks the
\* slots storage no longer lists.
StaysUnlessReplaced(epoch, owned) == owned \in {epoch, 0}
Stays(epoch, owned) == owned = epoch

\* applyAuthorityLocked: gates whose authority is gone close and move to
\* drainingSlots, new ones are installed closed and without ranges, and the
\* revision is acknowledged.
Apply(i) ==
    LET snapshot == authority[i]
        stays(s) == Stays(slots[i][s].epoch, snapshot.owned[s])
    IN  /\ snapshot.at = "read"
        /\ IF Up(i) /\ snapshot.revision >= ownershipRevision[i]
           THEN /\ drainingSlots' = [drainingSlots EXCEPT ![i] = [s \in Slot |->
                      IF slots[i][s].epoch # 0 /\ ~stays(s) THEN slots[i][s].epoch
                      ELSE drainingSlots[i][s]]]
                /\ slots' = [slots EXCEPT ![i] = [s \in Slot |->
                      IF stays(s) THEN slots[i][s]
                      ELSE [epoch |-> snapshot.owned[s], open |-> FALSE]]]
                /\ cache' = [cache EXCEPT ![i] = [s \in Slot |->
                      IF stays(s) THEN cache[i][s] ELSE NoRange]]
                /\ ownershipRevision' = [ownershipRevision EXCEPT ![i] = snapshot.revision]
                /\ proc' = IF proc[i] = "started"
                           THEN [proc EXCEPT ![i] = "initialized"] ELSE proc
                /\ Lock(i, AfterSync(snapshot.then))
                /\ pass' = IF snapshot.then = "pass"
                           THEN [pass EXCEPT ![i].at = "synced"] ELSE pass
           ELSE /\ Unlock(i)
                /\ pass' = IF snapshot.then = "pass"
                           THEN [pass EXCEPT ![i] = NoPass] ELSE pass
                /\ UNCHANGED <<proc, ownershipRevision, slots, drainingSlots, cache>>
        /\ UNCHANGED <<vars, clock, mark, localDeadline, releases, call, delivered>>

-----------------------------------------------------------------------------
\* The handoff loop (HandoffPass).

PassStep == UNCHANGED <<clock, mark, proc, ownershipRevision, localDeadline, slots,
                        cache, releases, call, delivered>>

\* The handoffs i is a party of, read without any lock of the process.  Without
\* handoff ids the model has no handoff repository (a.handoffs is nil).
ReadHandoffs(i) ==
    /\ HandoffId # {}
    /\ proc[i] = "initialized"
    /\ pass[i] = NoPass
    /\ pass' = [pass EXCEPT ![i] = [at |-> "read", rows |-> [s \in Slot |->
                    IF i \in {handoff[s].source, handoff[s].target}
                    THEN handoff[s] ELSE NoHandoff]]]
    /\ PassStep
    /\ UNCHANGED <<vars, drainingSlots, authority>>

\* The epoch of s whose drain the row still waits for.
NeedsDrain(i, row) ==
    IF row.source = i /\ row.phase = "DRAINING" /\ ~row.drained THEN row.epoch ELSE 0

\* Withdrawn gates the rows do not wait for are forgotten, once quiet; with no
\* rows at all that was the pass.
DropGates(i) ==
    LET rows == pass[i].rows
    IN  /\ pass[i].at = "read"
        /\ drainingSlots' = [drainingSlots EXCEPT ![i] = [s \in Slot |->
              IF /\ NeedsDrain(i, rows[s]) # drainingSlots[i][s]
                 /\ Inflight(i, s, drainingSlots[i][s]) = {}
              THEN 0 ELSE drainingSlots[i][s]]]
        /\ pass' = [pass EXCEPT ![i] =
              IF \A s \in Slot : rows[s] = NoHandoff THEN NoPass
              ELSE [at |-> "dropped", rows |-> rows]]
        /\ PassStep
        /\ UNCHANGED <<vars, authority>>

\* SyncAuthority waits for authorityMu.
SyncPass(i) ==
    /\ pass[i].at = "dropped"
    /\ authority[i] = Unlocked
    /\ Lock(i, Syncing("pass"))
    /\ pass' = [pass EXCEPT ![i].at = "syncing"]
    /\ PassStep
    /\ UNCHANGED <<vars, drainingSlots>>

\* The withdrawn gate of this epoch is quiet.  The mutant does not count calls.
Withdrawn(i, s, epoch) == drainingSlots[i][s] = epoch
Quiet(i, s, epoch) == drainingSlots[i][s] = epoch /\ Inflight(i, s, epoch) = {}

\* The command for a row, from the row as it was read and the gates as they
\* are now.
Action(i, s, row) ==
    IF row.target = i /\ InTime(i)
    THEN CASE row.phase = "PLANNED" -> "PREPARE"
           [] row.phase = "READY" -> "BEGIN"
           [] row.phase = "DRAINING" -> IF row.ready THEN "TRANSFER" ELSE "PREPARE"
           [] row.phase = "TRANSFERRED"
                /\ slots[i][s] = [epoch |-> row.epoch + 1, open |-> TRUE] -> "ACK_ACTIVE"
           [] OTHER -> "NONE"
    ELSE IF row.source # i \/ row.phase # "DRAINING" THEN "NONE"
         ELSE IF ~row.drained /\ Quiet(i, s, row.epoch) THEN "ACK_DRAIN"
         ELSE IF row.kind = "RELEASE" THEN "TRANSFER" ELSE "NONE"

\* handoffPriority
Priority(row) == CASE row.phase = "TRANSFERRED" -> 0 [] row.phase = "DRAINING" -> 1
                   [] row.phase = "READY" -> 2 [] OTHER -> 3

\* A batch: BatchSlots of the rows a command was found for, or all of them, and
\* none before a row of a smaller priority.
Batches(wanted, rows) ==
    {K \in SUBSET wanted :
        /\ Cardinality(K) = BatchSlots \/ (K = wanted /\ Cardinality(K) < BatchSlots)
        /\ \A s \in K, t \in wanted \ K : Priority(rows[s]) <= Priority(rows[t])}

Decide(i) ==
    LET rows == pass[i].rows
        action(s) == Action(i, s, rows[s])
        wanted == {s \in Slot : action(s) # "NONE"}
    IN  /\ pass[i].at = "synced"
        /\ \E K \in Batches(wanted, rows) :
              pass' = [pass EXCEPT ![i] =
                  IF K = {} THEN NoPass
                  ELSE [at |-> "send", rows |-> rows, revision |-> ownershipRevision[i],
                        command |-> [s \in Slot |-> IF s \in K THEN action(s) ELSE "NONE"]]]
        /\ PassStep
        /\ UNCHANGED <<vars, drainingSlots, authority>>

\* The row is still the one the command is for.
SameHandoff(s, row) ==
    /\ handoff[s].id = row.id
    /\ handoff[s].source = row.source
    /\ handoff[s].epoch = row.epoch
    /\ handoff[s].target = row.target

Execute(i, revision, command, s) ==
    \/ command = "PREPARE" /\ Prepare(i, revision, s)
    \/ command = "BEGIN" /\ Begin(i, s)
    \/ command = "TRANSFER" /\ (Transfer(i, s) \/ FinishRelease(i, s))
    \/ command = "ACK_DRAIN" /\ AckDrain(i, s)
    \/ command = "ACK_ACTIVE" /\ AckActive(i, revision, s)

\* ApplyHandoffs executes a command or ignores it; an error loses the rest.
Send(i, s) ==
    LET row == pass[i].rows[s]
        command == pass[i].command
        rest == [command EXCEPT ![s] = "NONE"]
    IN  /\ pass[i].at = "send"
        /\ command[s] # "NONE"
        /\ \/ SameHandoff(s, row) /\ Execute(i, pass[i].revision, command[s], s)
           \/ UNCHANGED vars
        /\ pass' = [pass EXCEPT ![i] =
              IF \A t \in Slot : rest[t] = "NONE" THEN NoPass
              ELSE [pass[i] EXCEPT !.command = rest]]
        /\ PassStep
        /\ UNCHANGED <<drainingSlots, authority>>

-----------------------------------------------------------------------------
\* Shutdown (ShutdownContext, includeHeldAuthority, drainAndRelease).  The slots
\* of a batch go through the same steps; the model lets each go its own way.

ShutdownStep == UNCHANGED <<clock, mark, ownershipRevision, localDeadline, authority,
                            pass, call, delivered>>

Stop(i) ==
    /\ i \in Stopping
    /\ Up(i) \/ proc[i] = "fenced"
    /\ proc' = [proc EXCEPT ![i] = "stopping"]
    /\ ShutdownStep
    /\ UNCHANGED <<vars, slots, drainingSlots, cache, releases>>

\* detachAllLocked
Detach(i) ==
    /\ proc[i] = "stopping"
    /\ proc' = [proc EXCEPT ![i] = "detached"]
    /\ drainingSlots' = [drainingSlots EXCEPT ![i] = [s \in Slot |->
          IF slots[i][s].epoch # 0 THEN slots[i][s].epoch ELSE drainingSlots[i][s]]]
    /\ releases' = [releases EXCEPT ![i] = [s \in Slot |->
          IF slots[i][s].epoch # 0
          THEN [NoRelease EXCEPT !.at = "withdraw", !.epoch = slots[i][s].epoch]
          ELSE NoRelease]]
    /\ slots' = [slots EXCEPT ![i] = [s \in Slot |-> NoGate]]
    /\ cache' = [cache EXCEPT ![i] = [s \in Slot |-> NoRange]]
    /\ ShutdownStep
    /\ UNCHANGED vars

\* What storage says the process holds is released as well, unless the read
\* fails.
IncludeHeld(i) ==
    /\ proc[i] = "detached"
    /\ proc' = [proc EXCEPT ![i] = "releasing"]
    /\ \/ /\ lease[i].state = "ACTIVE"
          /\ releases' = [releases EXCEPT ![i] = [s \in Slot |->
                IF HeldBy(i, s) /\ releases[i][s].at = "none"
                THEN [NoRelease EXCEPT !.at = "withdraw", !.epoch = slot[s].epoch]
                ELSE releases[i][s]]]
       \/ UNCHANGED releases
    /\ ShutdownStep
    /\ UNCHANGED <<vars, slots, drainingSlots, cache>>

ReleaseStep(i, s, item) ==
    /\ proc[i] = "releasing"
    /\ releases' = [releases EXCEPT ![i][s] = item]
    /\ ShutdownStep
    /\ UNCHANGED <<proc, slots, drainingSlots, cache>>

\* WITHDRAW, which storage may ignore.
WithdrawSlot(i, s) ==
    LET item == releases[i][s]
    IN  /\ item.at = "withdraw"
        /\ \/ \E id \in HandoffId : Withdraw(i, item.epoch, id, s)
           \/ UNCHANGED vars
        /\ ReleaseStep(i, s, [item EXCEPT !.at = "look"])

\* The handoff read back: the drain of this epoch, or nothing left to do.
FindDrain(i, s) ==
    LET item == releases[i][s]
    IN  /\ item.at = "look"
        /\ ReleaseStep(i, s,
              IF handoff[s].phase = "DRAINING" /\ handoff[s].source = i
                    /\ handoff[s].epoch = item.epoch
              THEN [item EXCEPT !.at = "drain", !.id = handoff[s].id]
              ELSE NoRelease)
        /\ UNCHANGED vars

ReadBack(s, item) == handoff[s].id = item.id /\ handoff[s].epoch = item.epoch

\* The mutant of what follows: it does not wait.
AckReleaseAtOnce(i, s) ==
    LET item == releases[i][s]
    IN  /\ item.at = "drain"
        /\ ReadBack(s, item) /\ AckDrain(i, s)
        /\ ReleaseStep(i, s, [item EXCEPT !.at = "transfer"])

\* slot.drain waits for the calls inside the gate; then ACK_DRAIN.
AckRelease(i, s) ==
    LET item == releases[i][s]
    IN  /\ item.at = "drain"
        /\ Inflight(i, s, item.epoch) = {}
        /\ \/ ReadBack(s, item) /\ AckDrain(i, s)
           \/ UNCHANGED vars
        /\ ReleaseStep(i, s, [item EXCEPT !.at = "transfer"])

FinishShutdown(i, s) ==
    LET item == releases[i][s]
    IN  /\ item.at = "transfer"
        /\ \/ ReadBack(s, item) /\ FinishRelease(i, s)
           \/ UNCHANGED vars
        /\ ReleaseStep(i, s, NoRelease)

\* RetireInstance, after the releases or when one of their steps failed.
Retire(i) ==
    /\ proc[i] = "releasing"
    /\ RetireInstance(i) \/ UNCHANGED vars
    /\ proc' = [proc EXCEPT ![i] = "gone"]
    /\ releases' = [releases EXCEPT ![i] = [s \in Slot |-> NoRelease]]
    /\ ShutdownStep
    /\ UNCHANGED <<slots, drainingSlots, cache>>

-----------------------------------------------------------------------------
\* The process dies and takes everything local with it.
Crash(i) ==
    /\ i \in Crashing
    /\ proc[i] # "crashed"
    /\ proc' = [proc EXCEPT ![i] = "crashed"]
    /\ ownershipRevision' = [ownershipRevision EXCEPT ![i] = 0]
    /\ localDeadline' = [localDeadline EXCEPT ![i] = 0]
    /\ slots' = [slots EXCEPT ![i] = [s \in Slot |-> NoGate]]
    /\ drainingSlots' = [drainingSlots EXCEPT ![i] = [s \in Slot |-> 0]]
    /\ cache' = [cache EXCEPT ![i] = [s \in Slot |-> NoRange]]
    /\ authority' = [authority EXCEPT ![i] = Unlocked]
    /\ pass' = [pass EXCEPT ![i] = NoPass]
    /\ releases' = [releases EXCEPT ![i] = [s \in Slot |-> NoRelease]]
    /\ call' = [c \in Caller |->
          IF call[c].at # "idle" /\ call[c].inst = i THEN NoCall ELSE call[c]]
    /\ UNCHANGED <<vars, clock, mark, delivered>>

\* Time passes for everyone, or the storage clock runs ahead.
Pass ==
    /\ Tick
    /\ \/ clock' = clock + 1
       \/ clock' = clock /\ now - clock < MaxSkew
    /\ UNCHANGED <<mark, delivered, local>>

\* The coordinator, and the collection of old rows by whoever runs it.
Coordinate ==
    /\ CoordinatorStep \/ \E i \in Instance : CollectInstance(i)
    /\ UNCHANGED <<clock, mark, delivered, local>>

CallNext(c) ==
    \/ \E i \in Instance, s \in Slot : Enter(c, i, s)
    \/ BeginGate(c)
    \/ BeginDeadline(c)
    \/ Advance(c)
    \/ EndBound(c)
    \/ EndGate(c)
    \/ EndDeadline(c)
    \/ Refill(c)
    \/ Wake(c)
    \/ Reserve(c)
    \/ GiveUp(c)

AuthorityNext(i) ==
    \/ Register(i)
    \/ StartRenew(i)
    \/ Reanchor(i)
    \/ Renew(i)
    \/ Publish(i)
    \/ \E S \in SUBSET Slot \ {{}} : Claim(i, S)
    \/ ReadAuthority(i)
    \/ Apply(i)

PassNext(i) ==
    \/ ReadHandoffs(i)
    \/ DropGates(i)
    \/ SyncPass(i)
    \/ Decide(i)
    \/ \E s \in Slot : Send(i, s)

ShutdownNext(i) ==
    \/ Stop(i)
    \/ Detach(i)
    \/ IncludeHeld(i)
    \/ \E s \in Slot :
        \/ WithdrawSlot(i, s)
        \/ FindDrain(i, s)
        \/ AckRelease(i, s)
        \/ FinishShutdown(i, s)
    \/ Retire(i)

HANext ==
    \/ Pass
    \/ Coordinate
    \/ \E c \in Caller : CallNext(c)
    \/ \E i \in Instance :
        \/ AuthorityNext(i)
        \/ PassNext(i)
        \/ ShutdownNext(i)
        \/ Crash(i)

HASpec == HAInit /\ [][HANext]_haVars

-----------------------------------------------------------------------------
\* Properties.

\* The shape of the local state.  A gate that is not there is not open.
HATypeOK ==
    /\ clock \in 0..now
    /\ mark \in [Slot -> 0..MaxMark]
    /\ proc \in [Instance -> {"started", "initialized", "fenced", "stopping", "detached",
                              "releasing", "gone", "crashed"}]
    /\ ownershipRevision \in [Instance -> Nat]
    /\ localDeadline \in [Instance -> Nat]
    /\ slots \in [Instance -> [Slot -> [epoch: Nat, open: BOOLEAN]]]
    /\ \A i \in Instance, s \in Slot : slots[i][s].open => slots[i][s].epoch # 0
    /\ drainingSlots \in [Instance -> [Slot -> Nat]]
    /\ cache \in [Instance -> [Slot ->
                    [next: Nat, end: Nat, standby: Nat, fresh: BOOLEAN]]]
    /\ authority \in [Instance -> Section]
    /\ pass \in [Instance -> HandoffLoop]
    /\ releases \in [Instance -> [Slot ->
                    [at: {"none", "withdraw", "look", "drain", "transfer"},
                     epoch: Nat, id: HandoffId \cup {None}]]]
    /\ call \in [Caller -> Call]
    /\ delivered \in [Slot -> SUBSET (1..MaxMark)]

\* Per key, no id twice and every id above those that were out when the call
\* began, across takeovers, handoffs, restarts and lost answers (docs, 1.3).
Promise == INSTANCE MonotonicIds WITH
    Key <- Slot, Id <- 1..MaxMark, issued <- delivered,
    request <- [c \in Caller |-> IF call[c].at = "idle" THEN [floor |-> -1]
                ELSE [key |-> call[c].slot, floor |-> call[c].floor]]
Monotonic == Promise!Spec

\* An open gate inside the local deadline is backed by storage: the slot has
\* not left its owner, although it may drain already (docs, section 3.3).
ServingIsBacked ==
    \A i \in Instance, s \in Slot :
        Up(i) /\ slots[i][s].open /\ InTime(i) =>
            slot[s].owner = i /\ slot[s].epoch = slots[i][s].epoch

\* No id leaves the process whose cursor advanced after the slot had moved on:
\* the takeover waited for the last allocation, a process pause included.
NoLateAllocation ==
    [][\A s \in Slot, c \in Caller :
        delivered'[s] # delivered[s] /\ call[c].at = "confirmed" /\ call'[c] = NoCall
            => ~call[c].late]_haVars

\* The gates are closed before the revision is acknowledged: a revision storage
\* would renew at never goes with an open gate that storage has withdrawn
\* (applyAuthorityLocked).
AcknowledgedGates ==
    \A i \in Instance, s \in Slot :
        /\ Up(i)
        /\ lease[i].state = "ACTIVE"
        /\ lease[i].revision = ownershipRevision[i]
        /\ slots[i][s].epoch # 0
        => HeldBy(i, s) /\ slot[s].epoch = slots[i][s].epoch

\* A drain that is acknowledged is over: no call is inside the gate of that
\* epoch, and the gate is not in use (HandoffPass, drainAndRelease).
DrainedIsQuiet ==
    \A s \in Slot :
        LET row == handoff[s]
        IN  row.phase = "DRAINING" /\ row.drained =>
                /\ Inflight(row.source, s, row.epoch) = {}
                /\ slots[row.source][s].epoch # row.epoch

\* "Retain withdrawn pointers until the exact drain acknowledgment is durable"
\* (HandoffPass): a live process forgets a withdrawn gate only when storage does
\* not wait for its acknowledgement.
RetainedUntilAcknowledged ==
    [][\A i \in Instance, s \in Slot :
        /\ Up(i)' /\ drainingSlots[i][s] # 0 /\ drainingSlots'[i][s] = 0
        => NeedsDrain(i, handoff[s]) # drainingSlots[i][s]]_haVars
=============================================================================
