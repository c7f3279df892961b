# A TLA+ verification of sindri's sequence service

The sequence service (`internal/sequence`) hands out ids that grow per key. Its
instances keep ranges of ids in memory and share nothing but a database; its clients
(`pkg/sequence`) route each key to the node that owns the key's slot. These modules model
the protocol that keeps the ids unique and in order while slots move, and the machinery
around it: planning, publication of routes, the life of a process, its clocks and
estimators, the client. TLC checks them on small instances; TLAPS proves, for every value of the
constants, every safety property the passing runs check, except `NeverLapses`. Liveness is left to TLC.

All paths below are relative to `src/` of the repository; `biz/`, `data/`, `service/` and
`task/` stand for the directories under `internal/sequence/`, `docs` for
`docs/sequence-ha-architecture.md`.

## The system

Keys hash to slots. A slot has an owner and an epoch in the database; only its owner
may reserve ranges for the slot's keys and serve them from memory.

| Component | State | Operations | Modelled in |
| --- | --- | --- | --- |
| Storage authority, `data/ownership_data.go`, `data/handoff_data.go` | lease rows, ownership rows, handoff rows | register, renew, retire, collect; claim; plan, apply (PREPARE, BEGIN, WITHDRAW, ACK_DRAIN, TRANSFER, ACK_ACTIVE), recover | `SlotAuthority` |
| Reservations, `data/sequence_data.go` | `reserved_end` per key | `ReserveRanges` | `SequenceHA`, `KeyState` |
| Instance authority, `biz/authority.go` | acknowledged revision, local deadline, gates | `RenewLeases`, `Claim`, `SyncAuthority`, `HandoffPass`, `ShutdownContext` | `SequenceHA` |
| Allocation, `biz/allocation.go`, `biz/allocator.go` | key states: cursor, generation, ranges, fetch in flight; the linearization record | `FetchNext`, `FetchNextBatch`, refill, idle eviction, `record` | `SequenceHA`, `KeyState`, `Recorder` |
| Prefetch, `biz/prefetch.go` | rate and latency estimates, thresholds, a retry timer per key | background fetch, retry | `Prefetch`; its interleavings in `KeyState` |
| Planning, `biz/placement.go` | none of its own: quotas, targets, migrations from what was read | `NodeManager.Refresh`, `Rebalancer.Pass` | `Placement` |
| Coordinator and publisher, `biz/placement.go`, `data/placement_data.go` | coordinator tenure, the published route | `AcquireCoordinator`, `GuardCoordinator`, `MaterialiseRoute`, `Publisher.Pass` | `Directory`, `RouteTable` |
| Data process, `task/task.go`, `biz/placement.go` (`NodeManager`), `cmd/sequence/wire.go` | allocator state, fence, readiness, its lease and liveness rows | renew, heartbeat, refresh, pause, fence, stop hooks | `Lifecycle`, `RenewTiming` |
| Clock monitor, `biz/placement.go` (`StorageClockMonitor`) | the last sample | `Observe` | `ClockMonitor` |
| Service, `service/` | readiness; the route of the node | caller checks, `GetRoute` | `Client`, `Directory`, `Lifecycle` |
| Client, `pkg/sequence` | the router's snapshot, the shared refresh, endpoints and pickers | retry loop, refresh, batches, balancer | `Client`, `Balancer`, `RouteTable` |
| Configuration, metrics, generated code, release tooling | - | - | not modelled |

Interactions: instances and the coordinator meet only in database transactions; within a
process the renewal, refresh and handoff loops and the callers share the allocator:
`authorityMu` serializes renewals, claims and synchronizations across their storage round
trips, `slotsMu` covers the maps of gates, and the callers read the deadline, the gates and
the cursor without a lock. Routes travel by polling: publisher to snapshot row, row to the
cache of a node, node to client.

What is hard: nobody is told that a lease ended, so safety rests on comparing a local
deadline with a quiet window on another clock; a process may stop between any two
instructions; answers get lost after their commit; a handoff has two drivers and a recovery
pass that work on the same row; a loop uses rows it read before it waited for a lock; the
cursor moves while the bounds beside it are rewritten; nodes agree on a placement only because
they compute the same function of tables that change under them; a client acts on a route that
is always older than the fleet.

What makes each part correct:

- storage: the ownership and the handoff table agree; a revision changes with the
  authority it covers; an epoch has one owner; nobody loses a slot before the fence;
- instance: an open gate inside the deadline is backed by storage; gates close before a
  revision is acknowledged; a drain is acknowledged when the gate is closed and empty;
- allocation: no id twice, none below an id a caller already had when it asked; a key has one
  fetch; an evicted state is dead; every call ends;
- planning: a claim makes no surplus unless the fleet grew meanwhile, a slot does not move twice, a resting
  fleet gets balanced;
- directory: a version names one route, epochs follow versions, routes arrive;
- process: nothing enters after a pause, a retired process stays out, a running one gets ready,
  the lease of a healthy one does not lapse, the clock monitor alarms when and only when it can;
- client: success means a block for every key, calls at rest are served within their attempts,
  calls return, the last picker built is the current one, and it sends a slot to its owner.

## The modules

| Module | What it is |
| --- | --- |
| `SlotAuthority` | the three tables and each transaction that writes them |
| `SequenceHA` | extends it with the processes: calls, the authority section, the handoff loop, shutdown, crash, two clocks, reservations |
| `MonotonicIds` | the abstract specification of what callers are promised (docs, 1.3); `SequenceHA` and `KeyState` both implement it |
| `KeyState` | the key states of one slot, one access to a shared word per action |
| `Prefetch` | estimators, thresholds, adaptive steps and the retry timer of one key, with numbers |
| `Recorder` | the linearization record |
| `Placement` | quotas, targets and migrations, and the passes that use them on older views |
| `Directory` | coordinator tenure, publication, polling |
| `RouteTable` | rows to segments to payload to the client's table |
| `Lifecycle` | one data process from its start to its end |
| `RenewTiming` | ticker, mutex, statement times and the local deadline |
| `ClockMonitor` | the storage clock monitor against a clock that drifts and jumps |
| `Client` | calls, refreshes and batches of a client against nodes that check its view |
| `Balancer` | endpoints, pickers and the goroutines that deliver them |
| `ControlPlane` | `Directory`, `RouteTable`, `Lifecycle` and `RenewTiming` side by side |
| `Sdk` | `Client` and `Balancer` side by side |
| `Measures` | `ClockMonitor`, `Prefetch` and `Recorder` side by side |
| `MCSlotAuthority`, `MCSequenceHA`, `MCKeyState`, `MCClient`, `MCControlPlane`, `MCMeasures` | instances, symmetry and bounds for TLC; `Placement` and `Balancer` need none |
| `SlotAuthorityProofs`, `SequenceHAProofs`, `KeyStateProofs`, `KeyIdsProofs`, `ControlPlaneProofs`, `ClientProofs`, `MeasuresProofs`, `PlacementProofs` | the theorems |

### Storage and processes

`SlotAuthority`: one action is one database transaction, as the code locks instances, slots and
handoffs in one order and validates everything under the locks. A COMPLETED or CANCELLED
handoff is no row. The callers are unconstrained: any instance may send any command with any
revision at any time, so the module says what storage guarantees whoever asks. A batch of
commands is one action per command (each is validated for itself and has its own slot);
claims and plans are whole batches. `horizon` is a history variable, the storage time of the
last renewal that covered the slot while it was OWNED. The coordinator's tenure is left out
here, which only adds behaviours.

`SequenceHA`: one action is one step between two points where others can interfere. A call
enters the gate, reads clock and gate, reads the deadline, moves the cursor, checks the pause,
the gate and the deadline again; a used-up range leads to the standby range, to the fetch in
flight or to a reservation of its own. The authority section (whoever holds `authorityMu`)
registers or claims, reads the snapshot, applies it, reads the anchor, renews, publishes; every
storage step may also fail or commit without the process learning of it. The handoff loop
reads rows, forgets gates, synchronizes, decides, and sends its commands one by one, each
from the row as it was read. A shutdown detaches the gates, adds what storage says it holds,
withdraws, waits, acknowledges, releases, retires, and may leave a slot at any of these
points. A crash clears everything local; a process that restarts has a new instance id.
`clock` is the monotonic clock of the processes; the storage clock `now` may run ahead of it by
`MaxSkew` (`ClockDrift` + `ClockJump`). A slot serves one key here.

`KeyState` refines that key: the cursor is an atomic add beside a generation that is read
before and after it, the bounds are rewritten word by word under `k.mu`, a fetch has waiters,
a batch takes key after key, a prefetch fails and arms a timer, and eviction retires a state
that nobody references. The gate and the deadline are `SequenceHA`'s; here a slot is owned
until it is withdrawn.

### Around them

`Placement` gives the planner's functions as operators over finite sets in the order of the node
ids (folds, no recursion), and the refresh and coordinator passes as a read and a later write. What an instance
holds already is no part of its claim (`biz/authority.go:270`). Two
history variables serve `NoThrash`: `quiet` says that since a coordinator's pass began, with every member
stable, nothing but migrations has changed the fleet, and `moved` has the slots planned to move meanwhile.
A third one, `informed`, serves `ClaimsWithinQuota`: the instances whose plan is not older than the last join or
the last transfer to them. The two exceptions are needed. A node that plans every slot while it is alone and claims them after another
node has joined does make a surplus, which the migrations then move away; TLC finds this behaviour at once without the
exception for joins, and the one for transfers with four slots and four changes.
`Directory` has a pass of a publisher as acquire, guarded read, guarded write, each its own
transaction, with a tenure that may run out between them. `RouteTable` states the SQL island
query by its definition (row numbers within look-alikes) and follows a payload to the
compiled client table. `Lifecycle` has a lease and a liveness row that age only in outages or
after the loops have ended; `RenewTiming` has time in steps and the mutex as a queue.
`ClockMonitor` brackets a reading of the storage clock between two local readings. `Client`
keeps published routes by version, and a fleet that moves slots and learns of routes at its own
pace; `Balancer` lets the resolver and the transport say anything, on goroutines that build and deliver
their pickers in any order. Its history variable `newest` says where the picker is that was built last: still with its
goroutine, with the client, or overtaken there by an older one.

## The runs

| Run | Module, configuration | Distinct states | What it checks |
| --- | --- | --- | --- |
| `storage` | `MCSlotAuthority`, `Storage` | 473,396 | `HandoffMatchesSlot`, `PartiesRegistered`, `HorizonBehindFence`, `DrainsWithinBudget`, `EpochFence`, `TakeoverFence`, `RevisionFence` |
| `takeover` | `MCSequenceHA`, `Takeover` | 692,860 | a successor takes the slot from an instance that renews, pauses or crashes, with the storage clock ahead: `ServingIsBacked`, `AcknowledgedGates`, `NoLateAllocation`, `Monotonic` |
| `graceful_handoff` | `MCSequenceHA`, `Handoff` | 1,547,430 | a handoff between two running instances, with recovery: `DrainedIsQuiet` |
| `shutdown` | `MCSequenceHA`, `Shutdown` | 695,350 | a shutdown with calls inside the gates: `DrainedIsQuiet`, `HATypeOK` |
| `key_state` | `MCKeyState`, `KeyState` | 548,030 | singles and batches of one key with refill, prefetch, lost fetches and eviction: `Monotonic`, `SingleFlight`, `RetiredIsQuiet` |
| `crossed_batches` | `MCKeyState`, `Batches` | 154,521 | two batches over two keys in opposite orders, with reservations of their own, prefetches in the background and their retries: `EveryCallEnds` |
| `fleet` | `Placement`, `Fleet` | 155,885 | `ClaimsWithinQuota`, `NoThrash`, `EventuallyBalanced` |
| `control_plane` | `MCControlPlane`, `ControlPlane` | 203,770 | `OneRoutePerVersion`, `EpochsFollowVersions`, `RoutesArrive`; `RouteIsOwnership`, `PublishesChanges`; `NoLateEntry`, `NeverLiveAgain`, `ProcessIsReady`; `NeverLapses` |
| `client` | `MCClient`, `Client` | 492,892 | `RestServes`, `WholeBatch`, `CallsReturn`; `NewestIsCurrent` and `InOrderPicksTheOwner` with two goroutines |
| `measures` | `MCMeasures`, `Measures` | 2,942,603 | `NoFalseAlarm`, `NothingBlatantMissed`; `ExhaustionPrefetches`; `FlagsAreReal`, `LatestIsCompared` |
| `gate_retention` | `MCSequenceHA`, `Retention` | violated | `RetainedUntilAcknowledged`, see the disagreements |
| `balancer_race` | `Balancer`, `BalancerRace` | violated | `PicksTheOwner` with two goroutines, see the disagreements |

`Monotonic` says that a module implements `MonotonicIds` (the refinement mapping is `Promise`): the
ids delivered are `issued`, a call in progress is a `request`. An id that is given again is
added to the history as the id 0, which the abstract specification never issues.

The passing runs say `CHECK_DEADLOCK FALSE`: the clocks, the epochs, the watermark, the calls
and the faults are bounded, and a behaviour ends when they are used up.

### Runs of several parts

`MCControlPlane`, `MCMeasures` and `MCClient` hold components that share no state. A variable
`part`, chosen at the beginning, says which of them runs; the others stand still. The states are
the sum of those of the parts, every part has its own fairness, and every property is
the property its module states. Each part would give the same answers in a run of its own.

`Storage` and `Shutdown` join two scenarios by a `CONSTRAINT`: three instances at one slot for the
whole time or two instances at two slots for two ticks; two calls and two ranges while the process
clock stands still, one call and one range when it runs. The union of the two is what is
explored, so a state outside both is not.

### Bounds

- Storage: `Lease = 1`, `QuietWindow = 2`, `MaxClock = 3`: a lease can lapse, the window can pass,
  and one more tick. `MaxEpoch = 2`: a slot is taken and taken again. Three instances are what a
  retarget needs; two slots and two ids are what budgets and batches need.
- Processes: `Lease = 2`, `SafetyMargin = MaxPause = 1`, `QuietWindow` at its floor
  (`QuietWindowFloor`): the smallest values the validation of the configuration admits. In
  `Takeover` `MaxClock` is the quiet window, the first tick at which the successor may
  claim, and its process starts at that tick (`StartTime`): before it, it could only renew.
  In `Handoff` and `Retention` no time passes, as a graceful handoff needs none; what time does
  to a drain is in `storage`.
- `Step` and `MaxMark` of the processes: two reservations, of one or two ids; with two the cursor moves inside a range.
  In `Takeover` the second one is the successor's (`OneRangeEach`).
- `KeyState`: one caller makes two calls, the other one; two states of the key, so one is evicted and
  made anew; ranges of three ids and two of them, so that a block of two is taken
  inside a range and a block of three spends one; the block of three is asked for by one
  caller, first (`MixedSpec`), which leaves the overtaken cursor that `Monotonic` is about
  within three calls; one fault.
  `Batches`: two keys, one call each, three ranges of one block each for a key, so that a batch reserves,
  finds a standby range, or waits for a fetch in the background that was begun for the other batch, and one fault, after which
  the fetch is tried again. No idle state is collected there (`CrossedSpec`), which nobody waits for.
- `Fleet`: two nodes with two processes each, one after the other, three slots (an odd number, so that
  quotas differ), three membership changes, one transfer between two reads. The two safety properties hold as well with
  three nodes of one process each (770 thousand states), and with four slots and four changes (8.4 million).
- `ControlPlane`: two publishers, two nodes, one slot, three tenures of which the last stays, one
  fault; every ownership table of three slots among three instances of two nodes; two outages;
  `LeaseDeadline = 10`, `RenewInterval = 3`, `ReserveTimeout = 5` with statements of at most one
  step and one timed-out pass.
- `Client`: three attempts (the default has more; three are enough for refuse, refresh, serve), routes
  up to version 2 when two callers share loads and 3 for a batch, one fault. `Balancer`: one slot, two nodes, two endpoints, two
  goroutines.
- `Measures`: a clock of three steps with a drift of three and a jump of two against bounds of two and
  one, so that one bound decides forward and the other backward; five steps of prefetching with ranges of 3 to 7 ids; a ring of two observations and three keys.

## Fairness

Every assumption is weak fairness of something the code does again and again without
waiting for anybody:

- `KeyState`: a caller goes on (a goroutine that can run runs), and a background fetch ends, as its
  context has `ReserveTimeout`. Callers need not begin calls, and third parties need not come.
- `Placement`: the ticker loops of live processes (refresh, the handoff loop), the coordinator's pass,
  and time: a join settles, a dead owner's quiet window passes. Members need not join or leave.
- `Directory`: publisher passes, node polls, and the expiry of a tenure whose holder stopped.
  Claims are not fair; the number of pauses is bounded.
- `Lifecycle`: the loops, the stop hooks once they have begun, the publisher, and that an outage
  ends. Nothing makes the process stop.
- `Client`: a caller's step, which includes the load it leads (a load has the context of its call).

`SequenceHA` and `SlotAuthority` have no fairness: drains and takeovers wait for clocks, and the
state spaces are too large for liveness here.

## Disagreements between the code and what it says

Two have a run that shows them:

- `gate_retention`: `biz/authority.go:335` wants withdrawn gates retained until the drain
  acknowledgement is durable. The loop reads its handoffs before it takes a lock. If BEGIN
  commits after that read and the renewal loop synchronizes before lines 342-347, the gate of
  this very drain is deleted; the source can no longer acknowledge, and the transfer waits
  for a whole quiet window. Safety is not affected: `DrainedIsQuiet` and `ServingIsBacked` hold.
- `balancer_race`: `publishState` builds a picker under the read lock and delivers it after the unlock
  (`pkg/sequence/balancer.go:170`). In the trace the resolver's goroutine builds a picker, a route update then moves
  the slot, builds and delivers, and the resolver's goroutine delivers last. Calls for the slot go to its former owner until
  something changes again (the node refuses them, and the refresh that follows brings no new route), although
  `docs/sequence.md:269` says that the integration "selects the node that owns the key's slot". The run `client` has the same
  two goroutines and shows that this overtaking on the last step is the only way to a stale picker (`NewestIsCurrent`).

The others came up while the modules were written and are recorded here:

- Budget: docs line 745 bounds active intents by `migration.max_planned`; a withdrawal at shutdown
  (`data/handoff_data.go:309`) creates one without looking at it.
- Two reads: `Rebalancer.Pass` reads handoffs and ownership in two statements
  (`biz/placement.go:769`). The slot of a transfer that commits in between, or of a drained slot that is
  claimed, counts twice: as its new owner's and as one on its way. A slot may then be planned away from a node
  without surplus, which `biz/placement.go:642` rules out. `NoThrash` therefore speaks of quiet stretches, which such a
  transfer or claim ends; `EventuallyBalanced` speaks of all behaviours. For the claim TLC needs three nodes.
- A caller that is behind: `service/sequence.go:102` says it is served; line 253 refuses it (docs line 648
  agrees with the code). `RestServes` shows that such a caller is served after a refresh.
- A shared context: a call that joins a refresh gets the context error of the call that leads it
  (`pkg/sequence/router.go:263`), where `docs/sequence.md:301` and 310 speak of the caller's own.
- Re-arming: a process whose lease row was collected in an outage never registers again
  (`biz/authority.go:242`, `data/handoff_data.go:582`); docs line 736 says renewals re-arm.
- Jump bound: a forward jump within `MaxStorageClockJump` is reported when it exceeds the drift bound
  (`biz/placement.go:1018` against the message at 960).
- Slow statements: the rule at `biz/config.go:342` counts one statement of a renewal, which samples the
  clock and waits for the mutex first (docs line 686). `NeverLapses` holds with statements well below
  `ReserveTimeout`, which is what the run assumes (`CallMax = 1` against 5, and one pass that times out). The code bounds a
  statement by `ReserveTimeout` only, and of that nothing follows, so there is no theorem.
- Steps: a large batch sets a step beyond `MaxStep` (`biz/allocation.go:494`, `biz/config.go:43`), and a range
  used up before it was measured does not grow (`biz/allocation.go:499`, `biz/config.go:57`).
- Baselines: `record` compares with the latest response only (`biz/allocation.go:358`); the comment at 348
  promises the last call that had returned. `LatestIsCompared` states what does hold.

## The proofs

`SlotAuthorityProofs`. Assumptions: `NoneAssumption`, `WindowAssumption` (`0 < Lease <=
QuietWindow`), `BudgetAssumption`. Sets are of any size, and the bounds are any numbers.

1. `TypeCorrect`: `TypeOK`, by induction, one lemma per group of transactions.
2. `AuthorityHolds`: `AuthorityInv`, the conjunction of `HandoffMatchesSlot`,
   `PartiesRegistered` and `HorizonBehindFence`. That a drain fence covers the owner's last
   renewal (the third) is inductive only if the row is known to be the row of this drain
   (the first) and the owner's lease row is not collected meanwhile (the second). The proof goes
   slot by slot: a step that leaves a slot's rows alone keeps its part (`Frame`).
   `TablesMatch`, `PartiesStay` and `FencesCover` state the three properties one by one.
3. `RevisionFences`, `EpochsOnlyRise`, `TakeoverWaits`: the action properties. Each looks only
   at the steps that write `slot` (`SlotWriters`); the last one needs 2.

Also there: `BudgetsHold`, that is `DrainsWithinBudget`, from `TypeCorrect` alone. Counting needs
finite sets, so the invariant adds that the slots in flight are finitely many, which holds
whatever `Slot` is: none is in flight at first and a step adds one at most (`Starts`, the BEGIN
under the budgets) or none (`Shrinks`, every other step).

`SequenceHAProofs`, first part: `Implementation`, that is `HASpec => Spec`. Every step of a process is a
transaction of `SlotAuthority` or leaves its variables alone, so 1 to 3 hold of the service.

Also there: `LocalTypes`, the shape of the local state (`LocalOK`), with two facts that are needed
to keep it: the storage clock is at most `MaxSkew` ahead of the processes' clock, and a handoff pass waits
for a synchronization exactly while one is under way for it.

`SequenceHAProofs`, second part: what a process may serve from memory, from the above and `FloorAssumption`
(`QuietWindowFloor`). A step of the whole system is, for one process, one of six kinds (`Kinds`: nothing,
it reads its authority, is granted, publishes, applies, or drops its gates), and the proofs go by
those. Three layers, each an inductive invariant that uses the ones before it:

1. `AuthorityKnown`. A process never knows more than storage: its revision and its epochs are not ahead,
   a gate it is about to drop is over, and the snapshot it holds or has applied, if it is still of
   storage's revision, lists what storage lists (`RevisionInv`, from `RevisionFence`). That is
   `AcknowledgedHolds`: `AcknowledgedGates`.
2. `DrainsKnown`. A withdrawn gate never comes back (`Gone`, from `EpochFence`: the epoch is closed in
   storage, and no snapshot under way lists it), a call enters only installed gates, so a gate found
   empty after its withdrawal stays empty (`Drained`). A pass decides ACK_DRAIN only for such a gate, keeps
   that true until it sends, and storage keeps it until the drain ends (`PassInv`, `DrainInv`). That is
   `DrainedHolds`: `DrainedIsQuiet`.
3. `BackingKnown`. The deadline in force, and the one that is granted but not published, lie a safety margin
   before a lease after the last renewal storage has recorded for the slot (`Backed`). A
   takeover (`TakeoverFence`) would need an acknowledged drain, which 2 excludes while the gate is
   installed, or a quiet window after that renewal, which `QuietWindowFloor` puts behind the deadline on any
   clock. That is `ServingHolds`: `ServingIsBacked`.

`SequenceHAProofs`, third part: what a call returns, from the same assumptions and the three layers above. Two more
inductive invariants, then the promise:

1. `CallsKnown`. A call under way went through a gate that is still open, or that is lost for good:
   withdrawn (`Gone`), or of a process that is down. Once it has checked its deadline, that deadline is
   still one that storage backs, or the gate is lost, or more time has passed than a pause
   may take. If its cursor moved after the slot had moved on, only the last two are left, and the code's
   two checks after the cursor refuse each of them. That is `NoLateHolds`: `NoLateAllocation`.
2. `IdsKnown`. An id that is reserved or out is in one place: in one process's ranges (the standby
   block included), carried by one call, or delivered. The ranges of the slot's owner lie above everything
   that is elsewhere, because a reservation starts above storage's mark and only the owner makes one. So
   a call that advances in time takes an id above its floor, an id that was delivered before (`FloorInv`).
3. `MonotonicHolds`: `Monotonic`, that is `HASpec` implements `MonotonicIds` under the mapping in
   `SequenceHA`. `Enter` is its `Start`, a call that passes the last check (`EndDeadline`) is `Return`,
   calls that are refused or die with their process are `Fail`, and every other step is a stutter.

`HATypes` states `HATypeOK`, ids included: `LocalTypes` and `IdsKnown` together.

`KeyStateProofs`: what happens to the states of the keys inside one slot, whatever the callers, fetches and
third parties interleave. Assumption: `KeyStateAssumption`; that a call names no key twice and at least one
is what `FetchNextBatch` sees to (`biz/allocation.go:931`, `:949`). The invariant is `Shape`: types, and
`StatesInv`, that everybody is at work on cached states only. `KeyHasOneFlight` (`SingleFlight`) and
`EvictedStatesAreDead` (`RetiredIsQuiet`) follow: an eviction waits for the last reference, and a call takes
its reference under the lock that looks the state up.

`KeyIdsProofs`: `KeyIdsAreMonotonic`, that is `KeyState` implements `MonotonicIds` (`Monotonic`), with the cursor
as fine as the code has it: an atomic add, words that are read one by one while another caller rewrites
them, a generation before and after. Two more inductive invariants, both checked by TLC on the instance of
`key_state` before they were proved:

1. `FetchInv`. A fetch under way is that of the call that waits for its answer, or of the prefetch; while
   there is one there is no standby range, and storage has room for what a prefetch asks for.
2. `IdsInv`, for each cached state the conjunction of four parts (`RowInv`). `Ranges`: every range ends at most at the mark
   and starts above all ids that are out, the active range before the standby range; while the generation is
   odd the words of the active range mean nothing. `LockInv`: `k.mu` is with who is at work under it, and the generation is
   odd only while its holder writes. `CallInv`: what a call has read is still so if the generation is still the
   one it read and even (`Valid`), the writer finds what it wrote, and an id that a call has taken from the cursor and may
   still return (`Carried`) is above its floor, out nowhere and at most at the cursor. And no two calls carry the same id.

The proof goes state by state. `Move` says what a step of one caller may do to a state whoever else is at work on it, and
`RowMove` that this keeps the invariant of the state; so each access to a shared word is looked at
once, with its own caller only (`FastAddMove`, `BlockSwapMove`, `IssueMove`, `EvenMove` and so on), and the
interference is in one lemma. A call that turns to a key is `Start` of `MonotonicIds`, the check at its end
`Return`, calls that are refused, cancelled or wait for a fetch that fails are `Fail`, and every other step is a stutter.

`ControlPlaneProofs`: the parts in `ControlPlane`, which share no state.

1. `Directory`. Assumption: `DirectoryAssumption`. The invariant `IInv` adds three facts to the two
   properties: the snapshot is the newest route (`SnapshotIsNewest`), a pass that still holds the current
   tenure has a view between the snapshot and the owner table (`ViewsAreBetween`), and types. A stale view
   can only be in the hands of a publisher whose tenure is over, and the guard refuses it.
   `VersionsNameRoutes` and `EpochsRiseWithVersions` follow.
2. `Lifecycle`, of which nothing is assumed. `NothingEntersLate` (`NoLateEntry`) is inductive.
   `RetiredNeverLive` (`NeverLiveAgain`) needs `Retirement`: a registration under way belongs to a process that was
   never initialized, such a process has no liveness row, and once an initialized one is retired its lease
   row is not ACTIVE again.

3. `RouteTable`. Assumption: `RouteTableAssumption` (a node has a name: `node_id <> ''` in the migrations). A run is
   an interval of slots on which a function has one value and which is no part of a larger one; every slot is in
   one run and runs do not overlap (`InRun`, `RunsApart`). Counting equal slots and subtracting finds the runs of the rows
   (`SegmentsAreRuns`), because as many slots look alike as there are between two of them only if all do
   (`NumberedAlike`). Merging what has the same owner and epoch finds the runs of those (`EncodedRuns`),
   and every lookup finds the run of its slot (`FoundEntry`). The only state invariant is `RowsOK`: a row names an owner if and only
   if its slot is not free, and then its epoch has begun. `RoutesAreOwnership` (`RouteIsOwnership`) follows, and
   `ChangesArePublished` (`PublishesChanges`), since the payload and the directory are functions of each other.

`ClientProofs`: `Balancer` and `Client`, which `Sdk` puts side by side.

1. `PickerIsCurrent` (`NewestIsCurrent`) and `PicksOnlyTheOwner` (`InOrderPicksTheOwner`), for any number of goroutines.
   Assumption: `BalancerAssumption`. Whoever changes something builds afterwards, so when nobody is about to build the last
   picker was built from what there is now (`PickersInv`). That it also reaches the client last is not guaranteed, which the run
   `balancer_race` shows.
2. `BatchesAreWhole` (`WholeBatch`). Assumption: `ClientAssumption`. The invariant `Books` keeps the books of a call:
   what is done was given by a node and was asked for, and while groups are out every key that is not done
   is in one of them.
3. `RestIsServed` (`RestServes`), for `MaxAttempts >= 3`; `DefaultRetryPolicy` has 8 (`pkg/sequence/router.go:441`). The
   invariant `AtRest` counts attempts: how many a call in a fleet at rest has used is bounded by how far behind
   the route is that it began with, and a load under way that will answer with an old
   version or an error costs one more (`Behind`). A refresh closes the gap, and the version a group
   carries is never ahead of the node it goes to.

`MeasuresProofs`: the parts of `Measures`, which share no state. Assumption: `MeasuresAssumption`, which has those of
the parts.

1. `ClockMonitor`. The invariant `Bracketed` dates every reading between the local readings around it; from it the
   computed interval always contains the true change, which gives `AlarmsAreReal` (`NoFalseAlarm`), and is at
   most two round trips wide, which gives `BlatantIsReported` (`NothingBlatantMissed`).
2. `Prefetch`. `ExhaustedRangesAreFollowed` (`ExhaustionPrefetches`). The invariant `RefillInv` keeps every threshold
   within its range and every estimate a number. The threshold was set from other estimates than those of
   now, so this must hold of whatever the estimators may say: an allowance is never negative, and the
   percentile of a window with enough successes exists.
3. `Recorder`. `NothingIsFlaggedForNothing` (`FlagsAreReal`) and `TheLatestIsCompared` (`LatestIsCompared`). The invariant
   `RecordInv`: the baselines are filed observations, one per key (`Baselines`), and the key of each of the last
   `Capacity` filed observations has a baseline that returned no earlier, no further back in the list than
   observations were filed since (`Remembers`). So a baseline is evicted after its observation has left
   the ring. Both are facts about lists: fronting, moving to the front and dropping the last keep them.

`PlacementProofs`. Assumption: `PlacementAssumption`. The walks of the planner over the slots are functions over
`0..SlotCount`; what a walk keeps is proved by the least step that would lose it.

1. `ClaimsFitQuotas` (`ClaimsWithinQuota`). The quotas of the first nodes add up to their share and those of all to
   `SlotCount` (`SharesAddUp`), so while a slot has no target some node is below its quota (`SomeoneHasRoom`), and the
   walk counts what it gives (`WalkOK`). So what a node has and is about to claim fits its quota when it plans
   (`PlanFits`). The invariant `PlansFit` says that it still does, however old the plan is: no step but a transfer and a claim of
   its own gives a node a slot (`StepsSpare`, for which a handoff that is PLANNED must have an owned slot and a release
   must be a drain, `PhasesOK`), and a quota only grows as nodes go (`QuotaGrows`).
2. `SlotsMoveOnce` (`NoThrash`). The walk of `planMigrations` keeps the load of every member (`MovesOK`): owned, less
   leaving, plus coming. So the moves of a pass take from members above their quotas and lift none above
   it (`PlanFacts`). The invariant `QuietOK` says that in a quiet stretch the pass knows the members, that its
   older view of the handoffs differs from the table only by handoffs that ended (`SameView`), that its moves
   still have those properties when they are inserted, and that each slot of `moved` is or will be with a
   member within its quota (`Settling`). A transfer keeps every load, because the source of a handoff has the
   slot and is not the target (`SourcesOwn`, which must hold outside quiet stretches too).

Only model-checked: liveness (`EveryCallEnds`, `EventuallyBalanced`, `RoutesArrive`, `ProcessIsReady`, `CallsReturn`), as the
provers do not reach fairness and ENABLED; and `NeverLapses`, whose bound on statements is a choice of the run.

## Not modelled

- `conf/config.go`, `metrics/metrics.go`: files into constants, counters out; no protocol state.
- `cmd/sequence/wire.go` and `internal/pkg/xgorm` besides the start and stop hooks (`Lifecycle`):
  construction of objects and I/O.
- `max_per_target` (`data/handoff_data.go:345`), which `SlotAuthority` leaves out beside `max_inflight` and
  `max_per_source`: BEGIN is allowed there more often. Nothing is claimed of it, and a retarget
  (`data/handoff_data.go:556`) does not look at it either.
- The moment between the two stores with which `ShutdownContext` sets `stopping` and pauses the state
  (`biz/authority.go:453-473`): one step in `Lifecycle`, as admission looks at `stopping` too.
- `gen/`: generated. `tools/`: a command of the release build, no part of the service.
- Liveness of drains, shutdown and takeovers; SQL dialects and retries in the database driver; the
  early check of `authorize`, which refuses only what the same check refuses later; texts of errors, logs and field validation of requests.
- A state callback of a remote client that was removed and added again under the same name
  (`pkg/sequence/balancer.go:148`): the library decides whether a closed client still calls back.
- Drift below the bound of one interval that adds up over many (`biz/placement.go:1011`): the code
  measures one interval.
