----------------------------- MODULE Lifecycle -----------------------------
(***************************************************************************)
(* One data process from its start to its end: the loops the Ticker runs   *)
(* (task.go, NodeManager in placement.go), the state, fence and readiness  *)
(* of the allocator (allocator.go), the hooks that stop it (wire.go), and  *)
(* its two rows in storage, the lease and the liveness row, which others   *)
(* may collect.                                                            *)
(*                                                                         *)
(* Abstractions.                                                           *)
(*  - Slots, revisions and what a shutdown releases are SequenceHA's.      *)
(*  - A row is fresh, stale (past the lease, or past the node TTL) or old  *)
(*    (past the quiet window).  A process that reaches storage renews far  *)
(*    sooner than that, so rows age only in an outage of the process or    *)
(*    after its loops ended.                                               *)
(*  - Storage is either reachable by this process or not; a call sees it   *)
(*    at the moment it takes effect.  Other processes keep reaching it.    *)
(***************************************************************************)
EXTENDS Integers

CONSTANTS
    MaxOutages,    \* bound: times storage is out of this process's reach
    MayFence       \* whether the platform may break its asserted bounds

\* What is assumed of the constants.
LifecycleAssumption == MaxOutages \in Nat /\ MayFence \in BOOLEAN

VARIABLES
    phase,         \* running, release, retire, drop, stop, waiting, ended
    ready,         \* allocator.state = StateReady
    stopping, fenced, initialized, routeApplied,
    renew, beat, refresh,     \* where the loops are
    cancelled,     \* the loops' context
    routed,        \* a route is in the cache
    lease,         \* sequence_instance_leases: state and age
    alive,         \* sequence_node_liveness: age, or none
    published,     \* a route snapshot exists
    reachable, outages,
    retired,       \* whether the lease row was retired by the shutdown
    late           \* whether an allocation entered after a stop or a fence

flags == <<stopping, fenced, initialized, routeApplied>>
loops == <<renew, beat, refresh>>
storage == <<lease, alive, published>>
world == <<reachable, outages>>
vars == <<phase, ready, flags, loops, cancelled, routed, storage, world, retired, late>>

NoRow == [state |-> "none", age |-> "fresh"]

Init ==
    /\ phase = "running"
    /\ ready = FALSE
    /\ stopping = FALSE /\ fenced = FALSE /\ initialized = FALSE /\ routeApplied = FALSE
    /\ renew = "idle" /\ beat = "idle" /\ refresh = "idle"
    /\ cancelled = FALSE /\ routed = FALSE
    /\ lease = NoRow /\ alive = "none" /\ published = FALSE
    /\ reachable = TRUE /\ outages = 0
    /\ retired = FALSE /\ late = FALSE

Out == stopping \/ fenced

\* The lease row can be had and is this process's.
Active == reachable /\ lease.state = "ACTIVE"

-----------------------------------------------------------------------------
\* The renewal loop: NodeManager.Renew, RenewLeases, renewLocked.  Its storage calls
\* have a context of their own: cancelling the loops does not end them.

\* Observe, and Fence when the storage clock broke its bound; then the guard.
RenewStart ==
    /\ renew = "idle" /\ ~cancelled
    /\ \/ /\ renew' = IF Out THEN "idle" ELSE IF initialized THEN "renew" ELSE "register"
          /\ UNCHANGED <<fenced, ready>>
       \/ /\ MayFence /\ ~fenced
          /\ fenced' = TRUE /\ ready' = FALSE
          /\ UNCHANGED renew
    /\ UNCHANGED <<phase, stopping, initialized, routeApplied, beat, refresh, cancelled,
                   routed, storage, world, retired, late>>

\* RegisterInstance: insert if absent; a row that is not ACTIVE is refused.
Register ==
    /\ renew = "register"
    /\ lease' = IF reachable /\ lease.state = "none" THEN [state |-> "ACTIVE", age |-> "fresh"]
                ELSE lease
    /\ renew' = IF reachable /\ lease'.state = "ACTIVE" THEN "sync" ELSE "idle"
    /\ UNCHANGED <<phase, ready, flags, beat, refresh, cancelled, routed, alive, published,
                   world, retired, late>>

\* syncAuthorityLocked, which applies nothing to a process that is out.
Sync ==
    /\ renew = "sync"
    /\ initialized' = (initialized \/ (Active /\ ~Out))
    /\ renew' = IF Active /\ ~Out THEN "renew" ELSE "idle"
    /\ UNCHANGED <<phase, ready, stopping, fenced, routeApplied, beat, refresh, cancelled,
                   routed, storage, world, retired, late>>

\* RenewInstance.  When it is refused the second attempt begins with a sync, which a
\* row that is not there or not ACTIVE refuses as well.
RenewRow ==
    /\ renew = "renew"
    /\ lease' = IF Active THEN [lease EXCEPT !.age = "fresh"] ELSE lease
    /\ renew' = IF Active THEN "confirm" ELSE "idle"
    /\ UNCHANGED <<phase, ready, flags, beat, refresh, cancelled, routed, alive, published,
                   world, retired, late>>

Confirm ==
    /\ renew = "confirm"
    /\ renew' = IF Out THEN "idle" ELSE "arm"
    /\ UNCHANGED <<phase, ready, flags, beat, refresh, cancelled, routed, storage, world,
                   retired, late>>

\* The deadline, the gates, and the state: whatever happened since the check.
Arm ==
    /\ renew = "arm"
    /\ ready' = TRUE
    /\ renew' = "idle"
    /\ UNCHANGED <<phase, flags, beat, refresh, cancelled, routed, storage, world, retired, late>>

-----------------------------------------------------------------------------
\* Heartbeat and Refresh

\* The mutant waits for the route it gates.
ServesRoute == initialized /\ routeApplied /\ ~Out
Serves == initialized /\ ~Out

HeartbeatStart ==
    /\ beat = "idle" /\ ~cancelled /\ Serves
    /\ beat' = "call"
    /\ UNCHANGED <<phase, ready, flags, renew, refresh, cancelled, routed, storage, world,
                   retired, late>>

\* RenewLiveness
Beat ==
    /\ beat = "call"
    /\ alive' = IF reachable THEN "fresh" ELSE alive
    /\ beat' = "idle"
    /\ UNCHANGED <<phase, ready, flags, renew, refresh, cancelled, routed, lease, published,
                   world, retired, late>>

\* GetNewerRoute
RefreshRoute ==
    /\ refresh = "idle" /\ ~cancelled
    /\ routed' = (routed \/ (reachable /\ published))
    /\ refresh' = "apply"
    /\ UNCHANGED <<phase, ready, flags, renew, beat, cancelled, storage, world, retired, late>>

\* MarkRouteApplied; the claim that follows is SequenceHA's.
RefreshApply ==
    /\ refresh = "apply"
    /\ routeApplied' = (routeApplied \/ (Serves /\ routed))
    /\ refresh' = "idle"
    /\ UNCHANGED <<phase, ready, stopping, fenced, initialized, renew, beat, cancelled, routed,
                   storage, world, retired, late>>

-----------------------------------------------------------------------------
\* Readiness and admission

\* Paused.  The mutant relies on the state alone.
StatePaused == ~ready
Paused == ~ready \/ fenced \/ stopping

Ready == ~fenced /\ ~stopping /\ initialized /\ routeApplied

\* enterSlot, and beginAllocation's guard.
Enter ==
    /\ ~Paused
    /\ late' = (late \/ Out)
    /\ UNCHANGED <<phase, ready, flags, loops, cancelled, routed, storage, world, retired>>

\* checkFastPathBound: a request that was paused too long fences the instance.
PauseViolation ==
    /\ MayFence /\ ~fenced /\ ~Paused
    /\ fenced' = TRUE /\ ready' = FALSE
    /\ UNCHANGED <<phase, stopping, initialized, routeApplied, loops, cancelled, routed,
                   storage, world, retired, late>>

-----------------------------------------------------------------------------
\* The end: the hooks before the stop, then the tasks.

\* ShutdownContext: stopping, paused, gates closed and slots released ...
BeginShutdown ==
    /\ phase = "running"
    /\ phase' = "retire"
    /\ stopping' = TRUE /\ ready' = FALSE
    /\ UNCHANGED <<fenced, initialized, routeApplied, loops, cancelled, routed, storage, world,
                   retired, late>>

\* ... and RetireInstance.
Retire ==
    /\ phase = "retire"
    /\ phase' = "drop"
    /\ lease' = IF Active THEN [lease EXCEPT !.state = "RETIRED"] ELSE lease
    /\ retired' = reachable
    /\ UNCHANGED <<ready, flags, loops, cancelled, routed, alive, published, world, late>>

\* DropLiveness; a failure is logged.
Drop ==
    /\ phase = "drop"
    /\ phase' = "stop"
    /\ alive' = IF reachable THEN "none" ELSE alive
    /\ UNCHANGED <<ready, flags, loops, cancelled, routed, lease, published, world, retired, late>>

\* Ticker.Stop
StopTask ==
    /\ phase = "stop"
    /\ phase' = "waiting"
    /\ ready' = FALSE /\ cancelled' = TRUE
    /\ UNCHANGED <<flags, loops, routed, storage, world, retired, late>>

Ended ==
    /\ phase = "waiting" /\ renew = "idle" /\ beat = "idle" /\ refresh = "idle"
    /\ phase' = "ended"
    /\ UNCHANGED <<ready, flags, loops, cancelled, routed, storage, world, retired, late>>

-----------------------------------------------------------------------------
\* The world outside.

\* The publisher writes its first route.
PublishRoute ==
    /\ ~published
    /\ published' = TRUE
    /\ UNCHANGED <<phase, ready, flags, loops, cancelled, routed, lease, alive, world, retired, late>>

Outage ==
    /\ reachable /\ outages < MaxOutages
    /\ reachable' = FALSE /\ outages' = outages + 1
    /\ UNCHANGED <<phase, ready, flags, loops, cancelled, routed, storage, retired, late>>

Recover ==
    /\ ~reachable
    /\ reachable' = TRUE
    /\ UNCHANGED <<phase, ready, flags, loops, cancelled, routed, storage, outages, retired, late>>

\* A call ends long before the quiet window has passed.
Quiet == ~reachable \/ Out
NoCall == renew = "idle" /\ beat = "idle"
Older(age) == IF age = "fresh" THEN "stale" ELSE "old"

AgeLease ==
    /\ Quiet /\ lease.state # "none"
    /\ lease.age = "fresh" \/ (lease.age = "stale" /\ NoCall)
    /\ lease' = [lease EXCEPT !.age = Older(@)]
    /\ UNCHANGED <<phase, ready, flags, loops, cancelled, routed, alive, published, world,
                   retired, late>>

AgeLiveness ==
    /\ Quiet /\ alive = "fresh"
    /\ alive' = "stale"
    /\ UNCHANGED <<phase, ready, flags, loops, cancelled, routed, lease, published, world,
                   retired, late>>

\* CollectInstances, by the publisher, of an instance without slots and handoffs.
Collect ==
    /\ lease.state # "none" /\ lease.age = "old" /\ alive = "none"
    /\ lease' = NoRow
    /\ UNCHANGED <<phase, ready, flags, loops, cancelled, routed, alive, published, world,
                   retired, late>>

-----------------------------------------------------------------------------
RenewLoop == RenewStart \/ Register \/ Sync \/ RenewRow \/ Confirm \/ Arm
BeatLoop == HeartbeatStart \/ Beat
RefreshLoop == RefreshRoute \/ RefreshApply
Stopping == Retire \/ Drop \/ StopTask \/ Ended

Next ==
    \/ RenewLoop \/ BeatLoop \/ RefreshLoop
    \/ Enter \/ PauseViolation
    \/ BeginShutdown \/ Stopping
    \/ PublishRoute \/ Outage \/ Recover \/ AgeLease \/ AgeLiveness \/ Collect

\* The loops run on, a stop goes on, outages end and somebody publishes.
Fairness ==
    /\ WF_vars(RenewLoop) /\ WF_vars(BeatLoop) /\ WF_vars(RefreshLoop)
    /\ WF_vars(Stopping) /\ WF_vars(Recover) /\ WF_vars(PublishRoute)

Spec == Init /\ [][Next]_vars
FairSpec == Spec /\ Fairness

-----------------------------------------------------------------------------
\* Properties.

\* No allocation enters once the process is fenced or has begun to stop, although a
\* renewal that was under way makes the state ready again afterwards (Paused, Arm).
NoLateEntry == ~late

\* LiveNodes sees this process: both rows are fresh and the lease is ACTIVE.  The
\* mutant forgets the state.
AnyLease == lease.state # "none" /\ lease.age = "fresh" /\ alive = "fresh"
Live == lease.state = "ACTIVE" /\ lease.age = "fresh" /\ alive = "fresh"

\* A process whose shutdown retired it is not planned for again, whatever heartbeat,
\* registration or renewal of its own lands after the hooks (LiveNodes, Drop, Beat).
NeverLiveAgain == retired => ~Live

\* A process becomes ready unless it stops or is fenced, over any outages.
BecomesReady == phase = "running" ~> (Ready \/ Out)
=============================================================================
