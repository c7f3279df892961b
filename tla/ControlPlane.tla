---------------------------- MODULE ControlPlane ----------------------------
(***************************************************************************)
(* The parts of the fleet's coordination side by side: how routes reach    *)
(* the nodes (Directory), what a route is made of (RouteTable), one        *)
(* process from start to end (Lifecycle) and when it renews (RenewTiming). *)
(* They share no state.                                                    *)
(***************************************************************************)
EXTENDS Directory

CONSTANTS
    Instance, NodeOf, SlotCount, MaxRowEpoch,               \* RouteTable
    MaxOutages, MayFence,                                   \* Lifecycle
    LeaseDeadline, RenewInterval, ReserveTimeout, CallMax,
    Contender, MaxTimeouts                                  \* RenewTiming

VARIABLES
    rows,                                                   \* RouteTable
    phase, ready, stopping, fenced, initialized, routeApplied, renew, beat, refresh,
    cancelled, routed, lease, alive, published, reachable, outages, retired,
    late,                                                   \* Lifecycle
    tick, actor, mu, left, timeouts                         \* RenewTiming

Table == INSTANCE RouteTable WITH row <- rows, MaxEpoch <- MaxRowEpoch

Process == INSTANCE Lifecycle

Renewals == INSTANCE RenewTiming

ASSUME ControlPlaneAssumption ==
    /\ Table!RouteTableAssumption
    /\ Process!LifecycleAssumption
    /\ Renewals!TimingAssumption

-----------------------------------------------------------------------------
\* The properties of the parts, as the parts state them; those of Directory that are
\* invariants are used by their own names.

\* What a node and a client look up in a published route is what the ownership rows
\* say of the slot.
RouteIsOwnership == Table!RouteIsOwnership

\* A payload changes when an owner or an epoch does, and only then.
PublishesChanges == Table!PublishesChanges

\* No allocation enters after a stop or a fence.
NoLateEntry == Process!NoLateEntry

\* A process whose shutdown retired its lease is never taken for a live one again.
NeverLiveAgain == Process!NeverLiveAgain

\* The local deadline of a healthy instance does not pass.
NeverLapses == Renewals!NeverLapses
=============================================================================
