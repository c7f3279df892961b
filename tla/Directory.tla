------------------------------ MODULE Directory ------------------------------
(***************************************************************************)
(* How ownership reaches the nodes: replicas of the control plane take a   *)
(* tenure and publish the ownership view as the one route snapshot         *)
(* (AcquireCoordinator, MaterialiseRoute, Publisher.Pass), data nodes poll *)
(* for newer snapshots and cache them (GetNewerRoute, RouteCache).  A pass *)
(* reads and writes in separate transactions, a tenure may run out between *)
(* them, and an answer may be applied when the next is already there.      *)
(*                                                                         *)
(* Abstractions.                                                           *)
(*  - Ownership changes by a claim that raises the epoch (EpochFence of    *)
(*    SlotAuthority).  Segments and payloads are RouteTable's; here a      *)
(*    route is the function they stand for.                                *)
(*  - A tenure runs out when its holder has no pass under way, or          *)
(*    MaxPauses times during a pass: pass_timeout is shorter than          *)
(*    coordinator_lease, so only a pause makes a pass outlive it.          *)
(***************************************************************************)
EXTENDS Integers

CONSTANTS
    None,
    Slot, Node,
    Control,      \* replicas of the control plane
    MaxEpoch,     \* bound: claims of each slot
    MaxTenure,    \* bound: tenures, the last of which does not run out
    MaxPauses     \* bound: tenures that run out during a pass, failed passes and
                  \* restarted nodes

ASSUME DirectoryAssumption ==
    /\ None \notin Node \cup Control
    /\ {MaxEpoch, MaxTenure, MaxPauses} \subseteq Nat

VARIABLES
    owner,      \* the ownership view: node and epoch of each slot
    tenure,     \* sequence_coordinator
    pub,        \* the pass of each control replica
    snapshot,   \* sequence_route_snapshot
    cache,      \* RouteCache of each node
    answer,     \* what a node has read and not applied, or None
    pauses      \* faults so far

vars == <<owner, tenure, pub, snapshot, cache, answer, pauses>>

-----------------------------------------------------------------------------
NoRoute == [version |-> 0, route |-> [s \in Slot |-> [node |-> None, epoch |-> 0]]]
Idle == [at |-> "idle", epoch |-> 0, view |-> NoRoute.route]

Init ==
    /\ owner = NoRoute.route
    /\ tenure = [owner |-> None, epoch |-> 0, fresh |-> FALSE]
    /\ pub = [p \in Control |-> Idle]
    /\ snapshot = NoRoute
    /\ cache = [d \in Node |-> NoRoute]
    /\ answer = [d \in Node |-> None]
    /\ pauses = 0

\* The slot changes hands.
Claim(s, d) ==
    /\ owner[s].epoch < MaxEpoch
    /\ owner' = [owner EXCEPT ![s] = [node |-> d, epoch |-> @.epoch + 1]]
    /\ UNCHANGED <<tenure, pub, snapshot, cache, answer, pauses>>

-----------------------------------------------------------------------------
\* The tenure.

\* AcquireCoordinator, at the beginning of a pass: the holder keeps its epoch, and
\* whoever comes later raises it.
AcquireCoordinator(p) ==
    LET self == tenure.owner = p
        epoch == IF self /\ tenure.fresh THEN tenure.epoch ELSE tenure.epoch + 1
    IN  /\ pub[p].at = "idle"
        /\ self \/ ~tenure.fresh
        /\ epoch <= MaxTenure
        /\ tenure' = [owner |-> p, epoch |-> epoch, fresh |-> TRUE]
        /\ pub' = [pub EXCEPT ![p] = [Idle EXCEPT !.at = "acquired", !.epoch = epoch]]
        /\ UNCHANGED <<owner, snapshot, cache, answer, pauses>>

Pause == pauses < MaxPauses /\ pauses' = pauses + 1

\* expires_at passes.
Expire ==
    /\ tenure.fresh /\ tenure.epoch < MaxTenure
    /\ tenure' = [tenure EXCEPT !.fresh = FALSE]
    /\ IF pub[tenure.owner].at = "idle" THEN UNCHANGED pauses ELSE Pause
    /\ UNCHANGED <<owner, pub, snapshot, cache, answer>>

\* GuardCoordinator, in the transaction of every write of the control plane.  The
\* mutant does without.
Unguarded(p) == TRUE
GuardCoordinator(p) == tenure = [owner |-> p, epoch |-> pub[p].epoch, fresh |-> TRUE]

-----------------------------------------------------------------------------
\* The pass.

\* The ownership view is read under the tenure, outside any transaction with the
\* write.
ReadView(p) ==
    /\ pub[p].at = "acquired"
    /\ pub' = [pub EXCEPT ![p].at = "viewed", ![p].view = owner]
    /\ UNCHANGED <<owner, tenure, snapshot, cache, answer, pauses>>

\* The version that follows a route.  The mutant leaves the first one.
SameVersion(version) == IF version = 0 THEN 1 ELSE version
NextVersion(version) == version + 1

\* SameRoutePayload.  The mutant compares the nodes.
SameNodes(a, b) == \A s \in Slot : a[s].node = b[s].node
SameRoute(a, b) == a = b

\* MaterialiseRoute: refused, the same, or the next version.
MaterialiseRoute(p) ==
    /\ pub[p].at = "viewed"
    /\ LET same == snapshot.version > 0 /\ SameRoute(snapshot.route, pub[p].view)
       IN  snapshot' = IF same \/ ~GuardCoordinator(p) THEN snapshot
                       ELSE [version |-> NextVersion(snapshot.version), route |-> pub[p].view]
    /\ pub' = [pub EXCEPT ![p] = Idle]
    /\ UNCHANGED <<owner, tenure, cache, answer, pauses>>

\* A pass fails or its process dies; another may have the same name.
Fail(p) ==
    /\ pub[p].at # "idle"
    /\ Pause
    /\ pub' = [pub EXCEPT ![p] = Idle]
    /\ UNCHANGED <<owner, tenure, snapshot, cache, answer>>

-----------------------------------------------------------------------------
\* The nodes.

\* GetNewerRoute: nothing unless the snapshot is newer.
GetNewerRoute(d) ==
    /\ answer[d] = None
    /\ snapshot.version > cache[d].version
    /\ answer' = [answer EXCEPT ![d] = snapshot]
    /\ UNCHANGED <<owner, tenure, pub, snapshot, cache, pauses>>

\* UpdateRoute: a stale answer is dropped.
UpdateRoute(d) ==
    /\ answer[d] # None
    /\ cache' = [cache EXCEPT ![d] = IF answer[d].version > @.version THEN answer[d] ELSE @]
    /\ answer' = [answer EXCEPT ![d] = None]
    /\ UNCHANGED <<owner, tenure, pub, snapshot, pauses>>

\* A node starts again and has no route.
Restart(d) ==
    /\ Pause
    /\ cache' = [cache EXCEPT ![d] = NoRoute]
    /\ answer' = [answer EXCEPT ![d] = None]
    /\ UNCHANGED <<owner, tenure, pub, snapshot>>

-----------------------------------------------------------------------------
Pass(p) == AcquireCoordinator(p) \/ ReadView(p) \/ MaterialiseRoute(p)
Refresh(d) == GetNewerRoute(d) \/ UpdateRoute(d)

Next ==
    \/ \E s \in Slot, d \in Node : Claim(s, d)
    \/ \E p \in Control : Pass(p) \/ Fail(p)
    \/ Expire
    \/ \E d \in Node : Refresh(d) \/ Restart(d)

\* Replicas run their passes, nodes poll, and time passes.
Fairness ==
    /\ \A p \in Control : WF_vars(Pass(p))
    /\ WF_vars(Expire)
    /\ \A d \in Node : WF_vars(Refresh(d))

Spec == Init /\ [][Next]_vars
FairSpec == Spec /\ Fairness

-----------------------------------------------------------------------------
\* Properties.

Routes == {snapshot} \cup {cache[d] : d \in Node}
            \cup {answer[d] : d \in {d \in Node : answer[d] # None}}

\* A version names one route, wherever it is (MaterialiseRoute): the client and the
\* service compare versions only.
OneRoutePerVersion == \A a, b \in Routes : a.version = b.version => a.route = b.route

\* A newer version never knows less: the epoch of a slot does not fall from one
\* version to a later one, whichever replica published them and however old its
\* view was (GuardCoordinator).
EpochsFollowVersions ==
    \A a, b \in Routes : a.version <= b.version =>
        \A s \in Slot : a.route[s].epoch <= b.route[s].epoch

\* When ownership no longer changes, every node soon has it (Publisher.Run,
\* NodeManager.Refresh).
OwnershipArrives == <>[](\A d \in Node : cache[d].route = owner)
=============================================================================
