------------------------- MODULE ControlPlaneProofs -------------------------
(***************************************************************************)
(* The parts of the fleet's coordination, which share no state: what the   *)
(* versions of routes promise, for any number of slots, nodes and replicas *)
(* of the control plane, and any pauses and restarts; what a process that  *)
(* is fenced or stops does no more; and that a route says what the         *)
(* ownership rows say.                                                     *)
(***************************************************************************)
EXTENDS ControlPlane, FiniteSetTheorems, WellFoundedInduction, TLAPS

-----------------------------------------------------------------------------
\* Directory.

View == [Slot -> [node : Node \cup {None}, epoch : Nat]]
RouteRow == [version : Nat, route : View]
PassRow == [at : {"idle", "acquired", "viewed"}, epoch : Nat, view : View]
TenureRow == [owner : Control \cup {None}, epoch : Nat, fresh : BOOLEAN]

DirectoryTypeOK ==
    /\ owner \in View
    /\ tenure \in TenureRow
    /\ pub \in [Control -> PassRow]
    /\ snapshot \in RouteRow
    /\ cache \in [Node -> RouteRow]
    /\ answer \in [Node -> RouteRow \cup {None}]

\* The epochs of one view are no later than those of another.
NoLater(v, w) == \A s \in Slot : v[s].epoch <= w[s].epoch

\* Nothing anywhere is newer than the snapshot, and nothing but NoRoute has version 0.
SnapshotIsNewest ==
    \A a \in Routes : a.version <= snapshot.version /\ (a.version = 0 => a = NoRoute)

\* A view was read before the ownership there is, and as long as its reader is the
\* holder of the tenure, nothing later has been published.
ViewsAreBetween ==
    \A p \in Control : pub[p].at = "viewed" =>
        /\ NoLater(pub[p].view, owner)
        /\ tenure.owner = p => NoLater(snapshot.route, pub[p].view)

IInv ==
    /\ DirectoryTypeOK
    /\ SnapshotIsNewest
    /\ NoLater(snapshot.route, owner)
    /\ ViewsAreBetween
    /\ OneRoutePerVersion
    /\ EpochsFollowVersions

-----------------------------------------------------------------------------
LEMMA NoRouteType == NoRoute \in RouteRow /\ NoRoute.version = 0
  BY DEF NoRoute, RouteRow, View

LEMMA IdleType == Idle \in PassRow /\ Idle.at = "idle"
  BY NoRouteType DEF Idle, PassRow, NoRoute, RouteRow, View

LEMMA RoutesType ==
    ASSUME DirectoryTypeOK
    PROVE  /\ Routes \subseteq RouteRow
           /\ snapshot \in Routes
  BY DEF DirectoryTypeOK, Routes

LEMMA NoLaterRefl ==
    ASSUME NEW v \in View
    PROVE  NoLater(v, v)
  BY DEF NoLater, View

LEMMA NoLaterTrans ==
    ASSUME NEW u \in View, NEW v \in View, NEW w \in View, NoLater(u, v), NoLater(v, w)
    PROVE  NoLater(u, w)
  BY DEF NoLater, View

\* Routes that are dropped, moved or forgotten leave their order as it was.
LEMMA FewerRoutes ==
    ASSUME IInv, DirectoryTypeOK', snapshot' = snapshot, Routes' \subseteq Routes \cup {NoRoute}
    PROVE  SnapshotIsNewest' /\ OneRoutePerVersion' /\ EpochsFollowVersions'
<1>1. Routes \cup {NoRoute} \subseteq RouteRow /\ snapshot \in RouteRow
  BY RoutesType, NoRouteType DEF IInv, DirectoryTypeOK
<1>2. \A a \in Routes \cup {NoRoute} :
        a.version \in Nat /\ a.version <= snapshot.version /\ (a.version = 0 => a = NoRoute)
  BY <1>1, NoRouteType DEF IInv, SnapshotIsNewest, RouteRow
<1>3. SnapshotIsNewest'
  BY <1>2 DEF SnapshotIsNewest
<1>4. ASSUME NEW a \in Routes \cup {NoRoute}, NEW b \in Routes \cup {NoRoute}
      PROVE  /\ a.version = b.version => a.route = b.route
             /\ a.version <= b.version => NoLater(a.route, b.route)
  <2>1. CASE a = NoRoute
    <3>1. b.version = 0 => b = NoRoute
      BY <1>2
    <3>2. b.route \in View
      BY <1>1 DEF RouteRow
    <3>3. NoLater(NoRoute.route, b.route)
      BY <3>2 DEF NoRoute, NoLater, View
    <3>4. QED
      BY <2>1, <3>1, <3>3, NoRouteType
  <2>2. CASE b = NoRoute
    <3>1. a.version <= 0 => a = NoRoute
      BY <1>2
    <3>2. QED
      BY <2>1, <2>2, <3>1, NoRouteType
  <2>3. CASE a \in Routes /\ b \in Routes
    BY <2>3 DEF IInv, OneRoutePerVersion, EpochsFollowVersions, NoLater
  <2>4. QED
    BY <2>1, <2>2, <2>3
<1>5. OneRoutePerVersion'
  BY <1>4 DEF OneRoutePerVersion
<1>6. EpochsFollowVersions'
  BY <1>4 DEF EpochsFollowVersions, NoLater
<1>7. QED
  BY <1>3, <1>5, <1>6

\* A new snapshot follows all others.
LEMMA NewSnapshot ==
    ASSUME IInv, NEW v \in View, NoLater(snapshot.route, v),
           snapshot' = [version |-> snapshot.version + 1, route |-> v],
           Routes' \subseteq Routes \cup {snapshot'}
    PROVE  SnapshotIsNewest' /\ OneRoutePerVersion' /\ EpochsFollowVersions'
<1> DEFINE new == [version |-> snapshot.version + 1, route |-> v]
<1>1. /\ Routes \subseteq RouteRow /\ snapshot \in Routes
      /\ new.version = snapshot.version + 1 /\ new.route = v
  BY RoutesType DEF IInv
<1>2. snapshot' = new /\ Routes' \subseteq Routes \cup {new}
  OBVIOUS
<1> HIDE DEF new
<1>3. \A a \in Routes :
        /\ a.version \in Nat /\ a.version <= snapshot.version /\ snapshot.version \in Nat
        /\ a.version = 0 => a = NoRoute
  BY <1>1 DEF IInv, SnapshotIsNewest, RouteRow
<1>4. SnapshotIsNewest'
  BY <1>1, <1>2, <1>3 DEF SnapshotIsNewest
<1>5. ASSUME NEW a \in Routes
      PROVE  NoLater(a.route, v)
  <2>1. NoLater(a.route, snapshot.route)
    BY <1>1, <1>3 DEF IInv, EpochsFollowVersions, NoLater
  <2>2. a.route \in View /\ snapshot.route \in View
    BY <1>1 DEF RouteRow
  <2>3. QED
    BY <2>1, <2>2, NoLaterTrans
<1>6. ASSUME NEW a \in Routes \cup {new}, NEW b \in Routes \cup {new}
      PROVE  /\ a.version = b.version => a.route = b.route
             /\ a.version <= b.version => NoLater(a.route, b.route)
  <2>1. CASE a = new /\ b = new
    BY <1>1, <2>1, NoLaterRefl
  <2>2. CASE a = new /\ b \in Routes
    BY <1>1, <1>3, <2>2
  <2>3. CASE a \in Routes /\ b = new
    BY <1>1, <1>3, <1>5, <2>3
  <2>4. CASE a \in Routes /\ b \in Routes
    BY <2>4 DEF IInv, OneRoutePerVersion, EpochsFollowVersions, NoLater
  <2>5. QED
    BY <2>1, <2>2, <2>3, <2>4
<1>7. OneRoutePerVersion'
  BY <1>2, <1>6 DEF OneRoutePerVersion
<1>8. EpochsFollowVersions'
  BY <1>2, <1>6 DEF EpochsFollowVersions, NoLater
<1>9. QED
  BY <1>4, <1>7, <1>8

-----------------------------------------------------------------------------
\* Each step.

LEMMA InitIInv == Init => IInv
<1> SUFFICES ASSUME Init PROVE IInv
  OBVIOUS
<1>1. DirectoryTypeOK
  <2>1. NoRoute.route \in View
    BY DEF NoRoute, View
  <2>2. QED
    BY <2>1, NoRouteType, IdleType DEF Init, DirectoryTypeOK, TenureRow
<1>2. Routes \subseteq {NoRoute}
  BY DEF Init, Routes
<1>3. SnapshotIsNewest /\ OneRoutePerVersion
  BY <1>2, NoRouteType DEF Init, SnapshotIsNewest, OneRoutePerVersion
<1>4. NoLater(NoRoute.route, NoRoute.route)
  BY NoRouteType, NoLaterRefl DEF RouteRow
<1>5. EpochsFollowVersions
  BY <1>2, <1>4 DEF EpochsFollowVersions, NoLater
<1>6. ViewsAreBetween
  BY IdleType DEF Init, ViewsAreBetween
<1>7. QED
  BY <1>1, <1>3, <1>4, <1>5, <1>6 DEF Init, IInv

\* Steps of the publishers that publish nothing leave the routes alone.
LEMMA RoutesAlone ==
    ASSUME UNCHANGED <<snapshot, cache, answer>>
    PROVE  Routes' = Routes
  BY DEF Routes

LEMMA ClaimIInv ==
    ASSUME IInv, NEW s \in Slot, NEW d \in Node, Claim(s, d)
    PROVE  IInv'
<1>1. DirectoryTypeOK'
  BY DEF IInv, DirectoryTypeOK, Claim, View
<1>2. SnapshotIsNewest' /\ OneRoutePerVersion' /\ EpochsFollowVersions'
  BY <1>1, RoutesAlone, FewerRoutes DEF Claim
<1>3. NoLater(owner, owner') /\ owner \in View /\ owner' \in View
  BY <1>1 DEF IInv, DirectoryTypeOK, Claim, View, NoLater
<1>4. NoLater(snapshot.route, owner)'
  BY <1>3, NoLaterTrans DEF IInv, DirectoryTypeOK, RouteRow, Claim
<1>5. ViewsAreBetween'
  <2>1. \A p \in Control : pub[p].view \in View
    BY DEF IInv, DirectoryTypeOK, PassRow
  <2>2. QED
    BY <1>3, <2>1, NoLaterTrans DEF IInv, ViewsAreBetween, Claim
<1>6. QED
  BY <1>1, <1>2, <1>4, <1>5 DEF IInv

LEMMA AcquireIInv ==
    ASSUME IInv, NEW p \in Control, AcquireCoordinator(p)
    PROVE  IInv'
<1> DEFINE epoch == IF tenure.owner = p /\ tenure.fresh THEN tenure.epoch ELSE tenure.epoch + 1
           row == [Idle EXCEPT !.at = "acquired", !.epoch = epoch]
<1>1. epoch \in Nat
  BY DEF IInv, DirectoryTypeOK, TenureRow
<1>2. row \in PassRow /\ row.at = "acquired"
  <2> HIDE DEF epoch
  <2>1. QED
    BY <1>1, IdleType DEF PassRow
<1>3. tenure' = [owner |-> p, epoch |-> epoch, fresh |-> TRUE]
  BY DEF AcquireCoordinator
<1>4. pub' = [pub EXCEPT ![p] = row]
  BY DEF AcquireCoordinator
<1> HIDE DEF epoch, row
<1>5. DirectoryTypeOK'
  BY <1>1, <1>2, <1>3, <1>4 DEF IInv, DirectoryTypeOK, TenureRow, AcquireCoordinator
<1>6. SnapshotIsNewest' /\ OneRoutePerVersion' /\ EpochsFollowVersions'
  BY <1>5, RoutesAlone, FewerRoutes DEF AcquireCoordinator
<1>7. ViewsAreBetween'
  <2>1. SUFFICES ASSUME NEW q \in Control, pub'[q].at = "viewed"
                 PROVE  /\ NoLater(pub[q].view, owner) /\ pub'[q] = pub[q]
                        /\ tenure'.owner # q
    BY DEF ViewsAreBetween, AcquireCoordinator
  <2>2. q # p /\ pub'[q] = pub[q]
    BY <1>2, <1>4, <2>1 DEF IInv, DirectoryTypeOK
  <2>3. QED
    BY <1>3, <2>1, <2>2 DEF IInv, ViewsAreBetween
<1>8. QED
  BY <1>5, <1>6, <1>7 DEF IInv, AcquireCoordinator

LEMMA ReadViewIInv ==
    ASSUME IInv, NEW p \in Control, ReadView(p)
    PROVE  IInv'
<1>1. DirectoryTypeOK'
  BY DEF IInv, DirectoryTypeOK, PassRow, ReadView
<1>2. SnapshotIsNewest' /\ OneRoutePerVersion' /\ EpochsFollowVersions'
  BY <1>1, RoutesAlone, FewerRoutes DEF ReadView
<1>3. NoLater(owner, owner)
  BY NoLaterRefl DEF IInv, DirectoryTypeOK
<1>4. pub'[p].view = owner /\ \A q \in Control \ {p} : pub'[q] = pub[q]
  BY DEF IInv, DirectoryTypeOK, PassRow, ReadView
<1>5. ViewsAreBetween'
  BY <1>3, <1>4 DEF IInv, ViewsAreBetween, ReadView
<1>6. QED
  BY <1>1, <1>2, <1>5 DEF IInv, ReadView

LEMMA MaterialiseIInv ==
    ASSUME IInv, NEW p \in Control, MaterialiseRoute(p)
    PROVE  IInv'
<1> DEFINE v == pub[p].view
<1>1. v \in View /\ snapshot.route \in View /\ snapshot.version \in Nat
  BY DEF IInv, DirectoryTypeOK, PassRow, RouteRow
<1>2. pub' = [pub EXCEPT ![p] = Idle] /\ pub' \in [Control -> PassRow]
  BY IdleType DEF IInv, DirectoryTypeOK, MaterialiseRoute
<1>3. \A q \in Control : pub'[q].at = "viewed" => q # p /\ pub'[q] = pub[q]
  BY <1>2, IdleType DEF IInv, DirectoryTypeOK
<1>4. CASE snapshot' = snapshot
  <2>1. DirectoryTypeOK'
    BY <1>2, <1>4 DEF IInv, DirectoryTypeOK, MaterialiseRoute
  <2>2. SnapshotIsNewest' /\ OneRoutePerVersion' /\ EpochsFollowVersions'
    BY <1>4, <2>1, RoutesAlone, FewerRoutes DEF MaterialiseRoute
  <2>3. ViewsAreBetween'
    BY <1>3, <1>4 DEF IInv, ViewsAreBetween, MaterialiseRoute
  <2>4. QED
    BY <1>4, <2>1, <2>2, <2>3 DEF IInv, MaterialiseRoute
<1>5. CASE snapshot' # snapshot
  <2>1. /\ snapshot' = [version |-> snapshot.version + 1, route |-> v]
        /\ tenure.owner = p
    BY <1>5 DEF MaterialiseRoute, GuardCoordinator, NextVersion
  <2>2. NoLater(snapshot.route, v) /\ NoLater(v, owner)
    BY <2>1 DEF IInv, ViewsAreBetween, MaterialiseRoute
  <2>3. DirectoryTypeOK'
    BY <1>1, <1>2, <2>1 DEF IInv, DirectoryTypeOK, RouteRow, MaterialiseRoute
  <2>4. Routes' \subseteq Routes \cup {snapshot'}
    BY DEF Routes, MaterialiseRoute
  <2>5. SnapshotIsNewest' /\ OneRoutePerVersion' /\ EpochsFollowVersions'
    BY <1>1, <2>1, <2>2, <2>4, NewSnapshot
  <2>6. ViewsAreBetween'
    BY <1>3, <2>1 DEF IInv, ViewsAreBetween, MaterialiseRoute
  <2>7. NoLater(snapshot.route, owner)'
    BY <2>1, <2>2 DEF MaterialiseRoute
  <2>8. QED
    BY <2>3, <2>5, <2>6, <2>7 DEF IInv
<1>6. QED
  BY <1>4, <1>5

\* Failures, the passing of a tenure and the nodes change no view and publish nothing.
LEMMA OtherIInv ==
    ASSUME IInv, DirectoryTypeOK', owner' = owner, snapshot' = snapshot,
           tenure'.owner = tenure.owner, Routes' \subseteq Routes \cup {NoRoute},
           \A p \in Control : pub'[p] = pub[p] \/ pub'[p].at = "idle"
    PROVE  IInv'
<1>1. SnapshotIsNewest' /\ OneRoutePerVersion' /\ EpochsFollowVersions'
  BY FewerRoutes
<1>2. ViewsAreBetween'
  BY DEF IInv, ViewsAreBetween
<1>3. QED
  BY <1>1, <1>2 DEF IInv

LEMMA NextIInv == IInv /\ [Next]_vars => IInv'
<1> SUFFICES ASSUME IInv, [Next]_vars PROVE IInv'
  OBVIOUS
<1>1. ASSUME NEW s \in Slot, NEW d \in Node, Claim(s, d) PROVE IInv'
  BY <1>1, ClaimIInv
<1>2. ASSUME NEW p \in Control, Pass(p) PROVE IInv'
  BY <1>2, AcquireIInv, ReadViewIInv, MaterialiseIInv DEF Pass
<1>3. ASSUME NEW p \in Control, Fail(p) PROVE IInv'
  <2>1. DirectoryTypeOK'
    BY <1>3, IdleType DEF Fail, IInv, DirectoryTypeOK
  <2>2. \A q \in Control : pub'[q] = pub[q] \/ pub'[q].at = "idle"
    BY <1>3, IdleType DEF Fail, IInv, DirectoryTypeOK
  <2>3. Routes' = Routes
    BY <1>3, RoutesAlone DEF Fail
  <2>4. QED
    BY <1>3, <2>1, <2>2, <2>3, OtherIInv DEF Fail
<1>4. CASE Expire
  <2>1. tenure' \in TenureRow /\ tenure'.owner = tenure.owner
    BY <1>4 DEF Expire, IInv, DirectoryTypeOK, TenureRow
  <2>2. DirectoryTypeOK'
    BY <1>4, <2>1 DEF Expire, IInv, DirectoryTypeOK
  <2>3. Routes' = Routes
    BY <1>4, RoutesAlone DEF Expire
  <2>4. QED
    BY <1>4, <2>1, <2>2, <2>3, OtherIInv DEF Expire
<1>5. ASSUME NEW d \in Node, GetNewerRoute(d) PROVE IInv'
  <2>1. DirectoryTypeOK'
    BY <1>5 DEF GetNewerRoute, IInv, DirectoryTypeOK
  <2>2. Routes' \subseteq Routes
    BY <1>5 DEF GetNewerRoute, Routes, IInv, DirectoryTypeOK
  <2>3. QED
    BY <1>5, <2>1, <2>2, OtherIInv DEF GetNewerRoute
<1>6. ASSUME NEW d \in Node, UpdateRoute(d) PROVE IInv'
  <2>1. DirectoryTypeOK'
    BY <1>6 DEF UpdateRoute, IInv, DirectoryTypeOK
  <2>2. Routes' \subseteq Routes
    BY <1>6 DEF UpdateRoute, Routes, IInv, DirectoryTypeOK
  <2>3. QED
    BY <1>6, <2>1, <2>2, OtherIInv DEF UpdateRoute
<1>7. ASSUME NEW d \in Node, Restart(d) PROVE IInv'
  <2>1. DirectoryTypeOK'
    BY <1>7, NoRouteType DEF Restart, IInv, DirectoryTypeOK
  <2>2. Routes' \subseteq Routes \cup {NoRoute}
    BY <1>7 DEF Restart, Routes, IInv, DirectoryTypeOK
  <2>3. QED
    BY <1>7, <2>1, <2>2, OtherIInv DEF Restart
<1>8. CASE UNCHANGED vars
  <2>1. DirectoryTypeOK' /\ Routes' = Routes
    BY <1>8 DEF vars, IInv, DirectoryTypeOK, Routes
  <2>2. QED
    BY <1>8, <2>1, OtherIInv DEF vars
<1>9. QED
  BY <1>1, <1>2, <1>3, <1>4, <1>5, <1>6, <1>7, <1>8 DEF Next, Refresh

-----------------------------------------------------------------------------
\* A client and a node that compare versions compare routes: a version never names
\* two of them (MaterialiseRoute, checkRouteVersion).
THEOREM VersionsNameRoutes == Spec => []OneRoutePerVersion
<1>1. IInv => OneRoutePerVersion
  BY DEF IInv
<1>2. QED
  BY <1>1, InitIInv, NextIInv, PTL DEF Spec

\* No publisher, however long it paused and whoever took over from it, publishes
\* older ownership under a newer version (GuardCoordinator).
THEOREM EpochsRiseWithVersions == Spec => []EpochsFollowVersions
<1>1. IInv => EpochsFollowVersions
  BY DEF IInv
<1>2. QED
  BY <1>1, InitIInv, NextIInv, PTL DEF Spec

-----------------------------------------------------------------------------
\* Lifecycle.

Lease == [state : {"none", "ACTIVE", "RETIRED"}, age : {"fresh", "stale", "old"}]

\* No allocation enters once the process is fenced or has begun to stop (Paused).
THEOREM NothingEntersLate == Process!Spec => []NoLateEntry
<1>1. Process!Init => NoLateEntry
  BY DEF Process!Init, NoLateEntry, Process!NoLateEntry
<1>2. ASSUME NoLateEntry, Process!Next
      PROVE  NoLateEntry'
  BY <1>2 DEF NoLateEntry, Process!NoLateEntry, Process!Next, Process!RenewLoop, Process!BeatLoop,
     Process!RefreshLoop, Process!Stopping, Process!RenewStart, Process!Register,
     Process!Sync, Process!RenewRow, Process!Confirm, Process!Arm, Process!HeartbeatStart,
     Process!Beat, Process!RefreshRoute, Process!RefreshApply, Process!Enter,
     Process!Paused, Process!Out, Process!PauseViolation, Process!BeginShutdown,
     Process!Retire, Process!Drop, Process!StopTask, Process!Ended, Process!PublishRoute,
     Process!Outage, Process!Recover, Process!AgeLease, Process!AgeLiveness, Process!Collect
<1>3. ASSUME NoLateEntry, UNCHANGED Process!vars
      PROVE  NoLateEntry'
  BY <1>3 DEF NoLateEntry, Process!NoLateEntry, Process!vars
<1>4. QED
  BY <1>1, <1>2, <1>3, PTL DEF Process!Spec

\* A registration under way finds a process that was never initialized, and such a
\* process has no liveness row; after the retirement of an initialized process its
\* lease row is never ACTIVE again.
Retirement ==
    /\ lease \in Lease
    /\ phase # "running" => stopping
    /\ retired => phase \notin {"running", "retire"}
    /\ beat = "call" \/ alive # "none" => initialized
    /\ initialized => renew # "register"
    /\ retired /\ initialized => lease.state # "ACTIVE"

LEMMA RetirementInit == Process!Init => Retirement
  BY DEF Process!Init, Process!NoRow, Retirement, Lease

LEMMA RetirementStep ==
    ASSUME Retirement, [Process!Next]_(Process!vars)
    PROVE  Retirement'
<1> USE DEF Retirement, Lease
<1>1. CASE Process!RenewLoop
  <2> USE DEF Process!Out, Process!Active, Process!flags, Process!loops, Process!storage,
             Process!world
  <2>1. CASE Process!RenewStart
    BY <2>1 DEF Process!RenewStart
  <2>2. CASE Process!Register
    BY <2>2 DEF Process!Register
  <2>3. CASE Process!Sync
    BY <2>3 DEF Process!Sync
  <2>4. CASE Process!RenewRow
    BY <2>4 DEF Process!RenewRow
  <2>5. CASE Process!Confirm \/ Process!Arm
    BY <2>5 DEF Process!Confirm, Process!Arm
  <2>6. QED
    BY <1>1, <2>1, <2>2, <2>3, <2>4, <2>5 DEF Process!RenewLoop
<1>2. CASE Process!BeatLoop \/ Process!RefreshLoop
  BY <1>2 DEF Process!BeatLoop, Process!RefreshLoop, Process!HeartbeatStart, Process!Beat,
     Process!RefreshRoute, Process!RefreshApply, Process!Serves, Process!Out,
     Process!flags, Process!loops, Process!storage, Process!world
<1>3. CASE Process!Enter \/ Process!PauseViolation \/ Process!BeginShutdown
  BY <1>3 DEF Process!Enter, Process!PauseViolation, Process!BeginShutdown, Process!flags,
     Process!loops, Process!storage, Process!world
<1>4. CASE Process!Stopping
  <2> USE DEF Process!Active, Process!flags, Process!loops, Process!storage, Process!world
  <2>1. CASE Process!Retire
    BY <2>1 DEF Process!Retire
  <2>2. CASE Process!Drop \/ Process!StopTask \/ Process!Ended
    BY <2>2 DEF Process!Drop, Process!StopTask, Process!Ended
  <2>3. QED
    BY <1>4, <2>1, <2>2 DEF Process!Stopping
<1>5. CASE \/ Process!PublishRoute \/ Process!Outage \/ Process!Recover
           \/ Process!AgeLease \/ Process!AgeLiveness \/ Process!Collect
  BY <1>5 DEF Process!PublishRoute, Process!Outage, Process!Recover, Process!AgeLease,
     Process!AgeLiveness, Process!Collect, Process!NoRow, Process!Older, Process!flags,
     Process!loops, Process!storage, Process!world
<1>6. CASE UNCHANGED Process!vars
  BY <1>6 DEF Process!vars, Process!flags, Process!loops, Process!storage, Process!world
<1>7. QED
  BY <1>1, <1>2, <1>3, <1>4, <1>5, <1>6 DEF Process!Next

\* A process whose shutdown retired it is not planned for again, whatever heartbeat,
\* registration or renewal of its own lands after the hooks (LiveNodes, Drop, Beat).
THEOREM RetiredNeverLive == Process!Spec => []NeverLiveAgain
<1>1. Retirement => NeverLiveAgain
  BY DEF Retirement, NeverLiveAgain, Process!NeverLiveAgain, Process!Live
<1>2. QED
  BY <1>1, RetirementInit, RetirementStep, PTL DEF Process!Spec

-----------------------------------------------------------------------------
\* RouteTable: runs of a function.

LEMMA LeastOf ==
    ASSUME NEW S, S \subseteq Nat, S # {}
    PROVE  \E x \in S : \A y \in S : x <= y
<1>1. OpToRel(<, Nat) = {ss \in Nat \X Nat : ss[1] < ss[2]}
  BY DEF OpToRel
<1>2. PICK x \in S : \A y \in S : ~(<<y, x>> \in OpToRel(<, Nat))
  BY NatLessThanWellFounded, WFMin
<1>3. ASSUME NEW y \in S, y < x
      PROVE  FALSE
  <2>1. <<y, x>> \in {ss \in Nat \X Nat : ss[1] < ss[2]}
    BY <1>3
  <2>2. QED
    BY <1>1, <1>2, <2>1, Zenon
<1>4. QED
  BY <1>3

LEMMA GreatestOf ==
    ASSUME NEW n \in Nat, NEW S, S \subseteq 0..n, S # {}
    PROVE  \E x \in S : \A y \in S : x >= y
<1> DEFINE T == {k \in 0..n : n - k \in S}
<1>1. \A y \in S : y \in 0..n /\ n - y \in 0..n /\ n - (n - y) = y
  OBVIOUS
<1>2. \A y \in S : n - y \in T
  BY <1>1
<1>3. T \subseteq Nat /\ T # {}
  <2>1. PICK y \in S : TRUE
    OBVIOUS
  <2>2. n - y \in T
    BY <1>2
  <2>3. T \subseteq 0..n /\ 0..n \subseteq Nat
    OBVIOUS
  <2>4. QED
    BY <2>2, <2>3, Zenon
<1>4. PICK x \in T : \A y \in T : x <= y
  BY <1>3, LeastOf
<1>5. \A y \in S : n - x >= y
  BY <1>1, <1>2, <1>4
<1>6. QED
  BY <1>4, <1>5

\* A run is an interval on which f has one value, and which is no part of a larger one.
Last == SlotCount - 1
Same(f, a, b) == \A u \in a..b : f[u] = f[a]
Starts(f, a) == a = 0 \/ f[a - 1] # f[a]
Ends(f, b) == b = Last \/ f[b + 1] # f[b]
Run(f, a, b) == /\ a \in 0..Last /\ b \in a..Last
                /\ Same(f, a, b) /\ Starts(f, a) /\ Ends(f, b)

\* From a slot on, a value lasts until a run ends.
LEMMA RunEnds ==
    ASSUME Last \in Nat, NEW f, NEW a \in 0..Last
    PROVE  \E b \in a..Last : Same(f, a, b) /\ Ends(f, b)
<1> DEFINE S == {b \in a..Last : Ends(f, b)}
<1>1. Last \in S /\ S \subseteq Nat
  BY DEF Ends
<1>2. PICK b \in S : \A c \in S : b <= c
  BY <1>1, LeastOf
<1>3. Same(f, a, b)
  <2> DEFINE D == {u \in a..b : f[u] # f[a]}
  <2> SUFFICES ASSUME D # {} PROVE FALSE
    BY DEF Same
  <2>1. D \subseteq Nat
    OBVIOUS
  <2>2. PICK u \in D : \A v \in D : u <= v
    BY <2>1, LeastOf
  <2>3. u # a /\ u - 1 \in a..b /\ u - 1 \notin D /\ u \in a..b /\ f[u] # f[a]
    BY <2>2
  <2>4. f[u - 1] = f[a]
    BY <2>3
  <2>5. u - 1 + 1 = u /\ u - 1 # Last /\ u - 1 \in a..Last
    BY <1>2, <2>3
  <2>6. Ends(f, u - 1)
    BY <2>3, <2>4, <2>5 DEF Ends
  <2>7. b <= u - 1
    BY <1>2, <2>5, <2>6
  <2>8. QED
    BY <2>3, <2>7
<1>4. QED
  BY <1>2, <1>3

LEMMA RunStarts ==
    ASSUME Last \in Nat, NEW f, NEW b \in 0..Last
    PROVE  \E a \in 0..b : Same(f, a, b) /\ Starts(f, a)
<1> DEFINE S == {a \in 0..b : Starts(f, a)}
<1>1. 0 \in S /\ S \subseteq 0..b /\ b \in Nat
  BY DEF Starts
<1>2. PICK a \in S : \A c \in S : a >= c
  BY <1>1, GreatestOf
<1>3. Same(f, a, b)
  <2> DEFINE D == {u \in a..b : f[u] # f[a]}
  <2> SUFFICES ASSUME D # {} PROVE FALSE
    BY DEF Same
  <2>1. D \subseteq Nat
    BY <1>1, <1>2
  <2>2. PICK u \in D : \A v \in D : u <= v
    BY <2>1, LeastOf
  <2>3. u # a /\ u - 1 \in a..b /\ u - 1 \notin D /\ u \in a..b /\ f[u] # f[a]
    BY <1>1, <1>2, <2>2
  <2>4. f[u - 1] = f[a]
    BY <2>3
  <2>5. Starts(f, u) /\ u \in 0..b
    BY <1>1, <1>2, <2>3, <2>4 DEF Starts
  <2>6. a >= u
    BY <1>2, <2>5
  <2>7. QED
    BY <1>1, <1>2, <2>3, <2>6
<1>4. QED
  BY <1>2, <1>3

\* Every slot is in one run.
LEMMA InRun ==
    ASSUME Last \in Nat, NEW f, NEW s \in 0..Last
    PROVE  \E a, b : Run(f, a, b) /\ s \in a..b
<1>1. PICK b \in s..Last : Same(f, s, b) /\ Ends(f, b)
  BY RunEnds
<1>2. PICK a \in 0..s : Same(f, a, s) /\ Starts(f, a)
  BY RunStarts
<1>3. Same(f, a, b)
  <2>1. f[s] = f[a]
    BY <1>2 DEF Same
  <2>2. \A u \in a..b : u \in a..s \/ u \in s..b
    BY <1>1, <1>2
  <2>3. QED
    BY <1>1, <1>2, <2>1, <2>2 DEF Same
<1>4. Run(f, a, b) /\ s \in a..b
  BY <1>1, <1>2, <1>3 DEF Run
<1>5. QED
  BY <1>4

LEMMA RunsApart ==
    ASSUME Last \in Nat, NEW f, NEW a, NEW b, Run(f, a, b), NEW c, NEW d, Run(f, c, d),
           a <= d, c <= b
    PROVE  a = c /\ b = d
<1>1. /\ a \in Nat /\ b \in Nat /\ c \in Nat /\ d \in Nat /\ a <= b /\ c <= d
      /\ b <= Last /\ d <= Last
  BY DEF Run
<1>2. ASSUME a < c PROVE FALSE
  <2>1. c - 1 \in a..b /\ c \in a..b /\ c # 0
    BY <1>1, <1>2
  <2>2. f[c - 1] = f[c]
    BY <2>1 DEF Run, Same
  <2>3. QED
    BY <2>1, <2>2 DEF Run, Starts
<1>3. ASSUME c < a PROVE FALSE
  <2>1. a - 1 \in c..d /\ a \in c..d /\ a # 0
    BY <1>1, <1>3
  <2>2. f[a - 1] = f[a]
    BY <2>1 DEF Run, Same
  <2>3. QED
    BY <2>1, <2>2 DEF Run, Starts
<1>4. ASSUME b < d PROVE FALSE
  <2>1. b + 1 \in c..d /\ b \in c..d /\ b # Last
    BY <1>1, <1>4
  <2>2. f[b + 1] = f[b]
    BY <2>1 DEF Run, Same
  <2>3. QED
    BY <2>1, <2>2 DEF Run, Ends
<1>5. ASSUME d < b PROVE FALSE
  <2>1. d + 1 \in a..b /\ d \in a..b /\ d # Last
    BY <1>1, <1>5
  <2>2. f[d + 1] = f[d]
    BY <2>1 DEF Run, Same
  <2>3. QED
    BY <2>1, <2>2 DEF Run, Ends
<1>6. QED
  BY <1>1, <1>2, <1>3, <1>4, <1>5

\* The first and the last of an interval.
LEMMA MinMaxIs ==
    ASSUME NEW a \in Int, NEW b \in Int, a <= b
    PROVE  Table!Min(a..b) = a /\ Table!Max(a..b) = b
<1>1. \A x : (x \in a..b /\ \A y \in a..b : x <= y) <=> x = a
  OBVIOUS
<1>2. \A x : (x \in a..b /\ \A y \in a..b : x >= y) <=> x = b
  OBVIOUS
<1>3. QED
  BY <1>1, <1>2 DEF Table!Min, Table!Max

\* How slots that look alike are numbered.
Number(f, s) == Cardinality({t \in 0..Last : t <= s /\ f[t] = f[s]})
IslandOf(f, s) == {t \in 0..Last : f[t] = f[s] /\ t - Number(f, t) = s - Number(f, s)}

\* As many slots look alike as there are between two of them if and only if all do.
LEMMA NumberedAlike ==
    ASSUME Last \in Nat, NEW f, NEW t \in 0..Last, NEW s \in 0..Last, t <= s, f[t] = f[s]
    PROVE  t - Number(f, t) = s - Number(f, s) <=> Same(f, t, s)
<1> DEFINE A == {u \in 0..Last : u <= t /\ f[u] = f[t]}
           B == {u \in (t + 1)..s : f[u] = f[s]}
           C == {u \in 0..Last : u <= s /\ f[u] = f[s]}
<1>1. C = A \cup B /\ A \cap B = {} /\ A \subseteq 0..Last /\ B \subseteq (t + 1)..s
  OBVIOUS
<1>2. /\ IsFiniteSet(0..Last) /\ IsFiniteSet((t + 1)..s)
      /\ Cardinality((t + 1)..s) = s - t
  <2>1. t + 1 \in Int /\ s \in Int /\ 0 \in Int /\ Last \in Int
    OBVIOUS
  <2>2. Cardinality((t + 1)..s) = IF t + 1 > s THEN 0 ELSE s - (t + 1) + 1
    BY <2>1, FS_Interval
  <2>3. (IF t + 1 > s THEN 0 ELSE s - (t + 1) + 1) = s - t
    OBVIOUS
  <2>4. IsFiniteSet(0..Last) /\ IsFiniteSet((t + 1)..s)
    BY <2>1, FS_Interval
  <2>5. QED
    BY <2>2, <2>3, <2>4
<1>3. IsFiniteSet(A) /\ IsFiniteSet(B) /\ (Cardinality(B) = s - t => B = (t + 1)..s)
  BY <1>1, <1>2, FS_Subset
<1>4. Cardinality(C) = Cardinality(A) + Cardinality(B)
  <2> HIDE DEF A, B, C
  <2>1. /\ Cardinality(A \cup B) = Cardinality(A) + Cardinality(B) - Cardinality(A \cap B)
        /\ Cardinality(A) \in Nat /\ Cardinality(B) \in Nat
    BY <1>3, FS_Union, FS_CardinalityType
  <2>2. Cardinality(A \cap B) = 0
    BY <1>1, FS_EmptySet
  <2>3. QED
    BY <1>1, <2>1, <2>2
<1>5. Cardinality(A) \in Nat /\ Cardinality(B) \in Nat
  BY <1>3, FS_CardinalityType
<1>6. Number(f, t) = Cardinality(A) /\ Number(f, s) = Cardinality(C)
  BY DEF Number
<1>7. B = (t + 1)..s <=> Same(f, t, s)
  <2>1. \A u \in t..s : u = t \/ u \in (t + 1)..s
    OBVIOUS
  <2>2. \A u \in (t + 1)..s : u \in t..s
    OBVIOUS
  <2>3. QED
    BY <2>1, <2>2 DEF Same
<1> HIDE DEF A, B, C
<1>8. t - Number(f, t) = s - Number(f, s) <=> Cardinality(B) = s - t
  BY <1>4, <1>5, <1>6
<1>9. QED
  BY <1>2, <1>3, <1>7, <1>8

LEMMA IslandIsRun ==
    ASSUME Last \in Nat, NEW f, NEW a, NEW b, Run(f, a, b), NEW s \in a..b
    PROVE  IslandOf(f, s) = a..b
<1>1. /\ a \in Nat /\ b \in Nat /\ a <= b /\ b <= Last /\ s \in 0..Last /\ Same(f, a, b)
      /\ Starts(f, a) /\ Ends(f, b)
  BY DEF Run
<1>2. ASSUME NEW t \in a..b PROVE t \in IslandOf(f, s)
  <2>1. t \in 0..Last /\ f[t] = f[s] /\ Same(f, s, t) /\ Same(f, t, s)
    BY <1>1, <1>2 DEF Same
  <2>2. t - Number(f, t) = s - Number(f, s)
    <3>1. CASE t <= s
      BY <1>1, <2>1, <3>1, NumberedAlike
    <3>2. CASE s <= t
      BY <1>1, <2>1, <3>2, NumberedAlike
    <3>3. QED
      BY <1>1, <3>1, <3>2
  <2>3. QED
    BY <2>1, <2>2 DEF IslandOf
<1>3. ASSUME NEW t \in IslandOf(f, s) PROVE t \in a..b
  <2>1. t \in 0..Last /\ f[t] = f[s] /\ t - Number(f, t) = s - Number(f, s)
    BY DEF IslandOf
  <2>2. ASSUME t < a PROVE FALSE
    <3>1. Same(f, t, s)
      BY <1>1, <2>1, <2>2, NumberedAlike
    <3>2. a # 0 /\ a - 1 \in t..s /\ a \in t..s
      BY <1>1, <2>1, <2>2
    <3>3. QED
      BY <1>1, <3>1, <3>2 DEF Same, Starts
  <2>3. ASSUME b < t PROVE FALSE
    <3>1. Same(f, s, t)
      BY <1>1, <2>1, <2>3, NumberedAlike
    <3>2. b # Last /\ b + 1 \in s..t /\ b \in s..t
      BY <1>1, <2>1, <2>3
    <3>3. QED
      BY <1>1, <3>1, <3>2 DEF Same, Ends
  <2>4. QED
    BY <1>1, <2>1, <2>2, <2>3
<1>4. QED
  BY <1>2, <1>3

\* An instance of FiniteSets has a Cardinality of its own.
LEMMA TableCounts == \A S : Table!Cardinality(S) = Cardinality(S)
  BY DEF Table!Cardinality, Cardinality

\* The segments of the query are the runs of the rows.
LEMMA SegmentsAreRuns ==
    ASSUME Last \in Nat, NEW g
    PROVE  g \in Table!OwnershipSegments
              <=> \E a, b : Run(rows, a, b) /\ g = [start |-> a, end |-> b, row |-> rows[a]]
<1>1. Table!Slots = 0..Last
  BY DEF Table!Slots, Last
<1>2. \A s \in 0..Last : Table!RowNumber(s) = Number(rows, s)
  BY <1>1, TableCounts DEF Table!RowNumber, Number
<1>3. \A s \in 0..Last : Table!Island(s) = IslandOf(rows, s)
  BY <1>1, <1>2 DEF Table!Island, IslandOf
<1>4. ASSUME NEW a, NEW b, Run(rows, a, b), NEW s \in a..b
      PROVE  /\ Table!Island(s) = a..b
             /\ Table!Min(a..b) = a /\ Table!Max(a..b) = b
             /\ s \in 0..Last
  <2>1. s \in 0..Last /\ a \in Int /\ b \in Int /\ a <= b
    BY <1>4 DEF Run
  <2>2. QED
    BY <1>3, <1>4, <2>1, IslandIsRun, MinMaxIs
<1>5. ASSUME g \in Table!OwnershipSegments
      PROVE  \E a, b : Run(rows, a, b) /\ g = [start |-> a, end |-> b, row |-> rows[a]]
  <2>1. PICK s \in 0..Last :
           g = [start |-> Table!Min(Table!Island(s)), end |-> Table!Max(Table!Island(s)),
                row |-> rows[Table!Min(Table!Island(s))]]
    BY <1>1, <1>5 DEF Table!OwnershipSegments
  <2>2. PICK a, b : Run(rows, a, b) /\ s \in a..b
    BY InRun
  <2>3. QED
    BY <1>4, <2>1, <2>2
<1>6. ASSUME NEW a, NEW b, Run(rows, a, b), g = [start |-> a, end |-> b, row |-> rows[a]]
      PROVE  g \in Table!OwnershipSegments
  <2>1. a \in a..b
    BY <1>6 DEF Run
  <2>2. Table!Island(a) = a..b /\ Table!Min(a..b) = a /\ Table!Max(a..b) = b /\ a \in 0..Last
    BY <1>4, <1>6, <2>1
  <2>3. QED
    BY <1>1, <1>6, <2>2 DEF Table!OwnershipSegments
<1>7. QED
  BY <1>5, <1>6

LEMMA MinIs ==
    ASSUME NEW L, L \subseteq Int, NEW e \in L, \A y \in L : e <= y
    PROVE  Table!Min(L) = e
<1>1. ASSUME NEW x, x \in L, \A y \in L : x <= y PROVE x = e
  <2>1. x \in Int /\ e \in Int /\ x <= e /\ e <= x
    BY <1>1
  <2>2. QED
    BY <2>1
<1>2. \A x : (x \in L /\ \A y \in L : x <= y) <=> x = e
  BY <1>1
<1>3. QED
  BY <1>2 DEF Table!Min

\* What a payload says of a run of owners and epochs.
Entry(d, a, b) ==
    [start |-> a, end |-> b, node |-> Table!NodeAt(d[a][1]), instance |-> d[a][1],
     epoch |-> d[a][2]]
Neighbours(p, q) == p.end + 1 = q.start /\ Table!SameOwner(p, q)
First(parts) == {q \in parts : \A p \in parts : ~Neighbours(p, q)}
Final(parts) == {p \in parts : \A q \in parts : ~Neighbours(p, q)}
EndsFrom(parts, a) == {l.end : l \in {l \in Final(parts) : l.start >= a}}

\* d says less than f.
Coarser(f, d) ==
    /\ \A u \in 0..Last : d[u] = <<d[u][1], d[u][2]>>
    /\ \A u, v \in 0..Last : f[u] = f[v] => d[u] = d[v]

LEMMA RunNumbers ==
    ASSUME Last \in Nat, NEW f, NEW a, NEW b, Run(f, a, b)
    PROVE  /\ a \in Nat /\ b \in Nat /\ a <= b /\ b <= Last
           /\ a \in 0..Last /\ b \in 0..Last /\ a \in a..b /\ b \in a..b
           /\ \A u \in a..b : u \in 0..Last /\ f[u] = f[a]
  BY DEF Run, Same

LEMMA OwnersJoin ==
    ASSUME Last \in Nat, NEW f, NEW d, Coarser(f, d),
           NEW a \in 0..Last, NEW b, NEW x \in 0..Last, NEW y
    PROVE  Neighbours(Entry(d, a, b), Entry(d, x, y)) <=> b + 1 = x /\ d[a] = d[x]
<1>1. d[a] = <<d[a][1], d[a][2]>> /\ d[x] = <<d[x][1], d[x][2]>>
  BY DEF Coarser
<1>2. d[a] = d[x] <=> d[a][1] = d[x][1] /\ d[a][2] = d[x][2]
  BY <1>1
<1>3. QED
  BY <1>2 DEF Neighbours, Entry, Table!SameOwner

\* The parts that begin and end a run of owners.
LEMMA FirstOfOwner ==
    ASSUME Last \in Nat, NEW f, NEW d, Coarser(f, d), NEW parts,
           \A p : p \in parts <=> \E a, b : Run(f, a, b) /\ p = Entry(d, a, b),
           NEW a, NEW b, Run(f, a, b)
    PROVE  Entry(d, a, b) \in First(parts) <=> Starts(d, a)
<1>1. /\ a \in Nat /\ b \in Nat /\ a <= b /\ b <= Last /\ a \in 0..Last
      /\ Entry(d, a, b) \in parts
  BY RunNumbers
<1>2. ASSUME Starts(d, a), NEW p \in parts PROVE ~Neighbours(p, Entry(d, a, b))
  <2>1. PICK x, y : Run(f, x, y) /\ p = Entry(d, x, y)
    OBVIOUS
  <2>2. x \in 0..Last /\ y \in 0..Last /\ y \in Nat /\ f[y] = f[x]
    BY <2>1, RunNumbers
  <2>3. d[y] = d[x]
    BY <2>2 DEF Coarser
  <2>4. ~(y + 1 = a /\ d[x] = d[a])
    BY <1>1, <1>2, <2>2, <2>3 DEF Starts
  <2>5. QED
    BY <1>1, <2>1, <2>2, <2>4, OwnersJoin
<1>3. ASSUME ~Starts(d, a) PROVE \E p \in parts : Neighbours(p, Entry(d, a, b))
  <2>1. a # 0 /\ d[a - 1] = d[a] /\ a - 1 \in 0..Last
    BY <1>1, <1>3 DEF Starts
  <2>2. PICK x, y : Run(f, x, y) /\ a - 1 \in x..y
    BY <2>1, InRun
  <2>3. x \in Nat /\ y \in Nat /\ x <= y /\ x \in 0..Last /\ f[a - 1] = f[x]
    BY <2>2, RunNumbers
  <2>4. y = a - 1
    <3>1. x <= b /\ (a <= y => x = a)
      BY <1>1, <2>2, <2>3, RunsApart
    <3>2. QED
      BY <1>1, <2>2, <2>3, <3>1
  <2>5. d[x] = d[a]
    BY <2>1, <2>3 DEF Coarser
  <2>6. y + 1 = a
    BY <1>1, <2>4
  <2>7. Neighbours(Entry(d, x, y), Entry(d, a, b))
    BY <1>1, <2>3, <2>5, <2>6, OwnersJoin
  <2>8. Entry(d, x, y) \in parts
    BY <2>2
  <2>9. QED
    BY <2>7, <2>8
<1>4. QED
  BY <1>1, <1>2, <1>3 DEF First

LEMMA FinalOfOwner ==
    ASSUME Last \in Nat, NEW f, NEW d, Coarser(f, d), NEW parts,
           \A p : p \in parts <=> \E a, b : Run(f, a, b) /\ p = Entry(d, a, b),
           NEW a, NEW b, Run(f, a, b)
    PROVE  Entry(d, a, b) \in Final(parts) <=> Ends(d, b)
<1>1. /\ a \in Nat /\ b \in Nat /\ a <= b /\ b <= Last /\ a \in 0..Last /\ b \in 0..Last
      /\ Entry(d, a, b) \in parts /\ f[b] = f[a]
  BY RunNumbers
<1>0. d[b] = d[a]
  BY <1>1 DEF Coarser
<1>2. ASSUME Ends(d, b), NEW q \in parts PROVE ~Neighbours(Entry(d, a, b), q)
  <2>1. PICK x, y : Run(f, x, y) /\ q = Entry(d, x, y)
    OBVIOUS
  <2>2. x \in 0..Last /\ x <= Last
    BY <2>1, RunNumbers
  <2>4. ~(b + 1 = x /\ d[a] = d[x])
    BY <1>0, <1>1, <1>2, <2>2 DEF Ends
  <2>5. QED
    BY <1>1, <2>1, <2>2, <2>4, OwnersJoin
<1>3. ASSUME ~Ends(d, b) PROVE \E q \in parts : Neighbours(Entry(d, a, b), q)
  <2>1. b # Last /\ d[b + 1] = d[b] /\ b + 1 \in 0..Last
    BY <1>1, <1>3 DEF Ends
  <2>2. PICK x, y : Run(f, x, y) /\ b + 1 \in x..y
    BY <2>1, InRun
  <2>3. x \in Nat /\ y \in Nat /\ x <= y /\ x \in 0..Last /\ f[b + 1] = f[x]
    BY <2>2, RunNumbers
  <2>4. x = b + 1
    <3>1. a <= y /\ (x <= b => y = b)
      BY <1>1, <2>2, <2>3, RunsApart
    <3>2. QED
      BY <1>1, <2>2, <2>3, <3>1
  <2>5. d[x] = d[a]
    BY <1>0, <2>1, <2>4
  <2>6. Neighbours(Entry(d, a, b), Entry(d, x, y)) /\ Entry(d, x, y) \in parts
    BY <1>1, <2>2, <2>3, <2>4, <2>5, OwnersJoin
  <2>7. QED
    BY <2>6
<1>4. QED
  BY <1>1, <1>2, <1>3 DEF Final

\* From the first part of a run of owners, the nearest end is that of the run.
LEMMA NearestEnd ==
    ASSUME Last \in Nat, NEW f, NEW d, Coarser(f, d), NEW parts,
           \A p : p \in parts <=> \E a, b : Run(f, a, b) /\ p = Entry(d, a, b),
           NEW a, NEW e, Run(d, a, e)
    PROVE  Table!Min(EndsFrom(parts, a)) = e
<1>1. /\ a \in Nat /\ e \in Nat /\ a <= e /\ e <= Last /\ e \in 0..Last
      /\ Starts(d, a) /\ Ends(d, e) /\ Same(d, a, e)
  BY RunNumbers DEF Run
<1>2. e \in EndsFrom(parts, a)
  <2>1. PICK x, y : Run(f, x, y) /\ e \in x..y
    BY <1>1, InRun
  <2>2. /\ x \in Nat /\ y \in Nat /\ x <= y /\ y <= Last
        /\ \A u \in x..y : u \in 0..Last /\ f[u] = f[x]
    BY <2>1, RunNumbers
  <2>3. ASSUME e < y PROVE FALSE
    <3>1. e + 1 \in x..y /\ e \in x..y /\ e # Last
      BY <1>1, <2>1, <2>2, <2>3
    <3>2. d[e + 1] = d[e]
      BY <2>2, <3>1 DEF Coarser
    <3>3. QED
      BY <1>1, <3>1, <3>2 DEF Ends
  <2>4. ASSUME x < a PROVE FALSE
    <3>1. a - 1 \in x..y /\ a \in x..y /\ a # 0
      BY <1>1, <2>1, <2>2, <2>4
    <3>2. d[a - 1] = d[a]
      BY <2>2, <3>1 DEF Coarser
    <3>3. QED
      BY <1>1, <3>1, <3>2 DEF Starts
  <2>5. y = e /\ x >= a
    BY <1>1, <2>1, <2>2, <2>3, <2>4
  <2>6. Entry(d, x, e) \in Final(parts)
    BY <1>1, <2>1, <2>5, FinalOfOwner
  <2>7. Entry(d, x, e).start = x /\ Entry(d, x, e).end = e
    BY DEF Entry
  <2>8. QED
    BY <2>5, <2>6, <2>7 DEF EndsFrom
<1>3. ASSUME NEW c \in EndsFrom(parts, a) PROVE c \in Int /\ e <= c
  <2>1. PICK l \in Final(parts) : l.start >= a /\ l.end = c
    BY <1>3 DEF EndsFrom
  <2>2. PICK x, y : Run(f, x, y) /\ l = Entry(d, x, y)
    BY <2>1 DEF Final
  <2>3. x >= a /\ c = y /\ Ends(d, y)
    BY <2>1, <2>2, FinalOfOwner DEF Entry
  <2>4. x \in Nat /\ y \in Nat /\ x <= y /\ y <= Last
    BY <2>2, RunNumbers
  <2>5. ASSUME y < e PROVE FALSE
    <3>1. y + 1 \in a..e /\ y \in a..e /\ y # Last
      BY <1>1, <2>3, <2>4, <2>5
    <3>2. d[y + 1] = d[y]
      BY <1>1, <3>1 DEF Same
    <3>3. QED
      BY <2>3, <3>1, <3>2 DEF Ends
  <2>6. QED
    BY <1>1, <2>3, <2>4, <2>5
<1>4. EndsFrom(parts, a) \subseteq Int
  BY <1>3
<1>5. QED
  BY <1>2, <1>3, <1>4, MinIs

\* What is encoded are the runs of owners and epochs.
LEMMA EncodedRuns ==
    ASSUME Last \in Nat, NEW f, NEW d, Coarser(f, d),
           \A u \in 0..Last : d[u] = <<f[u].instance, f[u].epoch>>,
           NEW segments,
           \A g : g \in segments
                     <=> \E a, b : Run(f, a, b) /\ g = [start |-> a, end |-> b, row |-> f[a]],
           NEW p
    PROVE  p \in Table!EncodeOwnershipSegments(segments)
              <=> \E a, b : Run(d, a, b) /\ p = Entry(d, a, b)
<1> DEFINE parts == {Table!RouteSegment(g) : g \in segments}
<1>1. ASSUME NEW a, NEW b, Run(f, a, b)
      PROVE  Table!RouteSegment([start |-> a, end |-> b, row |-> f[a]]) = Entry(d, a, b)
  <2>1. a \in 0..Last
    BY <1>1, RunNumbers
  <2>2. d[a][1] = f[a].instance /\ d[a][2] = f[a].epoch
    BY <2>1
  <2>3. QED
    BY <2>2 DEF Table!RouteSegment, Entry
<1>2. \A q : q \in parts <=> \E a, b : Run(f, a, b) /\ q = Entry(d, a, b)
  <2>1. ASSUME NEW q \in parts PROVE \E a, b : Run(f, a, b) /\ q = Entry(d, a, b)
    <3>1. PICK g \in segments : q = Table!RouteSegment(g)
      BY <2>1
    <3>2. PICK a, b : Run(f, a, b) /\ g = [start |-> a, end |-> b, row |-> f[a]]
      OBVIOUS
    <3>3. QED
      BY <1>1, <3>1, <3>2
  <2>2. ASSUME NEW a, NEW b, Run(f, a, b) PROVE Entry(d, a, b) \in parts
    <3>1. [start |-> a, end |-> b, row |-> f[a]] \in segments
      BY <2>2
    <3>2. QED
      BY <1>1, <2>2, <3>1
  <2>3. QED
    BY <2>1, <2>2
<1>3. Table!EncodeOwnershipSegments(segments)
        = {[q EXCEPT !.end = Table!Min(EndsFrom(parts, q.start))] : q \in First(parts)}
  BY DEF Table!EncodeOwnershipSegments, EndsFrom, First, Final, Neighbours
<1> HIDE DEF parts
<1>4. ASSUME NEW q \in First(parts)
      PROVE  \E a, e : /\ Run(d, a, e)
                       /\ [q EXCEPT !.end = Table!Min(EndsFrom(parts, q.start))] = Entry(d, a, e)
  <2>1. PICK a, b : Run(f, a, b) /\ q = Entry(d, a, b)
    BY <1>2 DEF First
  <2>2. Starts(d, a) /\ a \in 0..Last
    BY <1>2, <2>1, FirstOfOwner, RunNumbers
  <2>3. PICK e \in a..Last : Same(d, a, e) /\ Ends(d, e)
    BY <2>2, RunEnds
  <2>4. Run(d, a, e)
    BY <2>2, <2>3 DEF Run
  <2>5. q.start = a /\ Table!Min(EndsFrom(parts, a)) = e
    BY <1>2, <2>1, <2>4, NearestEnd DEF Entry
  <2>6. [q EXCEPT !.end = e] = Entry(d, a, e)
    BY <2>1 DEF Entry
  <2>7. QED
    BY <2>4, <2>5, <2>6
<1>5. ASSUME NEW a, NEW e, Run(d, a, e)
      PROVE  \E q \in First(parts) :
                [q EXCEPT !.end = Table!Min(EndsFrom(parts, q.start))] = Entry(d, a, e)
  <2>1. a \in 0..Last /\ Starts(d, a) /\ a \in Nat
    BY <1>5, RunNumbers DEF Run
  <2>2. PICK x, y : Run(f, x, y) /\ a \in x..y
    BY <2>1, InRun
  <2>3. /\ x \in Nat /\ y \in Nat /\ x <= y
        /\ \A u \in x..y : u \in 0..Last /\ f[u] = f[x]
    BY <2>2, RunNumbers
  <2>4. ASSUME x < a PROVE FALSE
    <3>1. a - 1 \in x..y /\ a \in x..y /\ a # 0
      BY <2>1, <2>2, <2>3, <2>4
    <3>2. d[a - 1] = d[a]
      BY <2>3, <3>1 DEF Coarser
    <3>3. QED
      BY <2>1, <3>1, <3>2 DEF Starts
  <2>5. x = a
    BY <2>1, <2>2, <2>3, <2>4
  <2>6. Entry(d, a, y) \in First(parts)
    BY <1>2, <2>1, <2>2, <2>5, FirstOfOwner
  <2>7. Entry(d, a, y).start = a /\ Table!Min(EndsFrom(parts, a)) = e
    BY <1>2, <1>5, NearestEnd DEF Entry
  <2>8. [Entry(d, a, y) EXCEPT !.end = e] = Entry(d, a, e)
    BY DEF Entry
  <2>9. QED
    BY <2>6, <2>7, <2>8
<1>6. QED
  BY <1>3, <1>4, <1>5

\* A row names an owner if and only if its slot is not free, and then its epoch has
\* begun.
Row == [instance : Instance \cup {None}, epoch : Nat,
        state : {"UNOWNED", "OWNED", "DRAINING"}, overdue : BOOLEAN, ready : BOOLEAN]

RowsOK ==
    /\ rows \in [0..Last -> Row]
    /\ \A s \in 0..Last : /\ rows[s].state = "UNOWNED" <=> rows[s].instance = None
                          /\ rows[s].state # "UNOWNED" => rows[s].epoch > 0

LEMMA LastIsSlot ==
    ASSUME Table!RouteTableAssumption
    PROVE  /\ Last \in Nat /\ Table!Slots = 0..Last /\ None \notin Instance
           /\ SlotCount - 1 = Last /\ DOMAIN NodeOf = Instance
           /\ \A i \in Instance : NodeOf[i] # None
  BY DEF Table!RouteTableAssumption, Table!Slots, Last

LEMMA UnownedRow ==
    ASSUME NEW e \in Nat
    PROVE  /\ Table!Unowned(e) \in Row
           /\ Table!Unowned(e).state = "UNOWNED" /\ Table!Unowned(e).instance = None
           /\ Table!Unowned(e).epoch = e
  BY DEF Table!Unowned, Row

\* One row is replaced by a good one.
LEMMA GoodRow ==
    ASSUME RowsOK, NEW s \in 0..Last, NEW r \in Row,
           r.state = "UNOWNED" <=> r.instance = None,
           r.state # "UNOWNED" => r.epoch > 0,
           rows' = [rows EXCEPT ![s] = r]
    PROVE  RowsOK'
<1>1. rows' \in [0..Last -> Row]
  BY DEF RowsOK
<1>2. ASSUME NEW t \in 0..Last
      PROVE  /\ rows'[t].state = "UNOWNED" <=> rows'[t].instance = None
             /\ rows'[t].state # "UNOWNED" => rows'[t].epoch > 0
  <2>1. CASE t = s
    BY <2>1 DEF RowsOK
  <2>2. CASE t # s
    <3>1. rows'[t] = rows[t]
      BY <2>2 DEF RowsOK
    <3>2. QED
      BY <3>1 DEF RowsOK
  <2>3. QED
    BY <2>1, <2>2
<1>3. QED
  BY <1>1, <1>2 DEF RowsOK

LEMMA RowsStep ==
    ASSUME Table!RouteTableAssumption, RowsOK, [Table!Next]_rows
    PROVE  RowsOK'
<1>1. CASE UNCHANGED rows
  BY <1>1 DEF RowsOK
<1>2. CASE Table!Next
  <2>1. PICK s \in 0..Last :
           \/ \E i \in Instance : Table!Claim(s, i)
           \/ Table!Drain(s) \/ Table!Overdue(s) \/ Table!Ready(s) \/ Table!Release(s)
    BY <1>2, LastIsSlot DEF Table!Next
  <2>2. /\ rows[s] \in Row /\ rows[s].epoch \in Nat
        /\ rows[s].state = "UNOWNED" <=> rows[s].instance = None
        /\ rows[s].state # "UNOWNED" => rows[s].epoch > 0
    <3>1. rows[s] \in Row
      BY <2>1 DEF RowsOK
    <3>2. rows[s].epoch \in Nat
      BY <3>1 DEF Row
    <3>3. QED
      BY <3>1, <3>2 DEF RowsOK
  <2>3. ASSUME NEW i \in Instance, Table!Claim(s, i) PROVE RowsOK'
    <3> DEFINE r == [Table!Unowned(rows[s].epoch + 1) EXCEPT !.instance = i, !.state = "OWNED"]
    <3>1. rows' = [rows EXCEPT ![s] = r]
      BY <2>3 DEF Table!Claim
    <3>2. rows[s].epoch + 1 \in Nat /\ rows[s].epoch + 1 > 0 /\ i # None
      BY <2>2, LastIsSlot
    <3>3. /\ r \in Row /\ r.state = "OWNED" /\ r.instance = i
          /\ r.epoch = rows[s].epoch + 1
      BY <3>2 DEF Table!Unowned, Row
    <3> HIDE DEF r
    <3>4. QED
      BY <3>1, <3>2, <3>3, GoodRow
  <2>4. CASE Table!Drain(s)
    <3> DEFINE r == [rows[s] EXCEPT !.state = "DRAINING"]
    <3>1. rows' = [rows EXCEPT ![s] = r] /\ rows[s].state = "OWNED"
      BY <2>4 DEF Table!Drain
    <3>2. r \in Row /\ r.state = "DRAINING" /\ r.instance # None /\ r.epoch > 0
      BY <2>2, <3>1 DEF Row
    <3> HIDE DEF r
    <3>3. QED
      BY <3>1, <3>2, GoodRow
  <2>5. CASE Table!Overdue(s)
    <3> DEFINE r == [rows[s] EXCEPT !.overdue = TRUE]
    <3>1. rows' = [rows EXCEPT ![s] = r]
      BY <2>5 DEF Table!Overdue
    <3>2. /\ r \in Row /\ r.state = rows[s].state /\ r.instance = rows[s].instance
          /\ r.epoch = rows[s].epoch
      BY <2>2 DEF Row
    <3> HIDE DEF r
    <3>3. QED
      BY <2>2, <3>1, <3>2, GoodRow
  <2>6. CASE Table!Ready(s)
    <3> DEFINE r == [rows[s] EXCEPT !.ready = TRUE]
    <3>1. rows' = [rows EXCEPT ![s] = r]
      BY <2>6 DEF Table!Ready
    <3>2. /\ r \in Row /\ r.state = rows[s].state /\ r.instance = rows[s].instance
          /\ r.epoch = rows[s].epoch
      BY <2>2 DEF Row
    <3> HIDE DEF r
    <3>3. QED
      BY <2>2, <3>1, <3>2, GoodRow
  <2>7. CASE Table!Release(s)
    <3> DEFINE r == Table!Unowned(rows[s].epoch)
    <3>1. rows' = [rows EXCEPT ![s] = r]
      BY <2>7 DEF Table!Release
    <3>2. r \in Row /\ r.state = "UNOWNED" /\ r.instance = None
      BY <2>2, UnownedRow
    <3> HIDE DEF r
    <3>3. QED
      BY <3>1, <3>2, GoodRow
  <2>8. QED
    BY <2>1, <2>3, <2>4, <2>5, <2>6, <2>7
<1>3. QED
  BY <1>1, <1>2

\* Every row of a reachable table is one the checks on the way let pass.
LEMMA RowsAreOK ==
    ASSUME Table!RouteTableAssumption
    PROVE  Table!Spec => []RowsOK
<1>1. Table!Init => RowsOK
  <2> SUFFICES ASSUME Table!Init PROVE RowsOK
    OBVIOUS
  <2>1. rows = [s \in 0..Last |-> Table!Unowned(0)]
    BY LastIsSlot DEF Table!Init
  <2>2. QED
    BY <2>1, UnownedRow DEF RowsOK
<1>2. RowsOK /\ [Table!Next]_rows => RowsOK'
  BY RowsStep
<1>3. QED
  BY <1>1, <1>2, PTL DEF Table!Spec

\* The segments are the runs of f, each once.
AreRuns(f, segments) ==
    /\ \A g \in segments : Run(f, g.start, g.end)
    /\ \A a, b : Run(f, a, b) => \E g \in segments : g.start = a /\ g.end = b
    /\ \A g, h \in segments : g.start = h.start /\ g.end = h.end => g = h

\* Runs leave no gap and do not overlap.
LEMMA RunsCover ==
    ASSUME Last \in Nat, Last = SlotCount - 1, NEW f, NEW segments, AreRuns(f, segments)
    PROVE  Table!Covers(segments)
<1>1. ASSUME NEW g \in segments
      PROVE  /\ g.start <= g.end
             /\ g.start = 0 \/ \E h \in segments : h.end + 1 = g.start
             /\ g.end = Last \/ \E h \in segments : g.end + 1 = h.start
  <2> DEFINE a == g.start
             b == g.end
  <2>1. Run(f, a, b)
    BY DEF AreRuns
  <2> HIDE DEF a, b
  <2>2. a \in Nat /\ b \in Nat /\ a <= b /\ b <= Last
    BY <2>1, RunNumbers
  <2>3. ASSUME a # 0 PROVE \E h \in segments : h.end + 1 = a
    <3>1. a - 1 \in 0..Last
      BY <2>2, <2>3
    <3>2. PICK x, y : Run(f, x, y) /\ a - 1 \in x..y
      BY <3>1, InRun
    <3>3. x \in Nat /\ y \in Nat /\ x <= y
      BY <3>2, RunNumbers
    <3>4. a <= y => x = a
      BY <2>1, <2>2, <3>2, <3>3, RunsApart
    <3>5. y + 1 = a
      BY <2>2, <3>2, <3>3, <3>4
    <3>6. PICK h \in segments : h.start = x /\ h.end = y
      BY <3>2 DEF AreRuns
    <3>7. QED
      BY <3>5, <3>6
  <2>4. ASSUME b # Last PROVE \E h \in segments : b + 1 = h.start
    <3>1. b + 1 \in 0..Last
      BY <2>2, <2>4
    <3>2. PICK x, y : Run(f, x, y) /\ b + 1 \in x..y
      BY <3>1, InRun
    <3>3. x \in Nat /\ y \in Nat /\ x <= y
      BY <3>2, RunNumbers
    <3>4. x <= b => y = b
      BY <2>1, <2>2, <3>2, <3>3, RunsApart
    <3>5. b + 1 = x
      BY <2>2, <3>2, <3>3, <3>4
    <3>6. PICK h \in segments : h.start = x /\ h.end = y
      BY <3>2 DEF AreRuns
    <3>7. QED
      BY <3>5, <3>6
  <2>5. QED
    BY <2>2, <2>3, <2>4 DEF a, b
<1>2. ASSUME NEW g \in segments, NEW h \in segments, h.start <= g.end, g.start <= h.end
      PROVE  h = g
  <2>1. Run(f, g.start, g.end) /\ Run(f, h.start, h.end)
    BY DEF AreRuns
  <2>2. g.start = h.start /\ g.end = h.end
    BY <1>2, <2>1, RunsApart
  <2>3. QED
    BY <2>2 DEF AreRuns
<1>3. segments # {}
  <2>1. 0 \in 0..Last
    OBVIOUS
  <2>2. PICK a, b : Run(f, a, b)
    BY <2>1, InRun
  <2>3. QED
    BY <2>2 DEF AreRuns
<1>4. QED
  BY <1>1, <1>2, <1>3 DEF Table!Covers

\* The segments of the query pass ValidateOwnershipSegments.
LEMMA SegmentsAreValid ==
    ASSUME Table!RouteTableAssumption, RowsOK
    PROVE  Table!ValidateOwnershipSegments(Table!OwnershipSegments)
<1>1. Last \in Nat /\ Last = SlotCount - 1
  BY LastIsSlot
<1>2. \A g : g \in Table!OwnershipSegments
               <=> \E a, b : Run(rows, a, b) /\ g = [start |-> a, end |-> b, row |-> rows[a]]
  BY <1>1, SegmentsAreRuns
<1>3. AreRuns(rows, Table!OwnershipSegments)
  <2>1. ASSUME NEW g \in Table!OwnershipSegments
        PROVE  /\ Run(rows, g.start, g.end)
               /\ g = [start |-> g.start, end |-> g.end, row |-> rows[g.start]]
    <3>1. PICK a, b : Run(rows, a, b) /\ g = [start |-> a, end |-> b, row |-> rows[a]]
      BY <1>2
    <3>2. g.start = a /\ g.end = b
      BY <3>1
    <3>3. QED
      BY <3>1, <3>2
  <2>2. ASSUME NEW a, NEW b, Run(rows, a, b)
        PROVE  \E g \in Table!OwnershipSegments : g.start = a /\ g.end = b
    <3>1. [start |-> a, end |-> b, row |-> rows[a]] \in Table!OwnershipSegments
      BY <1>2, <2>2
    <3>2. QED
      BY <3>1
  <2>3. ASSUME NEW g \in Table!OwnershipSegments, NEW h \in Table!OwnershipSegments,
               g.start = h.start, g.end = h.end
        PROVE  g = h
    <3>1. /\ g = [start |-> g.start, end |-> g.end, row |-> rows[g.start]]
          /\ h = [start |-> h.start, end |-> h.end, row |-> rows[h.start]]
      BY <2>1
    <3>2. QED
      BY <2>3, <3>1
  <2>4. QED
    BY <2>1, <2>2, <2>3 DEF AreRuns
<1>4. ASSUME NEW g \in Table!OwnershipSegments
      PROVE  \/ g.row.state = "UNOWNED" /\ g.row.instance = None
             \/ /\ g.row.state \in {"OWNED", "DRAINING"}
                /\ g.row.instance # None /\ g.row.epoch > 0
  <2>1. PICK a, b : Run(rows, a, b) /\ g = [start |-> a, end |-> b, row |-> rows[a]]
    BY <1>2
  <2>2. a \in 0..Last /\ g.row = rows[a]
    BY <1>1, <2>1, RunNumbers
  <2>3. /\ rows[a].state \in {"UNOWNED", "OWNED", "DRAINING"}
        /\ rows[a].state = "UNOWNED" <=> rows[a].instance = None
        /\ rows[a].state # "UNOWNED" => rows[a].epoch > 0
    BY <2>2 DEF RowsOK, Row
  <2>4. QED
    BY <2>2, <2>3
<1>5. QED
  BY <1>1, <1>3, <1>4, RunsCover DEF Table!ValidateOwnershipSegments

\* The payload is made of the runs of owners and epochs.
LEMMA PayloadIsRuns ==
    ASSUME Table!RouteTableAssumption, NEW p
    PROVE  p \in Table!Payload
              <=> \E a, b : Run(Table!Directory, a, b) /\ p = Entry(Table!Directory, a, b)
<1>1. Last \in Nat /\ Table!Slots = 0..Last
  BY LastIsSlot
<1>2. \A u \in 0..Last : Table!Directory[u] = <<rows[u].instance, rows[u].epoch>>
  BY <1>1 DEF Table!Directory
<1>3. Coarser(rows, Table!Directory)
  BY <1>2 DEF Coarser
<1>4. \A g : g \in Table!OwnershipSegments
               <=> \E a, b : Run(rows, a, b) /\ g = [start |-> a, end |-> b, row |-> rows[a]]
  BY <1>1, SegmentsAreRuns
<1>5. QED
  BY <1>1, <1>2, <1>3, <1>4, EncodedRuns DEF Table!Payload

LEMMA DirectoryIs ==
    ASSUME Table!RouteTableAssumption, NEW s \in 0..Last
    PROVE  /\ Table!Directory[s] = <<rows[s].instance, rows[s].epoch>>
           /\ Table!Directory[s][1] = rows[s].instance
           /\ Table!Directory[s][2] = rows[s].epoch
  BY LastIsSlot DEF Table!Directory

\* An entry of the payload is determined by the run it stands for.
LEMMA PayloadRuns ==
    ASSUME Table!RouteTableAssumption
    PROVE  AreRuns(Table!Directory, Table!Payload)
<1> DEFINE d == Table!Directory
<1>1. ASSUME NEW g \in Table!Payload
      PROVE  Run(d, g.start, g.end) /\ g = Entry(d, g.start, g.end)
  <2>1. PICK a, b : Run(d, a, b) /\ g = Entry(d, a, b)
    BY PayloadIsRuns
  <2>2. g.start = a /\ g.end = b
    BY <2>1 DEF Entry
  <2>3. QED
    BY <2>1, <2>2
<1>2. ASSUME NEW a, NEW b, Run(d, a, b)
      PROVE  \E g \in Table!Payload : g.start = a /\ g.end = b
  <2>1. Entry(d, a, b) \in Table!Payload
    BY <1>2, PayloadIsRuns
  <2>2. Entry(d, a, b).start = a /\ Entry(d, a, b).end = b
    BY DEF Entry
  <2>3. QED
    BY <2>1, <2>2
<1>3. ASSUME NEW g \in Table!Payload, NEW h \in Table!Payload,
             g.start = h.start, g.end = h.end
      PROVE  g = h
  <2>1. g = Entry(d, g.start, g.end) /\ h = Entry(d, h.start, h.end)
    BY <1>1
  <2>2. QED
    BY <1>3, <2>1
<1>4. QED
  BY <1>1, <1>2, <1>3 DEF AreRuns

\* DecodeRoute and compileRoute refuse no payload of the rows.
LEMMA PayloadIsComplete ==
    ASSUME Table!RouteTableAssumption, RowsOK
    PROVE  Table!Complete(Table!Payload)
<1>1. Last \in Nat /\ Last = SlotCount - 1
  BY LastIsSlot
<1>2. ASSUME NEW g \in Table!Payload
      PROVE  ((g.node = None) <=> (g.instance = None)) /\ (g.node # None => g.epoch > 0)
  <2>1. PICK a, b : Run(Table!Directory, a, b) /\ g = Entry(Table!Directory, a, b)
    BY PayloadIsRuns
  <2>2. a \in 0..Last
    BY <1>1, <2>1, RunNumbers
  <2>3. /\ g.instance = rows[a].instance /\ g.epoch = rows[a].epoch
        /\ g.node = Table!NodeAt(rows[a].instance)
    BY <2>1, <2>2, DirectoryIs DEF Entry
  <2>4. /\ rows[a].instance \in Instance \cup {None}
        /\ rows[a].instance # None => rows[a].epoch > 0
    BY <2>2 DEF RowsOK, Row
  <2>5. Table!NodeAt(rows[a].instance) = None <=> rows[a].instance = None
    <3>1. CASE rows[a].instance = None
      BY <3>1 DEF Table!NodeAt
    <3>2. CASE rows[a].instance \in Instance
      BY <3>2, LastIsSlot DEF Table!NodeAt
    <3>3. QED
      BY <2>4, <3>1, <3>2
  <2>6. QED
    BY <2>3, <2>4, <2>5
<1>3. QED
  BY <1>1, <1>2, PayloadRuns, RunsCover DEF Table!Complete

\* The entry of the run that a slot is in.
LEMMA EntryOfSlot ==
    ASSUME Table!RouteTableAssumption, NEW s \in 0..Last
    PROVE  \E g \in Table!Payload :
             /\ g.start <= s /\ s <= g.end
             /\ g.instance = rows[s].instance /\ g.epoch = rows[s].epoch
             /\ g.node = Table!NodeAt(rows[s].instance)
<1>1. Last \in Nat
  BY LastIsSlot
<1>2. PICK a, b : Run(Table!Directory, a, b) /\ s \in a..b
  BY <1>1, InRun
<1>3. /\ a \in Nat /\ b \in Nat /\ a \in 0..Last
      /\ Table!Directory[s] = Table!Directory[a]
  BY <1>1, <1>2, RunNumbers
<1> DEFINE g == Entry(Table!Directory, a, b)
<1>4. g \in Table!Payload
  BY <1>2, PayloadIsRuns
<1>5. g.start = a /\ g.end = b
  BY DEF Entry
<1>6. /\ g.instance = rows[s].instance /\ g.epoch = rows[s].epoch
      /\ g.node = Table!NodeAt(rows[s].instance)
  BY <1>3, DirectoryIs DEF Entry
<1> HIDE DEF g
<1>7. a <= s /\ s <= b
  BY <1>2, <1>3
<1>8. QED
  BY <1>4, <1>5, <1>6, <1>7

LEMMA EndsOfEntries ==
    ASSUME Table!RouteTableAssumption, NEW g \in Table!Payload
    PROVE  g.start \in Nat /\ g.end \in Nat /\ g.start <= g.end
<1>1. Run(Table!Directory, g.start, g.end)
  BY PayloadRuns DEF AreRuns
<1>2. QED
  BY <1>1, LastIsSlot, RunNumbers

\* Entries that meet are one.
LEMMA EntriesApart ==
    ASSUME Table!RouteTableAssumption, NEW g \in Table!Payload, NEW h \in Table!Payload,
           g.start <= h.end, h.start <= g.end
    PROVE  g = h
<1>1. Run(Table!Directory, g.start, g.end) /\ Run(Table!Directory, h.start, h.end)
  BY PayloadRuns DEF AreRuns
<1>2. g.start = h.start /\ g.end = h.end
  BY <1>1, LastIsSlot, RunsApart
<1>3. QED
  BY <1>2, PayloadRuns DEF AreRuns

\* A binary search for the first segment that ends at the slot or after it, and the
\* table of a client, both find the entry of the slot's run.
LEMMA FoundEntry ==
    ASSUME Table!RouteTableAssumption, NEW s \in 0..Last,
           NEW g \in Table!Payload, g.start <= s, s <= g.end
    PROVE  /\ Table!SegmentFor(Table!Payload, s) = g
           /\ (CHOOSE h \in Table!Payload : h.start <= s /\ s <= h.end) = g
<1>1. g.start \in Nat /\ g.end \in Nat /\ s \in Nat
  BY EndsOfEntries, LastIsSlot
<1>2. ASSUME NEW h \in Table!Payload, h.end >= s PROVE g.end <= h.end
  <2>1. h.start \in Nat /\ h.end \in Nat /\ h.start <= h.end
    BY EndsOfEntries
  <2>2. ASSUME h.end < g.end PROVE FALSE
    <3>1. g.start <= h.end /\ h.start <= g.end
      BY <1>1, <1>2, <2>1, <2>2
    <3>2. g = h
      BY <3>1, EntriesApart
    <3>3. QED
      BY <1>1, <2>2, <3>2
  <2>3. QED
    BY <1>1, <2>1, <2>2
<1>3. ASSUME NEW h \in Table!Payload, h.end >= s,
             \A f \in Table!Payload : f.end >= s => h.end <= f.end
      PROVE  h = g
  <2>1. h.start \in Nat /\ h.end \in Nat /\ h.start <= h.end
    BY EndsOfEntries
  <2>2. h.end <= g.end /\ g.end <= h.end
    BY <1>1, <1>2, <1>3
  <2>3. g.start <= h.end /\ h.start <= g.end
    BY <1>1, <1>3, <2>1, <2>2
  <2>4. QED
    BY <2>3, EntriesApart
<1>4. Table!SegmentFor(Table!Payload, s) = g
  <2>1. g.end >= s
    BY <1>1
  <2>2. \A h \in Table!Payload :
           (h.end >= s /\ \A f \in Table!Payload : f.end >= s => h.end <= f.end) <=> h = g
    BY <1>2, <1>3, <2>1
  <2>3. QED
    BY <2>2 DEF Table!SegmentFor
<1>5. ASSUME NEW h \in Table!Payload, h.start <= s, s <= h.end
      PROVE  h = g
  <2>1. h.start \in Nat /\ h.end \in Nat
    BY EndsOfEntries
  <2>2. g.start <= h.end /\ h.start <= g.end
    BY <1>1, <1>5, <2>1
  <2>3. QED
    BY <2>2, EntriesApart
<1>6. QED
  BY <1>4, <1>5

\* What a node and a client find for a slot in the snapshot is what the row of the
\* slot says, and no check on the way refuses the rows: for any number of slots and
\* whatever the neighbours of a slot are (OwnershipSegments, EncodeOwnershipSegments,
\* DecodeRoute, segmentFor, compileSegments).
THEOREM RoutesAreOwnership ==
    ASSUME Table!RouteTableAssumption
    PROVE  Table!Spec => []RouteIsOwnership
<1>1. RowsOK => RouteIsOwnership
  <2> SUFFICES ASSUME RowsOK PROVE RouteIsOwnership
    OBVIOUS
  <2>1. Table!Slots = 0..Last
    BY LastIsSlot
  <2>2. ASSUME NEW s \in 0..Last
        PROVE  /\ Table!SegmentFor(Table!Payload, s).instance = rows[s].instance
               /\ Table!SegmentFor(Table!Payload, s).epoch = rows[s].epoch
               /\ Table!CompileSegments(Table!Payload)[s]
                     = [node |-> Table!NodeAt(rows[s].instance), epoch |-> rows[s].epoch]
    <3>1. PICK g \in Table!Payload :
             /\ g.start <= s /\ s <= g.end
             /\ g.instance = rows[s].instance /\ g.epoch = rows[s].epoch
             /\ g.node = Table!NodeAt(rows[s].instance)
      BY EntryOfSlot
    <3>2. /\ Table!SegmentFor(Table!Payload, s) = g
          /\ (CHOOSE h \in Table!Payload : h.start <= s /\ s <= h.end) = g
      BY <3>1, FoundEntry
    <3>3. Table!CompileSegments(Table!Payload)[s] = [node |-> g.node, epoch |-> g.epoch]
      BY <2>1, <3>2 DEF Table!CompileSegments
    <3>4. QED
      BY <3>1, <3>2, <3>3
  <2>3. QED
    BY <2>1, <2>2, SegmentsAreValid, PayloadIsComplete
    DEF RouteIsOwnership, Table!RouteIsOwnership
<1>2. QED
  BY <1>1, RowsAreOK, PTL

-----------------------------------------------------------------------------
\* Which owner and epoch every slot has determines the payload, and the other way round.
PayloadOf(d) ==
    {Entry(d, p[1], p[2]) : p \in {q \in (0..Last) \X (0..Last) : Run(d, q[1], q[2])}}
DirectoryOf(payload) ==
    [s \in 0..Last |-> <<Table!SegmentFor(payload, s).instance,
                         Table!SegmentFor(payload, s).epoch>>]
SaySame ==
    /\ Table!Payload = PayloadOf(Table!Directory)
    /\ Table!Directory = DirectoryOf(Table!Payload)

LEMMA PayloadSaysDirectory ==
    ASSUME Table!RouteTableAssumption
    PROVE  SaySame
<1>1. Last \in Nat /\ Table!Slots = 0..Last
  BY LastIsSlot
<1>2. ASSUME NEW p \in Table!Payload PROVE p \in PayloadOf(Table!Directory)
  <2>1. PICK a, b : Run(Table!Directory, a, b) /\ p = Entry(Table!Directory, a, b)
    BY PayloadIsRuns
  <2>2. a \in 0..Last /\ b \in 0..Last
    BY <1>1, <2>1, RunNumbers
  <2>3. /\ <<a, b>> \in {q \in (0..Last) \X (0..Last) : Run(Table!Directory, q[1], q[2])}
        /\ p = Entry(Table!Directory, <<a, b>>[1], <<a, b>>[2])
    BY <2>1, <2>2
  <2>4. QED
    BY <2>3 DEF PayloadOf
<1>3. ASSUME NEW p \in PayloadOf(Table!Directory) PROVE p \in Table!Payload
  BY PayloadIsRuns DEF PayloadOf
<1>4. ASSUME NEW s \in 0..Last
      PROVE  Table!Directory[s] = <<Table!SegmentFor(Table!Payload, s).instance,
                                    Table!SegmentFor(Table!Payload, s).epoch>>
  <2>1. PICK g \in Table!Payload :
           /\ g.start <= s /\ s <= g.end
           /\ g.instance = rows[s].instance /\ g.epoch = rows[s].epoch
    BY EntryOfSlot
  <2>2. Table!SegmentFor(Table!Payload, s) = g
    BY <2>1, FoundEntry
  <2>3. QED
    BY <2>1, <2>2, DirectoryIs
<1>5. Table!Directory = [s \in 0..Last |-> Table!Directory[s]]
  BY <1>1 DEF Table!Directory
<1>6. Table!Directory = DirectoryOf(Table!Payload)
  BY <1>4, <1>5 DEF DirectoryOf
<1>7. QED
  BY <1>2, <1>3, <1>6 DEF SaySame

\* A payload changes when the owner or the epoch of a slot does, and only then
\* (SameRoutePayload, MaterialiseRoute).
THEOREM ChangesArePublished ==
    ASSUME Table!RouteTableAssumption
    PROVE  Table!Spec => PublishesChanges
<1>1. SaySame
  BY PayloadSaysDirectory
<1>2. SaySame /\ SaySame' =>
         (Table!SameRoutePayload(Table!Payload, Table!Payload')
             <=> Table!Directory' = Table!Directory)
  <2> SUFFICES ASSUME SaySame, SaySame'
               PROVE  Table!Payload = Table!Payload' <=> Table!Directory' = Table!Directory
    BY DEF Table!SameRoutePayload
  <2>1. PICK p, q, d, e : /\ p = Table!Payload /\ q = Table!Payload'
                          /\ d = Table!Directory /\ e = Table!Directory'
    OBVIOUS
  <2>2. p = PayloadOf(d) /\ d = DirectoryOf(p)
    BY <2>1 DEF SaySame
  <2>3. q = PayloadOf(e) /\ e = DirectoryOf(q)
    <3>1. /\ Table!Payload' = PayloadOf(Table!Directory')
          /\ Table!Directory' = DirectoryOf(Table!Payload')
      BY DEF SaySame, PayloadOf, DirectoryOf, Entry, Run, Same, Starts, Ends,
             Table!SegmentFor, Last, Table!NodeAt
    <3>2. QED
      BY <2>1, <3>1
  <2>4. QED
    BY <2>1, <2>2, <2>3
<1>3. QED
  BY <1>1, <1>2, PTL DEF PublishesChanges, Table!PublishesChanges
=============================================================================
