--------------------------- MODULE MCControlPlane ---------------------------
(***************************************************************************)
(* The parts of the fleet's coordination for TLC, side by side: Directory, *)
(* RouteTable, Lifecycle and RenewTiming share no state, so the part that  *)
(* runs is chosen at the beginning and the others stand still: the states  *)
(* are the sum of those of the parts, not their product.                   *)
(***************************************************************************)
EXTENDS ControlPlane, TLC

CONSTANTS a1, a2, b1, a, b

VARIABLE part

\* Two processes of one node and one of another.
Nodes == (a1 :> a) @@ (a2 :> a) @@ (b1 :> b)

processVars == <<phase, ready, stopping, fenced, initialized, routeApplied, renew, beat,
                 refresh, cancelled, routed, lease, alive, published, reachable, outages,
                 retired, late>>
renewalVars == <<tick, actor, mu, left, timeouts>>
allVars == <<part, vars, rows, processVars, renewalVars>>

PartsInit ==
    /\ part \in {"directory", "table", "process", "renewals"}
    /\ Init /\ Table!Init /\ Process!Init /\ Renewals!Init

PartsNext ==
    /\ UNCHANGED part
    /\ \/ /\ part = "directory" /\ Next
          /\ UNCHANGED <<rows, processVars, renewalVars>>
       \/ /\ part = "table" /\ Table!Next
          /\ UNCHANGED <<vars, processVars, renewalVars>>
       \/ /\ part = "process" /\ Process!Next
          /\ UNCHANGED <<vars, rows, renewalVars>>
       \/ /\ part = "renewals" /\ Renewals!Next
          /\ UNCHANGED <<vars, rows, processVars>>

\* Each part with its own fairness.
PartsFairness ==
    \/ part = "directory" /\ Fairness
    \/ part = "process" /\ Process!Fairness
    \/ part \in {"table", "renewals"}

PartsSpec == PartsInit /\ [][PartsNext]_allVars /\ PartsFairness

-----------------------------------------------------------------------------
\* What must happen happens where the part runs: every node gets the final route, a
\* process becomes ready.
RoutesArrive == part = "directory" => OwnershipArrives
ProcessIsReady == part = "process" => Process!BecomesReady
=============================================================================
