-------------------------------- MODULE Sdk ---------------------------------
(***************************************************************************)
(* The client SDK whole: its calls and its router (Client), and the        *)
(* balancer that turns routes and endpoints into the client's picker       *)
(* (Balancer), which shares no state with them.                            *)
(***************************************************************************)
EXTENDS Client

CONSTANTS Endpoint, Goroutine                               \* Balancer

VARIABLES owners, remotes, closed, at, built, state, newest         \* Balancer

Pickers == INSTANCE Balancer

ASSUME SdkAssumption == Pickers!BalancerAssumption

-----------------------------------------------------------------------------
\* The properties of Balancer, as it states them.

\* However many goroutines change, build and deliver at once, the state that was built
\* last is the one of the current route and endpoints, or the shut one after Close.
NewestIsCurrent == Pickers!NewestIsCurrent

\* When nobody is publishing and no older state has overtaken the last one, a call for a
\* slot goes to the only endpoint of its owner or to none.
InOrderPicksTheOwner == Pickers!InOrderPicksTheOwner
=============================================================================
