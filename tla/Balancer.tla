------------------------------ MODULE Balancer ------------------------------
(***************************************************************************)
(* The client's balancer (pkg/sequence/balancer.go).  The resolver, the    *)
(* transport of every remote client and the router each call into it on a  *)
(* goroutine of their own.  Whoever changes something builds a picker      *)
(* under the read lock and hands it to the client after the unlock.        *)
(*                                                                         *)
(* Abstractions.                                                           *)
(*  - The transport and the resolver are external: their calls take any    *)
(*    value they may take.  A state change of a remote client reaches the  *)
(*    balancer as one call of its listener.                                *)
(*  - The client keeps the last state it was given, as the double of       *)
(*    balancer_test.go does.                                               *)
(***************************************************************************)
EXTENDS Integers

CONSTANTS
    None,
    Slot, Node,
    Endpoint,      \* names of endpoints
    Goroutine      \* who calls in

\* What is assumed of the constants.
BalancerAssumption ==
    /\ None \notin Node \cup Endpoint
    /\ Goroutine \cap {"client", "overtaken"} = {}

VARIABLES
    owners,     \* Router.current
    remotes,    \* balancer.remotes: a function of the names there are
    closed,
    at,         \* what each goroutine does next: idle, publish or deliver
    built,      \* the state it built and has not delivered
    state,      \* what the client was given last
    newest      \* history: where the state is that was built last: with the goroutine
                \* that built it, with the "client", or "overtaken" there by an older one

vars == <<owners, remotes, closed, at, built, state, newest>>

Connectivity == {"Idle", "Connecting", "Ready", "TransientFailure"}

-----------------------------------------------------------------------------
\* buildStateLocked

Serving(r) == {e \in DOMAIN r : r[e].state = "Ready"}

\* nodeCounts: a node with several endpoints cannot be told by its node ID.  The
\* mutant takes any of them.
Ready(r, n) == {e \in Serving(r) : r[e].node = n}
Lone(r, n) == {e \in Serving(r) : {f \in DOMAIN r : r[f].node = r[e].node} = {e} /\ r[e].node = n}

Overall(r) ==
    IF Serving(r) # {} THEN "Ready"
    ELSE IF DOMAIN r = {} \/ \E e \in DOMAIN r : r[e].state = "TransientFailure"
         THEN "TransientFailure"
    ELSE "Connecting"

Built(r, table) ==
    [connectivity |-> Overall(r),
     control |-> Serving(r),
     slots |-> [s \in Slot |-> LET one == Lone(r, table[s])
                               IN  IF table[s] = None \/ one = {} THEN None
                                   ELSE CHOOSE e \in one : TRUE]]

Shut == [connectivity |-> "Shutdown", control |-> {}, slots |-> [s \in Slot |-> None]]

\* A balancer to which the resolver has given its first, empty, state.
NoRemotes == [e \in {} |-> [state |-> "Idle", node |-> None]]

Init ==
    /\ owners = [s \in Slot |-> None]
    /\ remotes = NoRemotes
    /\ closed = FALSE
    /\ at = [g \in Goroutine |-> "idle"]
    /\ built = [g \in Goroutine |-> Shut]
    /\ state = Built(remotes, owners)
    /\ newest = "client"

Go(g, from, to) == at[g] = from /\ at' = [at EXCEPT ![g] = to]

-----------------------------------------------------------------------------
\* Router.Update: the route first, then the listener.  The listeners are those of
\* the time of the update: that of a balancer which closed since finds it closed.
RouteUpdate(g) ==
    /\ Go(g, "idle", "publish")
    /\ \E table \in [Slot -> Node \cup {None}] : table # owners /\ owners' = table
    /\ UNCHANGED <<remotes, closed, built, state, newest>>

\* UpdateState: drop, keep (with the new node ID) and create remote clients.  The
\* state of a client is whatever the transport says.
UpdateState(g) ==
    /\ ~closed /\ Go(g, "idle", "publish")
    /\ \E wanted \in UNION {[E -> Node] : E \in SUBSET Endpoint},
          states \in [Endpoint -> {"Idle", "Ready"}] :
          remotes' = [e \in DOMAIN wanted |->
              [node |-> wanted[e],
               state |-> IF e \in DOMAIN remotes THEN remotes[e].state ELSE states[e]]]
    /\ UNCHANGED <<owners, closed, built, state, newest>>

\* updateRemoteState
RemoteState(g, e, new) ==
    /\ ~closed /\ e \in DOMAIN remotes /\ remotes[e].state # new
    /\ Go(g, "idle", "publish")
    /\ remotes' = [remotes EXCEPT ![e].state = new]
    /\ UNCHANGED <<owners, closed, built, state, newest>>

\* publishState up to the unlock.
\* The mutant does not look whether the balancer has closed meanwhile.
PublishAnyhow(g) ==
    /\ Go(g, "publish", "deliver")
    /\ built' = [built EXCEPT ![g] = Built(remotes, owners)]
    /\ newest' = g
    /\ UNCHANGED <<owners, remotes, closed, state>>

Publish(g) ==
    /\ Go(g, "publish", IF closed THEN "idle" ELSE "deliver")
    /\ built' = IF closed THEN built ELSE [built EXCEPT ![g] = Built(remotes, owners)]
    /\ newest' = IF closed THEN newest ELSE g
    /\ UNCHANGED <<owners, remotes, closed, state>>

\* The call to the client, of publishState and of Close.
Deliver(g) ==
    /\ Go(g, "deliver", "idle")
    /\ state' = built[g]
    /\ built' = [built EXCEPT ![g] = Shut]
    /\ newest' = CASE newest = g -> "client"
                  [] newest = "client" -> "overtaken"
                  [] OTHER -> newest
    /\ UNCHANGED <<owners, remotes, closed>>

Close(g) ==
    /\ ~closed /\ Go(g, "idle", "deliver")
    /\ closed' = TRUE
    /\ remotes' = NoRemotes
    /\ built' = [built EXCEPT ![g] = Shut]
    /\ newest' = g
    /\ UNCHANGED <<owners, state>>

Next ==
    \E g \in Goroutine :
        \/ RouteUpdate(g) \/ UpdateState(g) \/ Publish(g) \/ Deliver(g) \/ Close(g)
        \/ \E e \in Endpoint, new \in Connectivity : RemoteState(g, e, new)

Spec == Init /\ [][Next]_vars

-----------------------------------------------------------------------------
\* Properties.

\* What the client should have been given, were nobody publishing.
Current == IF closed THEN Shut ELSE Built(remotes, owners)

Quiet == \A g \in Goroutine : at[g] = "idle"

\* However many goroutines change, build and deliver at once, no change is lost between
\* them: when nobody is about to build, the state that was built last, whoever has it, is
\* the one of the route and of the endpoints there are, and after Close it is the shut
\* one at once (publishState, Close).  The one way to a stale picker is a delivery that
\* overtakes this state on the way to the client, and the next one that is built mends it.
NewestIsCurrent ==
    closed \/ (\A g \in Goroutine : at[g] # "publish") =>
        CASE newest \in Goroutine -> built[newest] = Current
          [] newest = "client"     -> state = Current
          [] OTHER                 -> TRUE

\* A call for a slot goes to a ready endpoint of its owner, the only endpoint that
\* claims to be that node, or to none (sequencePicker.Next).
ToTheOwner ==
    \A s \in Slot : state.slots[s] # None =>
        /\ {e \in DOMAIN remotes : remotes[e].node = owners[s]} = {state.slots[s]}
        /\ remotes[state.slots[s]].state = "Ready"

\* When nobody is publishing and no older state has overtaken the last one, calls go to
\* the owner: two endpoints with one node ID are never told apart by chance, whichever
\* goroutines brought them and the route.
InOrderPicksTheOwner == Quiet /\ newest # "overtaken" => ToTheOwner

\* When nobody is publishing, a call for a slot goes to the node that owns it
\* (docs/sequence.md: the integration "selects the node that owns the key's slot").  A
\* closed balancer has no calls.
PicksTheOwner ==
    Quiet /\ ~closed =>
        \A s \in Slot : owners[s] # None /\ state.slots[s] \in DOMAIN remotes =>
            remotes[state.slots[s]].node = owners[s]
=============================================================================
