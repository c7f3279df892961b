------------------------------- MODULE Client -------------------------------
(***************************************************************************)
(* The route-aware client (pkg/sequence: router.go, client.go,             *)
(* interceptor.go) against nodes that check its view                       *)
(* (service/sequence.go).  Calls group their keys by owner, send a group   *)
(* to each, keep what succeeded, and retry the rest after a wait and       *)
(* perhaps a refresh of the route, which all calls of a router share.      *)
(* Slots move, routes are published and nodes learn of them meanwhile.     *)
(*                                                                         *)
(* Abstractions.                                                           *)
(*  - A key is its slot.  A call with one key also stands for a FetchNext  *)
(*    through the interceptor, which runs the same loop.                   *)
(*  - A reason is what the client does about it: refresh, retry (backoff   *)
(*    and throttle) or never (retryClass, classifyRetry).                  *)
(*  - What nodes know of routes is Directory's, who serves SequenceHA's.   *)
(*  - The picker follows the router at once; Balancer has how it does.     *)
(***************************************************************************)
EXTENDS Integers, FiniteSetsExt

CONSTANTS
    None,
    Slot, Node, Caller,
    Wanted,        \* what callers may ask for: sets of slots
    MaxAttempts,   \* RetryPolicy.MaxAttempts
    MaxVersion,    \* bound: published routes
    MaxFaults      \* bound: unreachable nodes, terminal errors, ended contexts

ASSUME ClientAssumption ==
    /\ None \notin Node \cup Caller
    /\ Wanted \subseteq (SUBSET Slot) \ {{}}
    /\ MaxAttempts \in Nat \ {0}
    /\ MaxVersion \in Nat \ {0} /\ MaxFaults \in Nat

VARIABLES
    holder,    \* per slot, the node whose gate is open, and its epoch
    routes,    \* the published routes by their version, 0 for none
    latest,    \* sequence_route_snapshot
    known,     \* the version each node serves (RouteCache)
    router,    \* the version of Router.current
    refresh,   \* Router.refresh, the load in flight
    call,      \* the callers
    faults     \* faults so far

vars == <<holder, routes, latest, known, router, refresh, call, faults>>
fleet == <<holder, routes, latest, known>>

-----------------------------------------------------------------------------
NoOwner == [s \in Slot |-> [node |-> None, epoch |-> 0]]
NoLoad == [leader |-> None, known |-> 0, result |-> "none", version |-> 0]

\* A group is what a call sends to one node: its keys, how far it is, the version
\* that goes with it, and the answer.
NoGroup == [keys |-> {}, at |-> "none", version |-> 0, result |-> "none"]

\* within: a refresh is part of the attempt.  calm: the fleet has stood still since
\* the call began.  given: the keys
\* some node handed out a block for.  calm and given are for the properties.
NoCall == [pc |-> "idle", keys |-> {}, done |-> {}, attempt |-> 0, version |-> 0,
           action |-> "none", group |-> [d \in Node |-> NoGroup], within |-> FALSE,
           calm |-> FALSE, given |-> {}, result |-> "none"]

\* A fleet that has published its first route.
Init ==
    /\ holder \in [Slot -> [node : Node, epoch : {1}]]
    /\ routes = [v \in 0..MaxVersion |-> IF v = 1 THEN holder ELSE NoOwner]
    /\ latest = 1
    /\ known = [d \in Node |-> 1]
    /\ router = 0
    /\ refresh = NoLoad
    /\ call = [c \in Caller |-> NoCall]
    /\ faults = 0

Table == routes[router]

-----------------------------------------------------------------------------
\* The fleet.

Calm == holder = routes[latest] /\ \A d \in Node : known[d] = latest
Disturbed(C) == [c \in Caller |-> [C[c] EXCEPT !.calm = FALSE]]

\* A slot moves; the next route will say so.
Move(s, d) ==
    /\ latest < MaxVersion
    /\ holder[s].node # d /\ holder[s].epoch <= latest
    /\ holder' = [holder EXCEPT ![s] = [node |-> d, epoch |-> @.epoch + 1]]
    /\ call' = Disturbed(call)
    /\ UNCHANGED <<routes, latest, known, router, refresh, faults>>

Publish ==
    /\ holder # routes[latest]
    /\ latest' = latest + 1
    /\ routes' = [routes EXCEPT ![latest + 1] = holder]
    /\ UNCHANGED <<holder, known, router, refresh, call, faults>>

Learn(d) ==
    /\ known[d] < latest
    /\ known' = [known EXCEPT ![d] = latest]
    /\ UNCHANGED <<holder, routes, latest, router, refresh, call, faults>>

Fault == faults < MaxFaults /\ faults' = faults + 1

-----------------------------------------------------------------------------
\* runWithRetry

Return(r, result) == [NoCall EXCEPT !.pc = "returned", !.result = result, !.calm = r.calm,
                                    !.keys = r.keys, !.given = r.given]

\* After a failed attempt, or a failed refresh: another one, or the last error.
Again(r, action) ==
    IF action = "never" \/ r.attempt + 1 = MaxAttempts THEN Return(r, "failed")
    ELSE [r EXCEPT !.pc = "wait", !.attempt = @ + 1, !.action = action,
                   !.group = NoCall.group, !.within = FALSE]

\* The version to go beyond, for an attempt that began without a route.
Observed(r) == [r EXCEPT !.version = IF @ = 0 THEN router ELSE @]

Begin(c, K) ==
    /\ call[c].pc = "idle"
    /\ call' = [call EXCEPT ![c] = [NoCall EXCEPT !.pc = "attempt", !.keys = K, !.calm = Calm]]
    /\ UNCHANGED <<fleet, router, refresh, faults>>

\* refreshRoute: share the load in flight, or begin one.
Refresh(c, r) ==
    IF refresh.leader = None
    THEN /\ refresh' = [NoLoad EXCEPT !.leader = c, !.known = router]
         /\ call' = [call EXCEPT ![c] = [r EXCEPT !.pc = "lead"]]
    ELSE /\ call' = [call EXCEPT ![c] = [r EXCEPT !.pc = "follow"]]
         /\ UNCHANGED refresh

\* groupKeyRequests: one group per owner of the keys that are not done.
Grouped(r) ==
    LET pending == r.keys \ r.done
        of(d) == {s \in pending : Table[s].node = d}
    IN  IF \E s \in pending : Table[s].node = None THEN Again(Observed(r), "refresh")
        ELSE [r EXCEPT !.pc = "groups",
                       !.group = [d \in Node |-> [NoGroup EXCEPT
                           !.keys = of(d), !.at = IF of(d) = {} THEN "none" ELSE "ready"]]]

Attempt(c) ==
    LET r == [call[c] EXCEPT !.version = router, !.within = router = 0]
    IN  /\ call[c].pc = "attempt"
        /\ IF router = 0 THEN Refresh(c, r)
           ELSE call' = [call EXCEPT ![c] = Grouped(r)] /\ UNCHANGED refresh
        /\ UNCHANGED <<fleet, router, faults>>

\* refreshAfter: the route the failed attempt used may be replaced already.  The
\* mutant takes that very route for a replacement.
KnownRoute(observed) == router >= observed
NewerRoute(observed) == router > observed

\* The wait is over.
Resume(c) ==
    /\ call[c].pc = "wait"
    /\ IF call[c].action = "refresh" /\ ~NewerRoute(call[c].version) THEN Refresh(c, call[c])
       ELSE call' = [call EXCEPT ![c].pc = "attempt"] /\ UNCHANGED refresh
    /\ UNCHANGED <<fleet, router, faults>>

-----------------------------------------------------------------------------
\* The route refresh.

\* Any node answers GetRoute: it has no route, no newer one, or a newer one.
GetRoute(d) ==
    IF known[d] = 0 THEN [refresh EXCEPT !.result = "retry"]
    ELSE [refresh EXCEPT !.result = "ok", !.version = Max({known[d], refresh.known})]

Load(c, d) ==
    /\ call[c].pc = "lead" /\ refresh.result = "none"
    /\ \/ refresh' = GetRoute(d) /\ UNCHANGED <<call, faults>>
       \/ Fault /\ refresh' = [refresh EXCEPT !.result = "refresh"] /\ call' = Disturbed(call)
    /\ UNCHANGED <<fleet, router>>

\* A mutant: who shared it is not told.
LeaderOnly(outcome) ==
    [c \in Caller |-> IF call[c].pc # "lead" THEN call[c]
                      ELSE IF outcome # "ok" THEN Again(Observed(call[c]), outcome)
                      ELSE [call[c] EXCEPT !.pc = IF call[c].within THEN "group" ELSE "attempt"]]

\* Everyone who shared the load goes on with its outcome.
Shared(outcome) ==
    [c \in Caller |->
        LET r == call[c]
        IN  IF r.pc \notin {"lead", "follow"} THEN r
            ELSE IF outcome # "ok" THEN Again(IF r.within THEN Observed(r) ELSE r, outcome)
            ELSE IF r.within THEN [r EXCEPT !.pc = "group", !.within = FALSE]
            ELSE [r EXCEPT !.pc = "attempt"]]

\* applyRefreshResponse, Update: a route that is newer replaces the current one.
ApplyRefresh(c) ==
    /\ call[c].pc = "lead" /\ refresh.result # "none"
    /\ router' = IF refresh.result = "ok" THEN Max({router, refresh.version}) ELSE router
    /\ refresh' = NoLoad
    /\ call' = Shared(refresh.result)
    /\ UNCHANGED <<fleet, faults>>

\* The rest of a first attempt, which had to load a route.
Group(c) ==
    /\ call[c].pc = "group"
    /\ call' = [call EXCEPT ![c] = Grouped(call[c])]
    /\ UNCHANGED <<fleet, router, refresh, faults>>

-----------------------------------------------------------------------------
\* The calls to the owners.

\* batchAnchorSlot, and the version for the metadata: the keys may have parted
\* since they were grouped.
Address(c, d) ==
    LET g == call[c].group[d]
        together == \E e \in Node : \A s \in g.keys : Table[s].node = e
    IN  /\ call[c].pc = "groups" /\ g.at = "ready"
        /\ call' = [call EXCEPT ![c].group[d] =
                      IF together THEN [g EXCEPT !.at = "addressed", !.version = router]
                      ELSE [g EXCEPT !.at = "answered", !.result = "refresh"]]
        /\ UNCHANGED <<fleet, router, refresh, faults>>

\* checkRouteVersion, checkCallerView and the gates of a node, for a request with
\* this version and epoch of its anchor slot.
Served(e, keys, anchor, version, epoch) ==
    IF version < known[e] THEN "expired"
    ELSE IF version > known[e] THEN "retry"
    ELSE IF epoch > routes[known[e]][anchor].epoch THEN "refresh"
    ELSE IF \A s \in keys : holder[s].node = e THEN "ok"
    ELSE "refresh"

\* invokeRouted: the epoch is read after the version, the node is picked by the
\* table there is now, and what comes back is the node's answer or none.
Send(c, d) ==
    LET g == call[c].group[d]
        anchor == CHOOSE s \in g.keys : TRUE
        e == Table[anchor].node
        Answered(result) == call' = [call EXCEPT ![c].group[d].at = "answered",
                                                 ![c].group[d].result = result]
    IN  /\ call[c].pc = "groups" /\ g.at = "addressed"
        /\ \/ e = None /\ Answered("refresh") /\ UNCHANGED faults
           \/ /\ e # None
              /\ LET result == Served(e, g.keys, anchor, g.version, Table[anchor].epoch)
                 IN  call' = [call EXCEPT ![c].group[d].at = "answered",
                                          ![c].group[d].result = result,
                                          ![c].given = IF result = "ok" THEN @ \cup g.keys
                                                       ELSE @]
              /\ UNCHANGED faults
           \/ /\ Fault
              /\ \E result \in {"refresh", "never"} :
                    call' = [Disturbed(call) EXCEPT ![c].group[d].at = "answered",
                                                    ![c].group[d].result = result]
        /\ UNCHANGED <<fleet, router, refresh>>

\* The outcome of an attempt: a refresh if any group wants one.
Outcome(results) ==
    IF "never" \in results THEN "never"
    ELSE IF results \cap {"refresh", "expired"} # {} THEN "refresh"
    ELSE "retry"

\* What succeeded is kept and not asked for again.  The mutant keeps every group.
KeptAll(r) == r.done \cup UNION {r.group[d].keys : d \in Node}
Kept(r) == r.done \cup UNION {r.group[d].keys : d \in {d \in Node : r.group[d].result = "ok"}}

\* All groups have answered, or one of them for good.
Collect(c) ==
    LET r == Observed(call[c])
        results == {r.group[d].result : d \in Node} \ {"none", "ok"}
    IN  /\ r.pc = "groups"
        /\ \/ "never" \in results
           \/ \A d \in Node : r.group[d].at \in {"none", "answered"}
        /\ call' = [call EXCEPT ![c] =
                      IF results = {} THEN Return(r, "ok")
                      ELSE Again([r EXCEPT !.done = Kept(r)], Outcome(results))]
        /\ UNCHANGED <<fleet, router, refresh, faults>>

\* The context of a call ends: the call returns its error, and so does everyone
\* who waits for the load it leads.
EndContext(c) ==
    LET ended == Return([call[c] EXCEPT !.calm = FALSE], "context")
        shared == [d \in Caller |-> IF call[d].pc = "follow" THEN Return(call[d], "context")
                                    ELSE call[d]]
    IN  /\ call[c].pc \notin {"idle", "returned"}
        /\ Fault
        /\ IF call[c].pc = "lead"
           THEN refresh' = NoLoad /\ call' = [Disturbed(shared) EXCEPT ![c] = ended]
           ELSE call' = [Disturbed(call) EXCEPT ![c] = ended] /\ UNCHANGED refresh
        /\ UNCHANGED <<fleet, router>>

-----------------------------------------------------------------------------
Step(c) ==
    \/ Attempt(c) \/ Resume(c) \/ Group(c) \/ Collect(c) \/ ApplyRefresh(c)
    \/ \E d \in Node : Load(c, d) \/ Address(c, d) \/ Send(c, d)

Next ==
    \/ \E s \in Slot, d \in Node : Move(s, d)
    \/ Publish
    \/ \E d \in Node : Learn(d)
    \/ \E c \in Caller : (\E K \in Wanted : Begin(c, K)) \/ Step(c) \/ EndContext(c)

\* A call that can go on does.  The fleet need not do anything.
Fairness == \A c \in Caller : WF_vars(Step(c))

Spec == Init /\ [][Next]_vars
FairSpec == Spec /\ Fairness

-----------------------------------------------------------------------------
\* Properties.

\* In a fleet at rest a call succeeds, whatever route the client starts from and
\* whoever's load it shares: the attempts suffice to catch up (runWithRetry,
\* refreshAfter, checkRouteVersion).
RestServes ==
    \A c \in Caller : call[c].pc = "returned" /\ call[c].calm => call[c].result = "ok"

\* A batch that succeeds has a block from an owner for every key it asked for, however
\* often what was left of it was regrouped (Client.FetchNextBatch).
WholeBatch ==
    \A c \in Caller : call[c].result = "ok" => call[c].given = call[c].keys

\* Every call returns (runWithRetry, refreshRoute).
CallsReturn == \A c \in Caller : call[c].pc # "idle" ~> call[c].pc = "returned"
=============================================================================
