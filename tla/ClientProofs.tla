---------------------------- MODULE ClientProofs ----------------------------
(***************************************************************************)
(* The client SDK, for any number of slots, nodes, callers and endpoints:  *)
(* what a batch that succeeds has, and what the balancer's client picks.   *)
(***************************************************************************)
EXTENDS Sdk, TLAPS

-----------------------------------------------------------------------------
\* Balancer, for any number of goroutines.

Remote == [state : Pickers!Connectivity, node : Node]

PickersInv ==
    /\ at \in [Goroutine -> {"idle", "publish", "deliver"}]
    /\ built = [g \in Goroutine |-> built[g]]
    /\ remotes = [e \in DOMAIN remotes |-> remotes[e]]
    /\ \A e \in DOMAIN remotes : remotes[e] \in Remote
    /\ newest \in Goroutine \cup {"client", "overtaken"}
    /\ newest \in Goroutine => at[newest] = "deliver"
    /\ NewestIsCurrent

\* The property without the case distinction.
NewestIs(n, b, st, cl, a, cur) ==
    cl \/ (\A g \in Goroutine : a[g] # "publish") =>
        /\ n \in Goroutine => b[n] = cur
        /\ n = "client" => st = cur

LEMMA NewestIsIt ==
    ASSUME newest \in Goroutine \cup {"client", "overtaken"}
    PROVE  NewestIsCurrent <=> NewestIs(newest, built, state, closed, at, Pickers!Current)
<1> USE SdkAssumption DEF Pickers!BalancerAssumption
<1>1. CASE newest \in Goroutine
  BY <1>1 DEF NewestIsCurrent, Pickers!NewestIsCurrent, NewestIs
<1>2. CASE newest = "client"
  BY <1>2 DEF NewestIsCurrent, Pickers!NewestIsCurrent, NewestIs
<1>3. CASE newest = "overtaken"
  BY <1>3 DEF NewestIsCurrent, Pickers!NewestIsCurrent, NewestIs
<1>4. QED
  BY <1>1, <1>2, <1>3

\* The same of the next state.
LEMMA NewestWillBe ==
    ASSUME (newest \in Goroutine \cup {"client", "overtaken"})'
    PROVE  NewestIsCurrent' <=>
               NewestIs(newest', built', state', closed', at', Pickers!Current')
<1> USE SdkAssumption DEF Pickers!BalancerAssumption
<1>1. CASE newest' \in Goroutine
  BY <1>1 DEF NewestIsCurrent, Pickers!NewestIsCurrent, NewestIs
<1>2. CASE newest' = "client"
  BY <1>2 DEF NewestIsCurrent, Pickers!NewestIsCurrent, NewestIs
<1>3. CASE newest' = "overtaken"
  BY <1>3 DEF NewestIsCurrent, Pickers!NewestIsCurrent, NewestIs
<1>4. QED
  BY <1>1, <1>2, <1>3

\* What a change leaves: its goroutine is about to build, so nothing is claimed unless
\* the balancer has closed, and then no route matters.
LEMMA ChangesArePending ==
    ASSUME NEW g \in Goroutine, PickersInv, Pickers!Go(g, "idle", "publish"),
           UNCHANGED <<closed, built, state, newest>>,
           closed => UNCHANGED remotes,
           remotes' = [e \in DOMAIN remotes' |-> remotes'[e]],
           \A e \in DOMAIN remotes' : remotes'[e] \in Remote
    PROVE  PickersInv'
<1> USE DEF PickersInv, Pickers!Go
<1>1. (newest \in Goroutine \cup {"client", "overtaken"})'
  OBVIOUS
<1>2. NewestIs(newest, built, state, closed, at, Pickers!Current)
  BY NewestIsIt
<1>3. at'[g] = "publish"
  OBVIOUS
<1>4. closed => Pickers!Current' = Pickers!Current
  BY DEF Pickers!Current
<1>5. NewestIs(newest', built', state', closed', at', Pickers!Current')
  BY <1>2, <1>3, <1>4 DEF NewestIs
<1>6. NewestIsCurrent'
  BY <1>1, <1>5, NewestWillBe
<1>7. QED
  BY <1>6

LEMMA PickersStep == PickersInv /\ [Pickers!Next]_(Pickers!vars) => PickersInv'
<1> SUFFICES ASSUME PickersInv, [Pickers!Next]_(Pickers!vars) PROVE PickersInv'
  OBVIOUS
<1>0. NewestIs(newest, built, state, closed, at, Pickers!Current)
  BY NewestIsIt DEF PickersInv
<1>1. ASSUME NEW g \in Goroutine, Pickers!RouteUpdate(g)
      PROVE  PickersInv'
  BY <1>1, ChangesArePending DEF Pickers!RouteUpdate, PickersInv
<1>2. ASSUME NEW g \in Goroutine, Pickers!UpdateState(g)
      PROVE  PickersInv'
  <2>1. PICK wanted \in UNION {[E -> Node] : E \in SUBSET Endpoint},
             states \in [Endpoint -> {"Idle", "Ready"}] :
          remotes' = [e \in DOMAIN wanted |->
              [node |-> wanted[e],
               state |-> IF e \in DOMAIN remotes THEN remotes[e].state ELSE states[e]]]
    BY <1>2 DEF Pickers!UpdateState
  <2>2. \A e \in DOMAIN wanted : e \in Endpoint /\ wanted[e] \in Node
    OBVIOUS
  <2>3. \A e \in DOMAIN remotes' : remotes'[e] \in Remote
    BY <2>1, <2>2 DEF PickersInv, Remote, Pickers!Connectivity
  <2>4. remotes' = [e \in DOMAIN remotes' |-> remotes'[e]]
    BY <2>1
  <2>5. QED
    BY <1>2, <2>3, <2>4, ChangesArePending DEF Pickers!UpdateState
<1>3. ASSUME NEW g \in Goroutine, NEW e \in Endpoint, NEW new \in Pickers!Connectivity,
             Pickers!RemoteState(g, e, new)
      PROVE  PickersInv'
  <2>1. remotes' = [remotes EXCEPT ![e].state = new] /\ e \in DOMAIN remotes
    BY <1>3 DEF Pickers!RemoteState
  <2>2. \A f \in DOMAIN remotes' : remotes'[f] \in Remote
    BY <2>1 DEF PickersInv, Remote
  <2>3. remotes' = [f \in DOMAIN remotes' |-> remotes'[f]]
    BY <2>1
  <2>4. QED
    BY <1>3, <2>2, <2>3, ChangesArePending DEF Pickers!RemoteState
<1>4. ASSUME NEW g \in Goroutine, Pickers!Publish(g)
      PROVE  PickersInv'
  <2> USE <1>4 DEF Pickers!Publish, Pickers!Go, PickersInv
  <2>1. Pickers!Current' = Pickers!Current
    BY DEF Pickers!Current
  <2>2. CASE closed
    <3>1. NewestIs(newest', built', state', closed', at', Pickers!Current')
      BY <1>0, <2>1, <2>2 DEF NewestIs
    <3>2. QED
      BY <2>2, <3>1, NewestWillBe
  <2>3. CASE ~closed
    <3>1. newest' = g /\ built'[g] = Pickers!Current /\ g \notin {"client", "overtaken"}
      BY <2>3, SdkAssumption DEF Pickers!Current, Pickers!BalancerAssumption
    <3>2. NewestIs(newest', built', state', closed', at', Pickers!Current')
      BY <2>1, <3>1 DEF NewestIs
    <3>3. QED
      BY <2>3, <3>1, <3>2, NewestWillBe
  <2>4. QED
    BY <2>2, <2>3
<1>5. ASSUME NEW g \in Goroutine, Pickers!Deliver(g)
      PROVE  PickersInv'
  <2> USE <1>5 DEF Pickers!Deliver, Pickers!Go, PickersInv
  <2>1. Pickers!Current' = Pickers!Current
    BY DEF Pickers!Current
  <2>2. (\A h \in Goroutine : at'[h] # "publish") => \A h \in Goroutine : at[h] # "publish"
    OBVIOUS
  <2>3. CASE newest = g
    <3>1. newest' = "client" /\ state' = built[newest]
      BY <2>3, SdkAssumption DEF Pickers!BalancerAssumption
    <3>2. "client" \notin Goroutine
      BY SdkAssumption DEF Pickers!BalancerAssumption
    <3>3. NewestIs(newest', built', state', closed', at', Pickers!Current')
      BY <1>0, <2>1, <2>2, <2>3, <3>1, <3>2 DEF NewestIs
    <3>4. QED
      BY <3>1, <3>2, <3>3, NewestWillBe
  <2>4. CASE newest = "client" /\ newest # g
    <3>1. newest' = "overtaken" /\ "overtaken" \notin Goroutine
      BY <2>4, SdkAssumption DEF Pickers!BalancerAssumption
    <3>2. NewestIs(newest', built', state', closed', at', Pickers!Current')
      BY <3>1 DEF NewestIs
    <3>3. QED
      BY <3>1, <3>2, NewestWillBe
  <2>5. CASE newest # "client" /\ newest # g
    <3>1. newest' = newest
      BY <2>5
    <3>2. newest \in Goroutine => built'[newest] = built[newest] /\ at'[newest] = at[newest]
      BY <2>5
    <3>3. NewestIs(newest', built', state', closed', at', Pickers!Current')
      BY <1>0, <2>1, <2>2, <2>5, <3>1, <3>2 DEF NewestIs
    <3>4. QED
      BY <3>1, <3>2, <3>3, NewestWillBe
  <2>6. QED
    BY <2>3, <2>4, <2>5
<1>6. ASSUME NEW g \in Goroutine, Pickers!Close(g)
      PROVE  PickersInv'
  <2> USE <1>6 DEF Pickers!Close, Pickers!Go, PickersInv, Pickers!NoRemotes
  <2>1. newest' = g /\ built'[g] = Pickers!Current' /\ g \notin {"client", "overtaken"}
    BY SdkAssumption DEF Pickers!Current, Pickers!BalancerAssumption
  <2>2. NewestIs(newest', built', state', closed', at', Pickers!Current')
    BY <2>1 DEF NewestIs
  <2>3. QED
    BY <2>1, <2>2, NewestWillBe
<1>7. CASE UNCHANGED Pickers!vars
  <2> USE <1>7 DEF Pickers!vars
  <2>1. Pickers!Current' = Pickers!Current
    BY DEF Pickers!Current
  <2>2. NewestIs(newest', built', state', closed', at', Pickers!Current')
    BY <1>0, <2>1
  <2>3. QED
    BY <2>2, NewestWillBe DEF PickersInv
<1>8. QED
  BY <1>1, <1>2, <1>3, <1>4, <1>5, <1>6, <1>7 DEF Pickers!Next

LEMMA PickersHold == Pickers!Spec => []PickersInv
<1>1. ASSUME Pickers!Init PROVE PickersInv
  <2> USE <1>1 DEF Pickers!Init, Pickers!NoRemotes
  <2>1. newest = "client" /\ "client" \notin Goroutine
    BY SdkAssumption DEF Pickers!BalancerAssumption
  <2>2. NewestIs(newest, built, state, closed, at, Pickers!Current)
    BY <2>1 DEF NewestIs, Pickers!Current
  <2>3. NewestIsCurrent
    BY <2>1, <2>2, NewestIsIt
  <2>4. QED
    BY <2>1, <2>3 DEF PickersInv
<1>2. QED
  BY <1>1, PickersStep, PTL DEF Pickers!Spec

\* However many goroutines change, build and deliver at once, the state that was built
\* last, whoever has it, is the one of the current route and endpoints, and after Close
\* it is the shut one: only a delivery out of order leaves the client a stale picker
\* (publishState, Close).
THEOREM PickerIsCurrent == Pickers!Spec => []NewestIsCurrent
<1>1. PickersInv => NewestIsCurrent
  BY DEF PickersInv
<1>2. QED
  BY <1>1, PickersHold, PTL

\* Unless an older state overtook the last one, a call for a slot goes to the only
\* endpoint that claims to be the slot's owner, or to none (sequencePicker.Next).
THEOREM PicksOnlyTheOwner == Pickers!Spec => []InOrderPicksTheOwner
<1>1. ASSUME PickersInv
      PROVE  InOrderPicksTheOwner
  <2> SUFFICES ASSUME Pickers!Quiet, newest # "overtaken", NEW s \in Slot,
                      state.slots[s] # None
               PROVE  /\ {e \in DOMAIN remotes : remotes[e].node = owners[s]}
                              = {state.slots[s]}
                      /\ remotes[state.slots[s]].state = "Ready"
    BY DEF InOrderPicksTheOwner, Pickers!InOrderPicksTheOwner, Pickers!ToTheOwner
  <2> DEFINE one == Pickers!Lone(remotes, owners[s])
             x == state.slots[s]
  <2>1. newest = "client" /\ \A g \in Goroutine : at[g] # "publish"
    BY <1>1 DEF PickersInv, Pickers!Quiet
  <2>2. state = Pickers!Current
    BY <1>1, <2>1, NewestIsIt DEF PickersInv, NewestIs
  <2>3. ~closed
    BY <2>2 DEF Pickers!Current, Pickers!Shut
  <2>4. x = IF owners[s] = None \/ one = {} THEN None ELSE CHOOSE e \in one : TRUE
    BY <2>2, <2>3 DEF Pickers!Current, Pickers!Built
  <2>5. x \in one
    BY <2>4
  <2> HIDE DEF x
  <2>6. /\ x \in DOMAIN remotes /\ remotes[x].state = "Ready" /\ remotes[x].node = owners[s]
        /\ {f \in DOMAIN remotes : remotes[f].node = remotes[x].node} = {x}
    BY <2>5 DEF Pickers!Lone, Pickers!Serving
  <2>7. QED
    BY <2>6 DEF x
<1>2. QED
  BY <1>1, PickersHold, PTL

-----------------------------------------------------------------------------
\* Client: types, and which versions there are.

Route == [Slot -> [node : Node \cup {None}, epoch : Nat]]
Result == {"none", "ok", "expired", "retry", "refresh", "never"}
GroupRow ==
    [keys : SUBSET Slot, at : {"none", "ready", "addressed", "answered"}, version : Nat,
     result : Result]
CallRow ==
    [pc : {"idle", "attempt", "lead", "follow", "group", "groups", "wait", "returned"},
     keys : SUBSET Slot, done : SUBSET Slot, attempt : Nat, version : Nat,
     action : {"none", "refresh", "retry", "never"}, group : [Node -> GroupRow],
     within : BOOLEAN, calm : BOOLEAN, given : SUBSET Slot,
     result : {"none", "ok", "failed", "context"}]

ClientTypes ==
    /\ holder \in [Slot -> [node : Node, epoch : Nat]]
    /\ routes \in [0..MaxVersion -> Route]
    /\ latest \in 1..MaxVersion
    /\ latest = MaxVersion => holder = routes[latest]
    /\ known \in [Node -> 1..latest]
    /\ router \in 0..latest
    /\ refresh \in [leader : Caller \cup {None}, known : 0..latest,
                    result : {"none", "ok", "refresh"}, version : 0..latest]
    /\ call \in [Caller -> CallRow]

\* What a call has, and what its groups are for.
BatchInv(r) ==
    /\ r.done \subseteq r.given /\ r.given \subseteq r.keys
    /\ r.result = "ok" => r.given = r.keys
    /\ r.pc # "returned" => r.result = "none"
    /\ r.pc = "groups" =>
         /\ \A s \in r.keys \ r.done : \E d \in Node : s \in r.group[d].keys
         /\ \A d \in Node :
              LET g == r.group[d]
              IN  /\ g.keys \subseteq r.keys
                  /\ g.at = "none" <=> g.keys = {}
                  /\ g.at = "answered" <=> g.result # "none"
                  /\ g.result = "ok" => g.keys \subseteq r.given

Batches == \A c \in Caller : BatchInv(call[c])

-----------------------------------------------------------------------------
\* Client: a fleet at rest.

\* The load in flight was answered before the fleet came to rest: it has no route, or
\* an old one.
BadLoad == refresh.result # "none" /\ ~(refresh.result = "ok" /\ refresh.version = latest)

\* How often an attempt may still begin with an old route.
Behind == IF BadLoad THEN 2 ELSE IF router # latest THEN 1 ELSE 0

\* All groups are those of the last route R, of version l, which nobody refuses.
Good(r, ro, l, R) ==
    /\ ro = l
    /\ \A d \in Node :
         LET g == r.group[d]
         IN  /\ \A s \in g.keys : R[s].node = d
             /\ g.at = "addressed" => g.version = l
             /\ g.result \in {"none", "ok"}

\* Groups of an older route: a node refuses them for good reason.
Refused(r, l) ==
    \A d \in Node : /\ r.group[d].result \in {"none", "ok", "expired", "refresh"}
                    /\ r.group[d].version <= l

\* The attempts suffice: each that fails leaves less to catch up with.  The client has
\* route ro, an attempt may begin b times with an old one, l is the last one.
RestAt(r, ro, b, l, R) ==
    /\ r.attempt <= 2
    /\ r.version <= ro
    /\ r.pc = "attempt" => ro = l \/ r.attempt + b <= 2
    /\ r.pc \in {"lead", "follow"} =>
         /\ ro = r.version
         /\ r.within => ro = 0 /\ r.attempt + b <= 2
         /\ r.attempt + b <= 3
    /\ r.pc = "group" => r.version = 0 /\ (ro = l \/ r.attempt + b <= 1)
    /\ r.pc = "groups" =>
         \/ Good(r, ro, l, R)
         \/ /\ Refused(r, l)
            /\ \/ r.version = 0 /\ r.attempt + b <= 1
               \/ r.version # 0 /\ ro = r.version /\ ro # l /\ r.attempt + b <= 2
               \/ r.version # 0 /\ ro # r.version /\ r.attempt + b <= 1
    /\ r.pc = "wait" =>
         /\ r.action = "refresh" /\ ~r.within
         /\ r.attempt + b <= (IF ro = r.version THEN 3 ELSE 2)
    /\ r.pc = "returned" => r.result = "ok"

AtRest ==
    \A c \in Caller :
        call[c].calm => Calm /\ RestAt(call[c], router, Behind, latest, routes[latest])

-----------------------------------------------------------------------------
\* Client: the operators.

LEMMA ClientConstants ==
    /\ None \notin Node /\ None \notin Caller /\ MaxAttempts \in Nat \ {0}
    /\ MaxVersion \in Nat \ {0} /\ \A K \in Wanted : K \in SUBSET Slot
  BY ClientAssumption DEF ClientAssumption

LEMMA MaxOfTwo ==
    ASSUME NEW a \in Nat, NEW b \in Nat
    PROVE  Max({a, b}) = IF a >= b THEN a ELSE b
<1>1. \E x \in {a, b} : \A y \in {a, b} : x >= y
  OBVIOUS
<1>2. Max({a, b}) \in {a, b} /\ \A y \in {a, b} : Max({a, b}) >= y
  BY <1>1, Zenon DEF Max
<1>3. QED
  BY <1>2

LEMMA NoGroups ==
    /\ NoCall.group = [d \in Node |-> NoGroup] /\ NoGroup \in GroupRow
    /\ NoCall.group \in [Node -> GroupRow] /\ NoCall \in CallRow
    /\ NoCall.group = [d \in Node |-> NoGroup]
    /\ NoCall.pc = "idle" /\ NoCall.done = {} /\ NoCall.given = {} /\ NoCall.keys = {}
    /\ NoCall.result = "none" /\ NoCall.calm = FALSE
<1>1. NoGroup \in GroupRow
  BY DEF NoGroup, GroupRow, Result
<1>2. [d \in Node |-> NoGroup] \in [Node -> GroupRow]
  BY <1>1
<1>3. NoCall.group = [d \in Node |-> NoGroup]
  BY DEF NoCall
<1>4. NoCall \in CallRow
  BY <1>2 DEF NoCall, CallRow
<1>5. QED
  BY <1>1, <1>2, <1>3, <1>4 DEF NoCall

LEMMA ReturnRow ==
    ASSUME NEW r \in CallRow, NEW result \in {"ok", "failed", "context"}
    PROVE  /\ Return(r, result) \in CallRow
           /\ Return(r, result).pc = "returned" /\ Return(r, result).result = result
           /\ Return(r, result).calm = r.calm /\ Return(r, result).keys = r.keys
           /\ Return(r, result).given = r.given /\ Return(r, result).done = {}
           /\ Return(r, result).attempt = 0 /\ Return(r, result).version = 0
<1>1. /\ NoCall \in CallRow /\ NoCall.done = {} /\ NoCall.attempt = 0 /\ NoCall.version = 0
  BY NoGroups DEF NoCall
<1>2. QED
  BY <1>1 DEF Return, CallRow

LEMMA AgainRow ==
    ASSUME NEW r \in CallRow, NEW action \in {"refresh", "retry", "never"}
    PROVE  /\ Again(r, action) \in CallRow
           /\ Again(r, action).calm = r.calm /\ Again(r, action).keys = r.keys
           /\ Again(r, action).given = r.given
           /\ \/ Again(r, action) = Return(r, "failed")
                 /\ (action = "never" \/ r.attempt + 1 = MaxAttempts)
              \/ /\ action # "never" /\ r.attempt + 1 # MaxAttempts
                 /\ Again(r, action).pc = "wait" /\ Again(r, action).action = action
                 /\ Again(r, action).attempt = r.attempt + 1
                 /\ Again(r, action).version = r.version /\ ~Again(r, action).within
                 /\ Again(r, action).done = r.done /\ Again(r, action).result = r.result
<1> DEFINE s == [r EXCEPT !.pc = "wait", !.attempt = @ + 1, !.action = action,
                   !.group = NoCall.group, !.within = FALSE]
<1>1. CASE action = "never" \/ r.attempt + 1 = MaxAttempts
  <2>1. Again(r, action) = Return(r, "failed")
    BY <1>1 DEF Again
  <2>2. QED
    BY <1>1, <2>1, ReturnRow
<1>2. CASE ~(action = "never" \/ r.attempt + 1 = MaxAttempts)
  <2>1. Again(r, action) = s
    BY <1>2 DEF Again
  <2>2. s \in CallRow
    <3>1. r.attempt + 1 \in Nat
      BY DEF CallRow
    <3>2. NoCall.group \in [Node -> GroupRow]
      BY NoGroups
    <3> DEFINE blank == NoCall.group
    <3> HIDE DEF blank
    <3>3. blank \in [Node -> GroupRow] /\ s = [r EXCEPT !.pc = "wait", !.attempt = r.attempt + 1,
              !.action = action, !.group = blank, !.within = FALSE]
      BY <3>2 DEF blank
    <3> HIDE DEF s
    <3>4. QED
      BY <3>1, <3>3 DEF CallRow
  <2>3. /\ s.calm = r.calm /\ s.keys = r.keys /\ s.given = r.given /\ s.pc = "wait" /\ ~s.within
        /\ s.action = action /\ s.attempt = r.attempt + 1 /\ s.version = r.version
        /\ s.done = r.done /\ s.result = r.result
    BY DEF CallRow
  <2> HIDE DEF s
  <2>4. QED
    BY <1>2, <2>1, <2>2, <2>3
<1>3. QED
  BY <1>1, <1>2

LEMMA ObservedRow ==
    ASSUME ClientTypes, NEW r \in CallRow
    PROVE  /\ Observed(r) \in CallRow
           /\ Observed(r).version = IF r.version = 0 THEN router ELSE r.version
           /\ Observed(r).keys = r.keys /\ Observed(r).done = r.done
           /\ Observed(r).given = r.given /\ Observed(r).group = r.group
           /\ Observed(r).calm = r.calm /\ Observed(r).attempt = r.attempt
           /\ Observed(r).pc = r.pc /\ Observed(r).result = r.result
<1>1. router \in Nat
  BY DEF ClientTypes
<1>2. QED
  BY <1>1 DEF Observed, CallRow

\* The route the client has.
LEMMA TableType ==
    ASSUME ClientTypes
    PROVE  /\ latest \in Nat /\ latest \in 1..MaxVersion /\ router \in Nat /\ Table \in Route
           /\ \A s \in Slot : Table[s].node \in Node \cup {None} /\ Table[s].epoch \in Nat
<1>1. latest \in 1..MaxVersion /\ router \in 0..latest /\ MaxVersion \in Nat
  BY ClientConstants DEF ClientTypes
<1>2. router \in 0..MaxVersion
  BY <1>1
<1>3. Table \in Route
  BY <1>2 DEF Table, ClientTypes
<1>4. QED
  BY <1>1, <1>3 DEF Route

LEMMA GroupedRow ==
    ASSUME ClientTypes, NEW r \in CallRow
    PROVE  /\ Grouped(r) \in CallRow
           /\ Grouped(r).calm = r.calm /\ Grouped(r).keys = r.keys /\ Grouped(r).given = r.given
           /\ \/ /\ \E s \in r.keys \ r.done : Table[s].node = None
                 /\ Grouped(r) = Again(Observed(r), "refresh")
              \/ /\ \A s \in r.keys \ r.done : Table[s].node # None
                 /\ Grouped(r).pc = "groups" /\ Grouped(r).attempt = r.attempt
                 /\ Grouped(r).version = r.version /\ Grouped(r).done = r.done
                 /\ Grouped(r).result = r.result
                 /\ \A d \in Node :
                      LET g == Grouped(r).group[d]
                      IN  /\ g.keys = {s \in r.keys \ r.done : Table[s].node = d}
                          /\ g.at = IF g.keys = {} THEN "none" ELSE "ready"
                          /\ g.result = "none" /\ g.version = 0
<1> DEFINE pending == r.keys \ r.done
           of(d) == {s \in pending : Table[s].node = d}
           G == [d \in Node |-> [NoGroup EXCEPT
                    !.keys = of(d), !.at = IF of(d) = {} THEN "none" ELSE "ready"]]
           t == [r EXCEPT !.pc = "groups", !.group = G]
<1>1. CASE \E s \in pending : Table[s].node = None
  <2>1. Grouped(r) = Again(Observed(r), "refresh")
    BY <1>1 DEF Grouped
  <2>2. QED
    BY <1>1, <2>1, ObservedRow, AgainRow
<1>2. CASE ~(\E s \in pending : Table[s].node = None)
  <2>1. Grouped(r) = t
    BY <1>2 DEF Grouped
  <2>2. pending \subseteq Slot
    BY DEF CallRow
  <2>3. ASSUME NEW d \in Node
        PROVE  /\ G[d] \in GroupRow /\ G[d].keys = of(d) /\ G[d].result = "none" /\ G[d].version = 0
               /\ G[d].at = IF of(d) = {} THEN "none" ELSE "ready"
    <3> HIDE DEF of
    <3>1. of(d) \in SUBSET Slot
      BY <2>2 DEF of
    <3>2. G[d] = [NoGroup EXCEPT !.keys = of(d), !.at = IF of(d) = {} THEN "none" ELSE "ready"]
      OBVIOUS
    <3>3. NoGroup.result = "none" /\ NoGroup.version = 0
      BY DEF NoGroup
    <3>4. QED
      BY <3>1, <3>2, <3>3, NoGroups DEF GroupRow
  <2>4. G \in [Node -> GroupRow]
    BY <2>3
  <2> HIDE DEF G
  <2>5. t \in CallRow
    BY <2>4 DEF CallRow
  <2>6. /\ t.calm = r.calm /\ t.keys = r.keys /\ t.given = r.given /\ t.pc = "groups"
        /\ t.attempt = r.attempt /\ t.version = r.version /\ t.done = r.done
        /\ t.group = G /\ t.result = r.result
    BY DEF CallRow
  <2> HIDE DEF t
  <2>7. QED
    BY <1>2, <2>1, <2>3, <2>5, <2>6
<1>3. QED
  BY <1>1, <1>2

-----------------------------------------------------------------------------
\* Client: what a call has.

\* A call under way.
Running(r) == r \in CallRow /\ r.done \subseteq r.given /\ r.given \subseteq r.keys /\ r.result = "none"

\* The records of two calls that differ in no more than the time they are at.
Alike(q, r) ==
    /\ q.keys = r.keys /\ q.done = r.done /\ q.given = r.given /\ q.result = r.result
    /\ q.attempt = r.attempt /\ q.version = r.version /\ q.calm = r.calm
    /\ q.action = r.action /\ q.group = r.group

LEMMA MovedRow ==
    ASSUME NEW r \in CallRow, NEW pc \in {"attempt", "lead", "follow", "group"}
    PROVE  /\ [r EXCEPT !.pc = pc] \in CallRow /\ [r EXCEPT !.pc = pc].pc = pc
           /\ [r EXCEPT !.pc = pc].within = r.within
           /\ Alike([r EXCEPT !.pc = pc], r)
           /\ Running(r) => BatchInv([r EXCEPT !.pc = pc])
<1> DEFINE q == [r EXCEPT !.pc = pc]
<1>1. q \in CallRow /\ q.pc = pc /\ q.within = r.within /\ Alike(q, r)
  BY DEF CallRow, Alike
<1> HIDE DEF q
<1>2. Running(r) => BatchInv(q)
  BY <1>1 DEF Running, BatchInv, Alike
<1>3. QED
  BY <1>1, <1>2 DEF q

LEMMA ReturnBatch ==
    ASSUME NEW r \in CallRow, NEW result \in {"ok", "failed", "context"},
           r.given \subseteq r.keys, result = "ok" => r.given = r.keys
    PROVE  BatchInv(Return(r, result))
  BY ReturnRow DEF BatchInv

LEMMA AgainBatch ==
    ASSUME NEW r, Running(r), NEW action \in {"refresh", "retry", "never"}
    PROVE  Again(r, action) \in CallRow /\ BatchInv(Again(r, action))
<1>1. r \in CallRow
  BY DEF Running
<1> DEFINE a == Again(r, action)
<1>2. /\ a \in CallRow /\ a.keys = r.keys /\ a.given = r.given
      /\ a = Return(r, "failed") \/ (a.pc = "wait" /\ a.done = r.done /\ a.result = r.result)
  BY <1>1, AgainRow
<1> HIDE DEF a
<1>3. BatchInv(a)
  <2>1. CASE a = Return(r, "failed")
    BY <1>1, <2>1, ReturnBatch DEF Running
  <2>2. CASE a.pc = "wait" /\ a.done = r.done /\ a.result = r.result
    BY <1>2, <2>2 DEF BatchInv, Running
  <2>3. QED
    BY <1>2, <2>1, <2>2
<1>4. QED
  BY <1>2, <1>3 DEF a

LEMMA ObservedRuns ==
    ASSUME ClientTypes, NEW r, Running(r)
    PROVE  Running(Observed(r))
<1>1. r \in CallRow
  BY DEF Running
<1>2. QED
  BY <1>1, ObservedRow DEF Running

LEMMA GroupedBatch ==
    ASSUME ClientTypes, NEW r, Running(r)
    PROVE  Grouped(r) \in CallRow /\ BatchInv(Grouped(r))
<1>1. r \in CallRow
  BY DEF Running
<1> DEFINE a == Grouped(r)
<1>2. CASE a = Again(Observed(r), "refresh")
  BY <1>2, ObservedRuns, AgainBatch
<1>3. CASE a # Again(Observed(r), "refresh")
  <2>1. /\ a \in CallRow /\ a.keys = r.keys /\ a.given = r.given
        /\ \A s \in r.keys \ r.done : Table[s].node # None
        /\ a.pc = "groups" /\ a.done = r.done /\ a.result = r.result
        /\ \A d \in Node :
             LET g == a.group[d]
             IN  /\ g.keys = {s \in r.keys \ r.done : Table[s].node = d}
                 /\ g.at = IF g.keys = {} THEN "none" ELSE "ready"
                 /\ g.result = "none"
    BY <1>1, <1>3, GroupedRow
  <2> HIDE DEF a
  <2>2. \A s \in r.keys \ r.done : \E d \in Node : s \in a.group[d].keys
    <3> SUFFICES ASSUME NEW s \in r.keys \ r.done
                 PROVE  \E d \in Node : s \in a.group[d].keys
      OBVIOUS
    <3>1. s \in Slot
      BY <1>1 DEF CallRow
    <3>2. Table[s].node \in Node
      BY <2>1, <3>1, TableType
    <3>3. s \in a.group[Table[s].node].keys
      BY <2>1, <3>2
    <3>4. QED
      BY <3>2, <3>3
  <2>3. BatchInv(a)
    BY <2>1, <2>2 DEF BatchInv, Running
  <2>4. QED
    BY <2>1, <2>3 DEF a
<1>4. QED
  BY <1>2, <1>3

LEMMA DisturbedRows ==
    ASSUME NEW C \in [Caller -> CallRow]
    PROVE  /\ Disturbed(C) \in [Caller -> CallRow]
           /\ \A c \in Caller :
                /\ Disturbed(C)[c] = [C[c] EXCEPT !.calm = FALSE]
                /\ ~Disturbed(C)[c].calm /\ Disturbed(C)[c].pc = C[c].pc
                /\ BatchInv(C[c]) => BatchInv(Disturbed(C)[c])
<1> SUFFICES ASSUME NEW c \in Caller
             PROVE  LET q == [C[c] EXCEPT !.calm = FALSE]
                    IN  q \in CallRow /\ ~q.calm /\ q.pc = C[c].pc /\ (BatchInv(C[c]) => BatchInv(q))
  BY DEF Disturbed
<1> DEFINE r == C[c]
           q == [r EXCEPT !.calm = FALSE]
<1>1. r \in CallRow
  OBVIOUS
<1> HIDE DEF r
<1>2. /\ q \in CallRow /\ ~q.calm /\ q.pc = r.pc /\ q.keys = r.keys /\ q.done = r.done
      /\ q.given = r.given /\ q.result = r.result /\ q.group = r.group
  BY <1>1 DEF CallRow
<1> HIDE DEF q
<1>3. BatchInv(r) => BatchInv(q)
  BY <1>2 DEF BatchInv
<1>4. QED
  BY <1>2, <1>3 DEF q, r

\* A step that replaces one call.
LEMMA CallSet ==
    ASSUME NEW C \in [Caller -> CallRow], \A e \in Caller : BatchInv(C[e]),
           NEW c \in Caller, NEW x \in CallRow, BatchInv(x),
           call' = [C EXCEPT ![c] = x]
    PROVE  call' \in [Caller -> CallRow] /\ Batches'
<1>1. call' \in [Caller -> CallRow] /\ \A e \in Caller : call'[e] = IF e = c THEN x ELSE C[e]
  OBVIOUS
<1>2. \A e \in Caller : BatchInv(call'[e])
  BY <1>1
<1>3. Batches' <=> \A e \in Caller : BatchInv(call'[e])
  BY DEF Batches, BatchInv
<1>4. QED
  BY <1>1, <1>2, <1>3

LEMMA RunningCall ==
    ASSUME ClientTypes, Batches, NEW c \in Caller, call[c].pc # "returned"
    PROVE  call[c] \in CallRow /\ Running(call[c])
  BY DEF ClientTypes, Batches, BatchInv, Running

\* The fleet and its routes.
FleetTypes ==
    /\ holder \in [Slot -> [node : Node, epoch : Nat]]
    /\ routes \in [0..MaxVersion -> Route]
    /\ latest \in 1..MaxVersion
    /\ latest = MaxVersion => holder = routes[latest]
    /\ known \in [Node -> 1..latest]
RouterTypes ==
    /\ router \in 0..latest
    /\ refresh \in [leader : Caller \cup {None}, known : 0..latest,
                    result : {"none", "ok", "refresh"}, version : 0..latest]

LEMMA TypesInParts ==
    ClientTypes <=> FleetTypes /\ RouterTypes /\ call \in [Caller -> CallRow]
  BY DEF ClientTypes, FleetTypes, RouterTypes

LEMMA FleetStands == ASSUME FleetTypes, UNCHANGED fleet PROVE FleetTypes'
  BY DEF FleetTypes, fleet

LEMMA RouterStands ==
    ASSUME RouterTypes, UNCHANGED <<latest, router, refresh>>
    PROVE  RouterTypes'
  BY DEF RouterTypes

LEMMA NoLoadType ==
    ASSUME ClientTypes
    PROVE  NoLoad \in [leader : Caller \cup {None}, known : 0..latest,
                       result : {"none", "ok", "refresh"}, version : 0..latest]
<1>1. latest \in Nat
  BY TableType
<1>2. QED
  BY <1>1 DEF NoLoad

LEMMA DisturbedBooks ==
    ASSUME Batches, call \in [Caller -> CallRow]
    PROVE  /\ Disturbed(call) \in [Caller -> CallRow]
           /\ \A e \in Caller : BatchInv(Disturbed(call)[e])
  BY DisturbedRows DEF Batches

Books == ClientTypes /\ Batches

\* The fleet's steps.
LEMMA MoveBooks ==
    ASSUME Books, NEW s \in Slot, NEW d \in Node, Move(s, d)
    PROVE  Books'
<1>1. latest \in Nat /\ holder \in [Slot -> [node : Node, epoch : Nat]] /\ latest # MaxVersion
  BY TableType, ClientConstants DEF Books, ClientTypes, Move
<1>2. holder' \in [Slot -> [node : Node, epoch : Nat]]
  BY <1>1 DEF Move
<1>3. FleetTypes'
  BY <1>1, <1>2, TypesInParts DEF FleetTypes, Move, Books
<1>4. RouterTypes'
  BY TypesInParts, RouterStands DEF Move, Books
<1>5. call' = Disturbed(call)
  BY DEF Move
<1>6. call' \in [Caller -> CallRow] /\ \A e \in Caller : BatchInv(call'[e])
  BY <1>5, DisturbedBooks, TypesInParts DEF Books
<1>7. Batches' <=> \A e \in Caller : BatchInv(call'[e])
  BY DEF Batches, BatchInv
<1>8. ClientTypes' <=> FleetTypes' /\ RouterTypes' /\ call' \in [Caller -> CallRow]
  BY DEF ClientTypes, FleetTypes, RouterTypes, Route, CallRow, GroupRow, Result
<1>9. QED
  BY <1>3, <1>4, <1>6, <1>7, <1>8 DEF Books

LEMMA PublishBooks ==
    ASSUME Books, Publish
    PROVE  Books'
<1>1. /\ latest \in 1..MaxVersion /\ MaxVersion \in Nat /\ latest # MaxVersion
      /\ latest' = latest + 1 /\ latest + 1 \in 1..MaxVersion
  BY ClientConstants DEF Books, ClientTypes, Publish
<1>2. holder \in Route
  <2>1. holder \in [Slot -> [node : Node, epoch : Nat]]
    BY DEF Books, ClientTypes
  <2>2. QED
    BY <2>1 DEF Route
<1>3. routes' \in [0..MaxVersion -> Route] /\ routes'[latest'] = holder
  BY <1>1, <1>2 DEF Publish, Books, ClientTypes
<1>4. known \in [Node -> 1..latest']
  BY <1>1 DEF Books, ClientTypes
<1>5. FleetTypes'
  BY <1>1, <1>3, <1>4 DEF FleetTypes, Publish, Books, ClientTypes
<1>6. RouterTypes'
  <2>1. 0..latest \subseteq 0..latest'
    BY <1>1
  <2>2. QED
    BY <2>1 DEF RouterTypes, Publish, Books, ClientTypes
<1>7. UNCHANGED call
  BY DEF Publish
<1>8. QED
  BY <1>5, <1>6, <1>7 DEF Books, Batches, BatchInv, ClientTypes, FleetTypes, RouterTypes

LEMMA LearnBooks ==
    ASSUME Books, NEW d \in Node, Learn(d)
    PROVE  Books'
<1>1. known' \in [Node -> 1..latest]
  <2>1. latest \in 1..latest /\ known \in [Node -> 1..latest]
    BY ClientConstants DEF Books, ClientTypes
  <2>2. QED
    BY <2>1 DEF Learn
<1>2. UNCHANGED <<holder, routes, latest, router, refresh, call, faults>>
  BY DEF Learn
<1>3. QED
  BY <1>1, <1>2 DEF Books, Batches, BatchInv, ClientTypes

\* A step that leaves the fleet alone.
LEMMA CallBooks ==
    ASSUME Books, UNCHANGED fleet, RouterTypes', call' \in [Caller -> CallRow], Batches'
    PROVE  Books'
<1>1. FleetTypes'
  BY FleetStands, TypesInParts DEF Books
<1>2. QED
  BY <1>1 DEF Books, ClientTypes, FleetTypes, RouterTypes

-----------------------------------------------------------------------------
\* Client: the calls' steps.

LEMMA BeginBooks ==
    ASSUME Books, NEW c \in Caller, NEW K \in Wanted, Begin(c, K)
    PROVE  Books'
<1> DEFINE x == [NoCall EXCEPT !.pc = "attempt", !.keys = K, !.calm = Calm]
<1>1. x \in CallRow /\ BatchInv(x)
  <2>1. K \in SUBSET Slot /\ Calm \in BOOLEAN
    BY ClientConstants DEF Calm
  <2> DEFINE blank == NoCall.group
  <2>2. NoCall \in CallRow /\ blank \in [Node -> GroupRow]
    BY NoGroups
  <2>3. /\ x \in CallRow /\ x.pc = "attempt" /\ x.keys = K /\ x.done = NoCall.done
        /\ x.given = NoCall.given /\ x.result = NoCall.result
    BY <2>1, <2>2 DEF CallRow
  <2> HIDE DEF x
  <2>4. BatchInv(x)
    BY <2>3, NoGroups DEF BatchInv
  <2>5. QED
    BY <2>3, <2>4
<1> HIDE DEF x
<1>2. call' = [call EXCEPT ![c] = x]
  BY DEF Begin, x
<1>3. call' \in [Caller -> CallRow] /\ Batches'
  BY <1>1, <1>2, CallSet DEF Books, Batches, ClientTypes
<1>4. UNCHANGED fleet /\ RouterTypes'
  BY RouterStands, TypesInParts DEF Begin, Books, fleet
<1>5. QED
  BY <1>3, <1>4, CallBooks

LEMMA RefreshBooks ==
    ASSUME Books, NEW c \in Caller, NEW r, Running(r), Refresh(c, r), UNCHANGED <<fleet, router>>
    PROVE  Books'
<1>1. r \in CallRow
  BY DEF Running
<1>2. CASE refresh.leader = None
  <2>1. call' = [call EXCEPT ![c] = [r EXCEPT !.pc = "lead"]]
    BY <1>2 DEF Refresh
  <2>2. call' \in [Caller -> CallRow] /\ Batches'
    <3>1. [r EXCEPT !.pc = "lead"] \in CallRow /\ BatchInv([r EXCEPT !.pc = "lead"])
      BY <1>1, MovedRow
    <3>2. QED
      BY <2>1, <3>1, CallSet DEF Books, Batches, ClientTypes
  <2>3. refresh' = [NoLoad EXCEPT !.leader = c, !.known = router]
    BY <1>2 DEF Refresh
  <2>4. RouterTypes'
    <3>1. router \in 0..latest
      BY DEF Books, ClientTypes
    <3>2. refresh' \in [leader : Caller \cup {None}, known : 0..latest,
                    result : {"none", "ok", "refresh"}, version : 0..latest]
      BY <2>3, <3>1, NoLoadType DEF Books
    <3>3. QED
      BY <3>1, <3>2 DEF RouterTypes, fleet
  <2>5. QED
    BY <2>2, <2>4, CallBooks
<1>3. CASE refresh.leader # None
  <2>1. call' = [call EXCEPT ![c] = [r EXCEPT !.pc = "follow"]] /\ UNCHANGED refresh
    BY <1>3 DEF Refresh
  <2>2. call' \in [Caller -> CallRow] /\ Batches'
    <3>1. [r EXCEPT !.pc = "follow"] \in CallRow /\ BatchInv([r EXCEPT !.pc = "follow"])
      BY <1>1, MovedRow
    <3>2. QED
      BY <2>1, <3>1, CallSet DEF Books, Batches, ClientTypes
  <2>3. RouterTypes'
    BY <2>1, RouterStands, TypesInParts DEF Books, fleet
  <2>4. QED
    BY <2>2, <2>3, CallBooks
<1>4. QED
  BY <1>2, <1>3

\* A step of one call that needs no load.
LEMMA OwnBooks ==
    ASSUME Books, NEW c \in Caller, NEW x \in CallRow, BatchInv(x),
           call' = [call EXCEPT ![c] = x], UNCHANGED <<fleet, router, refresh>>
    PROVE  Books'
<1>1. call' \in [Caller -> CallRow] /\ Batches'
  BY CallSet DEF Books, Batches, ClientTypes
<1>2. RouterTypes'
  BY RouterStands, TypesInParts DEF Books, fleet
<1>3. QED
  BY <1>1, <1>2, CallBooks

\* A first attempt notes the version it begins with.
LEMMA StartedRow ==
    ASSUME NEW r, Running(r), NEW v \in Nat, NEW w \in BOOLEAN
    PROVE  LET q == [r EXCEPT !.version = v, !.within = w]
           IN  /\ Running(q) /\ q.version = v /\ q.within = w /\ q.attempt = r.attempt
               /\ q.calm = r.calm /\ q.pc = r.pc /\ q.keys = r.keys /\ q.done = r.done
<1> DEFINE q == [r EXCEPT !.version = v, !.within = w]
<1>1. /\ q \in CallRow /\ q.version = v /\ q.within = w /\ q.attempt = r.attempt
      /\ q.calm = r.calm /\ q.pc = r.pc /\ q.keys = r.keys /\ q.done = r.done
      /\ q.given = r.given /\ q.result = r.result
  BY DEF CallRow, Running
<1> HIDE DEF q
<1>2. Running(q)
  BY <1>1 DEF Running
<1>3. QED
  BY <1>1, <1>2 DEF q

LEMMA AttemptBooks ==
    ASSUME Books, NEW c \in Caller, Attempt(c)
    PROVE  Books'
<1> DEFINE r == [call[c] EXCEPT !.version = router, !.within = router = 0]
<1>1. router \in Nat /\ (router = 0) \in BOOLEAN
  BY TableType DEF Books
<1>2. Running(call[c])
  BY RunningCall DEF Attempt, Books
<1>3. Running(r)
  BY <1>1, <1>2, StartedRow
<1> HIDE DEF r
<1>4. CASE router = 0
  <2>1. Refresh(c, r) /\ UNCHANGED <<fleet, router>>
    BY <1>4 DEF Attempt, r
  <2>2. QED
    BY <1>3, <2>1, RefreshBooks
<1>5. CASE router # 0
  <2>1. call' = [call EXCEPT ![c] = Grouped(r)] /\ UNCHANGED <<fleet, router, refresh>>
    BY <1>5 DEF Attempt, r
  <2>2. Grouped(r) \in CallRow /\ BatchInv(Grouped(r))
    BY <1>3, GroupedBatch DEF Books
  <2>3. QED
    BY <2>1, <2>2, OwnBooks
<1>6. QED
  BY <1>4, <1>5

LEMMA ResumeBooks ==
    ASSUME Books, NEW c \in Caller, Resume(c)
    PROVE  Books'
<1>1. Running(call[c]) /\ call[c] \in CallRow /\ call \in [Caller -> CallRow]
  BY RunningCall DEF Resume, Books, ClientTypes
<1>2. CASE Refresh(c, call[c]) /\ UNCHANGED <<fleet, router>>
  BY <1>1, <1>2, RefreshBooks
<1>3. CASE call' = [call EXCEPT ![c].pc = "attempt"] /\ UNCHANGED <<fleet, router, refresh>>
  <2>1. call' = [call EXCEPT ![c] = [call[c] EXCEPT !.pc = "attempt"]]
    BY <1>1, <1>3
  <2>2. [call[c] EXCEPT !.pc = "attempt"] \in CallRow
        /\ BatchInv([call[c] EXCEPT !.pc = "attempt"])
    BY <1>1, MovedRow
  <2>3. QED
    BY <1>3, <2>1, <2>2, OwnBooks
<1>4. QED
  BY <1>2, <1>3 DEF Resume

LEMMA GroupBooks ==
    ASSUME Books, NEW c \in Caller, Group(c)
    PROVE  Books'
<1>1. Running(call[c])
  BY RunningCall DEF Group, Books
<1>2. Grouped(call[c]) \in CallRow /\ BatchInv(Grouped(call[c]))
  BY <1>1, GroupedBatch DEF Books
<1>3. QED
  BY <1>2, OwnBooks DEF Group

LEMMA LoadBooks ==
    ASSUME Books, NEW c \in Caller, NEW d \in Node, Load(c, d)
    PROVE  Books'
<1>1. /\ latest \in Nat /\ known[d] \in 1..latest /\ refresh.known \in 0..latest
      /\ router \in 0..latest
      /\ refresh \in [leader : Caller \cup {None}, known : 0..latest,
                      result : {"none", "ok", "refresh"}, version : 0..latest]
  BY TableType DEF Books, ClientTypes
<1>2. CASE refresh' = GetRoute(d) /\ UNCHANGED <<call, faults>>
  <2>1. refresh' = [refresh EXCEPT !.result = "ok", !.version = Max({known[d], refresh.known})]
    BY <1>1, <1>2 DEF GetRoute
  <2>2. Max({known[d], refresh.known}) \in 0..latest
    BY <1>1, MaxOfTwo
  <2>3. RouterTypes'
    BY <1>1, <2>1, <2>2 DEF RouterTypes, Load, fleet
  <2>4. UNCHANGED fleet /\ call' \in [Caller -> CallRow] /\ Batches'
    BY <1>2 DEF Load, Books, Batches, BatchInv, ClientTypes
  <2>5. QED
    BY <2>3, <2>4, CallBooks
<1>3. CASE refresh' = [refresh EXCEPT !.result = "refresh"] /\ call' = Disturbed(call)
  <2>1. RouterTypes'
    BY <1>1, <1>3 DEF RouterTypes, Load, fleet
  <2>2. call' \in [Caller -> CallRow] /\ \A e \in Caller : BatchInv(call'[e])
    BY <1>3, DisturbedBooks DEF Books, ClientTypes
  <2>3. UNCHANGED fleet /\ Batches'
    <3>1. Batches' <=> \A e \in Caller : BatchInv(call'[e])
      BY DEF Batches, BatchInv
    <3>2. QED
      BY <2>2, <3>1 DEF Load
  <2>4. QED
    BY <2>1, <2>2, <2>3, CallBooks
<1>4. QED
  BY <1>2, <1>3 DEF Load

LEMMA ApplyRefreshBooks ==
    ASSUME Books, NEW c \in Caller, ApplyRefresh(c)
    PROVE  Books'
<1>1. /\ latest \in Nat /\ router \in 0..latest /\ refresh.version \in 0..latest
      /\ refresh.result \in {"ok", "refresh"}
  BY TableType DEF Books, ClientTypes, ApplyRefresh
<1>2. RouterTypes'
  <2>1. router' \in 0..latest
    BY <1>1, MaxOfTwo DEF ApplyRefresh
  <2>2. QED
    BY <2>1, NoLoadType DEF RouterTypes, ApplyRefresh, fleet, Books
<1>3. ASSUME NEW e \in Caller
      PROVE  call'[e] \in CallRow /\ BatchInv(call'[e])
  <2> DEFINE r == call[e]
  <2>1. call' = Shared(refresh.result)
    BY DEF ApplyRefresh
  <2>2. CASE r.pc \notin {"lead", "follow"}
    <3>1. call'[e] = r
      BY <2>1, <2>2 DEF Shared
    <3>2. QED
      BY <3>1 DEF Books, ClientTypes, Batches
  <2>3. CASE r.pc \in {"lead", "follow"}
    <3>1. Running(r) /\ r \in CallRow
      BY <2>3, RunningCall DEF Books
    <3>2. CASE refresh.result # "ok"
      <4>1. call'[e] = Again(IF r.within THEN Observed(r) ELSE r, refresh.result)
        BY <2>1, <2>3, <3>2 DEF Shared
      <4>2. Running(IF r.within THEN Observed(r) ELSE r)
        BY <3>1, ObservedRuns DEF Books
      <4>3. QED
        BY <1>1, <3>2, <4>1, <4>2, AgainBatch
    <3>3. CASE refresh.result = "ok" /\ r.within
      <4> DEFINE q == [r EXCEPT !.pc = "group", !.within = FALSE]
      <4>1. call'[e] = q
        BY <2>1, <2>3, <3>3 DEF Shared
      <4>2. /\ q \in CallRow /\ q.pc = "group" /\ q.keys = r.keys /\ q.done = r.done
            /\ q.given = r.given /\ q.result = r.result
        BY <3>1 DEF CallRow
      <4> HIDE DEF q
      <4>3. QED
        BY <3>1, <4>1, <4>2 DEF BatchInv, Running
    <3>4. CASE refresh.result = "ok" /\ ~r.within
      <4>1. call'[e] = [r EXCEPT !.pc = "attempt"]
        BY <2>1, <2>3, <3>4 DEF Shared
      <4>2. QED
        BY <3>1, <4>1, MovedRow
    <3>5. QED
      BY <3>2, <3>3, <3>4
  <2>4. QED
    BY <2>2, <2>3
<1>4. call' \in [Caller -> CallRow] /\ Batches'
  <2>1. call' = [e \in Caller |-> call'[e]]
    BY DEF ApplyRefresh, Shared
  <2>2. Batches' <=> \A e \in Caller : BatchInv(call'[e])
    BY DEF Batches, BatchInv
  <2>3. QED
    BY <1>3, <2>1, <2>2
<1>5. QED
  BY <1>2, <1>4, CallBooks DEF ApplyRefresh

\* What one group has come to.
Progress(r, d, g, given) == [r EXCEPT !.group = [r.group EXCEPT ![d] = g], !.given = given]

LEMMA GroupSet ==
    ASSUME NEW r \in CallRow, BatchInv(r), r.pc = "groups",
           NEW d \in Node, NEW g \in GroupRow, g.keys = r.group[d].keys, g.keys # {},
           g.at \in {"addressed", "answered"}, g.at = "answered" <=> g.result # "none",
           NEW given, r.given \subseteq given, given \subseteq r.keys,
           g.result = "ok" => g.keys \subseteq given
    PROVE  LET x == Progress(r, d, g, given)
           IN  /\ x \in CallRow /\ BatchInv(x)
               /\ x.pc = r.pc /\ x.calm = r.calm /\ x.attempt = r.attempt
               /\ x.version = r.version /\ x.group[d] = g
               /\ \A e \in Node : e # d => x.group[e] = r.group[e]
<1> DEFINE G == [r.group EXCEPT ![d] = g]
           x == [r EXCEPT !.group = G, !.given = given]
<1>1. r.group \in [Node -> GroupRow] /\ given \in SUBSET Slot
  BY DEF CallRow
<1>2. G \in [Node -> GroupRow] /\ G[d] = g /\ \A e \in Node : e # d => G[e] = r.group[e]
  BY <1>1
<1> HIDE DEF G
<1>3. /\ x \in CallRow /\ x.pc = r.pc /\ x.calm = r.calm /\ x.attempt = r.attempt
      /\ x.version = r.version /\ x.group = G /\ x.given = given /\ x.keys = r.keys
      /\ x.done = r.done /\ x.result = r.result
  BY <1>1, <1>2 DEF CallRow
<1> HIDE DEF x
<1>4. ASSUME NEW e \in Node
      PROVE  LET h == G[e]
             IN  /\ h.keys = r.group[e].keys /\ h.keys \subseteq r.keys
                 /\ h.at = "none" <=> h.keys = {}
                 /\ h.at = "answered" <=> h.result # "none"
                 /\ h.result = "ok" => h.keys \subseteq given
  <2>1. CASE e = d
    BY <1>2, <2>1 DEF BatchInv
  <2>2. CASE e # d
    BY <1>2, <2>2 DEF BatchInv
  <2>3. QED
    BY <2>1, <2>2
<1>5. \A s \in r.keys \ r.done : \E e \in Node : s \in G[e].keys
  BY <1>4 DEF BatchInv
<1>6. BatchInv(x)
  BY <1>3, <1>4, <1>5 DEF BatchInv
<1>7. QED
  BY <1>2, <1>3, <1>6 DEF x, G, Progress

LEMMA GroupReady ==
    ASSUME Books, NEW c \in Caller, NEW d \in Node, call[c].pc = "groups",
           call[c].group[d].at \in {"ready", "addressed"}
    PROVE  LET g == call[c].group[d]
           IN  /\ g \in GroupRow /\ g.keys # {} /\ g.keys \subseteq call[c].keys
               /\ g.keys \subseteq Slot /\ g.result = "none" /\ (CHOOSE s \in g.keys : TRUE) \in g.keys
               /\ call[c] \in CallRow /\ BatchInv(call[c])
<1> DEFINE r == call[c]
           g == r.group[d]
<1>1. r \in CallRow /\ BatchInv(r)
  BY DEF Books, ClientTypes, Batches
<1> HIDE DEF r
<1>2. /\ r.pc = "groups" /\ g.at \in {"ready", "addressed"}
  BY DEF r
<1>3. g \in GroupRow
  BY <1>1 DEF CallRow
<1>4. /\ g.keys # {} /\ g.keys \subseteq r.keys /\ g.result = "none"
  BY <1>1, <1>2 DEF BatchInv
<1>5. g.keys \subseteq Slot
  BY <1>3 DEF GroupRow
<1>6. QED
  BY <1>1, <1>3, <1>4, <1>5 DEF r

LEMMA AddressBooks ==
    ASSUME Books, NEW c \in Caller, NEW d \in Node, Address(c, d)
    PROVE  Books'
<1> DEFINE r == call[c]
           g == r.group[d]
<1>1. /\ g \in GroupRow /\ g.keys # {} /\ g.result = "none" /\ r \in CallRow /\ BatchInv(r)
      /\ call \in [Caller -> CallRow] /\ router \in Nat /\ r.pc = "groups"
      /\ r.group \in [Node -> GroupRow] /\ r.given \subseteq r.keys
  <2>1. r.pc = "groups" /\ g.at = "ready"
    BY DEF Address
  <2>2. g \in GroupRow /\ g.keys # {} /\ g.result = "none" /\ r \in CallRow /\ BatchInv(r)
    BY <2>1, GroupReady
  <2>3. call \in [Caller -> CallRow] /\ router \in Nat
    BY TableType DEF Books, ClientTypes
  <2>4. r.group \in [Node -> GroupRow] /\ r.given \subseteq r.keys
    <3> HIDE DEF r
    <3>1. QED
      BY <2>2 DEF CallRow, BatchInv
  <2>5. QED
    BY <2>1, <2>2, <2>3, <2>4
<1>2. PICK h : /\ h \in {[g EXCEPT !.at = "addressed", !.version = router],
                         [g EXCEPT !.at = "answered", !.result = "refresh"]}
               /\ call' = [call EXCEPT ![c].group[d] = h]
  BY DEF Address
<1>3. /\ h \in GroupRow /\ h.keys = g.keys
      /\ \/ h.at = "addressed" /\ h.result = "none"
         \/ h.at = "answered" /\ h.result = "refresh"
  BY <1>1, <1>2 DEF GroupRow, Result
<1> DEFINE x == Progress(r, d, h, r.given)
<1>4. call' = [call EXCEPT ![c] = x]
  <2>1. x = [r EXCEPT !.group[d] = h]
    BY <1>1 DEF CallRow, Progress
  <2>2. QED
    BY <1>1, <1>2, <2>1
<1>5. x \in CallRow /\ BatchInv(x)
  BY <1>1, <1>3, GroupSet
<1> HIDE DEF x
<1>6. QED
  BY <1>4, <1>5, OwnBooks DEF Address

\* A group with its answer, and what a node answers.
Answered(r, d, result) ==
    [r EXCEPT !.group = [r.group EXCEPT ![d] =
                  [r.group[d] EXCEPT !.at = "answered", !.result = result]],
              !.given = IF result = "ok" THEN r.given \cup r.group[d].keys ELSE r.given]

Reply(r, d) ==
    LET anchor == CHOOSE s \in r.group[d].keys : TRUE
    IN  IF Table[anchor].node = None THEN "refresh"
        ELSE Served(Table[anchor].node, r.group[d].keys, anchor, r.group[d].version,
                    Table[anchor].epoch)

\* How Send writes them.
RowWith(r, d, result, given) ==
    [r EXCEPT !.group[d].at = "answered", !.group[d].result = result, !.given = given]
RowWithResult(r, d, result) ==
    [r EXCEPT !.group[d].at = "answered", !.group[d].result = result]
CallsWith(C, c, d, result) ==
    [C EXCEPT ![c].group[d].at = "answered", ![c].group[d].result = result,
              ![c].given = IF result = "ok" THEN @ \cup C[c].group[d].keys ELSE @]
CallsWithResult(C, c, d, result) ==
    [C EXCEPT ![c].group[d].at = "answered", ![c].group[d].result = result]

LEMMA AnsweredRecord ==
    ASSUME NEW r \in CallRow, NEW d \in Node, NEW result \in Result
    PROVE  RowWith(r, d, result, IF result = "ok" THEN r.given \cup r.group[d].keys ELSE r.given)
           = Answered(r, d, result)
<1> DEFINE h == [r.group[d] EXCEPT !.at = "answered", !.result = result]
           a == [r.group[d] EXCEPT !.at = "answered"]
           G == [r.group EXCEPT ![d] = a]
           q == [r EXCEPT !.group = G]
<1>1. r.group[d] \in GroupRow /\ r.group \in [Node -> GroupRow]
  BY DEF CallRow
<1>2. [r EXCEPT !.group[d].at = "answered"] = q
  OBVIOUS
<1>3. h = [a EXCEPT !.result = result]
  BY <1>1 DEF GroupRow
<1>4. q.group = G
  BY DEF CallRow
<1>5. G[d] = a /\ [G EXCEPT ![d] = h] = [r.group EXCEPT ![d] = h]
  <2> HIDE DEF a, h
  <2>1. QED
    BY <1>1
<1>6. [q EXCEPT !.group[d].result = result] = [r EXCEPT !.group = [r.group EXCEPT ![d] = h]]
  <2>1. [q EXCEPT !.group[d].result = result]
        = [q EXCEPT !.group = [q.group EXCEPT ![d] = [q.group[d] EXCEPT !.result = result]]]
    OBVIOUS
  <2>2. [q EXCEPT !.group[d].result = result] = [q EXCEPT !.group = [r.group EXCEPT ![d] = h]]
    BY <2>1, <1>3, <1>4, <1>5
  <2> HIDE DEF h, G
  <2>3. QED
    BY <2>2 DEF CallRow
<1>7. QED
  BY <1>2, <1>6 DEF RowWith, Answered

LEMMA AnsweredExcept ==
    ASSUME NEW C \in [Caller -> CallRow], NEW c \in Caller, NEW d \in Node,
           NEW result \in Result
    PROVE  /\ CallsWith(C, c, d, result) = [C EXCEPT ![c] = Answered(C[c], d, result)]
           /\ result # "ok" =>
                CallsWithResult(C, c, d, result) = [C EXCEPT ![c] = Answered(C[c], d, result)]
<1> DEFINE r == C[c]
           given == IF result = "ok" THEN r.given \cup r.group[d].keys ELSE r.given
<1>1. r \in CallRow
  OBVIOUS
<1>2. RowWith(r, d, result, given) = Answered(r, d, result)
  BY <1>1, AnsweredRecord
<1>3. ASSUME result # "ok"
      PROVE  RowWithResult(r, d, result) = Answered(r, d, result)
  <2> DEFINE q == [r EXCEPT !.group[d].at = "answered", !.group[d].result = result]
  <2>1. q.given = r.given
    BY <1>1 DEF CallRow
  <2>2. [q EXCEPT !.given = r.given] = q
    BY <1>1, <2>1 DEF CallRow
  <2>3. [q EXCEPT !.given = r.given] = Answered(r, d, result)
    BY <1>2, <1>3 DEF RowWith
  <2>4. QED
    BY <2>2, <2>3 DEF RowWithResult
<1>4. /\ CallsWith(C, c, d, result) = [C EXCEPT ![c] = RowWith(r, d, result, given)]
      /\ CallsWithResult(C, c, d, result) = [C EXCEPT ![c] = RowWithResult(r, d, result)]
  <2> DEFINE r1 == [r EXCEPT !.group[d].at = "answered"]
             r2 == [r1 EXCEPT !.group[d].result = result]
             C1 == [C EXCEPT ![c].group[d].at = "answered"]
             C2 == [C1 EXCEPT ![c].group[d].result = result]
  <2>1. C1 = [C EXCEPT ![c] = r1]
    OBVIOUS
  <2>2. C1[c] = r1
    <3> HIDE DEF r1, C1
    <3>1. QED
      BY <2>1
  <2>3. C2 = [C1 EXCEPT ![c] = [C1[c] EXCEPT !.group[d].result = result]]
    <3> HIDE DEF C1
    <3>1. QED
      OBVIOUS
  <2>4. C2 = [C EXCEPT ![c] = r2]
    <3> HIDE DEF C1, C2, r1
    <3>1. C2 = [C1 EXCEPT ![c] = r2]
      BY <2>2, <2>3
    <3> HIDE DEF r2
    <3>2. QED
      BY <2>1, <3>1
  <2>5. C2[c] = r2
    <3> HIDE DEF C2, r2
    <3>1. QED
      BY <2>4
  <2>6. r2.given = r.given
    BY <1>1 DEF CallRow
  <2>7. [C2 EXCEPT ![c].given = IF result = "ok" THEN @ \cup C[c].group[d].keys ELSE @]
        = [C2 EXCEPT ![c].given = given]
    <3> HIDE DEF C2, r2
    <3>1. QED
      BY <2>5, <2>6
  <2>8. [C2 EXCEPT ![c].given = given] = [C EXCEPT ![c] = [r2 EXCEPT !.given = given]]
    <3> HIDE DEF C2, r2, given
    <3>1. [C2 EXCEPT ![c].given = given] = [C2 EXCEPT ![c] = [r2 EXCEPT !.given = given]]
      BY <2>5
    <3>2. QED
      BY <2>4, <3>1
  <2>9. QED
    BY <2>4, <2>7, <2>8 DEF RowWith, RowWithResult, CallsWith, CallsWithResult
<1>5. QED
  BY <1>2, <1>3, <1>4

LEMMA SendAnswers ==
    ASSUME Books, NEW c \in Caller, NEW d \in Node, Send(c, d)
    PROVE  \/ call' = [call EXCEPT ![c] = Answered(call[c], d, Reply(call[c], d))]
           \/ \E result \in {"refresh", "never"} :
                call' = [Disturbed(call) EXCEPT ![c] = Answered(Disturbed(call)[c], d, result)]
<1> DEFINE g == call[c].group[d]
           anchor == CHOOSE s \in g.keys : TRUE
           e == Table[anchor].node
           served == Served(e, g.keys, anchor, g.version, Table[anchor].epoch)
<1>1. call \in [Caller -> CallRow] /\ Disturbed(call) \in [Caller -> CallRow]
  BY DisturbedBooks DEF Books, ClientTypes
<1>2. CASE /\ e = None
           /\ call' = [call EXCEPT ![c].group[d].at = "answered",
                                   ![c].group[d].result = "refresh"]
  <2>1. Reply(call[c], d) = "refresh"
    BY <1>2 DEF Reply
  <2>2. CallsWithResult(call, c, d, "refresh")
        = [call EXCEPT ![c] = Answered(call[c], d, "refresh")]
    <3>1. "refresh" \in Result /\ "refresh" # "ok"
      BY DEF Result
    <3>2. QED
      BY <1>1, <3>1, AnsweredExcept
  <2>3. QED
    BY <1>2, <2>1, <2>2 DEF CallsWithResult
<1>3. CASE /\ e # None
           /\ call' = [call EXCEPT ![c].group[d].at = "answered",
                                   ![c].group[d].result = served,
                                   ![c].given = IF served = "ok" THEN @ \cup g.keys ELSE @]
  <2>1. Reply(call[c], d) = served /\ served \in Result
    BY <1>3 DEF Reply, Served, Result
  <2> HIDE DEF served
  <2>2. CallsWith(call, c, d, served)
        = [call EXCEPT ![c] = Answered(call[c], d, served)]
    BY <1>1, <2>1, AnsweredExcept
  <2>3. QED
    BY <1>3, <2>1, <2>2 DEF CallsWith
<1>4. ASSUME NEW result \in {"refresh", "never"},
             call' = [Disturbed(call) EXCEPT ![c].group[d].at = "answered",
                                             ![c].group[d].result = result]
      PROVE  call' = [Disturbed(call) EXCEPT ![c] = Answered(Disturbed(call)[c], d, result)]
  <2>1. result # "ok" /\ result \in Result
    BY DEF Result
  <2> DEFINE D == Disturbed(call)
  <2>2. D \in [Caller -> CallRow]
    BY <1>1
  <2> HIDE DEF D
  <2>3. CallsWithResult(D, c, d, result)
        = [D EXCEPT ![c] = Answered(D[c], d, result)]
    BY <2>1, <2>2, AnsweredExcept
  <2>4. QED
    BY <1>4, <2>3 DEF D, CallsWithResult
<1>5. QED
  BY <1>2, <1>3, <1>4 DEF Send

LEMMA AnsweredRow ==
    ASSUME NEW r \in CallRow, BatchInv(r), r.pc = "groups", NEW d \in Node,
           r.group[d].at = "addressed",
           NEW result \in {"ok", "expired", "retry", "refresh", "never"}
    PROVE  LET x == Answered(r, d, result)
           IN  /\ x \in CallRow /\ BatchInv(x)
               /\ x.pc = r.pc /\ x.calm = r.calm /\ x.attempt = r.attempt /\ x.version = r.version
               /\ x.group[d].keys = r.group[d].keys /\ x.group[d].at = "answered"
               /\ x.group[d].result = result
               /\ \A e \in Node : e # d => x.group[e] = r.group[e]
<1> DEFINE g == r.group[d]
           h == [g EXCEPT !.at = "answered", !.result = result]
           given == IF result = "ok" THEN r.given \cup g.keys ELSE r.given
<1>1. g \in GroupRow /\ g.keys # {} /\ g.keys \subseteq r.keys /\ r.given \subseteq r.keys
  <2>1. g \in GroupRow /\ r.given \subseteq r.keys
    BY DEF CallRow, BatchInv
  <2>2. QED
    BY <2>1 DEF BatchInv
<1>2. h \in GroupRow /\ h.keys = g.keys /\ h.at = "answered" /\ h.result = result
  BY <1>1 DEF GroupRow, Result
<1>3. Answered(r, d, result) = Progress(r, d, h, given)
  BY DEF Answered, Progress
<1>4. /\ r.given \subseteq given /\ given \subseteq r.keys /\ (h.result = "ok" => h.keys \subseteq given)
      /\ h.keys = r.group[d].keys /\ h.keys # {} /\ h.at \in {"addressed", "answered"}
      /\ h.at = "answered" <=> h.result # "none"
  BY <1>1, <1>2
<1> HIDE DEF h, given
<1> DEFINE x == Progress(r, d, h, given)
<1>5. /\ x \in CallRow /\ BatchInv(x)
      /\ x.pc = r.pc /\ x.calm = r.calm /\ x.attempt = r.attempt
      /\ x.version = r.version /\ x.group[d] = h
      /\ \A e \in Node : e # d => x.group[e] = r.group[e]
  BY <1>2, <1>4, GroupSet
<1>6. QED
  BY <1>2, <1>3, <1>5

LEMMA SendBooks ==
    ASSUME Books, NEW c \in Caller, NEW d \in Node, Send(c, d)
    PROVE  Books'
<1>1. /\ call[c] \in CallRow /\ BatchInv(call[c]) /\ call[c].pc = "groups"
      /\ call[c].group[d].at = "addressed" /\ UNCHANGED <<fleet, router, refresh>>
  BY DEF Books, ClientTypes, Batches, Send
<1>2. CASE call' = [call EXCEPT ![c] = Answered(call[c], d, Reply(call[c], d))]
  <2>1. Reply(call[c], d) \in {"ok", "expired", "retry", "refresh", "never"}
    BY DEF Reply, Served
  <2> DEFINE x == Answered(call[c], d, Reply(call[c], d))
  <2>2. x \in CallRow /\ BatchInv(x)
    BY <1>1, <2>1, AnsweredRow
  <2> HIDE DEF x
  <2>3. QED
    BY <1>1, <1>2, <2>2, OwnBooks DEF x
<1>3. ASSUME NEW result \in {"refresh", "never"},
             call' = [Disturbed(call) EXCEPT ![c] = Answered(Disturbed(call)[c], d, result)]
      PROVE  Books'
  <2> DEFINE D == Disturbed(call)
  <2>1. D \in [Caller -> CallRow] /\ \A e \in Caller : BatchInv(D[e])
    BY DisturbedBooks DEF Books, ClientTypes
  <2>2. D[c] = [call[c] EXCEPT !.calm = FALSE]
    BY DisturbedRows DEF Books, ClientTypes
  <2>3. D[c].pc = "groups" /\ D[c].group[d].at = "addressed"
    BY <1>1, <2>2 DEF CallRow
  <2> HIDE DEF D
  <2>4. Answered(D[c], d, result) \in CallRow /\ BatchInv(Answered(D[c], d, result))
    BY <2>1, <2>3, AnsweredRow
  <2>5. call' \in [Caller -> CallRow] /\ Batches'
    BY <1>3, <2>1, <2>4, CallSet DEF D
  <2>6. RouterTypes' /\ UNCHANGED fleet
    BY <1>1, RouterStands, TypesInParts DEF Books, fleet
  <2>7. QED
    BY <2>5, <2>6, CallBooks
<1>4. QED
  BY <1>2, <1>3, SendAnswers

\* An attempt that failed has kept what it was given.
LEMMA KeptRow ==
    ASSUME NEW r \in CallRow, BatchInv(r), r.pc = "groups"
    PROVE  LET q == [r EXCEPT !.done = Kept(r)]
           IN  /\ Running(q) /\ q.calm = r.calm /\ q.attempt = r.attempt
               /\ q.version = r.version
<1> DEFINE q == [r EXCEPT !.done = Kept(r)]
<1>1. Kept(r) \subseteq r.given /\ r.given \subseteq r.keys /\ r.result = "none"
  BY DEF Kept, BatchInv
<1>2. r.given \in SUBSET Slot
  BY DEF CallRow
<1>3. /\ q \in CallRow /\ q.done = Kept(r) /\ q.given = r.given /\ q.keys = r.keys
      /\ q.result = r.result /\ q.calm = r.calm /\ q.attempt = r.attempt /\ q.version = r.version
  BY <1>1, <1>2 DEF CallRow
<1> HIDE DEF q
<1>4. QED
  BY <1>1, <1>3 DEF Running, q

LEMMA CollectBooks ==
    ASSUME Books, NEW c \in Caller, Collect(c)
    PROVE  Books'
<1> DEFINE r == Observed(call[c])
           results == {r.group[d].result : d \in Node} \ {"none", "ok"}
<1>1. Running(call[c]) /\ call[c] \in CallRow /\ BatchInv(call[c]) /\ call[c].pc = "groups"
  <2>1. /\ r.pc = "groups" /\ call[c] \in CallRow
    BY DEF Collect, Books, ClientTypes
  <2>2. call[c].pc = "groups"
    BY <2>1, ObservedRow DEF Books
  <2>3. QED
    BY <2>1, <2>2, RunningCall DEF Books, Batches
<1>2. r \in CallRow /\ Running(r) /\ BatchInv(r) /\ r.pc = "groups"
  <2>1. /\ r \in CallRow /\ r.keys = call[c].keys /\ r.done = call[c].done
        /\ r.given = call[c].given /\ r.group = call[c].group /\ r.pc = call[c].pc
        /\ r.result = call[c].result
    BY <1>1, ObservedRow DEF Books
  <2> HIDE DEF r
  <2>2. BatchInv(r) /\ Running(r)
    BY <1>1, <2>1 DEF BatchInv, Running
  <2>3. QED
    BY <1>1, <2>1, <2>2
<1>3. /\ \/ "never" \in results
         \/ \A d \in Node : r.group[d].at \in {"none", "answered"}
      /\ call' = [call EXCEPT ![c] =
                      IF results = {} THEN Return(r, "ok")
                      ELSE Again([r EXCEPT !.done = Kept(r)], Outcome(results))]
      /\ UNCHANGED <<fleet, router, refresh>>
  BY DEF Collect
<1> HIDE DEF r
<1>4. CASE results = {}
  <2>1. \A d \in Node : r.group[d].at \in {"none", "answered"}
                       /\ r.group[d].result \in {"none", "ok"}
    BY <1>3, <1>4
  <2>2. r.keys \subseteq r.given
    <3> SUFFICES ASSUME NEW s \in r.keys \ r.done
                 PROVE  s \in r.given
      BY <1>2 DEF BatchInv
    <3>1. PICK d \in Node : s \in r.group[d].keys
      BY <1>2 DEF BatchInv
    <3>2. r.group[d].result = "ok"
      BY <1>2, <2>1, <3>1 DEF BatchInv
    <3>3. QED
      BY <1>2, <3>1, <3>2 DEF BatchInv
  <2>3. Return(r, "ok") \in CallRow /\ BatchInv(Return(r, "ok"))
    <3>1. r.given = r.keys
      BY <1>2, <2>2 DEF Running
    <3>2. QED
      BY <1>2, <3>1, ReturnRow, ReturnBatch
  <2>4. QED
    BY <1>3, <1>4, <2>3, OwnBooks
<1>5. CASE results # {}
  <2>1. Running([r EXCEPT !.done = Kept(r)])
    BY <1>2, KeptRow
  <2>2. Outcome(results) \in {"refresh", "retry", "never"}
    BY DEF Outcome
  <2> DEFINE x == Again([r EXCEPT !.done = Kept(r)], Outcome(results))
  <2>3. x \in CallRow /\ BatchInv(x)
    BY <2>1, <2>2, AgainBatch
  <2>4. call' = [call EXCEPT ![c] = x]
    BY <1>3, <1>5
  <2> HIDE DEF x
  <2>5. QED
    BY <1>3, <2>3, <2>4, OwnBooks
<1>6. QED
  BY <1>4, <1>5

LEMMA EndContextBooks ==
    ASSUME Books, NEW c \in Caller, EndContext(c)
    PROVE  Books'
<1> DEFINE ended == Return([call[c] EXCEPT !.calm = FALSE], "context")
           shared == [d \in Caller |-> IF call[d].pc = "follow" THEN Return(call[d], "context")
                                       ELSE call[d]]
<1>1. /\ call \in [Caller -> CallRow] /\ \A e \in Caller : BatchInv(call[e])
  BY DEF Books, ClientTypes, Batches
<1>2. ended \in CallRow /\ BatchInv(ended)
  <2> DEFINE q == [call[c] EXCEPT !.calm = FALSE]
  <2>1. q \in CallRow /\ q.given = call[c].given /\ q.keys = call[c].keys
    BY <1>1 DEF CallRow
  <2>2. q.given \subseteq q.keys
    BY <1>1, <2>1 DEF BatchInv
  <2> HIDE DEF q
  <2>3. Return(q, "context") \in CallRow /\ BatchInv(Return(q, "context"))
    BY <2>1, <2>2, ReturnRow, ReturnBatch
  <2>4. QED
    BY <2>3 DEF q
<1>3. shared \in [Caller -> CallRow] /\ \A e \in Caller : BatchInv(shared[e])
  <2>1. ASSUME NEW e \in Caller
        PROVE  Return(call[e], "context") \in CallRow /\ BatchInv(Return(call[e], "context"))
    <3>1. call[e] \in CallRow /\ call[e].given \subseteq call[e].keys
      BY <1>1 DEF BatchInv
    <3>2. QED
      BY <3>1, ReturnRow, ReturnBatch
  <2>2. QED
    BY <1>1, <2>1
<1> HIDE DEF ended, shared
<1>4. CASE call[c].pc = "lead"
  <2>1. refresh' = NoLoad /\ call' = [Disturbed(shared) EXCEPT ![c] = ended]
        /\ UNCHANGED <<fleet, router>>
    BY <1>4 DEF EndContext, ended, shared
  <2> DEFINE D == Disturbed(shared)
  <2>2. D \in [Caller -> CallRow] /\ \A e \in Caller : BatchInv(D[e])
    BY <1>3, DisturbedRows
  <2> HIDE DEF D
  <2>3. call' \in [Caller -> CallRow] /\ Batches'
    BY <1>2, <2>1, <2>2, CallSet DEF D
  <2>4. RouterTypes'
    <3>1. router \in 0..latest
      BY DEF Books, ClientTypes
    <3>2. QED
      BY <2>1, <3>1, NoLoadType DEF RouterTypes, fleet, Books
  <2>5. QED
    BY <2>1, <2>3, <2>4, CallBooks
<1>5. CASE call[c].pc # "lead"
  <2>1. call' = [Disturbed(call) EXCEPT ![c] = ended] /\ UNCHANGED <<fleet, router, refresh>>
    BY <1>5 DEF EndContext, ended
  <2> DEFINE D == Disturbed(call)
  <2>2. D \in [Caller -> CallRow] /\ \A e \in Caller : BatchInv(D[e])
    BY <1>1, DisturbedRows
  <2> HIDE DEF D
  <2>3. call' \in [Caller -> CallRow] /\ Batches'
    BY <1>2, <2>1, <2>2, CallSet DEF D
  <2>4. RouterTypes'
    BY <2>1, RouterStands, TypesInParts DEF Books, fleet
  <2>5. QED
    BY <2>1, <2>3, <2>4, CallBooks
<1>6. QED
  BY <1>4, <1>5

LEMMA BooksStep ==
    ASSUME Books, [Next]_vars
    PROVE  Books'
<1>1. CASE UNCHANGED vars
  BY <1>1 DEF vars, Books, Batches, BatchInv, ClientTypes
<1>2. CASE Next
  BY <1>2, MoveBooks, PublishBooks, LearnBooks, BeginBooks, AttemptBooks, ResumeBooks,
     GroupBooks, CollectBooks, ApplyRefreshBooks, LoadBooks, AddressBooks, SendBooks,
     EndContextBooks DEF Next, Step
<1>3. QED
  BY <1>1, <1>2

LEMMA BooksHold == Spec => []Books
<1>1. Init => Books
  <2> SUFFICES ASSUME Init PROVE Books
    OBVIOUS
  <2>1. NoOwner \in Route
    BY DEF NoOwner, Route
  <2>2. holder \in Route
    BY DEF Init, Route
  <2>3. routes \in [0..MaxVersion -> Route]
    BY <2>1, <2>2 DEF Init
  <2>4. latest = MaxVersion => holder = routes[latest]
    BY ClientConstants DEF Init
  <2>5. FleetTypes
    <3>1. holder \in [Slot -> [node : Node, epoch : Nat]]
      BY DEF Init
    <3>2. latest \in 1..MaxVersion /\ known \in [Node -> 1..latest]
      BY ClientConstants DEF Init
    <3>3. QED
      BY <2>3, <2>4, <3>1, <3>2 DEF FleetTypes
  <2>6. NoLoad \in [leader : Caller \cup {None}, known : 0..latest,
                    result : {"none", "ok", "refresh"}, version : 0..latest]
    BY DEF NoLoad, Init
  <2>7. RouterTypes
    BY <2>6 DEF Init, RouterTypes
  <2>8. BatchInv(NoCall) /\ NoCall \in CallRow
    BY NoGroups DEF BatchInv
  <2>9. QED
    BY <2>5, <2>7, <2>8, TypesInParts DEF Init, Books, Batches
<1>2. Books /\ [Next]_vars => Books'
  BY BooksStep
<1>3. QED
  BY <1>1, <1>2, PTL DEF Spec

\* A batch that succeeds has a block from an owner for every key it asked for, however
\* often what was left of it was regrouped, its nodes were lost or its slots moved
\* (Client.FetchNextBatch, groupKeyRequests).
THEOREM BatchesAreWhole == Spec => []WholeBatch
<1>1. Books => WholeBatch
  BY DEF Books, Batches, BatchInv, WholeBatch
<1>2. QED
  BY <1>1, BooksHold, PTL

-----------------------------------------------------------------------------
\* Client: a fleet at rest.

LEMMA BehindBounds ==
    ASSUME ClientTypes
    PROVE  /\ Behind \in 0..2 /\ (BadLoad => Behind = 2)
           /\ ~BadLoad => Behind = IF router # latest THEN 1 ELSE 0
           /\ router # latest => Behind >= 1
  BY DEF Behind

\* Having less to catch up with does not hurt.
LEMMA RestFewer ==
    ASSUME NEW r \in CallRow, NEW ro \in Nat, NEW a \in Nat, NEW b \in Nat, a <= b,
           NEW l \in Nat, NEW R, RestAt(r, ro, b, l, R)
    PROVE  RestAt(r, ro, a, l, R)
<1>1. r.attempt \in Nat /\ r.version \in Nat
  BY DEF CallRow
<1>2. ASSUME NEW n \in Nat, r.attempt + b <= n
      PROVE  r.attempt + a <= n
  BY <1>1, <1>2
<1> DEFINE good == Good(r, ro, l, R)
           refused == Refused(r, l)
<1> HIDE DEF good, refused
<1>3. QED
  BY <1>1 DEF RestAt, good, refused

\* A route that is applied to the router of a call that waits for something else.
LEMMA RestApplied ==
    ASSUME NEW r \in CallRow, NEW l \in Nat, NEW ro \in 0..l, NEW o \in ro..l,
           NEW a \in 0..2, NEW b \in 0..2, NEW R, RestAt(r, ro, b, l, R),
           r.pc \notin {"lead", "follow"}, ro # l => b >= 1,
           \/ o = l /\ a = 0
           \/ b = 2 /\ a = IF o # l THEN 1 ELSE 0
    PROVE  RestAt(r, o, a, l, R)
<1>1. r.attempt \in Nat /\ r.version \in Nat
  BY DEF CallRow
<1>2. /\ r.attempt <= 2 /\ r.version <= o
      /\ r.pc = "attempt" => o = l \/ r.attempt + a <= 2
      /\ r.pc = "group" => r.version = 0 /\ (o = l \/ r.attempt + a <= 1)
      /\ r.pc = "returned" => r.result = "ok"
  BY <1>1 DEF RestAt
<1>3. ASSUME r.pc = "wait"
      PROVE  /\ r.action = "refresh" /\ ~r.within
             /\ r.attempt + a <= (IF o = r.version THEN 3 ELSE 2)
  BY <1>1, <1>3 DEF RestAt
<1>4. ASSUME r.pc = "groups"
      PROVE  \/ Good(r, o, l, R)
             \/ /\ Refused(r, l)
                /\ \/ r.version = 0 /\ r.attempt + a <= 1
                   \/ r.version # 0 /\ o = r.version /\ o # l /\ r.attempt + a <= 2
                   \/ r.version # 0 /\ o # r.version /\ r.attempt + a <= 1
  <2>1. CASE Good(r, ro, l, R)
    <3>1. o = l /\ o = ro
      BY <2>1 DEF Good
    <3>2. QED
      BY <2>1, <3>1
  <2>2. CASE ~Good(r, ro, l, R)
    <3> DEFINE refused == Refused(r, l)
    <3>1. /\ refused /\ r.version <= ro
          /\ \/ r.version = 0 /\ r.attempt + b <= 1
             \/ r.version # 0 /\ ro = r.version /\ ro # l /\ r.attempt + b <= 2
             \/ r.version # 0 /\ ro # r.version /\ r.attempt + b <= 1
      BY <1>4, <2>2 DEF RestAt
    <3> HIDE DEF refused
    <3>2. /\ \/ r.version = 0 /\ r.attempt + a <= 1
             \/ r.version # 0 /\ o = r.version /\ o # l /\ r.attempt + a <= 2
             \/ r.version # 0 /\ o # r.version /\ r.attempt + a <= 1
      BY <1>1, <3>1
    <3>3. QED
      BY <3>1, <3>2 DEF refused
  <2>3. QED
    BY <2>1, <2>2
<1>5. QED
  BY <1>2, <1>3, <1>4 DEF RestAt

\* A step of one call, in a fleet that stands still.
LEMMA RestOwn ==
    ASSUME Books, Books', AtRest, NEW c \in Caller, NEW x \in CallRow,
           call' = [call EXCEPT ![c] = x], UNCHANGED <<fleet, router>>, Behind' <= Behind,
           x.calm => Calm /\ RestAt(x, router, Behind', latest, routes[latest])
    PROVE  AtRest'
<1>1. /\ latest \in Nat /\ router \in Nat /\ Behind \in 0..2 /\ Behind' \in 0..2
      /\ call \in [Caller -> CallRow]
  BY TableType, BehindBounds DEF Books, ClientTypes, Behind
<1>2. Calm' = Calm /\ routes'[latest'] = routes[latest] /\ latest' = latest /\ router' = router
  BY DEF Calm, fleet
<1>3. ASSUME NEW e \in Caller, call'[e].calm
      PROVE  Calm /\ RestAt(call'[e], router, Behind', latest, routes[latest])
  <2>1. CASE e = c
    BY <1>1, <1>3, <2>1
  <2>2. CASE e # c
    <3>1. call'[e] = call[e] /\ call[e] \in CallRow /\ call[e].calm
      BY <1>1, <1>3, <2>2
    <3>2. Calm /\ RestAt(call[e], router, Behind, latest, routes[latest])
      BY <3>1 DEF AtRest
    <3> DEFINE a == Behind'
               b == Behind
    <3>3. a \in Nat /\ b \in Nat /\ a <= b
      BY <1>1
    <3> HIDE DEF a, b
    <3>4. RestAt(call[e], router, a, latest, routes[latest])
      BY <1>1, <3>1, <3>2, <3>3, RestFewer DEF b
    <3>5. QED
      BY <3>1, <3>2, <3>4 DEF a
  <2>3. QED
    BY <2>1, <2>2
<1>4. QED
  BY <1>2, <1>3 DEF AtRest

\* Without a calm call there is nothing to show.
LEMMA NoneCalm ==
    ASSUME \A e \in Caller : ~call'[e].calm
    PROVE  AtRest'
  BY DEF AtRest

LEMMA DisturbedRest ==
    ASSUME NEW C \in [Caller -> CallRow], NEW c \in Caller, NEW x,
           x = Disturbed(C)[c] \/ ~x.calm,
           call' = [Disturbed(C) EXCEPT ![c] = x]
    PROVE  AtRest'
<1>1. \A e \in Caller : ~call'[e].calm
  <2>1. Disturbed(C) \in [Caller -> CallRow] /\ \A e \in Caller : ~Disturbed(C)[e].calm
    BY DisturbedRows
  <2> DEFINE D == Disturbed(C)
  <2> HIDE DEF D
  <2>2. QED
    BY <2>1 DEF D
<1>2. QED
  BY <1>1, NoneCalm

LEMMA FleetRest ==
    ASSUME Books, AtRest,
           \/ \E s \in Slot, d \in Node : Move(s, d)
           \/ Publish
           \/ \E d \in Node : Learn(d)
    PROVE  AtRest'
<1>1. ASSUME NEW s \in Slot, NEW d \in Node, Move(s, d)
      PROVE  AtRest'
  <2>1. call' = Disturbed(call) /\ call \in [Caller -> CallRow]
    BY <1>1 DEF Move, Books, ClientTypes
  <2>2. QED
    BY <2>1, DisturbedRows, NoneCalm
<1>2. ASSUME ~Calm, UNCHANGED call
      PROVE  AtRest'
  BY <1>2, NoneCalm DEF AtRest
<1>3. CASE Publish
  BY <1>2, <1>3 DEF Publish, Calm
<1>4. ASSUME NEW d \in Node, Learn(d)
      PROVE  AtRest'
  <2>1. known[d] # latest
    BY <1>4 DEF Learn, Books, ClientTypes
  <2>2. QED
    BY <1>2, <1>4, <2>1 DEF Learn, Calm
<1>5. QED
  BY <1>1, <1>3, <1>4

LEMMA BeginRest ==
    ASSUME Books, Books', AtRest, NEW c \in Caller, NEW K \in Wanted, Begin(c, K)
    PROVE  AtRest'
<1> DEFINE x == [NoCall EXCEPT !.pc = "attempt", !.keys = K, !.calm = Calm]
<1>1. x \in CallRow /\ x.pc = "attempt" /\ x.attempt = 0 /\ x.version = 0 /\ x.calm = Calm
  <2>1. K \in SUBSET Slot /\ Calm \in BOOLEAN
    BY ClientConstants DEF Calm
  <2>2. NoCall \in CallRow /\ NoCall.attempt = 0 /\ NoCall.version = 0
    BY NoGroups DEF NoCall
  <2>3. QED
    BY <2>1, <2>2 DEF CallRow
<1> HIDE DEF x
<1>2. call' = [call EXCEPT ![c] = x] /\ UNCHANGED <<fleet, router, refresh>>
  BY DEF Begin, x
<1>3. Behind' = Behind /\ Behind \in 0..2 /\ Behind' <= Behind /\ router \in Nat
  BY <1>2, BehindBounds, TableType DEF Books, Behind, BadLoad, fleet
<1>4. RestAt(x, router, Behind', latest, routes[latest])
  BY <1>1, <1>3 DEF RestAt
<1>5. x.calm => Calm
  BY <1>1
<1>6. UNCHANGED <<fleet, router>>
  BY <1>2
<1> HIDE DEF x
<1>7. QED
  BY <1>1, <1>2, <1>3, <1>4, <1>5, <1>6, RestOwn

\* An attempt that fails while enough of them are left.
LEMMA RestAgain ==
    ASSUME MaxAttempts >= 3, NEW r \in CallRow, NEW ro \in Nat, NEW b \in 0..2, NEW l, NEW R,
           r.attempt <= 1, r.version <= ro,
           r.attempt + b <= IF ro = r.version THEN 2 ELSE 1
    PROVE  /\ Again(r, "refresh") \in CallRow /\ RestAt(Again(r, "refresh"), ro, b, l, R)
           /\ Again(r, "refresh").calm = r.calm
<1>1. r.attempt \in Nat /\ r.version \in Nat
  BY DEF CallRow
<1>2. ~("refresh" = "never" \/ r.attempt + 1 = MaxAttempts)
  BY <1>1, ClientConstants
<1> DEFINE a == Again(r, "refresh")
<1>3. /\ a \in CallRow /\ a.calm = r.calm /\ a.pc = "wait" /\ a.action = "refresh"
      /\ a.attempt = r.attempt + 1 /\ a.version = r.version /\ ~a.within
  BY <1>2, AgainRow
<1> HIDE DEF a
<1>4. RestAt(a, ro, b, l, R)
  BY <1>1, <1>3 DEF RestAt
<1>5. QED
  BY <1>3, <1>4 DEF a

\* In a fleet at rest the last route has an owner for every slot.
LEMMA CalmOwners ==
    ASSUME ClientTypes, Calm, NEW s \in Slot
    PROVE  /\ routes[latest][s].node \in Node /\ routes[latest][s].node # None
           /\ holder[s].node = routes[latest][s].node
  BY ClientConstants DEF Calm, ClientTypes

LEMMA RestGrouped ==
    ASSUME Books, Calm, MaxAttempts >= 3, NEW r \in CallRow, r.attempt <= 2,
           \/ r.version = 0 /\ (router = latest \/ r.attempt + Behind <= 1)
           \/ r.version = router /\ router # 0 /\ (router = latest \/ r.attempt + Behind <= 2)
    PROVE  /\ Grouped(r) \in CallRow /\ Grouped(r).calm = r.calm
           /\ RestAt(Grouped(r), router, Behind, latest, routes[latest])
<1>1. /\ r.attempt \in Nat /\ r.version \in Nat /\ router \in Nat /\ latest \in Nat
      /\ r.keys \in SUBSET Slot
  BY TableType DEF CallRow, Books
<1>2. Behind \in 0..2 /\ (router # latest => Behind >= 1)
  BY BehindBounds DEF Books
<1> DEFINE a == Grouped(r)
<1>3. a \in CallRow /\ a.calm = r.calm
  BY GroupedRow DEF Books
<1>4. CASE \E s \in r.keys \ r.done : Table[s].node = None
  <2> DEFINE q == Observed(r)
  <2>1. a = Again(q, "refresh")
    BY <1>4, GroupedRow DEF Books
  <2>2. router # latest
    <3>1. CASE router = latest
      <4>1. Table = routes[latest]
        BY <3>1 DEF Table
      <4>2. QED
        BY <1>1, <1>4, <4>1, CalmOwners DEF Books
    <3>2. QED
      BY <3>1
  <2>3. q \in CallRow /\ q.version = router /\ q.attempt = r.attempt
    <3>1. /\ q \in CallRow /\ q.attempt = r.attempt
          /\ q.version = IF r.version = 0 THEN router ELSE r.version
      BY ObservedRow DEF Books
    <3> HIDE DEF q
    <3>2. QED
      BY <3>1
  <2> HIDE DEF q
  <2>4. q.attempt <= 1 /\ q.attempt + Behind <= 2
    BY <1>1, <1>2, <2>2, <2>3
  <2> DEFINE b == Behind
             R == routes[latest]
  <2>5. b \in 0..2 /\ q.attempt + b <= (IF router = q.version THEN 2 ELSE 1) /\ q.version <= router
    BY <1>1, <1>2, <2>3, <2>4
  <2> HIDE DEF b, R
  <2>6. RestAt(Again(q, "refresh"), router, b, latest, R)
    BY <1>1, <2>3, <2>4, <2>5, RestAgain
  <2>7. QED
    BY <1>3, <2>1, <2>6 DEF b, R
<1>5. CASE \A s \in r.keys \ r.done : Table[s].node # None
  <2>1. /\ a.pc = "groups" /\ a.attempt = r.attempt /\ a.version = r.version
        /\ \A d \in Node :
             LET g == a.group[d]
             IN  /\ g.keys = {s \in r.keys \ r.done : Table[s].node = d}
                 /\ g.at = IF g.keys = {} THEN "none" ELSE "ready"
                 /\ g.result = "none" /\ g.version = 0
    BY <1>5, GroupedRow DEF Books
  <2> HIDE DEF a
  <2>2. Refused(a, latest)
    BY <1>1, <2>1 DEF Refused
  <2>3. router = latest => Good(a, router, latest, routes[latest])
    <3>1. router = latest => Table = routes[latest]
      BY DEF Table
    <3>2. QED
      BY <2>1, <3>1 DEF Good
  <2>4. \/ Good(a, router, latest, routes[latest])
        \/ /\ Refused(a, latest)
           /\ \/ a.version = 0 /\ a.attempt + Behind <= 1
              \/ a.version # 0 /\ router = a.version /\ router # latest /\ a.attempt + Behind <= 2
    BY <1>1, <2>1, <2>2, <2>3
  <2>5. a.attempt <= 2 /\ a.version <= router
    BY <1>1, <2>1
  <2> HIDE DEF Good, Refused
  <2>6. RestAt(a, router, Behind, latest, routes[latest])
    BY <2>1, <2>4, <2>5 DEF RestAt
  <2>7. QED
    BY <1>3, <2>6 DEF a
<1>6. QED
  BY <1>4, <1>5

\* The load a call joins or begins.
LEMMA RestRefresh ==
    ASSUME Books, Books', AtRest, NEW c \in Caller, NEW r \in CallRow, Refresh(c, r),
           UNCHANGED <<fleet, router>>,
           r.calm => /\ Calm /\ r.attempt <= 2 /\ router = r.version
                     /\ r.within => router = 0 /\ r.attempt + Behind <= 2
                     /\ r.attempt + Behind <= 3
    PROVE  AtRest'
<1>1. PICK pc \in {"lead", "follow"} :
         call' = [call EXCEPT ![c] = [r EXCEPT !.pc = pc]]
         /\ (UNCHANGED refresh \/ refresh' = [NoLoad EXCEPT !.leader = c, !.known = router])
  BY DEF Refresh
<1>2. /\ Behind \in 0..2 /\ Behind' <= Behind /\ Behind' \in 0..2
      /\ latest \in Nat /\ router \in Nat
  <2>1. Behind' = Behind \/ ~BadLoad'
    BY <1>1 DEF Behind, BadLoad, NoLoad, fleet
  <2>2. ~BadLoad' => Behind' = IF router # latest THEN 1 ELSE 0
    BY DEF Behind, fleet
  <2>3. QED
    BY <2>1, <2>2, BehindBounds, TableType DEF Books
<1> DEFINE x == [r EXCEPT !.pc = pc]
<1>3. x \in CallRow /\ x.pc = pc /\ x.within = r.within /\ Alike(x, r)
  BY MovedRow
<1>4. call' = [call EXCEPT ![c] = x]
  BY <1>1
<1> HIDE DEF x
<1>5. x.calm => Calm /\ RestAt(x, router, Behind', latest, routes[latest])
  <2> SUFFICES ASSUME x.calm PROVE Calm /\ RestAt(x, router, Behind', latest, routes[latest])
    OBVIOUS
  <2>1. /\ Calm /\ r.attempt <= 2 /\ router = r.version
        /\ r.within => router = 0 /\ r.attempt + Behind <= 2
        /\ r.attempt + Behind <= 3
    BY <1>3 DEF Alike
  <2>2. r.attempt \in Nat /\ x.attempt = r.attempt /\ x.version = r.version
    BY <1>3 DEF CallRow, Alike
  <2>3. QED
    BY <1>2, <1>3, <2>1, <2>2 DEF RestAt
<1>6. QED
  BY <1>2, <1>3, <1>4, <1>5, RestOwn

LEMMA CallAtRest ==
    ASSUME Books, AtRest, NEW c \in Caller, call[c].calm
    PROVE  Calm /\ RestAt(call[c], router, Behind, latest, routes[latest])
  BY DEF AtRest

\* The load and the router as they are.
LEMMA BehindStays ==
    ASSUME ClientTypes, UNCHANGED <<fleet, router, refresh>>
    PROVE  /\ UNCHANGED <<fleet, router>> /\ Behind' = Behind /\ Behind' <= Behind
           /\ Behind \in 0..2 /\ router \in Nat /\ latest \in Nat
  BY BehindBounds, TableType DEF Behind, BadLoad, fleet

LEMMA AttemptRest ==
    ASSUME Books, Books', AtRest, MaxAttempts >= 3, NEW c \in Caller, Attempt(c)
    PROVE  AtRest'
<1> DEFINE r == [call[c] EXCEPT !.version = router, !.within = router = 0]
<1>1. /\ call[c] \in CallRow /\ Running(call[c]) /\ call[c].pc = "attempt"
      /\ router \in Nat /\ latest \in 1..MaxVersion /\ Behind \in 0..2 /\ MaxVersion \in Nat
      /\ router # latest => Behind >= 1
  BY RunningCall, TableType, BehindBounds, ClientConstants DEF Attempt, Books
<1>2. /\ r \in CallRow /\ r.version = router
      /\ r.attempt = call[c].attempt /\ r.calm = call[c].calm
  <2>1. (router = 0) \in BOOLEAN
    OBVIOUS
  <2>2. Running(r)
    BY <1>1, <2>1, StartedRow
  <2>3. r.version = router /\ r.attempt = call[c].attempt /\ r.calm = call[c].calm
    BY <1>1 DEF CallRow
  <2>4. QED
    BY <2>2, <2>3 DEF Running
<1> HIDE DEF r
<1>3. ASSUME r.calm
      PROVE  /\ Calm /\ r.attempt <= 2 /\ r.attempt \in Nat
             /\ router = latest \/ r.attempt + Behind <= 2
  BY <1>1, <1>2, <1>3, CallAtRest DEF RestAt, CallRow
<1>4. CASE router = 0
  <2>1. Refresh(c, r) /\ UNCHANGED <<fleet, router>>
    BY <1>4 DEF Attempt, r
  <2>2. r.calm => /\ Calm /\ r.attempt <= 2 /\ router = r.version
                  /\ r.within => router = 0 /\ r.attempt + Behind <= 2
                  /\ r.attempt + Behind <= 3
    BY <1>1, <1>2, <1>3, <1>4
  <2>3. QED
    BY <1>2, <2>1, <2>2, RestRefresh
<1>5. CASE router # 0
  <2>1. call' = [call EXCEPT ![c] = Grouped(r)] /\ UNCHANGED <<fleet, router, refresh>>
    BY <1>5 DEF Attempt, r
  <2>2. Grouped(r) \in CallRow /\ Grouped(r).calm = r.calm
    BY <1>2, GroupedRow DEF Books
  <2>3. r.calm => RestAt(Grouped(r), router, Behind, latest, routes[latest])
    <3> SUFFICES ASSUME r.calm
                 PROVE  RestAt(Grouped(r), router, Behind, latest, routes[latest])
      OBVIOUS
    <3>1. /\ Calm /\ r.attempt <= 2
          /\ r.version = router /\ router # 0 /\ (router = latest \/ r.attempt + Behind <= 2)
      BY <1>2, <1>3, <1>5
    <3>2. QED
      BY <1>2, <3>1, RestGrouped
  <2> DEFINE x == Grouped(r)
  <2> HIDE DEF x
  <2>4. /\ x \in CallRow /\ call' = [call EXCEPT ![c] = x]
        /\ x.calm => Calm /\ RestAt(x, router, Behind', latest, routes[latest])
    BY <1>3, <2>1, <2>2, <2>3, BehindStays DEF x, Books
  <2>5. QED
    BY <2>1, <2>4, BehindStays, RestOwn DEF Books
<1>6. QED
  BY <1>4, <1>5

LEMMA ResumeRest ==
    ASSUME Books, Books', AtRest, NEW c \in Caller, Resume(c)
    PROVE  AtRest'
<1> DEFINE r == call[c]
<1>1. r \in CallRow /\ r.attempt \in Nat /\ r.version \in Nat /\ router \in Nat /\ Behind \in 0..2
      /\ latest \in Nat /\ call \in [Caller -> CallRow]
  BY TableType, BehindBounds DEF Books, ClientTypes, CallRow
<1>2. ASSUME r.calm
      PROVE  /\ Calm /\ r.attempt <= 2 /\ r.version <= router /\ r.action = "refresh" /\ ~r.within
             /\ r.attempt + Behind <= (IF router = r.version THEN 3 ELSE 2)
  BY <1>2, CallAtRest DEF RestAt, Resume
<1>3. CASE r.action = "refresh" /\ ~NewerRoute(r.version)
  <2>1. Refresh(c, r) /\ UNCHANGED <<fleet, router>>
    BY <1>3 DEF Resume
  <2>2. r.calm => /\ Calm /\ r.attempt <= 2 /\ router = r.version
                  /\ r.within => router = 0 /\ r.attempt + Behind <= 2
                  /\ r.attempt + Behind <= 3
    <3>1. router <= r.version
      BY <1>1, <1>3 DEF NewerRoute
    <3>2. QED
      BY <1>1, <1>2, <3>1
  <2>3. QED
    BY <1>1, <2>1, <2>2, RestRefresh
<1>4. CASE ~(r.action = "refresh" /\ ~NewerRoute(r.version))
  <2> DEFINE x == [r EXCEPT !.pc = "attempt"]
  <2>1. call' = [call EXCEPT ![c] = x] /\ UNCHANGED <<fleet, router, refresh>>
    BY <1>1, <1>4 DEF Resume
  <2>2. x \in CallRow /\ x.pc = "attempt" /\ Alike(x, r)
    BY <1>1, MovedRow
  <2> HIDE DEF x
  <2>3. x.calm => Calm /\ RestAt(x, router, Behind', latest, routes[latest])
    <3> SUFFICES ASSUME x.calm
                 PROVE  Calm /\ RestAt(x, router, Behind', latest, routes[latest])
      OBVIOUS
    <3>1. r.calm /\ x.attempt = r.attempt /\ x.version = r.version
      BY <2>2 DEF Alike
    <3>2. router # r.version
      BY <1>1, <1>2, <1>4, <3>1 DEF NewerRoute
    <3>3. Behind' = Behind
      BY <2>1, BehindStays DEF Books
    <3>4. Calm /\ x.attempt <= 2 /\ x.version <= router /\ x.attempt + Behind' <= 2
      BY <1>2, <3>1, <3>2, <3>3
    <3>5. QED
      BY <2>2, <3>4 DEF RestAt
  <2>4. QED
    BY <2>1, <2>2, <2>3, BehindStays, RestOwn DEF Books
<1>5. QED
  BY <1>3, <1>4

LEMMA GroupRest ==
    ASSUME Books, Books', AtRest, MaxAttempts >= 3, NEW c \in Caller, Group(c)
    PROVE  AtRest'
<1> DEFINE r == call[c]
           x == Grouped(r)
<1>1. r \in CallRow /\ r.pc = "group"
  BY DEF Books, ClientTypes, Group
<1>2. call' = [call EXCEPT ![c] = x] /\ UNCHANGED <<fleet, router, refresh>>
  BY DEF Group
<1>3. x \in CallRow /\ x.calm = r.calm
  BY <1>1, GroupedRow DEF Books
<1>4. ASSUME r.calm
      PROVE  Calm /\ RestAt(x, router, Behind, latest, routes[latest])
  <2>1. /\ Calm /\ r.attempt <= 2 /\ r.version = 0
        /\ router = latest \/ r.attempt + Behind <= 1
    BY <1>1, <1>4, CallAtRest DEF RestAt
  <2>2. QED
    BY <1>1, <2>1, RestGrouped
<1> HIDE DEF x
<1>5. x.calm => Calm /\ RestAt(x, router, Behind', latest, routes[latest])
  BY <1>2, <1>3, <1>4, BehindStays DEF Books
<1>6. QED
  BY <1>2, <1>3, <1>5, BehindStays, RestOwn DEF Books

LEMMA LoadRest ==
    ASSUME Books, Books', AtRest, NEW c \in Caller, NEW d \in Node, Load(c, d)
    PROVE  AtRest'
<1>1. CASE call' = Disturbed(call)
  <2>1. call \in [Caller -> CallRow]
    BY DEF Books, ClientTypes
  <2>2. QED
    BY <1>1, <2>1, DisturbedRows, NoneCalm
<1>2. CASE refresh' = GetRoute(d) /\ UNCHANGED call
  <2>1. CASE ~Calm
    BY <1>2, <2>1, NoneCalm DEF AtRest
  <2>2. CASE Calm
    <3>1. /\ known[d] = latest /\ latest \in 1..MaxVersion /\ MaxVersion \in Nat
          /\ refresh.known \in 0..latest /\ refresh.result = "none" /\ UNCHANGED <<fleet, router>>
      BY <2>2, ClientConstants DEF Calm, Books, ClientTypes, Load
    <3>2. Max({known[d], refresh.known}) = latest
      BY <3>1, MaxOfTwo
    <3>3. refresh'.result = "ok" /\ refresh'.version = latest
      BY <1>2, <3>1, <3>2 DEF GetRoute, Books, ClientTypes
    <3>4. Behind' = Behind
      BY <3>1, <3>3 DEF Behind, BadLoad, fleet
    <3>5. /\ UNCHANGED <<latest, router, call>> /\ Calm' = Calm
          /\ routes'[latest'] = routes[latest]
      BY <1>2, <3>1 DEF fleet, Calm
    <3> QED
      BY <3>4, <3>5 DEF AtRest
  <2>3. QED
    BY <2>1, <2>2
<1>3. QED
  BY <1>1, <1>2 DEF Load

\* The route that comes back, for whoever waits for it.
LEMMA ApplyRefreshRest ==
    ASSUME Books, Books', AtRest, MaxAttempts >= 3, NEW c \in Caller, ApplyRefresh(c)
    PROVE  AtRest'
<1> DEFINE a == Behind'
           b == Behind
           R == routes[latest]
<1>1. /\ router \in 0..latest /\ latest \in Nat /\ refresh.version \in 0..latest
      /\ refresh.result \in {"ok", "refresh"} /\ b \in 0..2
      /\ router # latest => b >= 1
      /\ BadLoad => b = 2
  BY TableType, BehindBounds DEF Books, ClientTypes, ApplyRefresh
<1>2. /\ router' = IF refresh.result = "ok" THEN Max({router, refresh.version}) ELSE router
      /\ refresh' = NoLoad /\ call' = Shared(refresh.result) /\ UNCHANGED fleet
  BY DEF ApplyRefresh
<1>3. /\ router' \in router..latest
      /\ refresh.result # "ok" => router' = router
      /\ refresh.result = "ok" /\ refresh.version = latest => router' = latest
  BY <1>1, <1>2, MaxOfTwo
<1>4. a = IF router' # latest THEN 1 ELSE 0
  BY <1>2 DEF Behind, BadLoad, NoLoad, fleet
<1>5. /\ \/ router' = latest /\ a = 0
         \/ b = 2 /\ a = IF router' # latest THEN 1 ELSE 0
      /\ refresh.result # "ok" => b = 2
      /\ a \in 0..2
  BY <1>1, <1>3, <1>4 DEF BadLoad
<1>6. Calm' = Calm /\ routes'[latest'] = R /\ latest' = latest
  BY <1>2 DEF Calm, fleet
<1> HIDE DEF a, b, R
<1>7. ASSUME NEW e \in Caller, call'[e].calm
      PROVE  Calm /\ RestAt(call'[e], router', a, latest, R)
  <2> DEFINE r == call[e]
             x == call'[e]
  <2>1. r \in CallRow /\ r.attempt \in Nat /\ r.version \in Nat
    BY DEF Books, ClientTypes, CallRow
  <2>2. ASSUME r.calm
        PROVE  Calm /\ RestAt(r, router, b, latest, R)
    BY <2>2, CallAtRest DEF b, R
  <2>3. CASE r.pc \notin {"lead", "follow"}
    <3>1. x = r
      BY <1>2, <2>3 DEF Shared
    <3>2. Calm /\ RestAt(r, router, b, latest, R)
      BY <1>7, <2>2, <3>1
    <3> DEFINE o == router'
    <3>3. o \in router..latest /\ ((o = latest /\ a = 0) \/ (b = 2 /\ a = IF o # latest THEN 1 ELSE 0))
      BY <1>3, <1>5
    <3> HIDE DEF o
    <3>4. RestAt(r, o, a, latest, R)
      BY <1>1, <1>5, <2>1, <2>3, <3>2, <3>3, RestApplied
    <3>5. QED
      BY <3>1, <3>2, <3>4 DEF o
  <2>4. CASE r.pc \in {"lead", "follow"}
    <3>1. ASSUME r.calm
          PROVE  /\ Calm /\ r.attempt <= 2 /\ router = r.version
                 /\ r.within => router = 0 /\ r.attempt + b <= 2
                 /\ r.attempt + b <= 3
      BY <2>2, <2>4, <3>1 DEF RestAt
    <3>2. CASE refresh.result # "ok"
      <4> DEFINE q == IF r.within THEN Observed(r) ELSE r
      <4>1. x = Again(q, "refresh") /\ router' = router
        BY <1>1, <1>2, <1>3, <2>4, <3>2 DEF Shared
      <4>2. /\ q \in CallRow /\ q.calm = r.calm /\ q.attempt = r.attempt
            /\ q.version = IF r.within /\ r.version = 0 THEN router ELSE r.version
        <5>1. /\ Observed(r) \in CallRow /\ Observed(r).calm = r.calm
              /\ Observed(r).attempt = r.attempt
              /\ Observed(r).version = IF r.version = 0 THEN router ELSE r.version
          BY <2>1, ObservedRow DEF Books
        <5>2. QED
          BY <2>1, <5>1
      <4> HIDE DEF q
      <4>3. x.calm = q.calm
        BY <4>1, <4>2, AgainRow
      <4>4. /\ Calm /\ router = q.version /\ q.attempt <= 1 /\ q.version <= router
            /\ q.attempt + a <= IF router = q.version THEN 2 ELSE 1
        BY <1>1, <1>5, <1>7, <2>1, <3>1, <3>2, <4>2, <4>3
      <4>5. router \in Nat
        BY <1>1
      <4>6. RestAt(Again(q, "refresh"), router, a, latest, R)
        BY <1>5, <4>2, <4>4, <4>5, RestAgain
      <4>7. QED
        BY <4>1, <4>4, <4>6
    <3>3. CASE refresh.result = "ok" /\ r.within
      <4> DEFINE q == [r EXCEPT !.pc = "group", !.within = FALSE]
      <4>1. x = q
        BY <1>2, <2>4, <3>3 DEF Shared
      <4>2. /\ q \in CallRow /\ q.pc = "group" /\ q.calm = r.calm /\ q.attempt = r.attempt
            /\ q.version = r.version
        BY <2>1 DEF CallRow
      <4> HIDE DEF q
      <4>3. /\ Calm /\ q.version = 0 /\ q.attempt <= 2 /\ q.version <= router'
            /\ router' = latest \/ q.attempt + a <= 1
        BY <1>1, <1>3, <1>5, <1>7, <2>1, <3>1, <3>3, <4>1, <4>2
      <4>4. QED
        BY <4>1, <4>2, <4>3 DEF RestAt
    <3>4. CASE refresh.result = "ok" /\ ~r.within
      <4> DEFINE q == [r EXCEPT !.pc = "attempt"]
      <4>1. x = q
        BY <1>2, <2>4, <3>4 DEF Shared
      <4>2. /\ q \in CallRow /\ q.pc = "attempt" /\ q.calm = r.calm /\ q.attempt = r.attempt
            /\ q.version = r.version
        BY <2>1 DEF CallRow
      <4> HIDE DEF q
      <4>3. /\ Calm /\ q.attempt <= 2 /\ q.version <= router'
            /\ router' = latest \/ q.attempt + a <= 2
        BY <1>1, <1>3, <1>5, <1>7, <2>1, <3>1, <4>1, <4>2
      <4>4. QED
        BY <4>1, <4>2, <4>3 DEF RestAt
    <3>5. QED
      BY <3>2, <3>3, <3>4
  <2>5. QED
    BY <2>3, <2>4
<1>8. QED
  BY <1>6, <1>7 DEF AtRest, a, R

\* A group of an attempt, in a fleet at rest.
LEMMA RestGroupSet ==
    ASSUME NEW r \in CallRow, NEW x \in CallRow, NEW d \in Node, NEW ro, NEW b, NEW l, NEW R,
           r.pc = "groups", x.pc = "groups", x.attempt = r.attempt, x.version = r.version,
           \A e \in Node : e # d => x.group[e] = r.group[e],
           x.group[d].keys = r.group[d].keys, RestAt(r, ro, b, l, R),
           Good(r, ro, l, R) =>
               /\ x.group[d].at = "addressed" => x.group[d].version = l
               /\ x.group[d].result \in {"none", "ok"},
           Refused(r, l) =>
               /\ x.group[d].result \in {"none", "ok", "expired", "refresh"}
               /\ x.group[d].version <= l
    PROVE  RestAt(x, ro, b, l, R)
<1>1. Good(r, ro, l, R) => Good(x, ro, l, R)
  <2> SUFFICES ASSUME Good(r, ro, l, R) PROVE Good(x, ro, l, R)
    OBVIOUS
  <2>1. ASSUME NEW e \in Node
        PROVE  LET g == x.group[e]
               IN  /\ \A s \in g.keys : R[s].node = e
                   /\ g.at = "addressed" => g.version = l
                   /\ g.result \in {"none", "ok"}
    <3>1. CASE e = d
      BY <3>1 DEF Good
    <3>2. CASE e # d
      BY <3>2 DEF Good
    <3>3. QED
      BY <3>1, <3>2
  <2>2. QED
    BY <2>1 DEF Good
<1>2. Refused(r, l) => Refused(x, l)
  BY DEF Refused
<1> DEFINE good == Good(r, ro, l, R)
           refused == Refused(r, l)
           goodx == Good(x, ro, l, R)
           refusedx == Refused(x, l)
<1> HIDE DEF good, refused, goodx, refusedx
<1>3. (good => goodx) /\ (refused => refusedx)
  BY <1>1, <1>2 DEF good, refused, goodx, refusedx
<1>4. QED
  BY <1>3 DEF RestAt, good, refused, goodx, refusedx

\* A step of one group.
LEMMA GroupStepRest ==
    ASSUME Books, Books', AtRest, NEW c \in Caller, NEW d \in Node, NEW x \in CallRow,
           call[c].pc = "groups", x.pc = "groups", x.attempt = call[c].attempt,
           x.version = call[c].version, x.calm = call[c].calm,
           \A e \in Node : e # d => x.group[e] = call[c].group[e],
           x.group[d].keys = call[c].group[d].keys,
           Calm /\ Good(call[c], router, latest, routes[latest]) =>
               /\ x.group[d].at = "addressed" => x.group[d].version = latest
               /\ x.group[d].result \in {"none", "ok"},
           Calm /\ Refused(call[c], latest) =>
               /\ x.group[d].result \in {"none", "ok", "expired", "refresh"}
               /\ x.group[d].version <= latest,
           call' = [call EXCEPT ![c] = x], UNCHANGED <<fleet, router, refresh>>
    PROVE  AtRest'
<1> DEFINE r == call[c]
           R == routes[latest]
           b == Behind
<1>1. r \in CallRow
  BY DEF Books, ClientTypes
<1>2. /\ UNCHANGED <<fleet, router>> /\ Behind' = Behind /\ Behind' <= Behind
  BY BehindStays DEF Books
<1>3. ASSUME x.calm
      PROVE  Calm /\ RestAt(x, router, b, latest, R)
  <2>1. Calm /\ RestAt(r, router, b, latest, R)
    BY <1>3, CallAtRest
  <2> HIDE DEF r, R, b
  <2>2. /\ Good(r, router, latest, R) =>
               /\ x.group[d].at = "addressed" => x.group[d].version = latest
               /\ x.group[d].result \in {"none", "ok"}
        /\ Refused(r, latest) =>
               /\ x.group[d].result \in {"none", "ok", "expired", "refresh"}
               /\ x.group[d].version <= latest
    BY <2>1 DEF r, R
  <2>3. /\ r.pc = "groups" /\ x.pc = "groups" /\ x.attempt = r.attempt /\ x.version = r.version
        /\ \A e \in Node : e # d => x.group[e] = r.group[e]
        /\ x.group[d].keys = r.group[d].keys
    BY DEF r
  <2>4. RestAt(x, router, b, latest, R)
    BY <1>1, <2>1, <2>2, <2>3, RestGroupSet
  <2>5. QED
    BY <2>1, <2>4
<1>4. x.calm => Calm /\ RestAt(x, router, Behind', latest, routes[latest])
  BY <1>2, <1>3
<1>5. QED
  BY <1>2, <1>4, RestOwn

LEMMA AddressRest ==
    ASSUME Books, Books', AtRest, NEW c \in Caller, NEW d \in Node, Address(c, d)
    PROVE  AtRest'
<1> DEFINE r == call[c]
           g == r.group[d]
           together == \E e \in Node : \A s \in g.keys : Table[s].node = e
           h == IF together THEN [g EXCEPT !.at = "addressed", !.version = router]
                ELSE [g EXCEPT !.at = "answered", !.result = "refresh"]
           x == Progress(r, d, h, r.given)
<1>1. /\ r.pc = "groups" /\ g.at = "ready" /\ UNCHANGED <<fleet, router, refresh>>
      /\ r \in CallRow /\ BatchInv(r) /\ call \in [Caller -> CallRow]
      /\ router \in Nat /\ latest \in Nat /\ router <= latest
  BY TableType DEF Address, Books, ClientTypes, Batches
<1>2. g \in GroupRow /\ g.keys # {} /\ g.result = "none"
  BY <1>1, GroupReady
<1>3. r.given \subseteq r.keys /\ r.group \in [Node -> GroupRow] /\ r.group[d] = g
  BY <1>1 DEF BatchInv, CallRow
<1>4. /\ h \in GroupRow /\ h.keys = g.keys
      /\ \/ together /\ h.at = "addressed" /\ h.version = router /\ h.result = "none"
         \/ ~together /\ h.at = "answered" /\ h.version = g.version /\ h.result = "refresh"
  BY <1>1, <1>2 DEF GroupRow, Result
<1>5. call' = [call EXCEPT ![c] = x]
  <2>1. call' = [call EXCEPT ![c].group[d] = h]
    BY DEF Address
  <2> HIDE DEF h
  <2>2. x = [r EXCEPT !.group[d] = h]
    BY <1>1 DEF CallRow, Progress
  <2>3. QED
    BY <1>1, <2>1, <2>2
<1> HIDE DEF r, h
<1>6. /\ x \in CallRow /\ x.pc = r.pc /\ x.calm = r.calm /\ x.attempt = r.attempt
      /\ x.version = r.version /\ x.group[d] = h
      /\ \A e \in Node : e # d => x.group[e] = r.group[e]
  <2>1. /\ h.at \in {"addressed", "answered"} /\ (h.at = "answered" <=> h.result # "none")
        /\ h.result # "ok" /\ r.given \subseteq r.given /\ h.keys = r.group[d].keys /\ h.keys # {}
    BY <1>2, <1>4
  <2>2. QED
    BY <1>1, <1>3, <1>4, <2>1, GroupSet
<1>7. ASSUME Good(r, router, latest, routes[latest])
      PROVE  together /\ router = latest
  <2>1. router = latest /\ \A s \in g.keys : routes[latest][s].node = d
    BY <1>7 DEF Good
  <2>2. QED
    BY <2>1 DEF Table
<1>8. ASSUME Refused(r, latest)
      PROVE  g.version <= latest
  BY <1>8 DEF Refused
<1> HIDE DEF together
<1>9. /\ Good(r, router, latest, routes[latest]) =>
           /\ x.group[d].at = "addressed" => x.group[d].version = latest
           /\ x.group[d].result \in {"none", "ok"}
      /\ Refused(r, latest) =>
           /\ x.group[d].result \in {"none", "ok", "expired", "refresh"}
           /\ x.group[d].version <= latest
      /\ x.group[d].keys = r.group[d].keys
  BY <1>1, <1>4, <1>6, <1>7, <1>8
<1> HIDE DEF x
<1>10. QED
  <2>1. /\ call[c].pc = "groups" /\ x.pc = "groups" /\ x.attempt = call[c].attempt
        /\ x.version = call[c].version /\ x.calm = call[c].calm
        /\ \A e \in Node : e # d => x.group[e] = call[c].group[e]
        /\ x.group[d].keys = call[c].group[d].keys
    BY <1>1, <1>6, <1>9 DEF r
  <2>2. /\ Calm /\ Good(call[c], router, latest, routes[latest]) =>
             /\ x.group[d].at = "addressed" => x.group[d].version = latest
             /\ x.group[d].result \in {"none", "ok"}
        /\ Calm /\ Refused(call[c], latest) =>
             /\ x.group[d].result \in {"none", "ok", "expired", "refresh"}
             /\ x.group[d].version <= latest
    BY <1>9 DEF r
  <2>3. x \in CallRow /\ call' = [call EXCEPT ![c] = x] /\ UNCHANGED <<fleet, router, refresh>>
    BY <1>1, <1>5, <1>6
  <2>4. QED
    BY <2>1, <2>2, <2>3, GroupStepRest

LEMMA SendRest ==
    ASSUME Books, Books', AtRest, NEW c \in Caller, NEW d \in Node, Send(c, d)
    PROVE  AtRest'
<1> DEFINE r == call[c]
           g == r.group[d]
           anchor == CHOOSE s \in g.keys : TRUE
<1>1. /\ r.pc = "groups" /\ g.at = "addressed" /\ UNCHANGED <<fleet, router, refresh>>
      /\ r \in CallRow /\ BatchInv(r) /\ call \in [Caller -> CallRow]
      /\ router \in Nat /\ latest \in Nat /\ router <= latest
  <2>1. r.pc = "groups" /\ g.at = "addressed" /\ UNCHANGED <<fleet, router, refresh>>
    BY DEF Send
  <2>2. /\ r \in CallRow /\ BatchInv(r) /\ call \in [Caller -> CallRow]
        /\ router \in Nat /\ latest \in Nat /\ router <= latest
    BY TableType DEF Books, ClientTypes, Batches
  <2>3. QED
    BY <2>1, <2>2
<1>2. CASE call' = [call EXCEPT ![c] = Answered(r, d, Reply(r, d))]
  <2> DEFINE x == Answered(r, d, Reply(r, d))
             y == Reply(r, d)
  <2>1. y \in {"ok", "expired", "retry", "refresh", "never"}
    BY DEF Reply, Served
  <2>2. g \in GroupRow /\ g.keys # {} /\ g.keys \subseteq Slot /\ anchor \in g.keys
    BY <1>1, GroupReady
  <2>3. /\ x \in CallRow /\ x.pc = r.pc /\ x.calm = r.calm /\ x.attempt = r.attempt
        /\ x.version = r.version /\ x.group[d].keys = g.keys /\ x.group[d].at = "answered"
        /\ x.group[d].result = y
        /\ \A e \in Node : e # d => x.group[e] = r.group[e]
    <3> HIDE DEF y
    <3>1. LET z == Answered(r, d, y)
          IN  /\ z \in CallRow /\ z.pc = r.pc /\ z.calm = r.calm /\ z.attempt = r.attempt
              /\ z.version = r.version /\ z.group[d].keys = g.keys /\ z.group[d].at = "answered"
              /\ z.group[d].result = y
              /\ \A e \in Node : e # d => z.group[e] = r.group[e]
      BY <1>1, <2>1, AnsweredRow
    <3>2. QED
      BY <3>1 DEF y
  <2>4. x.group[d].version = g.version
    <3>1. r.group \in [Node -> GroupRow]
      BY <1>1 DEF CallRow
    <3>2. QED
      BY <1>1, <2>2, <3>1 DEF Answered, CallRow, GroupRow
  <2>5. ASSUME Calm, Good(r, router, latest, routes[latest])
        PROVE  y = "ok"
    <3>1. /\ router = latest /\ Table = routes[latest] /\ g.version = latest
          /\ \A s \in g.keys : Table[s].node = d
      BY <1>1, <2>5 DEF Good, Table
    <3>2. /\ Table[anchor].node = d /\ d # None /\ known[d] = latest
          /\ Table[anchor].epoch \in Nat
      BY <2>2, <2>5, <3>1, ClientConstants, TableType DEF Calm, Books
    <3>3. \A s \in g.keys : holder[s].node = d
      BY <2>2, <2>5, <3>1, CalmOwners DEF Books
    <3>4. ~(Table[anchor].epoch > routes[known[d]][anchor].epoch)
      BY <3>1, <3>2
    <3>5. QED
      BY <1>1, <3>1, <3>2, <3>3, <3>4 DEF Reply, Served
  <2>6. ASSUME Calm, Refused(r, latest)
        PROVE  y \in {"ok", "expired", "refresh"} /\ g.version <= latest
    <3>1. g.version <= latest
      BY <2>6 DEF Refused
    <3>2. g.version \in Nat
      BY <2>2 DEF GroupRow
    <3>3. Table[anchor].node = None \/ known[Table[anchor].node] = latest
      BY <2>2, <2>6, TableType DEF Calm, Books
    <3>4. QED
      <4>1. CASE Table[anchor].node = None
        BY <3>1, <4>1 DEF Reply
      <4>2. CASE Table[anchor].node # None
        <5> DEFINE e == Table[anchor].node
        <5>1. y = Served(e, g.keys, anchor, g.version, Table[anchor].epoch)
          BY <4>2 DEF Reply
        <5>2. known[e] = latest
          BY <3>3, <4>2
        <5> HIDE DEF e, y
        <5>3. QED
          BY <1>1, <3>1, <3>2, <5>1, <5>2 DEF Served
      <4>3. QED
        BY <4>1, <4>2
  <2> HIDE DEF x, y
  <2>7. /\ Calm /\ Good(r, router, latest, routes[latest]) =>
             /\ x.group[d].at = "addressed" => x.group[d].version = latest
             /\ x.group[d].result \in {"none", "ok"}
        /\ Calm /\ Refused(r, latest) =>
             /\ x.group[d].result \in {"none", "ok", "expired", "refresh"}
             /\ x.group[d].version <= latest
    BY <2>3, <2>4, <2>5, <2>6
  <2>8. call' = [call EXCEPT ![c] = x] /\ x.pc = "groups"
    BY <1>1, <1>2, <2>3 DEF x, y
  <2>9. QED
    BY <1>1, <2>3, <2>7, <2>8, GroupStepRest
<1>3. ASSUME NEW result \in {"refresh", "never"},
             call' = [Disturbed(call) EXCEPT ![c] = Answered(Disturbed(call)[c], d, result)]
      PROVE  AtRest'
  <2> DEFINE D == Disturbed(call)
  <2>1. D \in [Caller -> CallRow] /\ ~D[c].calm
    BY <1>1, DisturbedRows
  <2>2. ~Answered(D[c], d, result).calm
    <3> HIDE DEF D
    <3>1. QED
      BY <2>1 DEF Answered, CallRow
  <2>3. QED
    BY <1>1, <1>3, <2>2, DisturbedRest
<1>4. QED
  BY <1>2, <1>3, SendAnswers

LEMMA CollectRest ==
    ASSUME Books, Books', AtRest, MaxAttempts >= 3, NEW c \in Caller, Collect(c)
    PROVE  AtRest'
<1> DEFINE o == call[c]
           r == Observed(o)
           results == {r.group[d].result : d \in Node} \ {"none", "ok"}
           q == [r EXCEPT !.done = Kept(r)]
           x == IF results = {} THEN Return(r, "ok") ELSE Again(q, Outcome(results))
           R == routes[latest]
           b == Behind
<1>1. /\ r.pc = "groups" /\ call' = [call EXCEPT ![c] = x] /\ UNCHANGED <<fleet, router, refresh>>
      /\ o \in CallRow /\ BatchInv(o)
  BY DEF Collect, Books, ClientTypes, Batches
<1>2. /\ r \in CallRow /\ r.version = IF o.version = 0 THEN router ELSE o.version
      /\ r.group = o.group /\ r.calm = o.calm /\ r.attempt = o.attempt /\ o.pc = "groups"
      /\ r.keys = o.keys /\ r.done = o.done /\ r.given = o.given /\ r.result = o.result
  BY <1>1, ObservedRow DEF Books
<1>3. BatchInv(r) /\ r.attempt \in Nat /\ r.version \in Nat /\ o.version \in Nat
  <2>1. r.attempt \in Nat /\ r.version \in Nat /\ o.version \in Nat
    BY <1>1, <1>2 DEF CallRow
  <2> HIDE DEF r, o
  <2>2. QED
    BY <1>1, <1>2, <2>1 DEF BatchInv
<1>4. /\ router \in Nat /\ latest \in Nat /\ b \in 0..2 /\ (router # latest => b >= 1)
  BY TableType, BehindBounds DEF Books
<1>5. /\ UNCHANGED <<fleet, router>> /\ Behind' = Behind /\ Behind' <= Behind
  BY <1>1, BehindStays DEF Books
<1>6. ASSUME o.calm
      PROVE  Calm /\ RestAt(o, router, b, latest, R)
  BY <1>6, CallAtRest
<1> HIDE DEF o, r, b, R
<1>7. /\ q \in CallRow /\ q.calm = r.calm /\ q.attempt = r.attempt /\ q.version = r.version
  BY <1>1, <1>2, <1>3, KeptRow DEF Running
<1>8. Outcome(results) \in {"refresh", "retry", "never"}
  BY DEF Outcome
<1> HIDE DEF q
<1>9. x \in CallRow /\ x.calm = o.calm
  <2>1. CASE results = {}
    BY <1>2, <2>1, ReturnRow
  <2>2. CASE results # {}
    <3> DEFINE out == Outcome(results)
    <3>1. out \in {"refresh", "retry", "never"} /\ x = Again(q, out)
      BY <1>8, <2>2
    <3> HIDE DEF out, x
    <3>2. x \in CallRow /\ x.calm = q.calm
      BY <1>7, <3>1, AgainRow
    <3>3. QED
      BY <1>2, <1>7, <3>2
  <2>3. QED
    BY <2>1, <2>2
<1>10. ASSUME o.calm
       PROVE  Calm /\ RestAt(x, router, b, latest, R)
  <2>1. CASE results = {}
    <3>1. /\ x.pc = "returned" /\ x.result = "ok" /\ x.attempt = 0 /\ x.version = 0
      BY <1>2, <2>1, ReturnRow
    <3> HIDE DEF x
    <3>2. QED
      BY <1>4, <1>6, <1>10, <3>1 DEF RestAt
  <2>2. CASE results # {}
    <3>1. ~Good(o, router, latest, R)
      BY <1>2, <2>2 DEF Good
    <3>2. /\ Refused(o, latest) /\ Calm /\ o.attempt <= 2 /\ o.version <= router
          /\ \/ o.version = 0 /\ o.attempt + b <= 1
             \/ o.version # 0 /\ router = o.version /\ router # latest /\ o.attempt + b <= 2
             \/ o.version # 0 /\ router # o.version /\ o.attempt + b <= 1
      <4> DEFINE good == Good(o, router, latest, R)
                 refused == Refused(o, latest)
      <4>1. ~good
        BY <3>1
      <4> HIDE DEF good, refused
      <4>2. QED
        BY <1>2, <1>6, <1>10, <4>1 DEF RestAt, good, refused
    <3>3. Outcome(results) = "refresh"
      <4>1. results \subseteq {"expired", "refresh"}
        BY <1>2, <3>2 DEF Refused
      <4>2. QED
        BY <2>2, <4>1 DEF Outcome
    <3>4. /\ q.attempt <= 1 /\ q.version <= router
          /\ q.attempt + b <= IF router = q.version THEN 2 ELSE 1
      BY <1>2, <1>3, <1>4, <1>7, <3>2
    <3>5. RestAt(Again(q, "refresh"), router, b, latest, R)
      BY <1>4, <1>7, <3>4, RestAgain
    <3>6. QED
      BY <2>2, <3>2, <3>3, <3>5
  <2>3. QED
    BY <2>1, <2>2
<1> HIDE DEF x
<1>11. x.calm => Calm /\ RestAt(x, router, Behind', latest, routes[latest])
  BY <1>5, <1>9, <1>10 DEF b, R
<1>12. QED
  BY <1>1, <1>5, <1>9, <1>11, RestOwn

LEMMA EndContextRest ==
    ASSUME Books, AtRest, NEW c \in Caller, EndContext(c)
    PROVE  AtRest'
<1> DEFINE ended == Return([call[c] EXCEPT !.calm = FALSE], "context")
           shared == [d \in Caller |-> IF call[d].pc = "follow" THEN Return(call[d], "context")
                                       ELSE call[d]]
<1>1. call \in [Caller -> CallRow]
  BY DEF Books, ClientTypes
<1>2. ~ended.calm
  <2>1. [call[c] EXCEPT !.calm = FALSE] \in CallRow /\ ~[call[c] EXCEPT !.calm = FALSE].calm
    BY <1>1 DEF CallRow
  <2>2. QED
    BY <2>1, ReturnRow
<1>3. shared \in [Caller -> CallRow]
  <2>1. \A d \in Caller : Return(call[d], "context") \in CallRow
    BY <1>1, ReturnRow
  <2>2. QED
    BY <1>1, <2>1
<1>4. \/ call' = [Disturbed(shared) EXCEPT ![c] = ended]
      \/ call' = [Disturbed(call) EXCEPT ![c] = ended]
  BY DEF EndContext
<1> HIDE DEF ended, shared
<1>5. QED
  BY <1>1, <1>2, <1>3, <1>4, DisturbedRest

LEMMA RestStep ==
    ASSUME MaxAttempts >= 3, Books, Books', AtRest, [Next]_vars
    PROVE  AtRest'
<1>1. CASE UNCHANGED vars
  BY <1>1 DEF vars, AtRest, Calm, Behind, BadLoad
<1>2. CASE Next
  BY <1>2, FleetRest, BeginRest, AttemptRest, ResumeRest, GroupRest, CollectRest,
     ApplyRefreshRest, LoadRest, AddressRest, SendRest, EndContextRest DEF Next, Step
<1>3. QED
  BY <1>1, <1>2

\* In a fleet at rest a call succeeds, whatever route the client starts from and whoever's
\* load it shares: three attempts suffice to catch up, and the code's policy has eight
\* (DefaultRetryPolicy; runWithRetry, refreshAfter, checkRouteVersion).
THEOREM RestIsServed ==
    ASSUME MaxAttempts >= 3
    PROVE  Spec => []RestServes
<1>1. Init => AtRest
  <2> SUFFICES ASSUME Init, NEW c \in Caller PROVE ~call[c].calm
    BY DEF AtRest
  <2>1. QED
    BY NoGroups DEF Init
<1>2. Books /\ Books' /\ AtRest /\ [Next]_vars => AtRest'
  BY RestStep
<1>3. AtRest => RestServes
  BY DEF AtRest, RestAt, RestServes
<1>4. QED
  BY <1>1, <1>2, <1>3, BooksHold, PTL DEF Spec
=============================================================================
