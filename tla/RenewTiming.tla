---------------------------- MODULE RenewTiming -----------------------------
(***************************************************************************)
(* When the local deadline of a healthy instance is renewed: the ticker of *)
(* the renewal loop (task.go), the sample of the storage clock it begins   *)
(* with (NodeManager.Renew), the wait for authorityMu, which claims and    *)
(* synchronizations hold across their statements, and the statement itself *)
(* (RenewLeases, renewLocked).  Storage works, and every statement of this *)
(* instance takes at most CallMax.                                         *)
(*                                                                         *)
(* Abstractions.                                                           *)
(*  - Time passes in steps, for everything at once, and only while nobody  *)
(*    can go on without waiting.  Ages are kept instead of moments.        *)
(*  - authorityMu goes to those who wait in the order in which they came.  *)
(*  - What a statement does is SequenceHA's; none is refused here.         *)
(***************************************************************************)
EXTENDS Integers, Sequences

CONSTANTS
    LeaseDeadline,     \* HAConfig.LeaseDeadline, lease_duration - safety_margin
    RenewInterval,
    ReserveTimeout,    \* AllocatorConfig.ReserveTimeout, storeTimeout
    CallMax,           \* what a statement takes at most
    Contender,         \* of the loops "refresh" and "handoff", those that run
    MaxTimeouts        \* bound: the passes whose context ends before their answer

\* What is assumed of the constants, with what DataPlaneConfig.Validate demands.
TimingAssumption ==
    /\ {LeaseDeadline, RenewInterval, ReserveTimeout, CallMax} \subseteq Nat \ {0}
    /\ CallMax <= ReserveTimeout
    /\ LeaseDeadline > RenewInterval + ReserveTimeout
    /\ MaxTimeouts \in Nat
    /\ Contender \subseteq {"refresh", "handoff"}

VARIABLES
    tick,      \* time.Ticker: the time to its next tick, and whether one waits
    actor,     \* the loops
    mu,        \* authorityMu: who has it and who waits for it
    left,      \* the time to the local deadline, or -1 before the first renewal
    timeouts   \* so far

vars == <<tick, actor, mu, left, timeouts>>

Actor == Contender \cup {"renew"}

\* The statements of a loop under authorityMu: RenewLeases, Claim, SyncAuthority.
Statements ==
    [renew |-> <<"renew">>, refresh |-> <<"claim", "sync", "renew">>, handoff |-> <<"sync">>]

\* spent is the age of the statement, which is that of the anchor too; context the
\* age of the context.
Idle == [at |-> "idle", n |-> 0, spent |-> 0, context |-> 0]

Init ==
    /\ tick = [next |-> RenewInterval, waits |-> TRUE]
    /\ actor = [a \in Actor |-> Idle]
    /\ mu = <<>>
    /\ left = -1
    /\ timeouts = 0

-----------------------------------------------------------------------------
\* The renewal loop: a tick, the sample, and the context, which is older than the
\* lock.
Start ==
    /\ tick.waits /\ actor["renew"] = Idle
    /\ tick' = [tick EXCEPT !.waits = FALSE]
    /\ actor' = [actor EXCEPT !["renew"].at = "observe"]
    /\ UNCHANGED <<mu, left, timeouts>>

Observe ==
    /\ actor["renew"].at = "observe"
    /\ actor' = [actor EXCEPT !["renew"] = [Idle EXCEPT !.at = "lock"]]
    /\ mu' = Append(mu, "renew")
    /\ UNCHANGED <<tick, left, timeouts>>

\* A claim, or a synchronization.
Contend(a) ==
    /\ actor[a] = Idle
    /\ actor' = [actor EXCEPT ![a].at = "lock"]
    /\ mu' = Append(mu, a)
    /\ UNCHANGED <<tick, left, timeouts>>

Lock(a) ==
    /\ actor[a].at = "lock" /\ Head(mu) = a
    /\ actor' = [actor EXCEPT ![a].at = "call", ![a].n = 1]
    /\ UNCHANGED <<tick, mu, left, timeouts>>

\* The deadline of a renewal counts from its anchor.
Rearmed(a) == LeaseDeadline - actor[a].spent

\* A statement is answered; the next one follows, or the lock is free.
Answer(a) ==
    LET last == actor[a].n = Len(Statements[a])
        renewal == Statements[a][actor[a].n] = "renew"
    IN  /\ actor[a].at = "call"
        /\ left' = IF renewal /\ Rearmed(a) > 0 THEN Rearmed(a) ELSE left
        /\ actor' = [actor EXCEPT ![a] = IF last THEN Idle
                                         ELSE [actor[a] EXCEPT !.n = @ + 1, !.spent = 0]]
        /\ mu' = IF last THEN Tail(mu) ELSE mu
        /\ UNCHANGED <<tick, timeouts>>

\* The context has ended: the statement fails, and with it the pass.
Timeout(a) ==
    /\ actor[a].at = "call" /\ actor[a].context = ReserveTimeout
    /\ timeouts < MaxTimeouts /\ timeouts' = timeouts + 1
    /\ actor' = [actor EXCEPT ![a] = Idle]
    /\ mu' = Tail(mu)
    /\ UNCHANGED <<tick, left>>

\* time.Ticker keeps its pace and one tick.  The mutant counts the interval from the
\* end of the pass.
TickedAfterPass ==
    IF actor["renew"] # Idle THEN tick
    ELSE [next |-> IF tick.next = 1 THEN RenewInterval ELSE tick.next - 1,
          waits |-> tick.next = 1]
Ticked ==
    [next |-> IF tick.next = 1 THEN RenewInterval ELSE tick.next - 1,
     waits |-> tick.waits \/ tick.next = 1]

Older(age) == IF age < ReserveTimeout THEN age + 1 ELSE age

Pass ==
    /\ ~(tick.waits /\ actor["renew"] = Idle)
    /\ mu # <<>> => actor[Head(mu)].at # "lock"
    /\ \A a \in Actor :
         /\ actor[a].at \in {"observe", "call"} => actor[a].spent < CallMax
         /\ actor[a].at = "call" => actor[a].context < ReserveTimeout
    /\ tick' = Ticked
    /\ actor' = [a \in Actor |->
                   LET r == actor[a]
                   IN  IF r = Idle THEN r
                       ELSE [r EXCEPT !.spent = IF r.at = "lock" THEN 0 ELSE @ + 1,
                                      !.context = IF r.at = "observe" THEN 0 ELSE Older(@)]]
    /\ left' = IF left <= 0 THEN left ELSE left - 1
    /\ UNCHANGED <<mu, timeouts>>

Next ==
    \/ Start \/ Observe \/ Pass
    \/ \E a \in Contender : Contend(a)
    \/ \E a \in Actor : Lock(a) \/ Answer(a) \/ Timeout(a)

Spec == Init /\ [][Next]_vars

-----------------------------------------------------------------------------
\* Properties.

\* The deadline of a healthy instance does not pass: whatever its statements and its
\* other loops do within their bounds, the next renewal comes in time (RenewLeases,
\* Ticker.Serve).
NeverLapses == left # 0
=============================================================================
