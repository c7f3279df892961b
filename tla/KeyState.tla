------------------------------ MODULE KeyState ------------------------------
(***************************************************************************)
(* The in-memory state of the keys of one slot, as finely as the code      *)
(* touches it (internal/sequence/biz/allocation.go, the retry timer of     *)
(* prefetch.go and the idle cleanup of allocator.go): the cursor that      *)
(* callers move without a lock beside a generation counter, the refill     *)
(* under k.mu, the one reservation in flight, background prefetch and its  *)
(* retry, blocks and batches, eviction.                                    *)
(*                                                                         *)
(* One action is one access to a shared word, or one critical section.     *)
(* The words start, end, generation change only under k.mu, so a section   *)
(* that reads them is one action; an activation writes them one by one.    *)
(*                                                                         *)
(* Abstractions.                                                           *)
(*  - How much to fetch and when to prefetch are choices: a reservation is *)
(*    Step ids or the block, and every allocation may start a prefetch.    *)
(*  - The gate, the deadline and the epochs are SequenceHA's; here a slot  *)
(*    is owned until it is withdrawn, and a withdrawn slot serves nobody.  *)
(*  - references is the number of calls that hold the state.               *)
(*  - A waiter learns of the end of a fetch when it ends: all it reads is  *)
(*    fixed by then.                                                       *)
(***************************************************************************)
EXTENDS Integers, Sequences, FiniteSetsExt

CONSTANTS
    Caller, Key,
    Requests,   \* what callers ask for: keys, a sequence; count, the ids per key;
                \* batch, FetchNextBatch rather than FetchNext
    Step,       \* AllocatorConfig.DefaultStep
    None,
    Calls,      \* bound: the calls of each caller
    MaxStates,  \* bound: the key states created per key
    MaxMark,    \* bound: the last id storage reserves
    MaxFaults   \* bound: lost or failed reservations, refused checks, cancelled calls

ASSUME KeyStateAssumption ==
    /\ Step \in Nat \ {0}
    /\ \A r \in Requests :
         /\ r.keys \in Seq(Key) \ {<<>>} /\ r.count \in Nat \ {0}
         /\ \A m, n \in DOMAIN r.keys : r.keys[m] = r.keys[n] => m = n
    /\ {MaxStates, MaxMark, MaxFaults} \subseteq Nat
    /\ Calls \in [Caller -> Nat]
    /\ "prefetch" \notin Caller
    /\ None \notin Caller \cup (Key \X (1..MaxStates)) \cup {"prefetch"}

VARIABLES
    mark,     \* reserved_end of each key
    owned,    \* the slot is in a.slots
    cached,   \* slot.states: the number of the key's state, or 0
    born,     \* how many states each key has had
    ks,       \* the key states
    call,     \* the callers
    calls,    \* how many calls each caller has made
    victim,   \* the candidate of the cleanup pass, or None
    faults,   \* failures so far
    issued    \* history: the ids handed out

vars == <<mark, owned, cached, born, ks, call, calls, victim, faults, issued>>

-----------------------------------------------------------------------------
\* A state is named by its key and its number.
State == Key \X (1..MaxStates)
KeyOf(o) == o[1]

NoRange == [start |-> 1, end |-> 0]
Size(r) == r.end - r.start + 1

NoFetch == [by |-> None, at |-> "none", got |-> NoRange]

\* recent: touched since the cutoff of the cleanup pass.  timer is the generation
\* the armed retry timer has captured, fired that of a callback under way, or 0.
NewState ==
    [generation |-> 0, initialized |-> FALSE, next |-> 0, start |-> 0, end |-> 0,
     standby |-> NoRange, fetch |-> NoFetch, mu |-> None, timer |-> 0, fired |-> 0,
     recent |-> FALSE, retired |-> FALSE]

NoCall == [pc |-> "idle", todo |-> <<>>, count |-> 0, held |-> {}, pending |-> <<>>,
           o |-> None, generation |-> 0, hadRange |-> FALSE, id |-> 0, start |-> 0,
           floor |-> 0]

Init ==
    /\ mark = [k \in Key |-> 0]
    /\ owned = TRUE
    /\ cached = [k \in Key |-> 0]
    /\ born = [k \in Key |-> 0]
    /\ ks = [o \in State |-> NewState]
    /\ call = [c \in Caller |-> NoCall]
    /\ calls = [c \in Caller |-> 0]
    /\ victim = None
    /\ faults = 0
    /\ issued = [k \in Key |-> {}]

At(c, pc) == call[c].pc = pc
Mine(c) == ks[call[c].o]
Goto(c, pc) == call' = [call EXCEPT ![c].pc = pc]

Users(o) == {c \in Caller : o \in call[c].held}
Waiters(o) == {c \in Caller : At(c, "wait") /\ call[c].o = o}

\* k.mu is free, or c has it.
Free(o) == ks[o].mu = None
Locked(c) == ks[call[c].o].mu = c

InRange(k, id) == k.start <= id /\ id <= k.end

Fault == faults < MaxFaults /\ faults' = faults + 1

\* What a failed call leaves: nothing, whatever it had allocated.
Ended(C) == call' = [c \in Caller |-> IF c \in C THEN NoCall ELSE call[c]]

\* The call turns to its next key, or returns.
Turn(r) ==
    IF r.todo = <<>> THEN NoCall
    ELSE LET o == Head(r.todo)
         IN  [r EXCEPT !.pc = IF r.count = 1 THEN "fast" ELSE "block",
                       !.o = o, !.todo = Tail(r.todo),
                       !.floor = Max(issued[KeyOf(o)] \cup {0}),
                       !.hadRange = FALSE, !.id = 0, !.generation = 0, !.start = 0]

-----------------------------------------------------------------------------
\* The beginning of a call: acquireState for each key.

Cached(k) == <<k, cached[k]>>

\* The state acquireState finds or creates.
Acquired(k) == IF cached[k] # 0 THEN Cached(k) ELSE <<k, born[k] + 1>>

Begin(c, r) ==
    LET states == [n \in DOMAIN r.keys |-> Acquired(r.keys[n])]
        keys == {r.keys[n] : n \in DOMAIN r.keys}
        new == {k \in keys : cached[k] = 0}
        begun == [NoCall EXCEPT !.todo = states, !.count = r.count,
                                !.held = {states[n] : n \in DOMAIN states}]
    IN  /\ At(c, "idle")
        /\ calls[c] < Calls[c]
        /\ owned
        /\ \A k \in new : born[k] < MaxStates
        /\ calls' = [calls EXCEPT ![c] = @ + 1]
        /\ born' = [k \in Key |-> IF k \in new THEN born[k] + 1 ELSE born[k]]
        /\ cached' = [k \in Key |-> IF k \in new THEN born'[k] ELSE cached[k]]
        /\ call' = [call EXCEPT ![c] = IF r.batch THEN [begun EXCEPT !.pc = "prepare",
                                                                     !.o = Head(states)]
                                       ELSE Turn(begun)]
        /\ UNCHANGED <<mark, owned, ks, victim, faults, issued>>

\* hasReadyBlockLocked
HasReadyBlock(k, count) ==
    \/ k.initialized /\ k.generation % 2 = 0
       /\ k.start <= k.next /\ k.next <= k.end /\ k.end - k.next >= count
    \/ Size(k.standby) >= count

\* prepareBatchRange, one key after the other: the batch takes the fetch of every
\* key that needs one and is nobody's yet, and sends them together.
PrepareBatchRange(c) ==
    LET r == call[c]
        n == CHOOSE n \in DOMAIN r.todo : r.todo[n] = r.o
        wanted == ~HasReadyBlock(Mine(c), r.count) /\ Mine(c).fetch = NoFetch
        pending == IF wanted THEN Append(r.pending, r.o) ELSE r.pending
    IN  /\ At(c, "prepare")
        /\ Free(r.o)
        /\ ks' = IF wanted
                 THEN [ks EXCEPT ![r.o].standby = NoRange, ![r.o].timer = 0,
                                 ![r.o].fetch = [NoFetch EXCEPT !.by = c, !.at = "sent"]]
                 ELSE ks
        /\ call' = [call EXCEPT ![c] =
                      IF n < Len(r.todo)
                      THEN [r EXCEPT !.o = r.todo[n + 1], !.pending = pending]
                      ELSE IF pending = <<>> THEN Turn(r)
                      ELSE [r EXCEPT !.pc = "reserve", !.o = None, !.pending = pending]]
        /\ UNCHANGED <<mark, owned, cached, born, calls, victim, faults, issued>>

-----------------------------------------------------------------------------
\* An id, or a block, is the caller's.

\* The ids that are out, with more of them; a 0 says that one was out already.
Given(ids, new) == ids \cup new \cup (IF ids \cap new = {} THEN {} ELSE {0})

\* The last gate check of an allocation; k.mu is released by who has it.  What
\* the check refuses is lost.
Issue(c, k, first, generation) ==
    LET o == call[c].o
        last == first + call[c].count - 1
    IN  /\ ks' = [ks EXCEPT ![o] = [k EXCEPT !.mu = IF @ = c THEN None ELSE @,
                                              !.recent = TRUE]]
        /\ \/ /\ owned
              /\ issued' = [issued EXCEPT ![KeyOf(o)] = Given(@, first..last)]
              /\ call' = [call EXCEPT ![c].pc = "after", ![c].id = last,
                                      ![c].generation = generation]
              /\ UNCHANGED faults
           \/ ~owned /\ Ended({c}) /\ UNCHANGED <<issued, faults>>
           \/ owned /\ Fault /\ Ended({c}) /\ UNCHANGED issued
        /\ UNCHANGED <<mark, owned, cached, born, calls, victim>>

\* afterAllocate: perhaps a background fetch, started under k.mu.
AfterAllocate(c) ==
    LET o == call[c].o
    IN  /\ At(c, "after")
        /\ \/ UNCHANGED ks
           \/ /\ Free(o)
              /\ Mine(c).generation = call[c].generation
              /\ Mine(c).standby = NoRange /\ Mine(c).fetch = NoFetch
              /\ mark[KeyOf(o)] + Step <= MaxMark
              /\ ks' = [ks EXCEPT ![o].fetch = [NoFetch EXCEPT !.by = "prefetch",
                                                               !.at = "sent"],
                                  ![o].timer = 0]
        /\ call' = [call EXCEPT ![c] = Turn(call[c])]
        /\ UNCHANGED <<mark, owned, cached, born, calls, victim, faults, issued>>

-----------------------------------------------------------------------------
\* allocate: the optimistic path for one id.

Still == UNCHANGED <<mark, owned, cached, born, calls, victim, faults, issued>>

\* One word is read into the caller; then one path or the other.
Read(c, ok, good, bad) ==
    Goto(c, IF ok THEN good ELSE bad) /\ UNCHANGED ks /\ Still

FastLoad(c) ==
    /\ At(c, "fast")
    /\ call' = [call EXCEPT ![c].pc = IF Mine(c).initialized THEN "add" ELSE "slow",
                            ![c].hadRange = Mine(c).initialized,
                            ![c].generation = Mine(c).generation]
    /\ UNCHANGED ks
    /\ Still

\* beginLinearization and next.Add(1)
FastAdd(c) ==
    /\ At(c, "add")
    /\ IF owned
       THEN /\ ks' = [ks EXCEPT ![call[c].o].next = @ + 1]
            /\ call' = [call EXCEPT ![c].id = Mine(c).next + 1,
                          ![c].pc = IF call[c].generation % 2 = 0 THEN "start" ELSE "slow"]
       ELSE Ended({c}) /\ UNCHANGED ks
    /\ Still

FastStart(c) ==
    /\ At(c, "start")
    /\ call' = [call EXCEPT ![c].start = Mine(c).start,
                  ![c].pc = IF call[c].id >= Mine(c).start THEN "end" ELSE "slow"]
    /\ UNCHANGED ks
    /\ Still

FastEnd(c) == At(c, "end") /\ Read(c, call[c].id <= Mine(c).end, "restart", "slow")

FastRestart(c) ==
    At(c, "restart") /\ Read(c, call[c].start = Mine(c).start, "generation", "slow")

\* No refill since the caller began.  The mutant trusts a generation that was even.
Even(c) == call[c].generation % 2 = 0
SameGeneration(c) == call[c].generation = Mine(c).generation

FastReturn(c) ==
    /\ At(c, "generation")
    /\ IF SameGeneration(c) THEN Issue(c, Mine(c), call[c].id, call[c].generation)
       ELSE Goto(c, "slow") /\ UNCHANGED ks /\ Still

-----------------------------------------------------------------------------
\* tryAllocateBlock: optimistic first, again under k.mu.

Missed(c) == IF Locked(c) THEN "rest" ELSE "slow"

BlockLoad(c) ==
    /\ At(c, "block")
    /\ call' = [call EXCEPT ![c].generation = Mine(c).generation,
                  ![c].pc = IF Mine(c).initialized /\ Mine(c).generation % 2 = 0
                            THEN "next" ELSE Missed(c)]
    /\ UNCHANGED ks
    /\ Still

BlockNext(c) ==
    /\ At(c, "next")
    /\ call' = [call EXCEPT ![c].id = Mine(c).next, ![c].pc = "first"]
    /\ UNCHANGED ks
    /\ Still

BlockStart(c) == At(c, "first") /\ Read(c, call[c].id >= Mine(c).start, "last", Missed(c))

BlockEnd(c) ==
    At(c, "last") /\ Read(c, call[c].id + call[c].count <= Mine(c).end, "cas", Missed(c))

BlockSwap(c) ==
    /\ At(c, "cas")
    /\ IF ~owned
       THEN Ended({c}) /\ ks' = [ks EXCEPT ![call[c].o].mu = IF Locked(c) THEN None ELSE @]
       ELSE IF Mine(c).next = call[c].id
       THEN /\ ks' = [ks EXCEPT ![call[c].o].next = @ + call[c].count]
            /\ Goto(c, "swapped")
       ELSE Goto(c, Missed(c)) /\ UNCHANGED ks
    /\ Still

BlockReturn(c) ==
    /\ At(c, "swapped")
    /\ IF SameGeneration(c) THEN Issue(c, Mine(c), call[c].id + 1, call[c].generation)
       ELSE Goto(c, Missed(c)) /\ UNCHANGED ks /\ Still

-----------------------------------------------------------------------------
\* The slow paths, under k.mu.

Hold(c, k) == [k EXCEPT !.mu = c]
Release(k) == [k EXCEPT !.mu = None]

\* What follows when the active range, as k has it, does not do: the standby
\* range, the fetch in flight, or a fetch of the caller's own.
Refill(c, k) ==
    LET o == call[c].o
        dropped == Release([k EXCEPT !.standby = NoRange])
    IN  \/ /\ Size(k.standby) >= call[c].count
           /\ IF owned THEN /\ ks' = [ks EXCEPT ![o] = Hold(c, k)]
                            /\ Goto(c, "odd")
              ELSE ks' = [ks EXCEPT ![o] = Release(k)] /\ Ended({c})
        \/ /\ Size(k.standby) < call[c].count
           /\ k.fetch # NoFetch
           /\ ks' = [ks EXCEPT ![o] = dropped]
           /\ Goto(c, "wait")
        \/ /\ Size(k.standby) < call[c].count
           /\ k.fetch = NoFetch
           /\ ks' = [ks EXCEPT ![o] = [dropped EXCEPT
                        !.timer = 0, !.fetch = [NoFetch EXCEPT !.by = c, !.at = "sent"]]]
           /\ call' = [call EXCEPT ![c].pc = "reserve", ![c].pending = <<o>>]

\* One round of allocateSlow.  A first advance that is in the range of the same
\* generation counts; else the cursor advances again.
AllocateSlow(c) ==
    LET k == Mine(c)
        again == [k EXCEPT !.next = @ + 1]
        kept == call[c].hadRange /\ SameGeneration(c) /\ InRange(k, call[c].id)
    IN  /\ At(c, "slow") /\ call[c].count = 1
        /\ Free(call[c].o)
        /\ \/ ~owned /\ Ended({c}) /\ UNCHANGED ks /\ Still
           \/ owned /\ ~k.initialized /\ Refill(c, k) /\ Still
           \/ owned /\ k.initialized /\ kept /\ Issue(c, k, call[c].id, k.generation)
           \/ /\ owned /\ k.initialized /\ ~kept /\ InRange(k, again.next)
              /\ Issue(c, again, again.next, k.generation)
           \/ /\ owned /\ k.initialized /\ ~kept /\ ~InRange(k, again.next)
              /\ Refill(c, again)
              /\ Still

\* One round of allocateBlockSlow: the block is tried again, then a refill.
AllocateBlockSlow(c) ==
    /\ At(c, "slow") /\ call[c].count > 1
    /\ Free(call[c].o)
    /\ ks' = [ks EXCEPT ![call[c].o] = Hold(c, @)]
    /\ Goto(c, "block")
    /\ Still

BlockRefill(c) == At(c, "rest") /\ Refill(c, Mine(c)) /\ Still

-----------------------------------------------------------------------------
\* activateStandbyLocked, word by word.

Write(c, k, pc) == ks' = [ks EXCEPT ![call[c].o] = k] /\ Goto(c, pc) /\ Still

ActivateOdd(c) ==
    /\ At(c, "odd")
    /\ Write(c, [Mine(c) EXCEPT !.generation = @ + 1], "cursor")

ActivateCursor(c) ==
    /\ At(c, "cursor")
    /\ Write(c, [Mine(c) EXCEPT !.next = Mine(c).standby.start + call[c].count - 1], "low")

ActivateStart(c) ==
    /\ At(c, "low")
    /\ Write(c, [Mine(c) EXCEPT !.start = Mine(c).standby.start], "high")

ActivateEnd(c) ==
    /\ At(c, "high")
    /\ Write(c, [Mine(c) EXCEPT !.end = Mine(c).standby.end], "even")

ActivateEven(c) ==
    LET k == Mine(c)
    IN  /\ At(c, "even")
        /\ Issue(c, [k EXCEPT !.generation = @ + 1, !.initialized = TRUE,
                              !.standby = NoRange, !.timer = 0],
                 k.standby.start, k.generation + 1)

-----------------------------------------------------------------------------
\* Reservations.

StepFor(count) == Max({Step, count})

\* reserveRanges of a caller: all ranges in one transaction, or none.  What is
\* committed may never be known.
Reserve(c) ==
    LET P == {call[c].pending[n] : n \in DOMAIN call[c].pending}
        step == StepFor(call[c].count)
        Answer(at, o) == [ks[o].fetch EXCEPT !.at = at,
            !.got = IF at = "answered" THEN [start |-> mark[KeyOf(o)] + 1,
                                             end |-> mark[KeyOf(o)] + step]
                    ELSE NoRange]
        Answered(at) ==
            /\ ks' = [o \in State |-> IF o \in P THEN [ks[o] EXCEPT !.fetch = Answer(at, o)]
                                      ELSE ks[o]]
            /\ Goto(c, IF at = "answered" THEN "complete" ELSE "fail")
        committed == [k \in Key |-> IF k \in {KeyOf(o) : o \in P} THEN mark[k] + step
                                    ELSE mark[k]]
        room == \A k \in Key : committed[k] <= MaxMark
    IN  /\ At(c, "reserve")
        /\ \/ room /\ Answered("answered") /\ mark' = committed /\ UNCHANGED faults
           \/ room /\ Answered("failed") /\ mark' = committed /\ Fault
           \/ ~room /\ Answered("failed") /\ UNCHANGED <<mark, faults>>
           \/ Answered("failed") /\ UNCHANGED mark /\ Fault
        /\ UNCHANGED <<owned, cached, born, calls, victim, issued>>

\* completeFetch.  The range becomes the standby range and everyone waiting goes
\* on; with an error those who waited for a caller's fetch fail with it.
Complete(o, timer) ==
    LET ok == ks[o].fetch.at = "answered"
    IN  ks' = [ks EXCEPT ![o].standby = IF ok THEN ks[o].fetch.got ELSE @,
                         ![o].timer = IF ok THEN 0 ELSE timer,
                         ![o].fetch = NoFetch]

\* Those who waited.  The mutant forgets them when the fetch failed.
WokenByRange(o) == IF ks[o].fetch.at = "answered" THEN Waiters(o) ELSE {}
Woken(o) == Waiters(o)

Wake(C, ok) == [c \in Caller |-> IF c \notin C THEN call[c]
                                 ELSE IF ok THEN [call[c] EXCEPT !.pc = "slow"]
                                 ELSE NoCall]

\* A caller completes its fetches in the order of its request and goes on: to its
\* first key after a batch's preparation, to another round else.
CompleteFetch(c) ==
    LET r == call[c]
        o == Head(r.pending)
        ok == At(c, "complete")
        left == [r EXCEPT !.pending = Tail(@)]
        done == IF left.pending # <<>> THEN left
                ELSE IF ~ok THEN NoCall
                ELSE IF r.o = None THEN Turn(left)
                ELSE [left EXCEPT !.pc = "slow"]
    IN  /\ call[c].pc \in {"complete", "fail"}
        /\ Free(o)
        /\ Complete(o, ks[o].timer)
        /\ call' = [Wake(Woken(o), ok) EXCEPT ![c] = done]
        /\ Still

\* The context of a waiting call ends.
Cancel(c) ==
    /\ At(c, "wait")
    /\ Fault
    /\ Ended({c})
    /\ UNCHANGED <<mark, owned, cached, born, ks, calls, victim, issued>>

\* launchBackgroundPrefetch: the transaction, then completeFetch.
BackgroundReserve(o) ==
    LET end == mark[KeyOf(o)] + Step
        got == [start |-> mark[KeyOf(o)] + 1, end |-> end]
    IN  /\ ks[o].fetch.by = "prefetch" /\ ks[o].fetch.at = "sent"
        /\ \/ /\ ks' = [ks EXCEPT ![o].fetch.at = "answered", ![o].fetch.got = got]
              /\ mark' = [mark EXCEPT ![KeyOf(o)] = end]
              /\ UNCHANGED faults
           \/ /\ ks' = [ks EXCEPT ![o].fetch.at = "failed"]
              /\ mark' \in {mark, [mark EXCEPT ![KeyOf(o)] = end]}
              /\ Fault
        /\ UNCHANGED <<owned, cached, born, call, calls, victim, issued>>

\* A failure arms the retry timer (scheduleRetryLocked) and lets everyone who
\* waited try for himself.
CompletePrefetch(o) ==
    /\ ks[o].fetch.by = "prefetch" /\ ks[o].fetch.at # "sent"
    /\ Free(o)
    /\ Complete(o, ks[o].generation)
    /\ call' = Wake(Woken(o), TRUE)
    /\ Still

-----------------------------------------------------------------------------
\* The retry of a background prefetch.

\* The callback starts; stopping the timer is too late from here on.
TimerFires(o) ==
    /\ ks[o].timer # 0 /\ ks[o].fired = 0
    /\ ks' = [ks EXCEPT ![o].timer = 0, ![o].fired = ks[o].timer]
    /\ UNCHANGED call
    /\ Still

\* The state is still the one of its key.  The mutant does not look.
SomeState(o) == owned
InCache(o) == owned /\ cached[KeyOf(o)] = o[2]

\* retryPrefetch; it may also find that it is early, or the key idle.
RetryPrefetch(o) ==
    /\ ks[o].fired # 0
    /\ Free(o)
    /\ \/ ks' = [ks EXCEPT ![o].fired = 0]
       \/ /\ InCache(o)
          /\ ks[o].fetch = NoFetch /\ ks[o].standby = NoRange
          /\ ks[o].generation = ks[o].fired
          /\ mark[KeyOf(o)] + Step <= MaxMark
          /\ ks' = [ks EXCEPT ![o].fired = 0, ![o].timer = 0,
                       ![o].fetch = [NoFetch EXCEPT !.by = "prefetch", !.at = "sent"]]
    /\ UNCHANGED call
    /\ Still

-----------------------------------------------------------------------------
\* The idle cleanup, and the end of the slot.

\* collectIdleCandidates: a state that has not been touched since the cutoff.
CollectIdle(o) ==
    /\ owned /\ cached[KeyOf(o)] = o[2]
    /\ victim = None
    /\ victim' = o
    /\ ks' = [ks EXCEPT ![o].recent = FALSE]
    /\ UNCHANGED <<mark, owned, cached, born, call, calls, faults, issued>>

\* Nobody is at work on the state.  The mutant looks at the callers only.
Unreferenced(o) == Users(o) = {}
Quiescent(o) == ks[o].fetch = NoFetch /\ Users(o) = {}

\* evictIdleCandidates looks again at all of it under both locks.
EvictIdle(o) ==
    /\ victim = o
    /\ Free(o)
    /\ IF owned /\ cached[KeyOf(o)] = o[2] /\ ~ks[o].recent /\ Quiescent(o)
       THEN /\ cached' = [cached EXCEPT ![KeyOf(o)] = 0]
            /\ ks' = [ks EXCEPT ![o].retired = TRUE, ![o].timer = 0]
       ELSE UNCHANGED <<cached, ks>>
    /\ victim' = None
    /\ UNCHANGED <<mark, owned, born, call, calls, faults, issued>>

\* A drain or a shutdown takes the slot out of a.slots.
Withdraw ==
    /\ owned
    /\ Fault
    /\ owned' = FALSE
    /\ UNCHANGED <<mark, cached, born, ks, call, calls, victim, issued>>

-----------------------------------------------------------------------------
CallStep(c) ==
    \/ PrepareBatchRange(c)
    \/ AfterAllocate(c)
    \/ FastLoad(c) \/ FastAdd(c) \/ FastStart(c) \/ FastEnd(c) \/ FastRestart(c)
    \/ FastReturn(c)
    \/ BlockLoad(c) \/ BlockNext(c) \/ BlockStart(c) \/ BlockEnd(c) \/ BlockSwap(c)
    \/ BlockReturn(c)
    \/ AllocateSlow(c) \/ AllocateBlockSlow(c) \/ BlockRefill(c)
    \/ ActivateOdd(c) \/ ActivateCursor(c) \/ ActivateStart(c) \/ ActivateEnd(c)
    \/ ActivateEven(c)
    \/ Reserve(c) \/ CompleteFetch(c)

Background(o) ==
    \/ BackgroundReserve(o)
    \/ CompletePrefetch(o)
    \/ TimerFires(o)
    \/ RetryPrefetch(o)
    \/ CollectIdle(o)
    \/ EvictIdle(o)

Next ==
    \/ \E c \in Caller : (\E r \in Requests : Begin(c, r)) \/ CallStep(c) \/ Cancel(c)
    \/ \E o \in State : Background(o)
    \/ Withdraw

\* Goroutines that can run do, and a transaction ends within its timeout.  Nobody
\* has to call, and no fault has to happen.
Fairness ==
    /\ \A c \in Caller : WF_vars(CallStep(c))
    /\ \A o \in State : WF_vars(BackgroundReserve(o) \/ CompletePrefetch(o))

Spec == Init /\ [][Next]_vars
FairSpec == Spec /\ Fairness

-----------------------------------------------------------------------------
\* Properties.

\* Allocations of a key never repeat an id, and each lies above all ids that were
\* allocated before it began, also while the bounds are being rewritten under it
\* (allocate, tryAllocateBlock, activateStandbyLocked).
Promise == INSTANCE MonotonicIds WITH
    Id <- 1..MaxMark,
    request <- [c \in Caller |->
        IF call[c].o = None \/ call[c].pc \in {"prepare", "after"} THEN [floor |-> -1]
        ELSE [key |-> KeyOf(call[c].o), floor |-> call[c].floor]]
Monotonic == Promise!Spec

\* A key has one reservation in flight, whoever began it and whichever state of
\* the key it is for (rangeFetch).
SingleFlight ==
    \A k \in Key :
        Cardinality({o \in State : KeyOf(o) = k /\ ks[o].fetch # NoFetch}) <= 1

\* An evicted state is dead: nobody holds it, nothing is fetched for it, no timer
\* will wake it (evictIdleCandidates, retryPrefetch).
RetiredIsQuiet ==
    \A o \in State : ks[o].retired =>
        /\ Users(o) = {}
        /\ ks[o].fetch = NoFetch
        /\ ks[o].timer = 0

\* Every call ends: no wake-up is lost, and no two batches wait for each other's
\* fetches (prepareBatchRanges, completeFetch).
EveryCallEnds == \A c \in Caller : ~At(c, "idle") ~> At(c, "idle")
=============================================================================
