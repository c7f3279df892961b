---------------------------- MODULE KeyIdsProofs ----------------------------
(***************************************************************************)
(* The ids of the keys of one slot: none is handed out twice, and each     *)
(* lies above those that were out when its call began, for any number of   *)
(* callers, keys, states and ids, whatever the callers interleave while a  *)
(* refill rewrites the range under them: KeyState implements MonotonicIds. *)
(***************************************************************************)
EXTENDS KeyStateProofs

-----------------------------------------------------------------------------
\* Reservations in flight.

\* A fetch is that of the call that waits for its answer; while it is under way there
\* is no standby range, and there is room for what it asks for.
PendingInv(q, c) ==
    /\ \A n \in DOMAIN q.pending : ks[q.pending[n]].fetch.by = c
    /\ \A m, n \in DOMAIN q.pending : q.pending[m] = q.pending[n] => m = n

FetchInv ==
    /\ \A k \in Key : mark[k] <= MaxMark
    /\ \A o \in State : ks[o].fetch # NoFetch => ks[o].standby = NoRange
    /\ \A o \in State : ks[o].fetch.by = "prefetch" /\ ks[o].fetch.at = "sent" =>
         mark[KeyOf(o)] + Step <= MaxMark
    /\ \A c \in Caller : PendingInv(call[c], c)

-----------------------------------------------------------------------------
\* Where the ids of a key are: those that are out, those that calls carry, and the
\* ranges, which lie above all of them.

IsEven(n) == n % 2 = 0
Above(ids, x) == \A y \in ids : y < x

\* The ranges of state r, when ids are out and m is the last id storage has reserved.
\* While the generation is odd the words of the active range mean nothing.
Ranges(r, ids, m) ==
    /\ r.standby # NoRange =>
         /\ r.standby.start <= r.standby.end /\ r.standby.end <= m
         /\ Above(ids, r.standby.start)
    /\ r.fetch.at = "answered" =>
         /\ r.fetch.got.start <= r.fetch.got.end /\ r.fetch.got.end <= m
         /\ Above(ids, r.fetch.got.start)
    /\ IsEven(r.generation) =>
         /\ r.end <= m
         /\ r.standby # NoRange => r.end < r.standby.start
         /\ r.fetch.at = "answered" => r.end < r.fetch.got.start
         /\ r.initialized => 1 <= r.start /\ Above(ids, r.next + 1)

\* Nothing was refilled since call q read the generation of state r.
Valid(q, r) == q.generation = r.generation /\ IsEven(q.generation)

\* The ids a call has taken from the cursor and not checked yet: one of its own, or a
\* block.
HasId(q) ==
    \/ q.pc \in FastLabel
    \/ q.pc \in {"slow", "wait"} \cup FetchLabel /\ q.hadRange

Carried(q, r) ==
    {y \in q.id..(q.id + q.count) :
        /\ Valid(q, r)
        /\ \/ HasId(q) /\ y = q.id
           \/ q.pc = "swapped" /\ y # q.id}

\* What the words say that a call has read.
Reading(q, r) ==
    /\ q.generation <= r.generation
    /\ q.hadRange => q.count = 1 /\ r.initialized
    /\ q.pc = "prepare" => q.generation = 0 /\ ~q.hadRange /\ q.floor = 0
    /\ q.pc = "fast" => q.count = 1
    /\ q.pc \in {"add"} \cup FastLabel => q.hadRange
    /\ q.pc \in {"block", "rest"} \cup BlockLabel => ~q.hadRange
    /\ q.pc \in FastLabel \cup BlockLabel => IsEven(q.generation)
    /\ q.pc \in BlockLabel => r.initialized
    /\ Valid(q, r) =>
         /\ q.pc \in {"end", "restart", "generation", "last", "cas", "swapped"} => q.id >= r.start
         /\ q.pc \in {"restart", "generation"} => q.id <= r.end
         /\ q.pc \in {"cas", "swapped"} => q.id + q.count <= r.end

\* The range a caller is writing, word by word, under the lock.
Writing(c, q, r) ==
    /\ q.pc \in {"rest", "odd"} \cup OddLabel => r.mu = c
    /\ q.pc \in OddLabel => ~IsEven(r.generation)
    /\ q.pc \in {"odd"} \cup OddLabel => Size(r.standby) >= q.count
    /\ q.pc \in {"low", "high", "even"} => r.next >= r.standby.start + q.count - 1
    /\ q.pc \in {"high", "even"} => r.start = r.standby.start
    /\ q.pc = "even" => r.end = r.standby.end

\* A call carries ids that nobody has, above those that were out when it began.
Fresh(q, r, ids) ==
    /\ q.floor \in ids \cup {0}
    /\ \A y \in Carried(q, r) : q.floor < y /\ y \notin ids /\ y <= r.next

CallInv(c, q, r, ids) == Reading(q, r) /\ Writing(c, q, r) /\ Fresh(q, r, ids)

\* k.mu is with who is at work under it, and the generation is odd only then.
LockInv(r, Q) ==
    /\ r.mu # None => /\ r.mu \in DOMAIN Q
                      /\ Q[r.mu].pc \in {"block", "rest", "odd"} \cup BlockLabel \cup OddLabel
    /\ ~IsEven(r.generation) => r.mu # None /\ Q[r.mu].pc \in OddLabel

\* All of it, for a state and the calls Q that are at work on it.
RowInv(r, ids, m, Q) ==
    /\ Ranges(r, ids, m)
    /\ LockInv(r, Q)
    /\ \A c \in DOMAIN Q : CallInv(c, Q[c], r, ids)
    /\ \A c, d \in DOMAIN Q : c # d => Carried(Q[c], r) \cap Carried(Q[d], r) = {}

CallsOn(o) == [c \in {d \in Caller : call[d].o = o} |-> call[c]]

IdsInv ==
    /\ \A k \in Key : \A y \in issued[k] : 1 <= y /\ y <= mark[k]
    /\ \A o \in State :
         IsCached(o) => RowInv(ks[o], issued[KeyOf(o)], mark[KeyOf(o)], CallsOn(o))

-----------------------------------------------------------------------------
\* Reservations in flight, step by step.

Among(o, s) == \E n \in DOMAIN s : s[n] = o
Unrepeated(s) == \A m, n \in DOMAIN s : s[m] = s[n] => m = n

\* A fetch goes on, ends, or begins: in the background, or for a call.
FetchMove(o) ==
    \/ ks'[o].fetch = ks[o].fetch /\ ks'[o].standby \in {ks[o].standby, NoRange}
    \/ ks'[o].fetch = NoFetch /\ \A c \in Caller : ~Among(o, call'[c].pending)
    \/ /\ ks[o].fetch = NoFetch /\ ks'[o].standby = NoRange
       /\ \/ ks'[o].fetch.by = "prefetch" /\ mark[KeyOf(o)] + Step <= MaxMark
          \/ ks'[o].fetch.by \in Caller

\* A call waits for what it waited for, or for a fetch it began in this step.
PendingMove(c) ==
    /\ Unrepeated(call'[c].pending)
    /\ \A o \in State : Among(o, call'[c].pending) =>
         \/ Among(o, call[c].pending)
         \/ ks[o].fetch = NoFetch /\ ks'[o].fetch.by = c

LEMMA PendingStates ==
    ASSUME KeyTypes, NEW c \in Caller
    PROVE  /\ \A n \in DOMAIN call[c].pending : call[c].pending[n] \in State
           /\ call[c].pending \in Seq(State)
<1>1. call[c].pending \in Seq(State)
  BY CallTypes DEF CallRecord
<1>2. QED
  BY <1>1

LEMMA FetchMoves ==
    ASSUME Shape, KeyTypes', FetchInv, mark' = mark,
           \A o \in State : FetchMove(o), \A c \in Caller : PendingMove(c)
    PROVE  FetchInv'
<1>1. NoFetch.by = None /\ None \notin Caller /\ "prefetch" \notin Caller /\ None # "prefetch"
  BY ConstantFacts DEF NoFetch
<1>2. ASSUME NEW c \in Caller
      PROVE  PendingInv(call[c], c)'
  <2>1. ASSUME NEW n \in DOMAIN call'[c].pending
        PROVE  ks'[call'[c].pending[n]].fetch.by = c
    <3> DEFINE p == call'[c].pending[n]
    <3>0. call'[c].pending \in Seq(State)
      <4>1. call'[c] \in Call
        BY DEF KeyTypes
      <4>2. QED
        BY <4>1, CallFields DEF CallRecord
    <3>1. p \in State /\ Among(p, call'[c].pending)
      BY <2>1, <3>0 DEF Among
    <3> HIDE DEF p
    <3>2. FetchMove(p) /\ PendingMove(c)
      BY <3>1
    <3>3. CASE ks[p].fetch = NoFetch /\ ks'[p].fetch.by = c
      BY <3>3 DEF p
    <3>4. CASE Among(p, call[c].pending)
      <4>1. ks[p].fetch.by = c
        BY <3>4 DEF FetchInv, PendingInv, Among
      <4>2. QED
        BY <1>1, <3>1, <3>2, <4>1 DEF FetchMove, p
    <3>5. QED
      BY <3>1, <3>2, <3>3, <3>4 DEF PendingMove
  <2>2. QED
    BY <2>1 DEF PendingInv, PendingMove, Unrepeated
<1>3. ASSUME NEW o \in State
      PROVE  /\ ks'[o].fetch # NoFetch => ks'[o].standby = NoRange
             /\ ks'[o].fetch.by = "prefetch" /\ ks'[o].fetch.at = "sent" =>
                  mark[KeyOf(o)] + Step <= MaxMark
  BY <1>1 DEF FetchMove, FetchInv
<1>4. QED
  BY <1>2, <1>3 DEF FetchInv

\* A call that begins no fetch.
LEMMA SamePending ==
    ASSUME FetchInv, NEW c \in Caller,
           call'[c].pending = call[c].pending \/ call'[c].pending = <<>>
    PROVE  PendingMove(c)
  BY DEF FetchInv, PendingInv, PendingMove, Among, Unrepeated

LEMMA NoCallPending == NoCall.pending = <<>>
  BY DEF NoCall

\* A step of a call on its state, which begins no fetch.
QuietStep(c) ==
    /\ \A d \in Caller \ {c} : call'[d] = call[d]
    /\ call'[c].pending = call[c].pending \/ call'[c].pending = <<>>
    /\ \A o \in State : FetchMove(o)
    /\ mark' = mark

LEMMA QuietFetch ==
    ASSUME Shape, KeyTypes', FetchInv, NEW c \in Caller, QuietStep(c)
    PROVE  FetchInv'
<1>1. \A d \in Caller : PendingMove(d)
  BY SamePending DEF QuietStep
<1>2. QED
  BY <1>1, FetchMoves DEF QuietStep

LEMMA FastFetch ==
    ASSUME Shape, NEW c \in Caller,
           \/ FastLoad(c) \/ FastAdd(c) \/ FastStart(c) \/ FastEnd(c) \/ FastRestart(c)
           \/ BlockLoad(c) \/ BlockNext(c) \/ BlockStart(c) \/ BlockEnd(c)
    PROVE  QuietStep(c)
<1>1. call[c] \in CallRecord /\ call \in [Caller -> Call] /\ ks \in [State -> KeyRecord]
  BY CallTypes DEF Shape, KeyTypes
<1>2. \A d \in Caller \ {c} : call'[d] = call[d]
  BY FastCalls
<1>3. call'[c].pending = call[c].pending \/ call'[c].pending = <<>>
  BY FastCalls, NoCallPending DEF Moved
<1>4. \A o \in State : FetchMove(o)
  BY <1>1 DEF Read, FastLoad, FastAdd, FastStart, FastEnd, FastRestart,
     BlockLoad, BlockNext, BlockStart, BlockEnd, KeyRecord, FetchMove
<1>5. mark' = mark
  BY DEF Still, FastLoad, FastAdd, FastStart, FastEnd, FastRestart,
     BlockLoad, BlockNext, BlockStart, BlockEnd, Read
<1>6. QED
  BY <1>2, <1>3, <1>4, <1>5 DEF QuietStep

\* The fetch is that of state r, and the standby range is at most dropped.
SameFetch(k, r) == k.fetch = r.fetch /\ k.standby \in {r.standby, NoRange}

LEMMA IssueFetch ==
    ASSUME Shape, NEW c \in Caller, call[c].o # None, NEW k \in KeyRecord,
           k.retired = Mine(c).retired, SameFetch(k, Mine(c)),
           NEW first, NEW generation, Issue(c, k, first, generation)
    PROVE  QuietStep(c)
<1>1. ks \in [State -> KeyRecord] /\ mark' = mark
  BY DEF Shape, KeyTypes, Issue
<1>2. OwnStep(c) /\ (call'[c] = NoCall \/ Moved(call[c], call'[c]))
  BY IssueCalls
<1>3. \A o \in State : FetchMove(o)
  BY <1>1 DEF Issue, KeyRecord, Mine, FetchMove, SameFetch
<1>4. QED
  BY <1>1, <1>2, <1>3, NoCallPending DEF QuietStep, OwnStep, Moved

\* A step of a call on its state.
FetchStep(c) ==
    /\ \A d \in Caller \ {c} : call'[d] = call[d]
    /\ PendingMove(c)
    /\ \A o \in State : FetchMove(o)
    /\ mark' = mark

LEMMA OneFetchStep ==
    ASSUME Shape, KeyTypes', FetchInv, NEW c \in Caller, FetchStep(c)
    PROVE  FetchInv'
<1>1. \A d \in Caller : PendingMove(d)
  BY SamePending DEF FetchStep
<1>2. QED
  BY <1>1, FetchMoves DEF FetchStep

LEMMA RefillFetch ==
    ASSUME Shape, FetchInv, NEW c \in Caller, call[c].o # None, NEW k \in KeyRecord,
           k.retired = Mine(c).retired, SameFetch(k, Mine(c)), Refill(c, k), mark' = mark
    PROVE  FetchStep(c)
<1> DEFINE o == call[c].o
           dropped == Release([k EXCEPT !.standby = NoRange])
           sent == [dropped EXCEPT !.timer = 0,
                                   !.fetch = [NoFetch EXCEPT !.by = c, !.at = "sent"]]
<1>1. /\ ks \in [State -> KeyRecord] /\ call[c] \in CallRecord /\ call \in [Caller -> Call]
      /\ o \in State
  BY CallTypes DEF Shape, KeyTypes
<1>2. \A d \in Caller \ {c} : call'[d] = call[d]
  BY RefillCalls DEF OwnStep
<1>3. /\ SameFetch(Hold(c, k), Mine(c)) /\ SameFetch(Release(k), Mine(c))
      /\ SameFetch(dropped, Mine(c))
      /\ sent.standby = NoRange /\ sent.fetch.by = c
  BY DEF Hold, Release, SameFetch, KeyRecord, NoFetch
<1>4. \A x \in State : x # o => ks'[x] = ks[x]
  BY <1>1 DEF Refill
<1>5. CASE /\ ks'[o] \in {Hold(c, k), Release(k), dropped}
           /\ call'[c].pending \in {call[c].pending, <<>>}
  <2>0. Mine(c) = ks[o]
    BY DEF Mine
  <2> HIDE DEF dropped, o
  <2>1. FetchMove(o)
    BY <1>3, <1>5, <2>0 DEF FetchMove, SameFetch
  <2>2. \A x \in State : FetchMove(x)
    BY <1>4, <2>1 DEF FetchMove
  <2>3. QED
    BY <1>2, <1>5, <2>2, SamePending DEF FetchStep
<1>6. CASE ks'[o] = sent /\ call'[c].pending = <<o>> /\ k.fetch = NoFetch
  <2>1. ks[o].fetch = NoFetch
    BY <1>6 DEF SameFetch, Mine
  <2>2. FetchMove(o)
    BY <1>3, <1>6, <2>1 DEF FetchMove
  <2>3. \A x \in State : FetchMove(x)
    BY <1>4, <2>2 DEF FetchMove
  <2>4. PendingMove(c)
    <3>1. /\ Unrepeated(<<o>>)
          /\ \A x \in State : Among(x, <<o>>) => x = o
      BY DEF Unrepeated, Among
    <3>2. ks'[o].fetch.by = c
      BY <1>3, <1>6
    <3> HIDE DEF o, sent
    <3>3. QED
      BY <1>6, <2>1, <3>1, <3>2 DEF PendingMove
  <2>5. QED
    BY <1>2, <2>3, <2>4 DEF FetchStep
<1>7. \/ ks'[o] = Hold(c, k) /\ Goto(c, "odd")
      \/ ks'[o] = Release(k) /\ Ended({c})
      \/ ks'[o] = dropped /\ Goto(c, "wait")
      \/ /\ ks'[o] = sent /\ k.fetch = NoFetch
         /\ call' = [call EXCEPT ![c].pc = "reserve", ![c].pending = <<o>>]
  BY <1>1 DEF Refill
<1> HIDE DEF dropped, sent
<1>8. /\ Goto(c, "odd") \/ Goto(c, "wait") => call'[c].pending = call[c].pending
      /\ Ended({c}) => call'[c].pending = <<>>
      /\ call' = [call EXCEPT ![c].pc = "reserve", ![c].pending = <<o>>] =>
           call'[c].pending = <<o>>
  BY <1>1, NoCallPending DEF Goto, Ended, CallRecord
<1>9. QED
  BY <1>5, <1>6, <1>7, <1>8

LEMMA SlowFetch ==
    ASSUME Shape, FetchInv, NEW c \in Caller,
           \/ FastReturn(c) \/ BlockSwap(c) \/ BlockReturn(c)
           \/ AllocateSlow(c) \/ AllocateBlockSlow(c) \/ BlockRefill(c)
           \/ ActivateOdd(c) \/ ActivateCursor(c) \/ ActivateStart(c) \/ ActivateEnd(c)
           \/ ActivateEven(c)
    PROVE  FetchStep(c)
<1> DEFINE o == call[c].o
           k == Mine(c)
<1>1. /\ call[c] \in CallRecord /\ o \in State /\ k \in KeyRecord /\ o # None
      /\ call \in [Caller -> Call] /\ ks \in [State -> KeyRecord] /\ k = ks[o]
  BY CallTypes DEF Shape, KeyTypes, StatesInv, CallStates, FetchLabel, At, FastReturn, BlockSwap,
     BlockReturn, AllocateSlow, AllocateBlockSlow, BlockRefill, ActivateOdd, ActivateCursor,
     ActivateStart, ActivateEnd, ActivateEven, Mine
<1>2. OwnStep(c)
  BY SlowCalls
<1> HIDE DEF k
<1>0. /\ k.next \in Nat /\ k.next + 1 \in Nat /\ k.next + call[c].count \in Nat
      /\ k.mu \in Caller \cup {None} /\ c \in Caller \cup {None}
  BY <1>1 DEF KeyRecord, CallRecord
<1>3. ASSUME NEW x \in KeyRecord, SameFetch(x, k), mark' = mark,
             ks' = ks \/ ks' = [ks EXCEPT ![o] = x],
             (\E pc : Goto(c, pc)) \/ Ended({c})
      PROVE  FetchStep(c)
  <2>1. call'[c].pending = call[c].pending \/ call'[c].pending = <<>>
    BY <1>1, <1>3, NoCallPending DEF Goto, Ended, CallRecord
  <2>2. \A p \in State : FetchMove(p)
    BY <1>1, <1>3 DEF FetchMove, SameFetch
  <2>3. QED
    BY <1>2, <1>3, <2>1, <2>2, SamePending DEF FetchStep, OwnStep
<1>4. ASSUME NEW x \in KeyRecord, x.retired = k.retired, SameFetch(x, k), NEW first,
             NEW generation, Issue(c, x, first, generation)
      PROVE  FetchStep(c)
  <2>1. QuietStep(c)
    BY <1>1, <1>4, IssueFetch DEF k
  <2>2. QED
    BY <2>1, SamePending DEF QuietStep, FetchStep
<1>5. ASSUME NEW x \in KeyRecord, x.retired = k.retired, SameFetch(x, k), Refill(c, x),
             mark' = mark
      PROVE  FetchStep(c)
  BY <1>1, <1>5, RefillFetch DEF k
<1>6. SameFetch(k, k)
  BY DEF SameFetch
<1>8. CASE FastReturn(c)
  BY <1>1, <1>3, <1>4, <1>6, <1>8 DEF FastReturn, k, Still
<1>9. CASE BlockSwap(c)
  <2> DEFINE x == [k EXCEPT !.mu = IF Locked(c) THEN None ELSE @]
             y == [k EXCEPT !.next = @ + call[c].count]
  <2>1. /\ x \in KeyRecord /\ SameFetch(x, k) /\ y \in KeyRecord /\ SameFetch(y, k)
    BY <1>0, <1>1 DEF KeyRecord, SameFetch
  <2>2. /\ \/ Ended({c}) /\ ks' = [ks EXCEPT ![o] = x]
           \/ Goto(c, "swapped") /\ ks' = [ks EXCEPT ![o] = y]
           \/ Goto(c, Missed(c)) /\ ks' = ks
        /\ mark' = mark
    BY <1>1, <1>9 DEF BlockSwap, k, Still
  <2> HIDE DEF x, y
  <2>3. QED
    BY <1>1, <1>3, <1>6, <2>1, <2>2
<1>10. CASE BlockReturn(c)
  BY <1>1, <1>3, <1>4, <1>6, <1>10 DEF BlockReturn, k, Still
<1>11. CASE AllocateSlow(c)
  <2> DEFINE again == [k EXCEPT !.next = @ + 1]
  <2>1. again \in KeyRecord /\ again.retired = k.retired /\ SameFetch(again, k)
    BY <1>0, <1>1 DEF KeyRecord, SameFetch
  <2>2. \/ Ended({c}) /\ ks' = ks /\ mark' = mark
        \/ Refill(c, k) /\ mark' = mark
        \/ Issue(c, k, call[c].id, k.generation)
        \/ Issue(c, again, again.next, k.generation)
        \/ Refill(c, again) /\ mark' = mark
    BY <1>11 DEF AllocateSlow, k, Still
  <2> HIDE DEF again
  <2>3. QED
    BY <1>1, <1>3, <1>4, <1>5, <1>6, <2>1, <2>2
<1>12. CASE AllocateBlockSlow(c)
  <2>1. Hold(c, k) \in KeyRecord /\ SameFetch(Hold(c, k), k)
    BY <1>0, <1>1 DEF KeyRecord, Hold, SameFetch
  <2>2. ks' = [ks EXCEPT ![o] = Hold(c, k)] /\ mark' = mark
    BY <1>1, <1>12 DEF AllocateBlockSlow, k, Still
  <2>3. QED
    BY <1>3, <1>12, <2>1, <2>2 DEF AllocateBlockSlow
<1>13. CASE BlockRefill(c)
  BY <1>1, <1>5, <1>6, <1>13 DEF BlockRefill, k, Still
<1>14. CASE ActivateOdd(c) \/ ActivateCursor(c) \/ ActivateStart(c) \/ ActivateEnd(c)
  <2>1. call[c].count \in Nat /\ k.standby.start \in Nat \ {0} /\ k.standby.end \in Nat
    BY <1>1 DEF CallRecord, KeyRecord, Block
  <2>2. /\ [k EXCEPT !.generation = @ + 1] \in KeyRecord
        /\ SameFetch([k EXCEPT !.generation = @ + 1], k)
        /\ [k EXCEPT !.next = k.standby.start + call[c].count - 1] \in KeyRecord
        /\ SameFetch([k EXCEPT !.next = k.standby.start + call[c].count - 1], k)
        /\ [k EXCEPT !.start = k.standby.start] \in KeyRecord
        /\ SameFetch([k EXCEPT !.start = k.standby.start], k)
        /\ [k EXCEPT !.end = k.standby.end] \in KeyRecord
        /\ SameFetch([k EXCEPT !.end = k.standby.end], k)
    BY <1>1, <2>1 DEF KeyRecord, SameFetch
  <2>3. PICK x \in KeyRecord, pc \in OddLabel : Write(c, x, pc) /\ SameFetch(x, k)
    BY <1>14, <2>2 DEF ActivateOdd, ActivateCursor, ActivateStart, ActivateEnd, OddLabel, k
  <2>4. QED
    BY <1>3, <2>3 DEF Write, Still
<1>15. CASE ActivateEven(c)
  <2> DEFINE x == [k EXCEPT !.generation = @ + 1, !.initialized = TRUE,
                            !.standby = NoRange, !.timer = 0]
  <2>1. NoRange \in Block /\ k.generation + 1 \in Nat
    BY <1>1, FreshTypes DEF KeyRecord
  <2>2. x \in KeyRecord /\ x.retired = k.retired /\ SameFetch(x, k)
    BY <1>1, <2>1 DEF KeyRecord, SameFetch
  <2>3. Issue(c, x, k.standby.start, k.generation + 1)
    BY <1>15 DEF ActivateEven, k
  <2> HIDE DEF x
  <2>4. QED
    BY <1>4, <2>2, <2>3
<1>16. QED
  BY <1>8, <1>9, <1>10, <1>11, <1>12, <1>13, <1>14, <1>15

LEMMA TurnPending ==
    ASSUME NEW r \in CallRecord
    PROVE  Turn(r).pending = r.pending \/ Turn(r).pending = <<>>
  BY NoCallPending DEF Turn, CallRecord

LEMMA Appended ==
    ASSUME NEW S, NEW s \in Seq(S), NEW x \in S
    PROVE  /\ \A y : Among(y, Append(s, x)) => Among(y, s) \/ y = x
           /\ Unrepeated(s) /\ ~Among(x, s) => Unrepeated(Append(s, x))
           /\ Append(s, x) # <<>>
<1>1. /\ DOMAIN Append(s, x) = 1..(Len(s) + 1) /\ DOMAIN s = 1..Len(s) /\ Len(s) \in Nat
      /\ Append(s, x)[Len(s) + 1] = x
      /\ \A n \in 1..Len(s) : Append(s, x)[n] = s[n]
  BY AppendProperties
<1>2. \A n \in DOMAIN Append(s, x) : n = Len(s) + 1 \/ n \in DOMAIN s
  BY <1>1
<1>3. Append(s, x) # <<>>
  BY AppendProperties
<1>4. QED
  BY <1>1, <1>2, <1>3 DEF Among, Unrepeated

LEMMA BatchFetch ==
    ASSUME Shape, FetchInv, NEW c \in Caller, PrepareBatchRange(c) \/ AfterAllocate(c)
    PROVE  FetchStep(c)
<1> DEFINE r == call[c]
           o == call[c].o
           sent(by) == [NoFetch EXCEPT !.by = by, !.at = "sent"]
<1>1. /\ r \in CallRecord /\ o \in State /\ CallStates(r) /\ ks[o] \in KeyRecord
      /\ call \in [Caller -> Call] /\ ks \in [State -> KeyRecord] /\ Mine(c) = ks[o]
  BY CallTypes, ConstantFacts DEF Shape, KeyTypes, StatesInv, CallStates, FetchLabel, At,
     PrepareBatchRange, AfterAllocate, Mine
<1>2. \A d \in Caller \ {c} : call'[d] = call[d]
  BY BatchCalls DEF OwnStep
<1>3. Turn(r).pending = r.pending \/ Turn(r).pending = <<>>
  BY <1>1, TurnPending
<1>4. CASE AfterAllocate(c)
  <2>1. call'[c].pending = r.pending \/ call'[c].pending = <<>>
    BY <1>1, <1>3, <1>4 DEF AfterAllocate
  <2> DEFINE x == [ks[o] EXCEPT !.fetch = sent("prefetch"), !.timer = 0]
  <2>2. x.fetch.by = "prefetch" /\ x.standby = ks[o].standby
    BY <1>1 DEF KeyRecord, NoFetch
  <2>3. \/ ks' = ks
        \/ /\ ks' = [ks EXCEPT ![o] = x]
           /\ ks[o].fetch = NoFetch /\ ks[o].standby = NoRange
           /\ mark[KeyOf(o)] + Step <= MaxMark
    BY <1>1, <1>4 DEF AfterAllocate
  <2> HIDE DEF x, o
  <2>4. \A p \in State : FetchMove(p)
    BY <1>1, <2>2, <2>3 DEF FetchMove
  <2>5. QED
    BY <1>2, <1>4, <2>1, <2>4, SamePending DEF FetchStep, AfterAllocate
<1>5. CASE PrepareBatchRange(c)
  <2> DEFINE n == CHOOSE n \in DOMAIN r.todo : r.todo[n] = r.o
             wanted == ~HasReadyBlock(Mine(c), r.count) /\ Mine(c).fetch = NoFetch
             pending == IF wanted THEN Append(r.pending, r.o) ELSE r.pending
             next == IF n < Len(r.todo)
                     THEN [r EXCEPT !.o = r.todo[n + 1], !.pending = pending]
                     ELSE IF pending = <<>> THEN Turn(r)
                     ELSE [r EXCEPT !.pc = "reserve", !.o = None, !.pending = pending]
             x == [ks[o] EXCEPT !.standby = NoRange, !.timer = 0, !.fetch = sent(c)]
  <2>1. call'[c] = next
    BY <1>1, <1>5 DEF PrepareBatchRange
  <2>2. ks' = IF wanted THEN [ks EXCEPT ![o] = x] ELSE ks
    BY <1>1, <1>5 DEF PrepareBatchRange
  <2>3. x.standby = NoRange /\ x.fetch.by = c
    BY <1>1 DEF KeyRecord, NoFetch
  <2>4. wanted => ks[o].fetch = NoFetch
    BY <1>1
  <2>5. r.pending \in Seq(State) /\ (wanted => pending = Append(r.pending, o))
        /\ (~wanted => pending = r.pending)
    BY <1>1 DEF CallRecord
  <2> HIDE DEF n, wanted, pending, x
  <2>6. call'[c].pending \in {pending, <<>>}
    BY <1>1, <1>3, <2>1, <2>4, <2>5 DEF CallRecord
  <2> HIDE DEF next
  <2>7. \A p \in State : FetchMove(p)
    BY <1>1, <2>2, <2>3, <2>4 DEF FetchMove
  <2>8. PendingMove(c)
    <3>1. CASE call'[c].pending = r.pending \/ call'[c].pending = <<>>
      BY <3>1, SamePending
    <3>2. CASE wanted /\ call'[c].pending = Append(r.pending, o)
      <4>1. ~Among(o, r.pending)
        <5>1. ks[o].fetch.by = None /\ c # None
          BY <2>4, <3>2, ConstantFacts DEF NoFetch
        <5>2. QED
          BY <5>1 DEF FetchInv, PendingInv, Among
      <4>2. Unrepeated(r.pending)
        BY DEF FetchInv, PendingInv, Unrepeated
      <4>3. /\ \A y : Among(y, Append(r.pending, o)) => Among(y, r.pending) \/ y = o
            /\ Unrepeated(Append(r.pending, o))
        BY <1>1, <2>5, <4>1, <4>2, Appended
      <4>4. ks[o].fetch = NoFetch /\ ks'[o].fetch.by = c
        BY <1>1, <2>2, <2>3, <2>4, <3>2
      <4> HIDE DEF o
      <4>5. QED
        BY <3>2, <4>3, <4>4 DEF PendingMove
    <3>3. QED
      BY <2>5, <2>6, <3>1, <3>2
  <2>9. QED
    BY <1>2, <1>5, <2>7, <2>8 DEF FetchStep, PrepareBatchRange
<1>6. QED
  BY <1>4, <1>5

\* A key has one state at a time.
LEMMA OneCached ==
    ASSUME NEW o \in State, NEW p \in State, IsCached(o), IsCached(p), KeyOf(o) = KeyOf(p)
    PROVE  o = p
  BY StateFacts DEF IsCached

LEMMA ReserveFetch ==
    ASSUME Shape, KeyTypes', FetchInv, NEW c \in Caller, Reserve(c)
    PROVE  FetchInv'
<1> DEFINE P == {call[c].pending[n] : n \in DOMAIN call[c].pending}
           step == StepFor(call[c].count)
           Answer(at, o) == [ks[o].fetch EXCEPT !.at = at,
            !.got = IF at = "answered" THEN [start |-> mark[KeyOf(o)] + 1,
                                             end |-> mark[KeyOf(o)] + step]
                    ELSE NoRange]
           Answered(at) ==
            /\ ks' = [o \in State |-> IF o \in P THEN [ks[o] EXCEPT !.fetch = Answer(at, o)]
                                      ELSE ks[o]]
            /\ Goto(c, IF at = "answered" THEN "complete" ELSE "fail")
           committed == [k \in Key |-> IF k \in {KeyOf(o) : o \in P} THEN mark[k] + step
                                       ELSE mark[k]]
           room == \A k \in Key : committed[k] <= MaxMark
<1>1. PICK at \in {"answered", "failed"} :
        Answered(at) /\ (mark' = mark \/ (mark' = committed /\ room))
  BY DEF Reserve
<1>2. /\ call[c] \in CallRecord /\ call \in [Caller -> Call] /\ ks \in [State -> KeyRecord]
      /\ None \notin Caller /\ "prefetch" \notin Caller /\ NoFetch.by = None
  BY CallTypes, ConstantFacts DEF Shape, KeyTypes, NoFetch
<1>3. \A o \in P : o \in State /\ IsCached(o) /\ ks[o].fetch.by = c
  <2>1. \A o \in P : o \in call[c].held /\ o \in State
    BY <1>2 DEF Shape, StatesInv, CallStates, CallRecord
  <2>2. QED
    BY <2>1 DEF Shape, StatesInv, CallStates, FetchInv, PendingInv
<1>4. ASSUME NEW o \in State
      PROVE  /\ ks'[o].fetch.by = ks[o].fetch.by /\ ks'[o].standby = ks[o].standby
             /\ o \notin P => ks'[o] = ks[o]
             /\ ks'[o].fetch # NoFetch => ks[o].fetch # NoFetch
  <2>1. ks[o] \in KeyRecord /\ ks[o].fetch \in Fetch
    BY <1>2 DEF KeyRecord
  <2>2. Answer(at, o).by = ks[o].fetch.by
    BY <2>1 DEF Fetch
  <2> HIDE DEF Answer, P
  <2>3. ks'[o] = IF o \in P THEN [ks[o] EXCEPT !.fetch = Answer(at, o)] ELSE ks[o]
    BY <1>1
  <2>4. /\ [ks[o] EXCEPT !.fetch = Answer(at, o)].fetch = Answer(at, o)
        /\ [ks[o] EXCEPT !.fetch = Answer(at, o)].standby = ks[o].standby
    BY <2>1 DEF KeyRecord
  <2>5. o \in P => ks[o].fetch # NoFetch
    BY <1>2, <1>3
  <2>6. QED
    BY <2>2, <2>3, <2>4, <2>5
<1>5. \A d \in Caller : call'[d].pending = call[d].pending
  BY <1>1, <1>2 DEF Goto, CallRecord
<1>6. \A k \in Key : mark'[k] <= MaxMark
  BY <1>1 DEF FetchInv
<1>7. ASSUME NEW o \in State, ks'[o].fetch.by = "prefetch", ks'[o].fetch.at = "sent"
      PROVE  mark'[KeyOf(o)] + Step <= MaxMark
  <2>1. ks[o].fetch.by = "prefetch" /\ o \notin P
    BY <1>2, <1>3, <1>4, <1>7
  <2>2. IsCached(o) /\ mark[KeyOf(o)] + Step <= MaxMark
    BY <1>2, <1>4, <1>7, <2>1, ConstantFacts DEF FetchInv, Shape, StatesInv
  <2>3. KeyOf(o) \notin {KeyOf(p) : p \in P}
    BY <1>3, <2>1, <2>2, OneCached
  <2> HIDE DEF P
  <2>4. mark'[KeyOf(o)] = mark[KeyOf(o)]
    BY <1>1, <2>3, StateFacts
  <2>5. QED
    BY <2>2, <2>4
<1>8. \A d \in Caller : PendingInv(call[d], d)'
  <2>1. ASSUME NEW d \in Caller, NEW n \in DOMAIN call[d].pending
        PROVE  ks'[call[d].pending[n]].fetch.by = d
    BY <1>4, <2>1, PendingStates DEF Shape, FetchInv, PendingInv
  <2>2. QED
    BY <1>5, <2>1 DEF FetchInv, PendingInv
<1>9. \A o \in State : ks'[o].fetch # NoFetch => ks'[o].standby = NoRange
  BY <1>4 DEF FetchInv
<1>10. QED
  BY <1>6, <1>7, <1>8, <1>9 DEF FetchInv

LEMMA CompletedFetch ==
    ASSUME KeyTypes, NEW o \in State, NEW timer, Complete(o, timer)
    PROVE  /\ ks'[o].fetch = NoFetch
           /\ ks'[o].standby = IF ks[o].fetch.at = "answered" THEN ks[o].fetch.got
                               ELSE ks[o].standby
           /\ \A p \in State \ {o} : ks'[p] = ks[p]
  BY DEF Complete, KeyTypes, KeyRecord

\* Whoever is woken waits for no fetch of its own.
LEMMA WakePending ==
    ASSUME KeyTypes, NEW o \in State, NEW ok \in BOOLEAN, NEW c \in Caller
    PROVE  Wake(Woken(o), ok)[c].pending \in {call[c].pending, <<>>}
  BY CallTypes, NoCallPending DEF Wake, CallRecord

LEMMA TailAmong ==
    ASSUME NEW S, NEW s \in Seq(S), s # <<>>, Unrepeated(s)
    PROVE  /\ Unrepeated(Tail(s)) /\ ~Among(Head(s), Tail(s))
           /\ \A y : Among(y, Tail(s)) => Among(y, s)
<1>1. /\ DOMAIN s = 1..Len(s) /\ Len(s) \in Nat /\ Head(s) = s[1] /\ Len(s) # 0
      /\ Tail(s) \in Seq(S) /\ Len(Tail(s)) = Len(s) - 1
      /\ \A n \in 1..(Len(s) - 1) : Tail(s)[n] = s[n + 1]
  BY HeadTailProperties, EmptySeq
<1>2. DOMAIN Tail(s) = 1..(Len(s) - 1)
  BY <1>1
<1>3. \A n \in DOMAIN Tail(s) : n + 1 \in DOMAIN s /\ n + 1 # 1 /\ Tail(s)[n] = s[n + 1]
  BY <1>1, <1>2
<1>4. 1 \in DOMAIN s
  BY <1>1
<1>5. \A m, n \in DOMAIN Tail(s) : m + 1 = n + 1 => m = n
  BY <1>1, <1>2
<1>6. QED
  BY <1>1, <1>3, <1>4, <1>5, Zenon DEF Unrepeated, Among

LEMMA CompleteFetchInv ==
    ASSUME Shape, KeyTypes', FetchInv, NEW c \in Caller, CompleteFetch(c)
    PROVE  FetchInv'
<1> DEFINE r == call[c]
           o == Head(r.pending)
           ok == At(c, "complete")
           left == [r EXCEPT !.pending = Tail(@)]
           done == IF left.pending # <<>> THEN left
                   ELSE IF ~ok THEN NoCall
                   ELSE IF r.o = None THEN Turn(left)
                   ELSE [left EXCEPT !.pc = "slow"]
<1>1. /\ r \in CallRecord /\ r.pc \in FetchLabel /\ call \in [Caller -> Call]
      /\ r.pending # <<>> /\ r.pending \in Seq(State) /\ ok \in BOOLEAN
  BY CallTypes DEF Shape, KeyTypes, StatesInv, CallStates, CompleteFetch, FetchLabel, CallRecord, At
<1>2. o \in State /\ Among(o, r.pending) /\ Tail(r.pending) \in Seq(State)
  <2>1. o = r.pending[1] /\ 1 \in DOMAIN r.pending
    BY <1>1, FirstPending
  <2>2. QED
    BY <1>1, <2>1, FirstPending DEF Among
<1>3. Unrepeated(r.pending)
  BY DEF FetchInv, PendingInv, Unrepeated
<1>4. /\ Unrepeated(Tail(r.pending)) /\ ~Among(o, Tail(r.pending))
      /\ \A y : Among(y, Tail(r.pending)) => Among(y, r.pending)
  BY <1>1, <1>3, TailAmong
<1>5. done.pending \in {Tail(r.pending), <<>>}
  <2>1. left \in CallRecord /\ left.pending = Tail(r.pending)
    BY <1>1, <1>2 DEF CallRecord
  <2> HIDE DEF left
  <2>2. [left EXCEPT !.pc = "slow"].pending = left.pending
    BY <2>1 DEF CallRecord
  <2>3. QED
    BY <2>1, <2>2, TurnPending, NoCallPending
<1>6. /\ \A d \in Caller : call'[d] = IF d = c THEN done ELSE Wake(Woken(o), ok)[d]
      /\ Complete(o, ks[o].timer) /\ mark' = mark
  BY DEF CompleteFetch, Wake, Still
<1> HIDE DEF done, ok
<1>7. \A d \in Caller \ {c} : call'[d].pending \in {call[d].pending, <<>>}
  BY <1>1, <1>2, <1>6, WakePending DEF Shape
<1>8. ks[o].fetch.by = c
  BY <1>2 DEF FetchInv, PendingInv, Among
<1>9. \A d \in Caller : ~Among(o, call'[d].pending)
  <2>1. ASSUME NEW d \in Caller \ {c}
        PROVE  ~Among(o, call[d].pending)
    BY <1>8 DEF FetchInv, PendingInv, Among
  <2>2. ~Among(o, <<>>)
    BY DEF Among
  <2>3. QED
    BY <1>4, <1>5, <1>6, <1>7, <2>1, <2>2
<1>10. \A p \in State : FetchMove(p)
  <2>1. ks'[o].fetch = NoFetch /\ \A p \in State \ {o} : ks'[p] = ks[p]
    BY <1>2, <1>6, CompletedFetch DEF Shape
  <2>2. QED
    BY <1>9, <2>1 DEF FetchMove
<1>11. \A d \in Caller : PendingMove(d)
  <2>1. PendingMove(c)
    <3>1. CASE call'[c].pending = <<>>
      BY <3>1, SamePending
    <3>2. CASE call'[c].pending = Tail(r.pending)
      BY <1>4, <3>2 DEF PendingMove
    <3>3. QED
      BY <1>5, <1>6, <3>1, <3>2
  <2>2. QED
    BY <1>7, <2>1, SamePending
<1>12. QED
  BY <1>6, <1>10, <1>11, FetchMoves

LEMMA BackgroundFetch ==
    ASSUME Shape, KeyTypes', FetchInv, NEW o \in State, Background(o)
    PROVE  FetchInv'
<1>1. /\ ks[o] \in KeyRecord /\ ks \in [State -> KeyRecord] /\ None \notin Caller
      /\ "prefetch" \notin Caller /\ NoFetch.by = None /\ None # "prefetch"
      /\ ks[o].fetch \in Fetch
  BY ConstantFacts DEF Shape, KeyTypes, NoFetch, KeyRecord
<1>2. ASSUME UNCHANGED <<call, mark>>, \A p \in State : FetchMove(p)
      PROVE  FetchInv'
  BY <1>2, SamePending, FetchMoves
<1>3. CASE BackgroundReserve(o)
  <2> DEFINE x == ks'[o]
             end == mark[KeyOf(o)] + Step
  <2>1. \A p \in State \ {o} : ks'[p] = ks[p]
    BY <1>1, <1>3 DEF BackgroundReserve
  <2>2. /\ ks'[o].standby = ks[o].standby /\ ks'[o].fetch.by = "prefetch"
        /\ ks'[o].fetch.at # "sent"
        /\ ks[o].fetch.by = "prefetch" /\ ks[o].fetch.at = "sent"
    BY <1>1, <1>3 DEF BackgroundReserve, KeyRecord, Fetch
  <2>3. mark' = mark \/ mark' = [mark EXCEPT ![KeyOf(o)] = end]
    BY <1>3 DEF BackgroundReserve
  <2>4. /\ end <= MaxMark /\ KeyOf(o) \in Key /\ IsCached(o)
    BY <1>1, <2>2, StateFacts DEF FetchInv, Shape, StatesInv
  <2>5. \A k \in Key : mark'[k] <= MaxMark
    BY <2>3, <2>4 DEF FetchInv, Shape, KeyTypes
  <2>6. \A p \in State : ks'[p].fetch # NoFetch => ks'[p].standby = NoRange
    BY <1>1, <2>1, <2>2 DEF FetchInv
  <2>7. ASSUME NEW p \in State, ks'[p].fetch.by = "prefetch", ks'[p].fetch.at = "sent"
        PROVE  mark'[KeyOf(p)] + Step <= MaxMark
    <3>1. p # o /\ ks'[p] = ks[p]
      BY <2>1, <2>2, <2>7
    <3>2. IsCached(p) /\ mark[KeyOf(p)] + Step <= MaxMark
      BY <1>1, <2>7, <3>1 DEF FetchInv, Shape, StatesInv
    <3>3. KeyOf(p) # KeyOf(o)
      BY <2>4, <3>1, <3>2, OneCached
    <3>4. mark'[KeyOf(p)] = mark[KeyOf(p)]
      BY <2>3, <3>3, StateFacts DEF Shape, KeyTypes
    <3>5. QED
      BY <3>2, <3>4
  <2>8. \A d \in Caller : PendingInv(call[d], d)'
    <3>1. ASSUME NEW d \in Caller, NEW n \in DOMAIN call[d].pending
          PROVE  ks'[call[d].pending[n]].fetch.by = d
      <4>1. call[d].pending[n] \in State /\ ks[call[d].pending[n]].fetch.by = d
        BY PendingStates DEF Shape, FetchInv, PendingInv
      <4>2. call[d].pending[n] # o
        BY <1>1, <2>2, <4>1
      <4>3. QED
        BY <2>1, <4>1, <4>2
    <3>2. call' = call
      BY <1>3 DEF BackgroundReserve
    <3>3. QED
      BY <3>1, <3>2 DEF FetchInv, PendingInv
  <2>9. QED
    BY <2>5, <2>6, <2>7, <2>8 DEF FetchInv
<1>4. CASE CompletePrefetch(o)
  <2>1. /\ call' = Wake(Woken(o), TRUE) /\ Complete(o, ks[o].generation) /\ mark' = mark
        /\ ks[o].fetch.by = "prefetch"
    BY <1>4 DEF CompletePrefetch, Still
  <2>2. \A d \in Caller : call'[d].pending \in {call[d].pending, <<>>}
    BY <2>1, WakePending DEF Shape
  <2>3. \A d \in Caller : ~Among(o, call[d].pending) /\ ~Among(o, <<>>)
    BY <1>1, <2>1 DEF FetchInv, PendingInv, Among
  <2>4. ks'[o].fetch = NoFetch /\ \A p \in State \ {o} : ks'[p] = ks[p]
    BY <2>1, CompletedFetch DEF Shape
  <2>5. \A p \in State : FetchMove(p)
    BY <2>2, <2>3, <2>4 DEF FetchMove
  <2>6. QED
    BY <2>1, <2>2, <2>5, SamePending, FetchMoves
<1>5. CASE TimerFires(o)
  BY <1>1, <1>2, <1>5 DEF TimerFires, Still, FetchMove, KeyRecord
<1>6. CASE RetryPrefetch(o)
  <2> DEFINE x == [ks[o] EXCEPT !.fired = 0]
             y == [ks[o] EXCEPT !.fired = 0, !.timer = 0,
                     !.fetch = [NoFetch EXCEPT !.by = "prefetch", !.at = "sent"]]
  <2>1. /\ x.fetch = ks[o].fetch /\ x.standby = ks[o].standby
        /\ y.fetch.by = "prefetch" /\ y.standby = ks[o].standby
    BY <1>1 DEF KeyRecord, NoFetch
  <2>2. \/ ks' = [ks EXCEPT ![o] = x]
        \/ /\ ks' = [ks EXCEPT ![o] = y]
           /\ ks[o].fetch = NoFetch /\ ks[o].standby = NoRange
           /\ mark[KeyOf(o)] + Step <= MaxMark
    BY <1>1, <1>6 DEF RetryPrefetch
  <2> HIDE DEF x, y
  <2>3. \A p \in State : FetchMove(p)
    BY <1>1, <2>1, <2>2 DEF FetchMove
  <2>4. QED
    BY <1>2, <1>6, <2>3 DEF RetryPrefetch, Still
<1>7. CASE CollectIdle(o)
  BY <1>1, <1>2, <1>7 DEF CollectIdle, FetchMove, KeyRecord
<1>8. CASE EvictIdle(o)
  <2> DEFINE x == [ks[o] EXCEPT !.retired = TRUE, !.timer = 0]
  <2>1. x.fetch = ks[o].fetch /\ x.standby = ks[o].standby
    BY <1>1 DEF KeyRecord
  <2>2. ks' = ks \/ ks' = [ks EXCEPT ![o] = x]
    BY <1>1, <1>8 DEF EvictIdle
  <2> HIDE DEF x
  <2>3. \A p \in State : FetchMove(p)
    BY <1>1, <2>1, <2>2 DEF FetchMove
  <2>4. QED
    BY <1>2, <1>8, <2>3 DEF EvictIdle
<1>9. QED
  BY <1>3, <1>4, <1>5, <1>6, <1>7, <1>8 DEF Background

LEMMA FetchInvStep ==
    ASSUME Shape, KeyTypes', FetchInv, [Next]_vars
    PROVE  FetchInv'
<1>1. ASSUME \A o \in State : ks'[o] = ks[o], mark' = mark,
             \A d \in Caller : call'[d].pending \in {call[d].pending, <<>>}
      PROVE  FetchInv'
  <2>1. \A o \in State : FetchMove(o)
    BY <1>1 DEF FetchMove
  <2>2. QED
    BY <1>1, <2>1, SamePending, FetchMoves
<1>2. CASE UNCHANGED vars
  BY <1>1, <1>2 DEF vars
<1>3. ASSUME NEW c \in Caller, NEW r \in Requests, Begin(c, r)
      PROVE  FetchInv'
  <2> DEFINE begun == Begun(r)
             states == BeginStates(r)
  <2>1. /\ call' = [call EXCEPT ![c] = IF r.batch THEN [begun EXCEPT !.pc = "prepare",
                                                                     !.o = Head(states)]
                                       ELSE Turn(begun)]
        /\ ks' = ks /\ mark' = mark
    BY <1>3 DEF Begin, Begun, BeginStates
  <2>2. /\ begun.pending = <<>> /\ Turn(begun).pending \in {begun.pending, <<>>}
        /\ [begun EXCEPT !.pc = "prepare", !.o = Head(states)].pending = begun.pending
    BY NoCallPending DEF Begun, NoCall, Turn
  <2> HIDE DEF begun, states
  <2>3. \A d \in Caller : call'[d].pending \in {call[d].pending, <<>>}
    BY <2>1, <2>2 DEF Shape, KeyTypes
  <2>4. QED
    BY <1>1, <2>1, <2>3
<1>4. ASSUME NEW c \in Caller, CallStep(c)
      PROVE  FetchInv'
  BY <1>4, FastFetch, QuietFetch, SlowFetch, BatchFetch, OneFetchStep, ReserveFetch,
     CompleteFetchInv DEF CallStep
<1>5. ASSUME NEW c \in Caller, Cancel(c)
      PROVE  FetchInv'
  BY <1>1, <1>5, NoCallPending DEF Cancel, Ended, Shape, KeyTypes
<1>6. CASE Withdraw
  BY <1>1, <1>6 DEF Withdraw
<1>7. QED
  BY <1>2, <1>3, <1>4, <1>5, <1>6, BackgroundFetch DEF Next

LEMMA FetchInvInit == Init => FetchInv
<1> SUFFICES ASSUME Init
             PROVE  FetchInv
  OBVIOUS
<1>1. \A k \in Key : mark[k] <= MaxMark
  BY ConstantFacts DEF Init
<1>2. \A o \in State : ks[o] = NewState
  BY DEF Init
<1>3. /\ NewState.fetch = NoFetch /\ NoFetch.by = None /\ None # "prefetch"
  BY ConstantFacts DEF NewState, NoFetch
<1>4. \A c \in Caller : PendingInv(call[c], c)
  BY NoCallPending DEF Init, PendingInv
<1>5. QED
  BY <1>1, <1>2, <1>3, <1>4 DEF FetchInv

-----------------------------------------------------------------------------
\* What a step may do to a state, when c is who takes it.

Working == {"block", "rest", "odd"} \cup BlockLabel \cup OddLabel

\* The generation counts refills, and the range of an even generation stays.
See(r, r2) ==
    /\ r.generation <= r2.generation
    /\ r.initialized => r2.initialized
    /\ r2.generation = r.generation /\ IsEven(r.generation) =>
         r2.start = r.start /\ r2.end = r.end /\ r.next <= r2.next

\* Nobody else writes what is written under the lock.
LockKept(r, r2) ==
    /\ r2.mu = r.mu /\ r2.generation = r.generation /\ r2.standby = r.standby
    /\ r2.start = r.start /\ r2.end = r.end /\ r.next <= r2.next

LockMove(c, p, r, q2, r2) ==
    \/ r2.mu = r.mu /\ r.mu # c /\ r2.generation = r.generation
    \/ r.mu \in {c, None} /\ r2.mu = None /\ IsEven(r2.generation)
    \/ /\ r.mu \in {c, None} /\ r2.mu = c
       /\ q2.o = p /\ q2.pc \in Working /\ (IsEven(r2.generation) \/ q2.pc \in OddLabel)

\* An id that no other call has taken from state p.
New(y, p, q, r) ==
    \/ q.o = p /\ y \in Carried(q, r)
    \/ r.next < y
    \/ ~IsEven(r.generation)

Move(c, p, q, r, ids, q2, r2, ids2, m2) ==
    /\ See(r, r2)
    /\ r.mu \notin {c, None} => LockKept(r, r2)
    /\ LockMove(c, p, r, q2, r2)
    /\ Ranges(r2, ids2, m2)
    /\ ids \subseteq ids2
    /\ \A y \in ids2 \ ids : New(y, p, q, r)
    /\ q2.o = p => /\ CallInv(c, q2, r2, ids2)
                   /\ \A y \in Carried(q2, r2) : New(y, p, q, r)

\* A waiting call goes on, or fails.
Woke(q, q2) == q.pc = "wait" /\ (q2 = NoCall \/ q2 = [q EXCEPT !.pc = "slow"])

Row(o) == RowInv(ks[o], issued[KeyOf(o)], mark[KeyOf(o)], CallsOn(o))

\* c is a caller, or "prefetch" for what no call does.
CallOf(c) == IF c \in Caller THEN call[c] ELSE NoCall

RowStep(c, p) ==
    /\ \A d \in Caller \ {c} : call'[d] = call[d] \/ Woke(call[d], call'[d])
    /\ Move(c, p, CallOf(c), ks[p], issued[KeyOf(p)],
            CallOf(c)', ks'[p], issued'[KeyOf(p)], mark'[KeyOf(p)])

LEMMA OthersKept ==
    ASSUME NEW d, NEW q \in CallRecord, NEW r \in KeyRecord, NEW r2 \in KeyRecord,
           NEW ids \in SUBSET Nat, NEW ids2 \in SUBSET Nat, CallInv(d, q, r, ids),
           See(r, r2), r.mu = d => LockKept(r, r2), ids \subseteq ids2,
           \A y \in ids2 \ ids : y \notin Carried(q, r)
    PROVE  CallInv(d, q, r2, ids2) /\ Carried(q, r2) \subseteq Carried(q, r)
<1>1. /\ q.generation \in Nat /\ r.generation \in Nat /\ r2.generation \in Nat
      /\ r.next \in Nat /\ r2.next \in Nat /\ q.id \in Nat /\ q.count \in Nat
      /\ r.start \in Nat /\ r.end \in Nat /\ r2.start \in Nat /\ r2.end \in Nat
      /\ r.standby.start \in Nat /\ r.standby.end \in Nat
  BY DEF CallRecord, KeyRecord, Block
<1>2. q.generation <= r.generation
  BY DEF CallInv, Reading
<1>3. Valid(q, r2) => /\ Valid(q, r) /\ r2.start = r.start /\ r2.end = r.end
                      /\ r.next <= r2.next
  BY <1>1, <1>2 DEF Valid, See
<1>4. Carried(q, r2) \subseteq Carried(q, r)
  BY <1>3 DEF Carried
<1>5. Reading(q, r2)
  BY <1>1, <1>2, <1>3 DEF CallInv, Reading, See
<1>6. Writing(d, q, r2)
  <2>1. CASE q.pc \in {"rest", "odd"} \cup OddLabel
    BY <1>1, <2>1 DEF CallInv, Writing, LockKept, OddLabel
  <2>2. CASE q.pc \notin {"rest", "odd"} \cup OddLabel
    BY <2>2 DEF Writing, OddLabel
  <2>3. QED
    BY <2>1, <2>2
<1>7. Fresh(q, r2, ids2)
  <2>1. ASSUME NEW y \in Carried(q, r2)
        PROVE  q.floor < y /\ y \notin ids2 /\ y <= r2.next
    <3>1. y \in Carried(q, r) /\ y \in Nat /\ Valid(q, r2)
      BY <1>1, <1>4 DEF Carried
    <3>2. q.floor < y /\ y \notin ids /\ y <= r.next
      BY <3>1 DEF CallInv, Fresh
    <3>3. QED
      BY <1>1, <1>3, <3>1, <3>2
  <2>2. QED
    BY <2>1 DEF CallInv, Fresh
<1>8. QED
  BY <1>4, <1>5, <1>6, <1>7 DEF CallInv

LEMMA WokeKept ==
    ASSUME NEW d, NEW q \in CallRecord, NEW q2, NEW r \in KeyRecord, NEW ids \in SUBSET Nat,
           CallInv(d, q, r, ids), q.pc = "wait", q2 = [q EXCEPT !.pc = "slow"]
    PROVE  CallInv(d, q2, r, ids) /\ Carried(q2, r) = Carried(q, r)
<1>1. /\ q2.pc = "slow" /\ q2.id = q.id /\ q2.count = q.count /\ q2.generation = q.generation
      /\ q2.hadRange = q.hadRange /\ q2.floor = q.floor
  BY DEF CallRecord
<1>2. Carried(q2, r) = Carried(q, r)
  BY <1>1 DEF Carried, Valid, HasId, FastLabel, FetchLabel
<1>3. QED
  BY <1>1, <1>2 DEF CallInv, Reading, Writing, Fresh, Valid, FastLabel, BlockLabel, OddLabel

\* The invariant of a state, said of the calls.
RowOf(p, r, ids, m, f) ==
    /\ Ranges(r, ids, m)
    /\ r.mu # None => r.mu \in Caller /\ f[r.mu].o = p /\ f[r.mu].pc \in Working
    /\ ~IsEven(r.generation) => r.mu # None /\ f[r.mu].pc \in OddLabel
    /\ \A d \in Caller : f[d].o = p => CallInv(d, f[d], r, ids)
    /\ \A d, e \in Caller :
         d # e /\ f[d].o = p /\ f[e].o = p => Carried(f[d], r) \cap Carried(f[e], r) = {}

LEMMA RowCalls ==
    ASSUME NEW p, NEW r, NEW ids, NEW m, NEW f
    PROVE  RowInv(r, ids, m, [d \in {e \in Caller : f[e].o = p} |-> f[d]])
             <=> RowOf(p, r, ids, m, f)
<1> DEFINE D == {e \in Caller : f[e].o = p}
           Q == [d \in D |-> f[d]]
<1>1. DOMAIN Q = D /\ \A d \in D : Q[d] = f[d]
  OBVIOUS
<1>2. \A d : d \in D <=> d \in Caller /\ f[d].o = p
  OBVIOUS
<1> HIDE DEF D, Q
<1>3. LockInv(r, Q) <=>
        /\ r.mu # None => r.mu \in Caller /\ f[r.mu].o = p /\ f[r.mu].pc \in Working
        /\ ~IsEven(r.generation) => r.mu # None /\ f[r.mu].pc \in OddLabel
  <2>1. CASE r.mu = None
    BY <2>1 DEF LockInv
  <2>2. CASE r.mu # None /\ r.mu \in D
    BY <1>1, <1>2, <2>2 DEF LockInv, Working
  <2>3. CASE r.mu # None /\ r.mu \notin D
    BY <1>1, <1>2, <2>3 DEF LockInv
  <2>4. QED
    BY <2>1, <2>2, <2>3
<1>4. (\A d \in DOMAIN Q : CallInv(d, Q[d], r, ids))
        <=> \A d \in Caller : f[d].o = p => CallInv(d, f[d], r, ids)
  BY <1>1, <1>2
<1>5. (\A d, e \in DOMAIN Q : d # e => Carried(Q[d], r) \cap Carried(Q[e], r) = {})
        <=> \A d, e \in Caller :
              d # e /\ f[d].o = p /\ f[e].o = p => Carried(f[d], r) \cap Carried(f[e], r) = {}
  BY <1>1, <1>2
<1>6. RowInv(r, ids, m, Q) <=> RowOf(p, r, ids, m, f)
  BY <1>3, <1>4, <1>5 DEF RowInv, RowOf
<1>7. QED
  BY <1>6 DEF Q, D

\* What one call's step leaves.
LEMMA RowMove ==
    ASSUME NEW p \in State, NEW c \in Caller \cup {"prefetch"},
           NEW f \in [Caller -> Call], NEW g \in [Caller -> Call],
           NEW r \in KeyRecord, NEW r2 \in KeyRecord, NEW ids \in SUBSET Nat,
           NEW ids2 \in SUBSET Nat, NEW m, NEW m2,
           RowOf(p, r, ids, m, f),
           \A d \in Caller \ {c} : g[d] = f[d] \/ Woke(f[d], g[d]),
           Move(c, p, IF c \in Caller THEN f[c] ELSE NoCall, r, ids,
                IF c \in Caller THEN g[c] ELSE NoCall, r2, ids2, m2)
    PROVE  RowOf(p, r2, ids2, m2, g)
<1> DEFINE q == IF c \in Caller THEN f[c] ELSE NoCall
           q2 == IF c \in Caller THEN g[c] ELSE NoCall
<1>0. /\ q.o = p => c \in Caller /\ q = f[c]
      /\ q2.o = p => c \in Caller /\ q2 = g[c]
      /\ c \in Caller => q = f[c] /\ q2 = g[c]
      /\ c # None /\ NoCall.o # p /\ None \notin Caller
      /\ Move(c, p, q, r, ids, q2, r2, ids2, m2)
  BY ConstantFacts DEF NoCall
<1> HIDE DEF q, q2
<1>1. \A d \in Caller : f[d] \in CallRecord /\ g[d] \in CallRecord
  BY CallFields
<1>2. r.next \in Nat /\ r.generation \in Nat /\ r2.generation \in Nat
  BY DEF KeyRecord
\* Whoever is not c and is on the state now was on it before.
<1>3. ASSUME NEW d \in Caller, d # c, g[d].o = p
      PROVE  /\ f[d].o = p /\ CallInv(d, g[d], r2, ids2)
             /\ Carried(g[d], r2) \subseteq Carried(f[d], r)
             /\ \A y \in Carried(g[d], r2) : ~New(y, p, q, r)
             /\ r.mu = d => g[d] = f[d]
  <2>0. f[d] \in CallRecord /\ (g[d] = f[d] \/ Woke(f[d], g[d]))
    BY <1>1, <1>3
  <2>1. f[d].o = p
    <3>1. [f[d] EXCEPT !.pc = "slow"].o = f[d].o
      BY <2>0 DEF CallRecord
    <3>2. g[d] # NoCall
      BY <1>0, <1>3
    <3>3. QED
      BY <1>3, <2>0, <3>1, <3>2 DEF Woke
  <2>2. CallInv(d, f[d], r, ids)
    BY <2>1 DEF RowOf
  <2>3. ASSUME NEW y \in Carried(f[d], r)
        PROVE  ~New(y, p, q, r)
    <3>1. y \in Nat /\ y <= r.next /\ IsEven(r.generation)
      BY <1>1, <2>2, <2>3 DEF CallInv, Fresh, Carried, Valid, CallRecord
    <3>2. ~(q.o = p /\ y \in Carried(q, r))
      BY <1>0, <1>3, <2>1, <2>3 DEF RowOf
    <3>3. QED
      BY <1>2, <3>1, <3>2 DEF New
  <2>4. r.mu = d => LockKept(r, r2)
    BY <1>0, <1>3 DEF Move
  <2>5. \A y \in ids2 \ ids : y \notin Carried(f[d], r)
    BY <1>0, <2>3 DEF Move
  <2>6. See(r, r2) /\ ids \subseteq ids2
    BY <1>0 DEF Move
  <2>7. CallInv(d, f[d], r2, ids2) /\ Carried(f[d], r2) \subseteq Carried(f[d], r)
    BY <1>1, <2>2, <2>4, <2>5, <2>6, OthersKept
  <2>8. r.mu = d => g[d] = f[d]
    BY <1>0, <1>3, <2>0 DEF RowOf, Woke, Working, BlockLabel, OddLabel
  <2>9. CASE g[d] = f[d]
    BY <2>1, <2>3, <2>7, <2>8, <2>9
  <2>10. CASE Woke(f[d], g[d])
    <3>1. f[d].pc = "wait" /\ g[d] = [f[d] EXCEPT !.pc = "slow"]
      BY <1>0, <1>3, <2>10 DEF Woke
    <3>2. CallInv(d, g[d], r2, ids2) /\ Carried(g[d], r2) = Carried(f[d], r2)
      BY <1>1, <2>7, <3>1, WokeKept
    <3>3. QED
      BY <2>1, <2>3, <2>7, <2>8, <3>2
  <2>11. QED
    BY <1>3, <2>9, <2>10
<1>4. Ranges(r2, ids2, m2)
  BY <1>0 DEF Move
<1>5. ASSUME NEW d \in Caller, g[d].o = p
      PROVE  CallInv(d, g[d], r2, ids2)
  <2>1. CASE d = c
    BY <1>0, <1>5, <2>1 DEF Move
  <2>2. QED
    BY <1>3, <1>5, <2>1
<1>6. ASSUME NEW d \in Caller, NEW e \in Caller, d # e, g[d].o = p, g[e].o = p
      PROVE  Carried(g[d], r2) \cap Carried(g[e], r2) = {}
  <2>1. CASE d # c /\ e # c
    BY <1>3, <1>6, <2>1 DEF RowOf
  <2>2. CASE d = c
    BY <1>0, <1>3, <1>6, <2>2 DEF Move
  <2>3. CASE e = c
    BY <1>0, <1>3, <1>6, <2>3 DEF Move
  <2>4. QED
    BY <2>1, <2>2, <2>3
<1>7. /\ r2.mu # None => r2.mu \in Caller /\ g[r2.mu].o = p /\ g[r2.mu].pc \in Working
      /\ ~IsEven(r2.generation) => r2.mu # None /\ g[r2.mu].pc \in OddLabel
  <2>1. CASE r2.mu = r.mu /\ r.mu # c /\ r2.generation = r.generation
    <3>1. CASE r.mu = None
      BY <2>1, <3>1 DEF RowOf
    <3>2. CASE r.mu # None
      <4>1. r.mu \in Caller /\ f[r.mu].o = p /\ f[r.mu].pc \in Working
        BY <3>2 DEF RowOf
      <4>2. g[r.mu] = f[r.mu]
        BY <2>1, <4>1 DEF Woke, Working, BlockLabel, OddLabel
      <4>3. QED
        BY <2>1, <4>1, <4>2 DEF RowOf
    <3>3. QED
      BY <3>1, <3>2
  <2>2. CASE r2.mu = None /\ IsEven(r2.generation)
    BY <2>2
  <2>3. CASE /\ r2.mu = c /\ q2.o = p /\ q2.pc \in Working
             /\ IsEven(r2.generation) \/ q2.pc \in OddLabel
    BY <1>0, <2>3
  <2>4. QED
    BY <1>0, <2>1, <2>2, <2>3 DEF Move, LockMove
<1>8. QED
  BY <1>4, <1>5, <1>6, <1>7 DEF RowOf

LEMMA RowStepInv ==
    ASSUME Shape, KeyTypes', NEW p \in State, NEW c \in Caller \cup {"prefetch"},
           Row(p), RowStep(c, p)
    PROVE  Row(p)'
<1>1. RowOf(p, ks[p], issued[KeyOf(p)], mark[KeyOf(p)], call)
  BY RowCalls DEF Row, CallsOn
<1>2. RowOf(p, ks'[p], issued'[KeyOf(p)], mark'[KeyOf(p)], call')
  BY <1>1, RowMove, StateFacts DEF RowStep, CallOf, Shape, KeyTypes
<1>3. QED
  BY <1>2, RowCalls DEF Row, CallsOn

-----------------------------------------------------------------------------
\* The steps of a call on its state, for any state of both.

\* A call q of caller c on state p, which is r.
Own(c, p, q, r, ids, m) ==
    /\ c \in Caller /\ p \in State /\ q \in CallRecord /\ q.count # 0 /\ q.o = p
    /\ r \in KeyRecord /\ ids \in SUBSET Nat /\ m \in Nat
    /\ Ranges(r, ids, m)
    /\ CallInv(c, q, r, ids)
    /\ r.fetch # NoFetch => r.standby = NoRange
    /\ r.mu = c => q.pc \in Working
    /\ ~IsEven(r.generation) => r.mu # None
    /\ ~IsEven(r.generation) /\ r.mu = c => q.pc \in OddLabel
    /\ \A y \in ids : 1 <= y /\ y <= m

\* The ids that come out are ids storage has reserved, above those that were out when
\* the call began.
OwnMove(c, p, q, r, ids, m, q2, r2, ids2) ==
    /\ Move(c, p, q, r, ids, q2, r2, ids2, m)
    /\ \A y \in ids2 \ ids : 1 <= y /\ y <= m /\ q.floor < y

LEMMA OwnNumbers ==
    ASSUME NEW c, NEW p, NEW q, NEW r, NEW ids, NEW m, Own(c, p, q, r, ids, m)
    PROVE  /\ c \in Caller /\ c # None /\ p # None /\ q.o = p /\ m \in Nat
           /\ q.generation \in Nat /\ q.id \in Nat /\ q.count \in Nat /\ q.floor \in Nat
           /\ q.count >= 1 /\ q.hadRange \in BOOLEAN
           /\ r.generation \in Nat /\ r.next \in Nat /\ r.start \in Nat /\ r.end \in Nat
           /\ r.standby.start \in Nat /\ r.standby.start >= 1 /\ r.standby.end \in Nat
           /\ r.fetch.got.start \in Nat /\ r.fetch.got.end \in Nat
           /\ r.mu \in Caller \cup {None} /\ r.initialized \in BOOLEAN
           /\ \A y \in ids : y \in Nat
           /\ NoCall.o # p
<1>1. q \in CallRecord /\ r \in KeyRecord /\ q.count # 0 /\ ids \in SUBSET Nat
  BY DEF Own
<1>2. r.standby \in Block /\ r.fetch.got \in Block
  BY <1>1 DEF KeyRecord, Fetch
<1>3. c \in Caller /\ p \in State /\ q.o = p /\ m \in Nat
  BY DEF Own
<1>4. c # None /\ p # None /\ NoCall.o # p
  BY <1>3, ConstantFacts DEF NoCall
<1>5. /\ q.generation \in Nat /\ q.id \in Nat /\ q.count \in Nat /\ q.floor \in Nat
      /\ q.count >= 1 /\ q.hadRange \in BOOLEAN
  BY <1>1 DEF CallRecord
<1>6. /\ r.generation \in Nat /\ r.next \in Nat /\ r.start \in Nat /\ r.end \in Nat
      /\ r.mu \in Caller \cup {None} /\ r.initialized \in BOOLEAN
  BY <1>1 DEF KeyRecord
<1>7. /\ r.standby.start \in Nat /\ r.standby.start >= 1 /\ r.standby.end \in Nat
      /\ r.fetch.got.start \in Nat /\ r.fetch.got.end \in Nat
  BY <1>2 DEF Block
<1>8. \A y \in ids : y \in Nat
  BY <1>1
<1>9. QED
  BY <1>3, <1>4, <1>5, <1>6, <1>7, <1>8

LEMMA IsEvenStep ==
    ASSUME NEW n \in Nat
    PROVE  IsEven(n + 1) <=> ~IsEven(n)
  BY DEF IsEven

\* The words that others read are as they were.
LEMMA SameWords ==
    ASSUME NEW c, NEW r \in KeyRecord, NEW r2 \in KeyRecord,
           r2.generation = r.generation, r.initialized => r2.initialized,
           r2.start = r.start, r2.end = r.end, r.next <= r2.next,
           r.mu \notin {c, None} => r2.standby = r.standby /\ r2.mu = r.mu
    PROVE  See(r, r2) /\ (r.mu \notin {c, None} => LockKept(r, r2))
<1>1. r.generation \in Nat
  BY DEF KeyRecord
<1>2. QED
  BY <1>1 DEF See, LockKept

\* A step that only moves the call.
LEMMA LookMove ==
    ASSUME NEW c, NEW p, NEW q, NEW r, NEW ids, NEW m, Own(c, p, q, r, ids, m), NEW q2,
           q2.o = p => CallInv(c, q2, r, ids) /\ Carried(q2, r) \subseteq Carried(q, r),
           r.mu = c => q2.o = p /\ q2.pc \in Working /\ (IsEven(r.generation) \/ q2.pc \in OddLabel)
    PROVE  OwnMove(c, p, q, r, ids, m, q2, r, ids)
<1>1. r \in KeyRecord /\ r.next \in Nat /\ Ranges(r, ids, m) /\ q.o = p
  BY DEF Own, KeyRecord
<1>2. See(r, r) /\ (r.mu \notin {c, None} => LockKept(r, r))
  <2>1. r.next <= r.next
    BY <1>1
  <2>2. QED
    BY <1>1, <2>1, SameWords
<1>3. LockMove(c, p, r, q2, r)
  BY DEF LockMove
<1>4. \A y \in Carried(q2, r) : q2.o = p => New(y, p, q, r)
  BY <1>1 DEF New
<1>5. QED
  BY <1>1, <1>2, <1>3, <1>4 DEF OwnMove, Move

LEMMA FastLoadMove ==
    ASSUME NEW c, NEW p, NEW q, NEW r, NEW ids, NEW m, Own(c, p, q, r, ids, m), q.pc = "fast"
    PROVE  OwnMove(c, p, q, r, ids, m,
                   [q EXCEPT !.pc = IF r.initialized THEN "add" ELSE "slow",
                             !.hadRange = r.initialized, !.generation = r.generation],
                   r, ids)
<1> DEFINE q2 == [q EXCEPT !.pc = IF r.initialized THEN "add" ELSE "slow",
                           !.hadRange = r.initialized, !.generation = r.generation]
<1>1. /\ q2.pc = IF r.initialized THEN "add" ELSE "slow"
      /\ q2.hadRange = r.initialized /\ q2.generation = r.generation
      /\ q2.count = q.count /\ q2.floor = q.floor
  BY DEF Own, CallRecord
<1>2. r.mu # c
  BY DEF Own, Working, BlockLabel, OddLabel
<1> HIDE DEF q2
<1>3. Carried(q2, r) = {}
  BY <1>1 DEF Carried, HasId, FastLabel, FetchLabel
<1>4. CallInv(c, q2, r, ids)
  <2>1. r.generation \in Nat /\ CallInv(c, q, r, ids)
    BY DEF Own, KeyRecord
  <2>2. Reading(q2, r)
    BY <1>1, <2>1 DEF CallInv, Reading, FastLabel, BlockLabel
  <2>3. QED
    BY <1>1, <1>3, <2>1, <2>2 DEF CallInv, Writing, Fresh, OddLabel
<1>5. QED
  BY <1>2, <1>3, <1>4, LookMove DEF q2

\* One of the reads of the optimistic path.
LEMMA FastReadMove ==
    ASSUME NEW c, NEW p, NEW q, NEW r, NEW ids, NEW m, Own(c, p, q, r, ids, m), NEW q2,
           q.pc \in FastLabel, q2.pc \in FastLabel \cup {"slow"},
           q2.o = q.o, q2.generation = q.generation, q2.hadRange = q.hadRange, q2.id = q.id,
           q2.count = q.count, q2.floor = q.floor,
           q2.pc \in {"end", "restart", "generation"} => q.pc # "start" \/ q.id >= r.start,
           q2.pc \in {"restart", "generation"} =>
             q.pc \in {"restart", "generation"} \/ q.id <= r.end
    PROVE  OwnMove(c, p, q, r, ids, m, q2, r, ids)
<1>2. r.mu # c
  BY DEF Own, Working, BlockLabel, OddLabel, FastLabel
<1>3. Carried(q2, r) \subseteq Carried(q, r) /\ q.hadRange
  BY DEF Own, CallInv, Reading, Carried, HasId, FastLabel, FetchLabel, Valid
<1>4. Valid(q2, r) <=> Valid(q, r)
  BY DEF Valid
<1>5. Reading(q2, r)
  BY <1>3, <1>4 DEF Own, CallInv, Reading, FastLabel, BlockLabel
<1>6. CallInv(c, q2, r, ids)
  BY <1>3, <1>5 DEF Own, CallInv, Writing, Fresh, FastLabel, OddLabel
<1>7. QED
  BY <1>2, <1>3, <1>6, LookMove

\* The cursor advances, the standby range is dropped, a fetch begins or goes on.
LEMMA RangesKept ==
    ASSUME NEW r \in KeyRecord, NEW r2 \in KeyRecord, NEW ids \in SUBSET Nat,
           NEW m \in Nat, NEW m2 \in Nat, m <= m2, Ranges(r, ids, m),
           r2.generation = r.generation, r2.initialized = r.initialized,
           r2.start = r.start, r2.end = r.end, r.next <= r2.next,
           r2.standby \in {r.standby, NoRange},
           r2.fetch = r.fetch \/ r2.fetch.at # "answered"
    PROVE  Ranges(r2, ids, m2)
<1>1. /\ r.standby \in Block /\ r.fetch.got \in Block /\ r.end \in Nat
      /\ r.next \in Nat /\ r2.next \in Nat
  BY DEF KeyRecord, Fetch
<1>2. /\ r.standby.start \in Nat /\ r.standby.end \in Nat
      /\ r.fetch.got.start \in Nat /\ r.fetch.got.end \in Nat
  BY <1>1 DEF Block
<1>3. Above(ids, r.next + 1) => Above(ids, r2.next + 1)
  BY <1>1 DEF Above
<1>4. r2.standby # NoRange => r2.standby = r.standby
  OBVIOUS
<1>5. r2.fetch.at = "answered" => r2.fetch = r.fetch
  OBVIOUS
<1>6. QED
  BY <1>1, <1>2, <1>3, <1>4, <1>5 DEF Ranges

\* More ids are out, of the active range and below the cursor.
LEMMA RangesIssued ==
    ASSUME NEW r \in KeyRecord, NEW ids \in SUBSET Nat, NEW ids2 \in SUBSET Nat, NEW m \in Nat,
           Ranges(r, ids, m), IsEven(r.generation),
           \A y \in ids2 \ ids : y <= r.end /\ y <= r.next
    PROVE  Ranges(r, ids2, m)
<1>1. /\ r.standby \in Block /\ r.fetch.got \in Block /\ r.end \in Nat /\ r.next \in Nat
  BY DEF KeyRecord, Fetch
<1>2. /\ r.standby.start \in Nat /\ r.standby.end \in Nat
      /\ r.fetch.got.start \in Nat /\ r.fetch.got.end \in Nat
  BY <1>1 DEF Block
<1>3. ASSUME NEW x \in Nat, Above(ids, x), r.end < x \/ r.next < x
      PROVE  Above(ids2, x)
  <2>1. ASSUME NEW y \in ids2
        PROVE  y < x
    <3>1. CASE y \in ids
      BY <1>3, <3>1 DEF Above
    <3>2. CASE y \notin ids
      <4>1. y \in Nat /\ y <= r.end /\ y <= r.next
        BY <3>2
      <4>2. QED
        BY <1>1, <1>3, <4>1
    <3>3. QED
      BY <3>1, <3>2
  <2>2. QED
    BY <2>1 DEF Above
<1>4. r.next + 1 \in Nat /\ r.next < r.next + 1
  BY <1>1
<1>5. Above(ids, r.next + 1) => Above(ids2, r.next + 1)
  BY <1>3, <1>4
<1>6. r.end < r.standby.start /\ Above(ids, r.standby.start) => Above(ids2, r.standby.start)
  BY <1>2, <1>3
<1>7. r.end < r.fetch.got.start /\ Above(ids, r.fetch.got.start) => Above(ids2, r.fetch.got.start)
  BY <1>2, <1>3
<1>8. QED
  BY <1>5, <1>6, <1>7 DEF Ranges

\* The call is over, and the lock, if it had it, is free.
LEMMA EndedMove ==
    ASSUME NEW c, NEW p, NEW q, NEW r, NEW ids, NEW m, Own(c, p, q, r, ids, m),
           q.pc \notin OddLabel
    PROVE  OwnMove(c, p, q, r, ids, m, NoCall, [r EXCEPT !.mu = IF r.mu = c THEN None ELSE @], ids)
<1> DEFINE r2 == [r EXCEPT !.mu = IF r.mu = c THEN None ELSE @]
<1>1. r \in KeyRecord /\ Ranges(r, ids, m) /\ m \in Nat /\ ids \in SUBSET Nat
  BY DEF Own
<1>2. /\ r2 \in KeyRecord /\ r2.generation = r.generation /\ r2.initialized = r.initialized
      /\ r2.start = r.start /\ r2.end = r.end /\ r2.next = r.next /\ r2.standby = r.standby
      /\ r2.fetch = r.fetch /\ r2.mu = IF r.mu = c THEN None ELSE r.mu
  BY <1>1 DEF KeyRecord
<1>3. r.next \in Nat /\ r.next <= r2.next /\ m <= m
  BY <1>1, <1>2 DEF KeyRecord
<1> HIDE DEF r2
<1>4. See(r, r2) /\ (r.mu \notin {c, None} => LockKept(r, r2))
  BY <1>1, <1>2, <1>3, SameWords
<1>5. Ranges(r2, ids, m)
  BY <1>1, <1>2, <1>3, RangesKept
<1>6. LockMove(c, p, r, NoCall, r2)
  BY <1>2 DEF LockMove, Own
<1>7. NoCall.o # p
  BY OwnNumbers
<1>8. QED
  BY <1>4, <1>5, <1>6, <1>7 DEF OwnMove, Move, r2

LEMMA FastAddMove ==
    ASSUME NEW c, NEW p, NEW q, NEW r, NEW ids, NEW m, Own(c, p, q, r, ids, m), q.pc = "add"
    PROVE  OwnMove(c, p, q, r, ids, m,
                   [q EXCEPT !.id = r.next + 1,
                             !.pc = IF q.generation % 2 = 0 THEN "start" ELSE "slow"],
                   [r EXCEPT !.next = @ + 1], ids)
<1> DEFINE q2 == [q EXCEPT !.id = r.next + 1,
                           !.pc = IF q.generation % 2 = 0 THEN "start" ELSE "slow"]
           r2 == [r EXCEPT !.next = @ + 1]
<1>1. /\ r \in KeyRecord /\ q \in CallRecord /\ ids \in SUBSET Nat /\ m \in Nat
      /\ CallInv(c, q, r, ids) /\ Ranges(r, ids, m)
      /\ r.next \in Nat /\ r.next + 1 \in Nat /\ q.floor \in Nat /\ q.count \in Nat
      /\ r.generation \in Nat /\ q.generation \in Nat
  BY DEF Own, KeyRecord, CallRecord
<1>2. /\ r2 \in KeyRecord /\ r2.generation = r.generation /\ r2.initialized = r.initialized
      /\ r2.start = r.start /\ r2.end = r.end /\ r2.next = r.next + 1
      /\ r2.standby = r.standby /\ r2.fetch = r.fetch /\ r2.mu = r.mu
  BY <1>1 DEF KeyRecord
<1>3. /\ q2.pc = IF IsEven(q.generation) THEN "start" ELSE "slow"
      /\ q2.id = r.next + 1 /\ q2.generation = q.generation /\ q2.hadRange = q.hadRange
      /\ q2.count = q.count /\ q2.floor = q.floor /\ q2.o = q.o
  BY <1>1 DEF CallRecord, IsEven
<1>4. r.mu # c
  BY DEF Own, Working, BlockLabel, OddLabel
<1> HIDE DEF q2, r2
<1>5. q.hadRange /\ q.count = 1 /\ r.initialized
  BY <1>1 DEF CallInv, Reading
<1>6. \A y \in Carried(q2, r2) : y = r.next + 1 /\ Valid(q2, r2)
  BY <1>3 DEF Carried
<1>7. r.next <= r2.next /\ m <= m /\ r.next < r.next + 1
  BY <1>1, <1>2
<1>8. See(r, r2) /\ (r.mu \notin {c, None} => LockKept(r, r2))
  BY <1>1, <1>2, <1>7, SameWords
<1>9. Ranges(r2, ids, m)
  BY <1>1, <1>2, <1>7, RangesKept
<1>10. LockMove(c, p, r, q2, r2)
  BY <1>2, <1>4 DEF LockMove
<1>11. \A y \in Carried(q2, r2) : New(y, p, q, r)
  BY <1>6, <1>7 DEF New
<1>12. Reading(q2, r2)
  <2>1. q.generation <= r.generation
    BY <1>1 DEF CallInv, Reading
  <2>2. QED
    BY <1>2, <1>3, <1>5, <2>1 DEF Reading, FastLabel, BlockLabel
<1>13. Writing(c, q2, r2)
  BY <1>3 DEF Writing, OddLabel
<1>14. Fresh(q2, r2, ids)
  <2>1. Valid(q2, r2) => Above(ids, r.next + 1)
    BY <1>1, <1>2, <1>3, <1>5 DEF Valid, Ranges
  <2>2. q.floor \in ids \cup {0}
    BY <1>1 DEF CallInv, Fresh
  <2>3. Above(ids, r.next + 1) => q.floor < r.next + 1 /\ r.next + 1 \notin ids
    BY <1>1, <2>2 DEF Above
  <2>4. r.next + 1 <= r2.next
    BY <1>1, <1>2
  <2>5. QED
    BY <1>3, <1>6, <2>1, <2>2, <2>3, <2>4 DEF Fresh
<1>15. QED
  BY <1>8, <1>9, <1>10, <1>11, <1>12, <1>13, <1>14 DEF OwnMove, Move, CallInv, r2, q2

LEMMA BlockLoadMove ==
    ASSUME NEW c, NEW p, NEW q, NEW r, NEW ids, NEW m, Own(c, p, q, r, ids, m), q.pc = "block",
           NEW pc, pc = IF r.initialized /\ r.generation % 2 = 0 THEN "next"
                        ELSE IF r.mu = c THEN "rest" ELSE "slow"
    PROVE  OwnMove(c, p, q, r, ids, m, [q EXCEPT !.generation = r.generation, !.pc = pc], r, ids)
<1> DEFINE q2 == [q EXCEPT !.generation = r.generation, !.pc = pc]
<1>1. /\ q \in CallRecord /\ r.generation \in Nat /\ CallInv(c, q, r, ids) /\ q.o = p
      /\ ~q.hadRange
  BY DEF Own, KeyRecord, CallInv, Reading
<1>2. /\ q2.generation = r.generation /\ q2.pc = pc /\ q2.hadRange = q.hadRange
      /\ q2.count = q.count /\ q2.floor = q.floor /\ q2.o = q.o /\ pc \in {"next", "rest", "slow"}
  BY <1>1 DEF CallRecord
<1>3. r.mu = c => pc \in {"next", "rest"} /\ IsEven(r.generation)
  BY DEF Own, OddLabel
<1> HIDE DEF q2
<1>4. Carried(q2, r) = {}
  BY <1>1, <1>2 DEF Carried, HasId, FastLabel, FetchLabel
<1>5. Reading(q2, r)
  BY <1>1, <1>2 DEF Reading, FastLabel, BlockLabel, IsEven
<1>6. Writing(c, q2, r)
  BY <1>2 DEF Writing, OddLabel
<1>7. CallInv(c, q2, r, ids)
  BY <1>1, <1>2, <1>4, <1>5, <1>6 DEF CallInv, Fresh
<1>8. r.mu = c => q2.o = p /\ q2.pc \in Working /\ IsEven(r.generation)
  BY <1>1, <1>2, <1>3 DEF Working, BlockLabel
<1>9. QED
  BY <1>4, <1>7, <1>8, LookMove DEF q2

\* One of the reads for a block.
LEMMA BlockReadMove ==
    ASSUME NEW c, NEW p, NEW q, NEW r, NEW ids, NEW m, Own(c, p, q, r, ids, m), NEW q2,
           q.pc \in BlockLabel, q2.pc \in {"first", "last", "cas", "rest", "slow"},
           q2.o = q.o, q2.generation = q.generation, q2.hadRange = q.hadRange,
           q2.count = q.count, q2.floor = q.floor,
           q2.pc \in {"last", "cas"} => q2.id = q.id,
           q2.pc = "last" => q.id >= r.start,
           q2.pc = "cas" => q.pc = "last" /\ q.id + q.count <= r.end,
           q2.pc = "rest" => r.mu = c, q2.pc = "slow" => r.mu # c
    PROVE  OwnMove(c, p, q, r, ids, m, q2, r, ids)
<1>1. CallInv(c, q, r, ids) /\ q.o = p /\ ~q.hadRange
  BY DEF Own, CallInv, Reading
<1>2. r.mu = c => q2.pc \in Working /\ IsEven(r.generation)
  BY DEF Own, Working, BlockLabel, OddLabel
<1>3. Carried(q2, r) = {}
  BY <1>1 DEF Carried, HasId, FastLabel, FetchLabel
<1>4. Valid(q2, r) <=> Valid(q, r)
  BY DEF Valid
<1>5. Reading(q2, r)
  BY <1>1, <1>4 DEF CallInv, Reading, FastLabel, BlockLabel
<1>6. Writing(c, q2, r)
  BY DEF Writing, OddLabel
<1>7. CallInv(c, q2, r, ids)
  BY <1>1, <1>3, <1>5, <1>6 DEF CallInv, Fresh
<1>8. QED
  BY <1>1, <1>2, <1>3, <1>7, LookMove

LEMMA BlockSwapMove ==
    ASSUME NEW c, NEW p, NEW q, NEW r, NEW ids, NEW m, Own(c, p, q, r, ids, m), q.pc = "cas",
           r.next = q.id
    PROVE  OwnMove(c, p, q, r, ids, m, [q EXCEPT !.pc = "swapped"],
                   [r EXCEPT !.next = @ + q.count], ids)
<1> DEFINE q2 == [q EXCEPT !.pc = "swapped"]
           r2 == [r EXCEPT !.next = @ + q.count]
<1>1. /\ r \in KeyRecord /\ q \in CallRecord /\ ids \in SUBSET Nat /\ m \in Nat
      /\ CallInv(c, q, r, ids) /\ Ranges(r, ids, m) /\ q.o = p
      /\ r.next \in Nat /\ r.next + q.count \in Nat /\ q.floor \in Nat /\ q.count \in Nat
      /\ r.generation \in Nat /\ q.generation \in Nat
  BY DEF Own, KeyRecord, CallRecord
<1>2. /\ r2 \in KeyRecord /\ r2.generation = r.generation /\ r2.initialized = r.initialized
      /\ r2.start = r.start /\ r2.end = r.end /\ r2.next = r.next + q.count
      /\ r2.standby = r.standby /\ r2.fetch = r.fetch /\ r2.mu = r.mu
  BY <1>1 DEF KeyRecord
<1>3. /\ q2.pc = "swapped"
      /\ q2.id = q.id /\ q2.generation = q.generation /\ q2.hadRange = q.hadRange
      /\ q2.count = q.count /\ q2.floor = q.floor /\ q2.o = q.o
  BY <1>1 DEF CallRecord
<1>4. /\ r.mu = c => IsEven(r.generation)
      /\ q.hadRange = FALSE /\ r.initialized /\ IsEven(q.generation)
      /\ Valid(q, r) => q.id >= r.start /\ q.id + q.count <= r.end
  BY DEF Own, OddLabel, CallInv, Reading, BlockLabel, CallRecord
<1> HIDE DEF q2, r2
<1>5. Valid(q2, r2) <=> Valid(q, r)
  BY <1>2, <1>3 DEF Valid
<1>6. \A y \in Carried(q2, r2) :
        y \in Nat /\ r.next < y /\ y <= r2.next /\ Valid(q, r)
  <2>1. ASSUME NEW y \in Carried(q2, r2)
        PROVE  y \in Nat /\ r.next < y /\ y <= r2.next /\ Valid(q, r)
    <3>1. y \in r.next..(r.next + q.count) /\ y # r.next /\ Valid(q, r)
      BY <1>3, <1>5 DEF Carried, HasId, FastLabel, FetchLabel
    <3>2. QED
      BY <1>1, <1>2, <3>1
  <2>2. QED
    BY <2>1
<1>7. r.next <= r2.next /\ m <= m
  BY <1>1, <1>2
<1>8. See(r, r2) /\ (r.mu \notin {c, None} => LockKept(r, r2))
  BY <1>1, <1>2, <1>7, SameWords
<1>9. Ranges(r2, ids, m)
  BY <1>1, <1>2, <1>7, RangesKept
<1>10. LockMove(c, p, r, q2, r2)
  BY <1>1, <1>2, <1>3, <1>4 DEF LockMove, Working, BlockLabel
<1>11. \A y \in Carried(q2, r2) : New(y, p, q, r)
  BY <1>6 DEF New
<1>12. Reading(q2, r2)
  BY <1>1, <1>2, <1>3, <1>4, <1>5 DEF CallInv, Reading, FastLabel, BlockLabel
<1>13. Writing(c, q2, r2)
  BY <1>3 DEF Writing, OddLabel
<1>14. Fresh(q2, r2, ids)
  <2>1. Valid(q, r) => Above(ids, r.next + 1)
    BY <1>1, <1>4 DEF Valid, Ranges
  <2>2. q.floor \in ids \cup {0}
    BY <1>1 DEF CallInv, Fresh
  <2>3. ASSUME NEW y \in Carried(q2, r2)
        PROVE  q.floor < y /\ y \notin ids /\ y <= r2.next
    <3>1. y \in Nat /\ r.next < y /\ y <= r2.next /\ Above(ids, r.next + 1)
      BY <1>6, <2>1
    <3>2. QED
      BY <1>1, <2>2, <3>1 DEF Above
  <2>4. QED
    BY <1>3, <2>2, <2>3 DEF Fresh
<1>15. QED
  BY <1>8, <1>9, <1>10, <1>11, <1>12, <1>13, <1>14 DEF OwnMove, Move, CallInv, r2, q2

\* The ids new are the call's, or the gate refuses them.
IssueEnds(q, q2, generation, ids, ids2, new) ==
    \/ q2 = NoCall /\ ids2 = ids
    \/ /\ q2.pc = "after" /\ q2.o = q.o /\ q2.generation = generation
       /\ q2.hadRange = q.hadRange /\ q2.count = q.count /\ q2.floor = q.floor
       /\ ids2 = ids \cup new

\* A call that has come through, as it is before it turns to its next key.
LEMMA AfterInv ==
    ASSUME NEW c, NEW q, NEW r, NEW ids, NEW q2, NEW r2 \in KeyRecord, NEW ids2,
           CallInv(c, q, r, ids), r.initialized => r2.initialized,
           q2.pc = "after", q2.generation = r2.generation,
           q2.hadRange = q.hadRange, q2.count = q.count, q2.floor = q.floor, ids \subseteq ids2
    PROVE  CallInv(c, q2, r2, ids2) /\ Carried(q2, r2) = {}
<1>1. r2.generation \in Nat
  BY DEF KeyRecord
<1>2. Carried(q2, r2) = {}
  BY DEF Carried, HasId, FastLabel, FetchLabel
<1>3. Reading(q2, r2)
  BY <1>1 DEF CallInv, Reading, FastLabel, BlockLabel
<1>4. QED
  BY <1>2, <1>3 DEF CallInv, Writing, Fresh, OddLabel

\* The state as Issue leaves it.
Gated(c, k) == [k EXCEPT !.mu = IF @ = c THEN None ELSE @, !.recent = TRUE]

LEMMA IssueMove ==
    ASSUME NEW c, NEW p, NEW q, NEW r, NEW ids, NEW m, Own(c, p, q, r, ids, m),
           IsEven(r.generation), r.initialized, NEW next \in Nat, r.next <= next,
           NEW new \in SUBSET Nat,
           \A y \in new : /\ y \in Carried(q, r) \/ r.next < y
                          /\ r.start <= y /\ y <= r.end /\ y <= next,
           NEW q2, NEW ids2, IssueEnds(q, q2, r.generation, ids, ids2, new)
    PROVE  /\ OwnMove(c, p, q, r, ids, m, q2, Gated(c, [r EXCEPT !.next = next]), ids2)
           /\ ids \cap new = {}
           /\ \A y \in new : q.floor < y
<1> DEFINE r2 == Gated(c, [r EXCEPT !.next = next])
<1>1. /\ r \in KeyRecord /\ q \in CallRecord /\ ids \in SUBSET Nat /\ m \in Nat
      /\ CallInv(c, q, r, ids) /\ Ranges(r, ids, m) /\ q.o = p
      /\ r.next \in Nat /\ r.start \in Nat /\ r.end \in Nat /\ q.floor \in Nat
      /\ r.generation \in Nat /\ NoCall.o # p
      /\ \A y \in ids : 1 <= y /\ y <= m
  BY OwnNumbers DEF Own, KeyRecord, CallRecord
<1>2. /\ r2 \in KeyRecord /\ r2.generation = r.generation /\ r2.initialized = r.initialized
      /\ r2.start = r.start /\ r2.end = r.end /\ r2.next = next
      /\ r2.standby = r.standby /\ r2.fetch = r.fetch
      /\ r2.mu = IF r.mu = c THEN None ELSE r.mu
  BY <1>1 DEF KeyRecord, Gated
<1> HIDE DEF r2
<1>3. r.end <= m /\ 1 <= r.start /\ Above(ids, r.next + 1)
  BY <1>1 DEF Ranges
<1>4. ASSUME NEW y \in new
      PROVE  /\ y \in Nat /\ y \notin ids /\ q.floor < y /\ 1 <= y /\ y <= m
             /\ New(y, p, q, r) /\ y <= r2.end /\ y <= r2.next
  <2>1. y \in Nat /\ r.start <= y /\ y <= r.end /\ y <= next
    OBVIOUS
  <2>2. 1 <= y /\ y <= m
    BY <1>1, <1>3, <2>1
  <2>3. q.floor \in ids \cup {0} /\ \A x \in Carried(q, r) : q.floor < x /\ x \notin ids
    BY <1>1 DEF CallInv, Fresh
  <2>4. r.next < y => y \notin ids /\ q.floor < y
    BY <1>1, <1>3, <2>1, <2>2, <2>3 DEF Above
  <2>5. QED
    BY <1>1, <1>2, <2>1, <2>2, <2>3, <2>4 DEF New
<1>5. ids \subseteq ids2 /\ ids2 \in SUBSET Nat /\ \A y \in ids2 \ ids : y \in new
  BY <1>1 DEF IssueEnds
<1>6. See(r, r2) /\ (r.mu \notin {c, None} => LockKept(r, r2))
  BY <1>1, <1>2, SameWords
<1>7. Ranges(r2, ids2, m)
  <2>1. Ranges(r2, ids, m)
    <3>1. m <= m /\ r.next <= r2.next /\ r2.standby \in {r.standby, NoRange}
      BY <1>1, <1>2
    <3>2. QED
      BY <1>1, <1>2, <3>1, RangesKept
  <2>2. QED
    BY <1>1, <1>2, <1>4, <1>5, <2>1, RangesIssued
<1>8. LockMove(c, p, r, q2, r2)
  BY <1>2 DEF LockMove
<1>9. q2.o = p => CallInv(c, q2, r2, ids2) /\ Carried(q2, r2) = {}
  <2>1. ASSUME q2.o = p
        PROVE  /\ q2.pc = "after" /\ q2.generation = r2.generation
               /\ q2.hadRange = q.hadRange /\ q2.count = q.count /\ q2.floor = q.floor
    BY <1>1, <1>2, <2>1 DEF IssueEnds
  <2>2. QED
    BY <1>1, <1>2, <1>5, <2>1, AfterInv
<1>10. Move(c, p, q, r, ids, q2, r2, ids2, m)
  BY <1>4, <1>5, <1>6, <1>7, <1>8, <1>9 DEF Move
<1>11. QED
  BY <1>4, <1>5, <1>10 DEF OwnMove, r2

\* A round of the slow path that gets nothing yet: the call begins to activate the
\* standby range, waits, fetches, tries its block under the lock, or fails.
SlowEnds(c, q, q2, r2) ==
    \/ q2 = NoCall /\ r2.mu = None
    \/ /\ q2.o = q.o /\ q2.generation = q.generation /\ q2.hadRange = q.hadRange
       /\ q2.id = q.id /\ q2.count = q.count /\ q2.floor = q.floor
       /\ \/ q2.pc = "odd" /\ r2.mu = c /\ Size(r2.standby) >= q.count
          \/ q2.pc \in {"wait", "reserve"} /\ r2.mu = None
          \/ q2.pc = "block" /\ r2.mu = c /\ ~q.hadRange

LEMMA SlowMove ==
    ASSUME NEW c, NEW p, NEW q, NEW r, NEW ids, NEW m, Own(c, p, q, r, ids, m),
           q.pc \in {"slow", "rest"}, r.mu \in {c, None}, NEW r2 \in KeyRecord,
           r2.generation = r.generation, r2.initialized = r.initialized,
           r2.start = r.start, r2.end = r.end, r.next <= r2.next,
           r2.standby \in {r.standby, NoRange},
           r2.fetch = r.fetch \/ r2.fetch.at # "answered",
           NEW q2, SlowEnds(c, q, q2, r2)
    PROVE  OwnMove(c, p, q, r, ids, m, q2, r2, ids)
<1>1. /\ r \in KeyRecord /\ q \in CallRecord /\ ids \in SUBSET Nat /\ m \in Nat
      /\ CallInv(c, q, r, ids) /\ Ranges(r, ids, m) /\ q.o = p
      /\ r.next \in Nat /\ r2.next \in Nat /\ NoCall.o # p /\ m <= m /\ c # None
  <2>1. NoCall.o # p /\ c # None
    BY OwnNumbers
  <2>2. QED
    BY <2>1 DEF Own, KeyRecord
<1>2. IsEven(r.generation)
  BY DEF Own, OddLabel
<1>3. See(r, r2) /\ (r.mu \notin {c, None} => LockKept(r, r2))
  BY <1>1, SameWords
<1>4. Ranges(r2, ids, m)
  BY <1>1, RangesKept
<1>5. LockMove(c, p, r, q2, r2)
  BY <1>1, <1>2 DEF LockMove, SlowEnds, Working
<1>6. ASSUME q2 # NoCall
      PROVE  CallInv(c, q2, r2, ids) /\ Carried(q2, r2) \subseteq Carried(q, r)
  <2>1. /\ q2.generation = q.generation /\ q2.hadRange = q.hadRange
        /\ q2.id = q.id /\ q2.count = q.count /\ q2.floor = q.floor
        /\ q2.pc \in {"odd", "wait", "reserve", "block"}
        /\ q2.pc = "odd" => r2.mu = c /\ Size(r2.standby) >= q.count
        /\ q2.pc = "block" => ~q.hadRange
    BY <1>6 DEF SlowEnds
  <2>2. q.pc = "rest" => ~q.hadRange
    BY <1>1 DEF CallInv, Reading
  <2>3. Valid(q2, r2) <=> Valid(q, r)
    BY <2>1 DEF Valid
  <2>4. Carried(q2, r2) \subseteq Carried(q, r)
    BY <2>1, <2>2, <2>3 DEF Carried, HasId, FastLabel, FetchLabel
  <2>5. Reading(q2, r2)
    BY <1>1, <2>1, <2>3 DEF CallInv, Reading, FastLabel, BlockLabel
  <2>6. Writing(c, q2, r2)
    BY <2>1 DEF Writing, OddLabel
  <2>7. Fresh(q2, r2, ids)
    <3>1. \A y \in Carried(q, r) : y \in Nat /\ y <= r.next /\ q.floor < y /\ y \notin ids
      BY <1>1 DEF CallInv, Fresh, Carried, CallRecord
    <3>2. \A y \in Carried(q2, r2) : y <= r2.next
      BY <1>1, <2>4, <3>1
    <3>3. QED
      BY <1>1, <2>1, <2>4, <3>1, <3>2 DEF CallInv, Fresh
  <2>8. QED
    BY <2>4, <2>5, <2>6, <2>7 DEF CallInv
<1>7. q2.o = p => q2 # NoCall
  BY <1>1
<1>8. QED
  BY <1>1, <1>3, <1>4, <1>5, <1>6, <1>7 DEF OwnMove, Move, New

\* A word of the new range is written, while the generation is odd.
LEMMA WriteMove ==
    ASSUME NEW c, NEW p, NEW q, NEW r, NEW ids, NEW m, Own(c, p, q, r, ids, m),
           q.pc \in {"odd"} \cup OddLabel, NEW r2 \in KeyRecord,
           r.generation <= r2.generation, ~IsEven(r2.generation),
           r2.initialized = r.initialized, r2.standby = r.standby, r2.fetch = r.fetch,
           r2.mu = r.mu, NEW q2, q2.pc \in OddLabel,
           q2.o = q.o, q2.generation = q.generation, q2.hadRange = q.hadRange,
           q2.id = q.id, q2.count = q.count, q2.floor = q.floor, Writing(c, q2, r2)
    PROVE  OwnMove(c, p, q, r, ids, m, q2, r2, ids)
<1>1. /\ r \in KeyRecord /\ CallInv(c, q, r, ids) /\ Ranges(r, ids, m) /\ q.o = p
      /\ r.generation \in Nat /\ r2.generation \in Nat /\ q.generation \in Nat
  BY DEF Own, KeyRecord, CallRecord
<1>2. r.mu = c
  BY <1>1 DEF CallInv, Writing
<1>3. See(r, r2)
  BY <1>1 DEF See
<1>4. Ranges(r2, ids, m)
  BY <1>1 DEF Ranges
<1>5. LockMove(c, p, r, q2, r2)
  BY <1>1, <1>2 DEF LockMove, Working
<1>6. Carried(q2, r2) = {}
  BY DEF Carried, Valid
<1>7. Reading(q2, r2)
  <2>1. q2.generation <= r2.generation
    BY <1>1 DEF CallInv, Reading
  <2>2. QED
    BY <1>1, <2>1 DEF CallInv, Reading, FastLabel, BlockLabel, OddLabel, Valid
<1>8. CallInv(c, q2, r2, ids)
  BY <1>1, <1>6, <1>7 DEF CallInv, Fresh
<1>9. QED
  BY <1>1, <1>2, <1>3, <1>4, <1>5, <1>6, <1>8 DEF OwnMove, Move

\* The first ids of the standby range.
FirstIds(q, r) == r.standby.start..(r.standby.start + q.count - 1)

\* The generation is even again: the new range is the active one, and its first ids are
\* the caller's.
LEMMA EvenMove ==
    ASSUME NEW c, NEW p, NEW q, NEW r, NEW ids, NEW m, Own(c, p, q, r, ids, m), q.pc = "even",
           NEW new, new = FirstIds(q, r), NEW r2 \in KeyRecord,
           r2.generation = r.generation + 1, r2.initialized = TRUE,
           r2.standby = NoRange, r2.start = r.start, r2.end = r.end, r2.next = r.next,
           r2.fetch = r.fetch, r2.mu = None,
           NEW q2, NEW ids2, IssueEnds(q, q2, r2.generation, ids, ids2, new)
    PROVE  /\ OwnMove(c, p, q, r, ids, m, q2, r2, ids2)
           /\ ids \cap new = {}
           /\ \A y \in new : q.floor < y
<1>1. /\ r \in KeyRecord /\ ids \in SUBSET Nat /\ m \in Nat
      /\ CallInv(c, q, r, ids) /\ Ranges(r, ids, m) /\ q.o = p
      /\ r.fetch # NoFetch => r.standby = NoRange
  BY DEF Own
<1>2. /\ r.next \in Nat /\ r.generation \in Nat /\ q.floor \in Nat
      /\ q.count \in Nat /\ q.count >= 1
      /\ r.standby.start \in Nat /\ r.standby.start >= 1 /\ r.standby.end \in Nat
      /\ NoCall.o # p
  BY OwnNumbers
<1>3. /\ r.mu = c /\ ~IsEven(r.generation) /\ Size(r.standby) >= q.count
      /\ r.next >= r.standby.start + q.count - 1 /\ r.start = r.standby.start
      /\ r.end = r.standby.end
  BY <1>1 DEF CallInv, Writing, OddLabel
<1>4. r.standby # NoRange
  BY <1>2, <1>3 DEF Size, NoRange
<1>5. r.fetch.at # "answered"
  BY <1>1, <1>4 DEF NoFetch
<1>6. r.standby.end <= m /\ Above(ids, r.standby.start)
  BY <1>1, <1>4 DEF Ranges
<1>7. r.standby.start + q.count - 1 <= r.standby.end
  BY <1>2, <1>3 DEF Size
<1>8. \A y \in new : /\ y \in Nat /\ r.standby.start <= y /\ 1 <= y
                     /\ y <= r.standby.start + q.count - 1
  BY <1>2 DEF FirstIds
<1>9. \A y \in new : y <= m /\ y <= r.next
  BY <1>1, <1>2, <1>3, <1>6, <1>7, <1>8
<1>10. \A y \in new : y \notin ids /\ q.floor < y
  <2>1. q.floor \in ids \cup {0}
    BY <1>1 DEF CallInv, Fresh
  <2>2. q.floor < r.standby.start
    BY <1>2, <1>6, <2>1 DEF Above
  <2>3. ASSUME NEW y \in new
        PROVE  y \notin ids /\ q.floor < y
    <3>1. y \in Nat /\ r.standby.start <= y
      BY <1>8
    <3>2. y \in ids => y < r.standby.start
      BY <1>6 DEF Above
    <3>3. QED
      BY <1>2, <2>2, <3>1, <3>2
  <2>4. QED
    BY <2>3
<1>11. IsEven(r2.generation)
  BY <1>2, <1>3, IsEvenStep
<1>12. ids \subseteq ids2 /\ ids2 \in SUBSET Nat /\ \A y \in ids2 \ ids : y \in new
  BY <1>1, <1>8 DEF IssueEnds
<1>13. See(r, r2)
  BY <1>2, <1>3, <1>11 DEF See
<1>14. Ranges(r2, ids2, m)
  <2>1. Above(ids2, r.next + 1)
    <3>1. ASSUME NEW y \in ids2
          PROVE  y < r.next + 1
      <4>1. CASE y \in ids
        <5>1. y \in Nat /\ y < r.standby.start
          BY <1>6, <1>12, <4>1 DEF Above
        <5>2. QED
          BY <1>2, <1>3, <5>1
      <4>2. CASE y \in new
        BY <1>2, <1>8, <1>9, <4>2
      <4>3. QED
        BY <1>12, <4>1, <4>2
    <3>2. QED
      BY <3>1 DEF Above
  <2>2. QED
    BY <1>2, <1>3, <1>5, <1>6, <2>1 DEF Ranges
<1>15. LockMove(c, p, r, q2, r2)
  BY <1>3, <1>11 DEF LockMove
<1>16. q2.o = p => CallInv(c, q2, r2, ids2) /\ Carried(q2, r2) = {}
  <2>1. ASSUME q2.o = p
        PROVE  /\ q2.pc = "after" /\ q2.generation = r2.generation
               /\ q2.hadRange = q.hadRange /\ q2.count = q.count /\ q2.floor = q.floor
    BY <1>2, <2>1 DEF IssueEnds
  <2>2. (r.initialized => r2.initialized) /\ ids \subseteq ids2
    BY <1>12
  <2>3. QED
    BY <1>1, <2>1, <2>2, AfterInv
<1>17. \A y \in ids2 \ ids : New(y, p, q, r)
  BY <1>3 DEF New
<1>18. Move(c, p, q, r, ids, q2, r2, ids2, m)
  <2>1. r.mu \notin {c, None} => LockKept(r, r2)
    BY <1>3
  <2>2. q2.o = p => /\ CallInv(c, q2, r2, ids2)
                    /\ \A y \in Carried(q2, r2) : New(y, p, q, r)
    BY <1>16
  <2>3. QED
    BY <1>12, <1>13, <1>14, <1>15, <1>17, <2>1, <2>2 DEF Move
<1>19. QED
  BY <1>8, <1>9, <1>10, <1>12, <1>18 DEF OwnMove

-----------------------------------------------------------------------------
\* The states that a step does not change, or whose fetch it changes.

\* A call that has just turned to a key, or is a batch's that looks at it.
FreshCall(q, ids) ==
    /\ q.pc \in {"fast", "block", "prepare"} /\ q.generation = 0 /\ ~q.hadRange
    /\ q.floor \in ids \cup {0}
    /\ q.pc = "fast" => q.count = 1
    /\ q.pc = "prepare" => q.floor = 0

LEMMA FreshCallInv ==
    ASSUME NEW c, NEW q, NEW r \in KeyRecord, NEW ids, FreshCall(q, ids)
    PROVE  CallInv(c, q, r, ids) /\ Carried(q, r) = {}
<1>1. r.generation \in Nat
  BY DEF KeyRecord
<1>2. Carried(q, r) = {}
  BY DEF FreshCall, Carried, HasId, FastLabel, FetchLabel
<1>3. Reading(q, r)
  BY <1>1 DEF FreshCall, Reading, FastLabel, BlockLabel
<1>4. QED
  BY <1>2, <1>3 DEF FreshCall, CallInv, Writing, Fresh, OddLabel

LEMMA StayMove ==
    ASSUME NEW c, NEW p, NEW q, NEW q2, NEW r \in KeyRecord, NEW r2 \in KeyRecord,
           NEW ids, NEW m2,
           r2.generation = r.generation, r2.initialized = r.initialized,
           r2.start = r.start, r2.end = r.end, r2.next = r.next, r2.mu = r.mu,
           r.mu # c, r.mu # None => r2.standby = r.standby,
           Ranges(r2, ids, m2),
           q2.o = p => /\ CallInv(c, q2, r2, ids)
                       /\ \A y \in Carried(q2, r2) : q.o = p /\ y \in Carried(q, r)
    PROVE  Move(c, p, q, r, ids, q2, r2, ids, m2)
<1>1. r.next \in Nat /\ r.next <= r2.next
  BY DEF KeyRecord
<1>2. r.mu \notin {c, None} => r2.standby = r.standby /\ r2.mu = r.mu
  OBVIOUS
<1>3. See(r, r2) /\ (r.mu \notin {c, None} => LockKept(r, r2))
  BY <1>1, <1>2, SameWords
<1>4. LockMove(c, p, r, q2, r2)
  BY DEF LockMove
<1>5. QED
  BY <1>3, <1>4 DEF Move, New

\* A reservation comes in.
LEMMA RangesReserved ==
    ASSUME NEW r \in KeyRecord, NEW r2 \in KeyRecord, NEW ids \in SUBSET Nat,
           NEW m \in Nat, NEW m2 \in Nat, Ranges(r, ids, m), \A y \in ids : y <= m,
           r.standby = NoRange,
           r2.generation = r.generation, r2.initialized = r.initialized,
           r2.start = r.start, r2.end = r.end, r2.next = r.next, r2.standby = r.standby,
           r2.fetch.got.start = m + 1, r2.fetch.got.end = m2, m < m2
    PROVE  Ranges(r2, ids, m2)
<1>1. r.end \in Nat
  BY DEF KeyRecord
<1>2. Above(ids, m + 1)
  <2>1. ASSUME NEW y \in ids
        PROVE  y < m + 1
    <3>1. y \in Nat /\ y <= m
      OBVIOUS
    <3>2. QED
      BY <3>1
  <2>2. QED
    BY <2>1 DEF Above
<1>3. QED
  BY <1>1, <1>2 DEF Ranges

\* What a fetch has got becomes the standby range.
LEMMA RangesCompleted ==
    ASSUME NEW r \in KeyRecord, NEW r2 \in KeyRecord, NEW ids, NEW m, Ranges(r, ids, m),
           r2.generation = r.generation, r2.initialized = r.initialized,
           r2.start = r.start, r2.end = r.end, r2.next = r.next,
           r2.standby = IF r.fetch.at = "answered" THEN r.fetch.got ELSE r.standby,
           r2.fetch = NoFetch
    PROVE  Ranges(r2, ids, m)
<1>1. r2.fetch.at # "answered"
  BY DEF NoFetch
<1>2. QED
  BY <1>1 DEF Ranges

-----------------------------------------------------------------------------
\* The same, of the system.

LEMMA OwnFacts ==
    ASSUME Shape, FetchInv, IdsInv, NEW c \in Caller, call[c].o # None
    PROVE  /\ IsCached(call[c].o) /\ call[c].o \in State
           /\ Own(c, call[c].o, call[c], ks[call[c].o], issued[KeyOf(call[c].o)],
                  mark[KeyOf(call[c].o)])
<1> DEFINE o == call[c].o
           q == call[c]
           r == ks[o]
           ids == issued[KeyOf(o)]
           m == mark[KeyOf(o)]
<1>1. /\ q \in CallRecord /\ q \in Call /\ o \in State /\ KeyOf(o) \in Key
      /\ r \in KeyRecord /\ ids \in SUBSET Nat /\ m \in Nat
  BY CallTypes DEF Shape, KeyTypes
<1>2. IsCached(o) /\ q.pc # "idle"
  <2>1. q.pc = "idle" => q = NoCall
    BY <1>1, CallFields
  <2>2. QED
    BY <2>1 DEF Shape, StatesInv, CallStates, NoCall
<1>3. RowOf(o, r, ids, m, call)
  BY <1>1, <1>2, RowCalls DEF IdsInv, CallsOn
<1>4. q.count # 0
  BY <1>1, <1>2, CallFields
<1>5. r.fetch # NoFetch => r.standby = NoRange
  BY <1>1 DEF FetchInv
<1>6. /\ Ranges(r, ids, m) /\ CallInv(c, q, r, ids)
      /\ r.mu = c => q.pc \in Working
      /\ ~IsEven(r.generation) => r.mu # None
      /\ ~IsEven(r.generation) /\ r.mu = c => q.pc \in OddLabel
  <2> HIDE DEF r, ids, m
  <2>1. c # None
    BY ConstantFacts
  <2>2. QED
    BY <1>3, <2>1 DEF RowOf
<1>7. \A y \in ids : 1 <= y /\ y <= m
  BY <1>1 DEF IdsInv
<1> HIDE DEF r, ids, m
<1>8. Own(c, o, q, r, ids, m)
  BY <1>1, <1>4, <1>5, <1>6, <1>7 DEF Own
<1>9. QED
  BY <1>1, <1>2, <1>8 DEF r, ids, m

LEMMA AllRows ==
    ASSUME Shape, KeyTypes', IdsInv, cached' = cached, NEW c \in Caller \cup {"prefetch"},
           \A p \in State : IsCached(p) => RowStep(c, p),
           \A k \in Key : \A y \in issued'[k] : 1 <= y /\ y <= mark'[k]
    PROVE  IdsInv'
<1>1. ASSUME NEW p \in State, IsCached(p)'
      PROVE  Row(p)'
  <2>1. IsCached(p)
    BY <1>1 DEF IsCached
  <2>2. Row(p) /\ RowStep(c, p)
    BY <2>1 DEF IdsInv, Row
  <2>3. QED
    BY <2>2, RowStepInv
<1>2. QED
  BY <1>1 DEF IdsInv, Row

\* A call that is not on state p does not have its lock.
LEMMA NotLocked ==
    ASSUME Shape, IdsInv, NEW p \in State, IsCached(p), NEW c \in Caller \cup {"prefetch"},
           c \in Caller => call[c].o # p \/ call[c].pc \notin Working
    PROVE  ks[p].mu # c
<1>1. RowOf(p, ks[p], issued[KeyOf(p)], mark[KeyOf(p)], call)
  BY RowCalls DEF IdsInv, CallsOn
<1>2. None \notin Caller /\ None # "prefetch"
  BY ConstantFacts
<1>3. QED
  BY <1>1, <1>2 DEF RowOf

\* A step of a call on its state.
LocalMove(c, o) ==
    /\ o = call[c].o
    /\ \A d \in Caller \ {c} : call'[d] = call[d]
    /\ \A p \in State \ {o} : ks'[p] = ks[p]
    /\ mark' = mark /\ cached' = cached
    /\ \A k \in Key \ {KeyOf(o)} : issued'[k] = issued[k]
    /\ OwnMove(c, o, call[c], ks[o], issued[KeyOf(o)], mark[KeyOf(o)],
               call'[c], ks'[o], issued'[KeyOf(o)])
    /\ \/ call'[c].o \in {o, None}
       \/ call'[c].o \in State /\ FreshCall(call'[c], issued'[KeyOf(call'[c].o)])

LEMMA LocalIds ==
    ASSUME Shape, KeyTypes', IdsInv, NEW c \in Caller, NEW o \in State, LocalMove(c, o)
    PROVE  IdsInv'
<1> USE DEF LocalMove
<1>0. o \in State /\ IsCached(o) /\ KeyOf(o) \in Key /\ c \in Caller \cup {"prefetch"}
  BY CallTypes, StateFacts, ConstantFacts DEF Shape, StatesInv, CallStates
<1>1. RowStep(c, o)
  BY <1>0 DEF OwnMove, RowStep, CallOf
<1>2. ASSUME NEW p \in State \ {o}, IsCached(p)
      PROVE  RowStep(c, p)
  <2>1. KeyOf(p) # KeyOf(o) /\ KeyOf(p) \in Key
    BY <1>0, <1>2, OneCached, StateFacts
  <2>2. /\ ks'[p] = ks[p] /\ issued'[KeyOf(p)] = issued[KeyOf(p)] /\ mark'[KeyOf(p)] = mark[KeyOf(p)]
        /\ ks[p] \in KeyRecord
    BY <2>1 DEF Shape, KeyTypes
  <2>3. ks[p].mu # c
    BY <1>0, <1>2, NotLocked
  <2>4. Ranges(ks[p], issued[KeyOf(p)], mark[KeyOf(p)])
    BY <1>2 DEF IdsInv, RowInv
  <2>5. ASSUME call'[c].o = p
        PROVE  CallInv(c, call'[c], ks[p], issued[KeyOf(p)]) /\ Carried(call'[c], ks[p]) = {}
    <3>1. FreshCall(call'[c], issued[KeyOf(p)])
      BY <1>2, <2>2, <2>5, ConstantFacts
    <3>2. QED
      BY <2>2, <3>1, FreshCallInv
  <2>6. Move(c, p, call[c], ks[p], issued[KeyOf(p)], call'[c], ks[p], issued[KeyOf(p)],
             mark[KeyOf(p)])
    BY <2>2, <2>3, <2>4, <2>5, StayMove
  <2>7. QED
    BY <1>0, <2>2, <2>6 DEF RowStep, CallOf
<1>3. ASSUME NEW k \in Key, NEW y \in issued'[k]
      PROVE  1 <= y /\ y <= mark'[k]
  BY <1>0, <1>3 DEF IdsInv, OwnMove
<1>4. QED
  BY <1>0, <1>1, <1>2, <1>3, AllRows

LEMMA FastIds ==
    ASSUME Shape, KeyTypes', FetchInv, IdsInv, NEW c \in Caller,
           \/ FastLoad(c) \/ FastAdd(c) \/ FastStart(c) \/ FastEnd(c) \/ FastRestart(c)
           \/ BlockLoad(c) \/ BlockNext(c) \/ BlockStart(c) \/ BlockEnd(c)
    PROVE  call[c].o \in State /\ LocalMove(c, call[c].o)
<1> DEFINE o == call[c].o
           q == call[c]
           r == ks[o]
           ids == issued[KeyOf(o)]
           m == mark[KeyOf(o)]
<1>1. o # None /\ Mine(c) = r
  BY DEF Shape, StatesInv, CallStates, FetchLabel, At, FastLoad, FastAdd, FastStart, FastEnd,
     FastRestart, BlockLoad, BlockNext, BlockStart, BlockEnd, Mine
<1>2. /\ o \in State /\ q \in CallRecord /\ q.o = o
      /\ call \in [Caller -> Call] /\ ks \in [State -> KeyRecord]
      /\ r \in KeyRecord /\ NoCall.o = None
  BY <1>1, CallTypes DEF Shape, KeyTypes, NoCall
<1>3. Own(c, o, q, r, ids, m)
  BY <1>1, OwnFacts
<1> SUFFICES LocalMove(c, o)
  BY <1>2
<1>4. Still
  BY DEF FastLoad, FastAdd, FastStart, FastEnd, FastRestart, BlockLoad, BlockNext, BlockStart,
     BlockEnd, Read
<1>5. \A d \in Caller \ {c} : call'[d] = call[d]
  BY FastCalls
<1>6. \A p \in State \ {o} : ks'[p] = ks[p]
  BY FastCalls
<1> HIDE DEF r, ids, m
<1>7. ASSUME OwnMove(c, o, q, r, ids, m, call'[c], ks'[o], ids), call'[c].o \in {o, None}
      PROVE  LocalMove(c, o)
  BY <1>4, <1>5, <1>6, <1>7 DEF LocalMove, Still, ids, m, r
<1>8. CASE FastLoad(c)
  <2> DEFINE q2 == [q EXCEPT !.pc = IF r.initialized THEN "add" ELSE "slow",
                             !.hadRange = r.initialized, !.generation = r.generation]
  <2>1. call'[c] = q2 /\ ks'[o] = r
    BY <1>1, <1>2, <1>8 DEF FastLoad, r
  <2>2. OwnMove(c, o, q, r, ids, m, q2, r, ids)
    BY <1>3, <1>8, FastLoadMove DEF FastLoad, At
  <2>3. q2.o = o
    BY <1>2 DEF CallRecord
  <2>4. QED
    BY <1>7, <2>1, <2>2, <2>3
<1>9. CASE FastAdd(c)
  <2>1. CASE owned
    <3> DEFINE q2 == [q EXCEPT !.id = r.next + 1,
                               !.pc = IF q.generation % 2 = 0 THEN "start" ELSE "slow"]
               r2 == [r EXCEPT !.next = @ + 1]
    <3>1. call'[c] = q2 /\ ks'[o] = r2
      BY <1>1, <1>2, <1>9, <2>1 DEF FastAdd, r
    <3>2. OwnMove(c, o, q, r, ids, m, q2, r2, ids)
      BY <1>3, <1>9, FastAddMove DEF FastAdd, At
    <3>3. q2.o = o
      BY <1>2 DEF CallRecord
    <3>4. QED
      BY <1>7, <3>1, <3>2, <3>3
  <2>2. CASE ~owned
    <3>1. call'[c] = NoCall /\ ks'[o] = r
      BY <1>2, <1>9, <2>2 DEF FastAdd, Ended, r
    <3>2. r.mu # c
      BY <1>3, <1>9 DEF Own, FastAdd, At, Working, BlockLabel, OddLabel
    <3>3. NoCall.o # o
      BY <1>1, <1>2
    <3>4. OwnMove(c, o, q, r, ids, m, NoCall, r, ids)
      BY <1>3, <3>2, <3>3, LookMove
    <3>5. QED
      BY <1>2, <1>7, <3>1, <3>4
  <2>3. QED
    BY <2>1, <2>2
<1>10. CASE FastStart(c) \/ FastEnd(c) \/ FastRestart(c)
  <2>1. /\ ks'[o] = r /\ call'[c].o = q.o /\ call'[c].generation = q.generation
        /\ call'[c].hadRange = q.hadRange /\ call'[c].id = q.id
        /\ call'[c].count = q.count /\ call'[c].floor = q.floor
    BY <1>2, <1>10 DEF FastStart, FastEnd, FastRestart, Read, Goto, CallRecord, r
  <2>2. /\ q.pc \in FastLabel /\ call'[c].pc \in FastLabel \cup {"slow"}
        /\ call'[c].pc \in {"end", "restart", "generation"} => q.pc # "start" \/ q.id >= r.start
        /\ call'[c].pc \in {"restart", "generation"} =>
             q.pc \in {"restart", "generation"} \/ q.id <= r.end
    BY <1>1, <1>2, <1>10 DEF FastStart, FastEnd, FastRestart, Read, Goto, At, CallRecord, FastLabel
  <2>3. OwnMove(c, o, q, r, ids, m, call'[c], r, ids)
    BY <1>3, <2>1, <2>2, FastReadMove
  <2>4. QED
    BY <1>7, <2>1, <2>3
<1>11. CASE BlockLoad(c)
  <2> DEFINE pc == IF r.initialized /\ r.generation % 2 = 0 THEN "next"
                   ELSE IF r.mu = c THEN "rest" ELSE "slow"
             q2 == [q EXCEPT !.generation = r.generation, !.pc = pc]
  <2>1. call'[c] = q2 /\ ks'[o] = r
    BY <1>1, <1>2, <1>11 DEF BlockLoad, Missed, Locked, r
  <2>2. OwnMove(c, o, q, r, ids, m, q2, r, ids)
    BY <1>3, <1>11, BlockLoadMove DEF BlockLoad, At
  <2>3. q2.o = o
    BY <1>2 DEF CallRecord
  <2>4. QED
    BY <1>7, <2>1, <2>2, <2>3
<1>12. CASE BlockNext(c) \/ BlockStart(c) \/ BlockEnd(c)
  <2>1. /\ ks'[o] = r /\ call'[c].o = q.o /\ call'[c].generation = q.generation
        /\ call'[c].hadRange = q.hadRange
        /\ call'[c].count = q.count /\ call'[c].floor = q.floor
    BY <1>2, <1>12 DEF BlockNext, BlockStart, BlockEnd, Read, Goto, CallRecord, r
  <2>2. /\ q.pc \in BlockLabel /\ call'[c].pc \in {"first", "last", "cas", "rest", "slow"}
        /\ call'[c].pc \in {"last", "cas"} => call'[c].id = q.id
        /\ call'[c].pc = "last" => q.id >= r.start
        /\ call'[c].pc = "cas" => q.pc = "last" /\ q.id + q.count <= r.end
        /\ call'[c].pc = "rest" => r.mu = c
        /\ call'[c].pc = "slow" => r.mu # c
    BY <1>1, <1>2, <1>12 DEF BlockNext, BlockStart, BlockEnd, Read, Goto, At, CallRecord,
       BlockLabel, Missed, Locked, r
  <2>3. OwnMove(c, o, q, r, ids, m, call'[c], r, ids)
    BY <1>3, <2>1, <2>2, BlockReadMove
  <2>4. QED
    BY <1>7, <2>1, <2>3
<1>13. QED
  BY <1>2, <1>8, <1>9, <1>10, <1>11, <1>12

\* What the gate lets out, or refuses.
LEMMA IssueIds ==
    ASSUME Shape, NEW c \in Caller, call[c].o # None, NEW k \in KeyRecord,
           NEW first, NEW generation, NEW new,
           Issue(c, k, first, generation),
           new = first..(first + call[c].count - 1),
           issued[KeyOf(call[c].o)] \cap new = {},
           \A q2, ids2 : IssueEnds(call[c], q2, generation, issued[KeyOf(call[c].o)], ids2, new) =>
             OwnMove(c, call[c].o, call[c], ks[call[c].o], issued[KeyOf(call[c].o)],
                     mark[KeyOf(call[c].o)], q2, Gated(c, k), ids2)
    PROVE  LocalMove(c, call[c].o)
<1> DEFINE o == call[c].o
           q == call[c]
           r == ks[o]
           ids == issued[KeyOf(o)]
           m == mark[KeyOf(o)]
           r2 == Gated(c, k)
           last == first + call[c].count - 1
           after == [q EXCEPT !.pc = "after", !.id = last, !.generation = generation]
<1>1. /\ o \in State /\ KeyOf(o) \in Key /\ q \in CallRecord
      /\ call \in [Caller -> Call] /\ ks \in [State -> KeyRecord] /\ issued \in [Key -> SUBSET Nat]
  BY CallTypes DEF Shape, KeyTypes
<1>2. /\ ks' = [ks EXCEPT ![o] = r2] /\ mark' = mark /\ cached' = cached
      /\ \/ /\ issued' = [issued EXCEPT ![KeyOf(o)] = Given(@, first..last)]
            /\ call' = [call EXCEPT ![c].pc = "after", ![c].id = last,
                                    ![c].generation = generation]
         \/ Ended({c}) /\ issued' = issued
  BY DEF Issue, Gated
<1>3. Given(ids, new) = ids \cup new
  BY DEF Given
<1>4. /\ after.pc = "after" /\ after.o = q.o /\ after.generation = generation
      /\ after.hadRange = q.hadRange /\ after.count = q.count /\ after.floor = q.floor
  BY <1>1 DEF CallRecord
<1>5. /\ \A d \in Caller \ {c} : call'[d] = call[d]
      /\ \A x \in Key \ {KeyOf(o)} : issued'[x] = issued[x]
      /\ \A p \in State \ {o} : ks'[p] = ks[p]
      /\ ks'[o] = r2
  <2> HIDE DEF r2, o, last
  <2>1. QED
    BY <1>1, <1>2 DEF Ended
<1>6. \/ call'[c] = after /\ issued'[KeyOf(o)] = Given(ids, first..last)
      \/ call'[c] = NoCall /\ issued'[KeyOf(o)] = ids
  <2> HIDE DEF last
  <2>1. QED
    BY <1>1, <1>2 DEF Ended
<1> HIDE DEF after, r2
<1>7. /\ IssueEnds(q, call'[c], generation, ids, issued'[KeyOf(o)], new)
      /\ call'[c].o \in {o, None}
  <2>1. NoCall.o = None
    BY DEF NoCall
  <2>2. CASE call'[c] = after /\ issued'[KeyOf(o)] = Given(ids, first..last)
    BY <1>3, <1>4, <2>2 DEF IssueEnds
  <2>3. CASE call'[c] = NoCall /\ issued'[KeyOf(o)] = ids
    BY <2>1, <2>3 DEF IssueEnds
  <2>4. QED
    BY <1>6, <2>2, <2>3
<1>8. OwnMove(c, o, q, r, ids, m, call'[c], ks'[o], issued'[KeyOf(o)])
  BY <1>5, <1>7 DEF r2
<1>9. QED
  BY <1>2, <1>5, <1>7, <1>8 DEF LocalMove

LEMMA RefillIds ==
    ASSUME Shape, FetchInv, IdsInv, NEW c \in Caller, call[c].o # None,
           call[c].pc \in {"slow", "rest"}, ks[call[c].o].mu \in {c, None},
           NEW k \in KeyRecord, k.generation = ks[call[c].o].generation,
           k.initialized = ks[call[c].o].initialized, k.start = ks[call[c].o].start,
           k.end = ks[call[c].o].end, ks[call[c].o].next <= k.next,
           k.standby = ks[call[c].o].standby, k.fetch = ks[call[c].o].fetch,
           Refill(c, k), Still
    PROVE  LocalMove(c, call[c].o)
<1> DEFINE o == call[c].o
           q == call[c]
           r == ks[o]
           ids == issued[KeyOf(o)]
           m == mark[KeyOf(o)]
           dropped == Release([k EXCEPT !.standby = NoRange])
           sent == [dropped EXCEPT !.timer = 0,
                                   !.fetch = [NoFetch EXCEPT !.by = c, !.at = "sent"]]
<1>1. /\ o \in State /\ q \in CallRecord /\ r \in KeyRecord
      /\ call \in [Caller -> Call] /\ ks \in [State -> KeyRecord]
  BY CallTypes DEF Shape, KeyTypes
<1>2. Own(c, o, q, r, ids, m)
  BY OwnFacts
<1>3. /\ dropped \in KeyRecord /\ sent \in KeyRecord /\ Hold(c, k) \in KeyRecord
      /\ Release(k) \in KeyRecord
  <2>1. NoRange \in Block /\ [NoFetch EXCEPT !.by = c, !.at = "sent"] \in Fetch
    BY FreshTypes DEF Fetch
  <2>2. QED
    BY <2>1 DEF Hold, Release, KeyRecord
<1>4. \A x \in {dropped, sent, Hold(c, k), Release(k)} :
        /\ x.generation = r.generation /\ x.initialized = r.initialized
        /\ x.start = r.start /\ x.end = r.end /\ r.next <= x.next
        /\ x.standby \in {r.standby, NoRange}
        /\ x.fetch = r.fetch \/ x.fetch.at # "answered"
        /\ x.mu = IF x = Hold(c, k) THEN c ELSE None
  <2>1. NoFetch \in Fetch /\ c # None
    BY FreshTypes, ConstantFacts
  <2>2. [NoFetch EXCEPT !.by = c, !.at = "sent"].at # "answered"
    BY <2>1 DEF Fetch
  <2>3. QED
    BY <2>1, <2>2 DEF Hold, Release, KeyRecord
<1>5. Hold(c, k).standby = k.standby /\ Hold(c, k).mu = c
  BY DEF Hold, KeyRecord
<1>6. \/ ks' = [ks EXCEPT ![o] = Hold(c, k)] /\ Goto(c, "odd") /\ Size(k.standby) >= q.count
      \/ ks' = [ks EXCEPT ![o] = Release(k)] /\ Ended({c})
      \/ ks' = [ks EXCEPT ![o] = dropped] /\ Goto(c, "wait")
      \/ /\ ks' = [ks EXCEPT ![o] = sent]
         /\ call' = [call EXCEPT ![c].pc = "reserve", ![c].pending = <<o>>]
  BY DEF Refill
<1>7. Release(k) # Hold(c, k) /\ dropped # Hold(c, k) /\ sent # Hold(c, k)
  <2>1. c # None /\ dropped.mu = None /\ sent.mu = None /\ Release(k).mu = None
    BY ConstantFacts DEF Release, KeyRecord
  <2> HIDE DEF dropped, sent
  <2>2. QED
    BY <1>5, <2>1
<1> HIDE DEF dropped, sent
<1>8. ASSUME NEW pc, Goto(c, pc)
      PROVE  /\ call'[c].o = q.o /\ call'[c].generation = q.generation
             /\ call'[c].hadRange = q.hadRange /\ call'[c].id = q.id
             /\ call'[c].count = q.count /\ call'[c].floor = q.floor /\ call'[c].pc = pc
  BY <1>1, <1>8 DEF Goto, CallRecord
<1>9. ASSUME call' = [call EXCEPT ![c].pc = "reserve", ![c].pending = <<o>>]
      PROVE  /\ call'[c].o = q.o /\ call'[c].generation = q.generation
             /\ call'[c].hadRange = q.hadRange /\ call'[c].id = q.id
             /\ call'[c].count = q.count /\ call'[c].floor = q.floor /\ call'[c].pc = "reserve"
  BY <1>1, <1>9 DEF CallRecord
<1>10. Ended({c}) => call'[c] = NoCall
  BY DEF Ended
<1>11. PICK x \in {dropped, sent, Hold(c, k), Release(k)} :
         ks' = [ks EXCEPT ![o] = x] /\ SlowEnds(c, q, call'[c], x)
  <2>1. CASE ks' = [ks EXCEPT ![o] = Hold(c, k)] /\ Goto(c, "odd") /\ Size(k.standby) >= q.count
    <3>1. SlowEnds(c, q, call'[c], Hold(c, k))
      BY <1>5, <1>8, <2>1 DEF SlowEnds
    <3>2. QED
      BY <2>1, <3>1
  <2>2. CASE ks' = [ks EXCEPT ![o] = Release(k)] /\ Ended({c})
    <3>1. SlowEnds(c, q, call'[c], Release(k))
      BY <1>4, <1>7, <1>10, <2>2 DEF SlowEnds
    <3>2. QED
      BY <2>2, <3>1
  <2>3. CASE ks' = [ks EXCEPT ![o] = dropped] /\ Goto(c, "wait")
    <3>1. SlowEnds(c, q, call'[c], dropped)
      BY <1>4, <1>7, <1>8, <2>3 DEF SlowEnds
    <3>2. QED
      BY <2>3, <3>1
  <2>4. CASE /\ ks' = [ks EXCEPT ![o] = sent]
             /\ call' = [call EXCEPT ![c].pc = "reserve", ![c].pending = <<o>>]
    <3>1. SlowEnds(c, q, call'[c], sent)
      BY <1>4, <1>7, <1>9, <2>4 DEF SlowEnds
    <3>2. QED
      BY <2>4, <3>1
  <2>5. QED
    BY <1>6, <2>1, <2>2, <2>3, <2>4
<1>12. OwnMove(c, o, q, r, ids, m, call'[c], x, ids)
  <2>1. x \in KeyRecord
    BY <1>3
  <2> HIDE DEF r, ids, m
  <2>2. q.pc \in {"slow", "rest"} /\ r.mu \in {c, None}
    BY DEF r
  <2>3. QED
    BY <1>2, <1>4, <1>11, <2>1, <2>2, SlowMove
<1>13. /\ ks'[o] = x /\ \A p \in State \ {o} : ks'[p] = ks[p]
       /\ \A d \in Caller \ {c} : call'[d] = call[d]
  BY <1>1, <1>11, RefillCalls DEF Refill, Goto, Ended
<1>14. call'[c].o \in {o, None}
  BY <1>11 DEF SlowEnds, NoCall
<1>15. QED
  BY <1>12, <1>13, <1>14 DEF LocalMove, Still

LEMMA BlockIds ==
    ASSUME NEW id \in Nat, NEW count \in Nat
    PROVE  /\ (id + 1)..(id + 1 + count - 1) = {y \in id..(id + count) : y # id}
           /\ id..(id + 1 - 1) = {id}
  OBVIOUS

LEMMA SlowIds ==
    ASSUME Shape, KeyTypes', FetchInv, IdsInv, NEW c \in Caller,
           \/ FastReturn(c) \/ BlockSwap(c) \/ BlockReturn(c)
           \/ AllocateSlow(c) \/ AllocateBlockSlow(c) \/ BlockRefill(c)
           \/ ActivateOdd(c) \/ ActivateCursor(c) \/ ActivateStart(c) \/ ActivateEnd(c)
           \/ ActivateEven(c)
    PROVE  call[c].o \in State /\ LocalMove(c, call[c].o)
<1> DEFINE o == call[c].o
           q == call[c]
           r == ks[o]
           ids == issued[KeyOf(o)]
           m == mark[KeyOf(o)]
<1>1. o # None /\ Mine(c) = r
  BY DEF Shape, StatesInv, CallStates, FetchLabel, At, FastReturn, BlockSwap,
     BlockReturn, AllocateSlow, AllocateBlockSlow, BlockRefill, ActivateOdd, ActivateCursor,
     ActivateStart, ActivateEnd, ActivateEven, Mine
<1>2. /\ o \in State /\ q \in CallRecord /\ q.o = o /\ KeyOf(o) \in Key
      /\ call \in [Caller -> Call] /\ ks \in [State -> KeyRecord]
      /\ r \in KeyRecord /\ NoCall.o = None
  BY <1>1, CallTypes DEF Shape, KeyTypes, NoCall
<1>3. Own(c, o, q, r, ids, m)
  BY <1>1, OwnFacts
<1> SUFFICES LocalMove(c, o)
  BY <1>2
<1>4. /\ q.generation \in Nat /\ q.id \in Nat /\ q.count \in Nat /\ q.floor \in Nat
      /\ q.count >= 1 /\ q.hadRange \in BOOLEAN
      /\ r.generation \in Nat /\ r.next \in Nat /\ r.start \in Nat /\ r.end \in Nat
      /\ r.standby.start \in Nat /\ r.standby.start >= 1 /\ r.standby.end \in Nat
      /\ r.initialized \in BOOLEAN /\ c # None
  <2> HIDE DEF r, ids, m, q, o
  <2>1. QED
    BY <1>3, OwnNumbers
<1>5. CallInv(c, q, r, ids)
  BY <1>3 DEF Own
<1> HIDE DEF r, ids, m
\* Only the call and its state move, or the call also gets ids.
<1>6. ASSUME Still, \A d \in Caller \ {c} : call'[d] = call[d],
             NEW x, ks' = [ks EXCEPT ![o] = x],
             OwnMove(c, o, q, r, ids, m, call'[c], x, ids), call'[c].o \in {o, None}
      PROVE  LocalMove(c, o)
  <2>1. ks'[o] = x /\ \A p \in State \ {o} : ks'[p] = ks[p]
    BY <1>2, <1>6
  <2>2. QED
    BY <1>6, <2>1 DEF LocalMove, Still, ids, m, r
<1>7. ks = [ks EXCEPT ![o] = r]
  BY <1>2 DEF r
<1>8. ASSUME NEW pc, Goto(c, pc)
      PROVE  /\ call'[c].o = q.o /\ call'[c].generation = q.generation
             /\ call'[c].hadRange = q.hadRange /\ call'[c].id = q.id
             /\ call'[c].count = q.count /\ call'[c].floor = q.floor /\ call'[c].pc = pc
             /\ call'[c] = [q EXCEPT !.pc = pc]
             /\ \A d \in Caller \ {c} : call'[d] = call[d]
  BY <1>2, <1>8 DEF Goto, CallRecord
\* A read, which moves on the call only.
<1>9. ASSUME NEW pc, Goto(c, pc),
              \/ q.pc \in FastLabel /\ pc = "slow"
              \/ q.pc \in BlockLabel /\ pc = IF r.mu = c THEN "rest" ELSE "slow"
       PROVE  OwnMove(c, o, q, r, ids, m, call'[c], r, ids)
  <2> DEFINE q2 == call'[c]
  <2>1. /\ q2.o = q.o /\ q2.generation = q.generation /\ q2.hadRange = q.hadRange
        /\ q2.id = q.id /\ q2.count = q.count /\ q2.floor = q.floor /\ q2.pc = pc
    BY <1>8, <1>9
  <2> HIDE DEF q2
  <2>2. CASE q.pc \in FastLabel /\ pc = "slow"
    BY <1>3, <2>1, <2>2, FastReadMove DEF q2
  <2>3. CASE q.pc \in BlockLabel /\ pc = IF r.mu = c THEN "rest" ELSE "slow"
    BY <1>3, <2>1, <2>3, BlockReadMove DEF q2
  <2>4. QED
    BY <1>9, <2>2, <2>3
<1>10. Ended({c}) => call'[c] = NoCall /\ \A d \in Caller \ {c} : call'[d] = call[d]
  BY DEF Ended
\* The active range, and a cursor that is where it was or further.
<1>11. ASSUME NEW first \in Nat, NEW next \in Nat, r.next <= next,
              IsEven(r.generation), r.initialized,
              \A y \in first..(first + q.count - 1) :
                /\ y \in Carried(q, r) \/ r.next < y
                /\ r.start <= y /\ y <= r.end /\ y <= next,
              Issue(c, [r EXCEPT !.next = next], first, r.generation)
       PROVE  LocalMove(c, o)
  <2> DEFINE new == first..(first + q.count - 1)
             k == [r EXCEPT !.next = next]
  <2>1. new \in SUBSET Nat
    BY <1>4, <1>11
  <2>2. k \in KeyRecord
    BY <1>2, <1>11 DEF KeyRecord
  <2>4. ASSUME NEW q2, NEW ids2, IssueEnds(q, q2, r.generation, ids, ids2, new)
        PROVE  OwnMove(c, o, q, r, ids, m, q2, Gated(c, k), ids2) /\ ids \cap new = {}
    <3> HIDE DEF new
    <3>1. \A y \in new : /\ y \in Carried(q, r) \/ r.next < y
                         /\ r.start <= y /\ y <= r.end /\ y <= next
      BY <1>11 DEF new
    <3>2. QED
      BY <1>3, <1>11, <2>1, <2>4, <3>1, IssueMove
  <2>5. ids \cap new = {}
    <3>1. IssueEnds(q, NoCall, r.generation, ids, ids, new)
      BY DEF IssueEnds
    <3>2. QED
      BY <2>4, <3>1
  <2> HIDE DEF new, k
  <2>6. Issue(c, k, first, r.generation) /\ new = first..(first + q.count - 1)
    BY <1>11 DEF new, k
  <2>7. QED
    BY <1>1, <2>2, <2>4, <2>5, <2>6, IssueIds DEF r, ids, m
<1>12. [r EXCEPT !.next = r.next] = r
  BY <1>2 DEF KeyRecord
<1>13. \A y \in Carried(q, r) : y \in Nat /\ y <= r.next
  BY <1>4, <1>5 DEF CallInv, Fresh, Carried
\* Back to the slow path, or to the lock's.
<1>14. CASE FastReturn(c)
  <2>1. CASE SameGeneration(c)
    <3>1. /\ q.pc = "generation" /\ Valid(q, r) /\ q.count = 1 /\ r.initialized
          /\ q.id >= r.start /\ q.id <= r.end /\ IsEven(r.generation)
      BY <1>1, <1>5, <1>14, <2>1 DEF FastReturn, At, SameGeneration, CallInv, Reading, FastLabel,
         Valid
    <3>2. q.id \in Carried(q, r)
      BY <1>4, <3>1 DEF Carried, HasId, FastLabel
    <3>3. \A y \in q.id..(q.id + q.count - 1) : y = q.id
      BY <1>4, <3>1
    <3>4. Issue(c, [r EXCEPT !.next = r.next], q.id, r.generation)
      BY <1>1, <1>12, <1>14, <2>1 DEF FastReturn, SameGeneration
    <3>5. q.id <= r.next /\ r.next <= r.next
      BY <1>4, <1>13, <3>2
    <3>6. QED
      BY <1>4, <1>11, <3>1, <3>2, <3>3, <3>4, <3>5
  <2>2. CASE ~SameGeneration(c)
    <3>1. Goto(c, "slow") /\ ks' = ks /\ Still
      BY <1>14, <2>2 DEF FastReturn
    <3>2. /\ q.pc = "generation" /\ call'[c].pc = "slow"
      BY <1>8, <1>14, <3>1 DEF FastReturn, At
    <3>3. OwnMove(c, o, q, r, ids, m, call'[c], r, ids)
      BY <1>9, <3>1, <3>2 DEF FastLabel
    <3>4. QED
      BY <1>2, <1>6, <1>7, <1>8, <3>1, <3>3
  <2>3. QED
    BY <2>1, <2>2
<1>15. CASE BlockSwap(c)
  <2>0. q.pc = "cas" /\ Still
    BY <1>15 DEF BlockSwap, At
  <2>1. CASE ~owned
    <3> DEFINE r2 == [r EXCEPT !.mu = IF r.mu = c THEN None ELSE @]
    <3>1. Ended({c}) /\ ks' = [ks EXCEPT ![o] = r2]
      BY <1>1, <1>2, <1>15, <2>1 DEF BlockSwap, Locked, r
    <3>2. OwnMove(c, o, q, r, ids, m, NoCall, r2, ids)
      BY <1>3, <2>0, EndedMove DEF OddLabel
    <3> HIDE DEF r2
    <3>3. QED
      BY <1>2, <1>6, <1>10, <2>0, <3>1, <3>2
  <2>2. CASE owned /\ r.next = q.id
    <3> DEFINE r2 == [r EXCEPT !.next = @ + q.count]
    <3>1. Goto(c, "swapped") /\ ks' = [ks EXCEPT ![o] = r2]
      BY <1>1, <1>2, <1>15, <2>2 DEF BlockSwap, r
    <3>2. OwnMove(c, o, q, r, ids, m, [q EXCEPT !.pc = "swapped"], r2, ids)
      BY <1>3, <2>0, <2>2, BlockSwapMove
    <3> HIDE DEF r2
    <3>3. QED
      BY <1>2, <1>6, <1>8, <2>0, <3>1, <3>2
  <2>3. CASE owned /\ r.next # q.id
    <3>1. Goto(c, IF r.mu = c THEN "rest" ELSE "slow") /\ ks' = ks
      BY <1>1, <1>2, <1>15, <2>3 DEF BlockSwap, Missed, Locked, r
    <3>2. call'[c].pc = IF r.mu = c THEN "rest" ELSE "slow"
      BY <1>8, <3>1
    <3>3. OwnMove(c, o, q, r, ids, m, call'[c], r, ids)
      BY <1>9, <2>0, <3>1 DEF BlockLabel
    <3>4. QED
      BY <1>2, <1>6, <1>7, <1>8, <2>0, <3>1, <3>3
  <2>4. QED
    BY <2>1, <2>2, <2>3
<1>16. CASE BlockReturn(c)
  <2>1. CASE SameGeneration(c)
    <3>1. /\ q.pc = "swapped" /\ Valid(q, r) /\ r.initialized
          /\ q.id >= r.start /\ q.id + q.count <= r.end /\ IsEven(r.generation)
      BY <1>1, <1>5, <1>16, <2>1 DEF BlockReturn, At, SameGeneration, CallInv, Reading, BlockLabel,
         Valid
    <3>2. (q.id + 1)..(q.id + 1 + q.count - 1) = {y \in q.id..(q.id + q.count) : y # q.id}
      BY <1>4, BlockIds
    <3>3. \A y \in (q.id + 1)..(q.id + 1 + q.count - 1) :
            y \in Carried(q, r) /\ y \in q.id..(q.id + q.count)
      BY <3>1, <3>2 DEF Carried
    <3>4. \A y \in q.id..(q.id + q.count) : r.start <= y /\ y <= r.end
      BY <1>4, <3>1
    <3>5. Issue(c, [r EXCEPT !.next = r.next], q.id + 1, r.generation)
      BY <1>1, <1>12, <1>16, <2>1 DEF BlockReturn, SameGeneration
    <3>6. q.id + 1 \in Nat /\ r.next <= r.next
      BY <1>4
    <3>7. QED
      BY <1>4, <1>11, <1>13, <3>1, <3>3, <3>4, <3>5, <3>6
  <2>2. CASE ~SameGeneration(c)
    <3>1. Goto(c, IF r.mu = c THEN "rest" ELSE "slow") /\ ks' = ks /\ Still
      BY <1>1, <1>2, <1>16, <2>2 DEF BlockReturn, Missed, Locked, r
    <3>2. call'[c].pc = (IF r.mu = c THEN "rest" ELSE "slow") /\ q.pc = "swapped"
      BY <1>8, <1>16, <3>1 DEF BlockReturn, At
    <3>3. OwnMove(c, o, q, r, ids, m, call'[c], r, ids)
      BY <1>9, <3>1, <3>2 DEF BlockLabel
    <3>4. QED
      BY <1>2, <1>6, <1>7, <1>8, <3>1, <3>3
  <2>3. QED
    BY <2>1, <2>2
<1>17. CASE AllocateSlow(c)
  <2> DEFINE again == [r EXCEPT !.next = @ + 1]
  <2>0. /\ q.pc = "slow" /\ q.count = 1 /\ r.mu = None /\ IsEven(r.generation)
        /\ r.next + 1 \in Nat
    BY <1>3, <1>4, <1>17 DEF AllocateSlow, At, Free, Own, r
  <2>1. /\ again \in KeyRecord /\ again.next = r.next + 1 /\ again.generation = r.generation
        /\ again.initialized = r.initialized /\ again.start = r.start /\ again.end = r.end
        /\ again.standby = r.standby /\ again.fetch = r.fetch
    BY <1>2, <2>0 DEF KeyRecord
  <2>2. \/ Ended({c}) /\ ks' = ks /\ Still
        \/ Refill(c, r) /\ Still
        \/ /\ r.initialized /\ q.hadRange /\ SameGeneration(c) /\ InRange(r, q.id)
           /\ Issue(c, r, q.id, r.generation)
        \/ r.initialized /\ InRange(r, again.next) /\ Issue(c, again, again.next, r.generation)
        \/ Refill(c, again) /\ Still
    BY <1>1, <1>17 DEF AllocateSlow
  <2> HIDE DEF again
  <2>3. CASE Ended({c}) /\ ks' = ks /\ Still
    <3>1. r.mu # c
      BY <1>4, <2>0
    <3>2. NoCall.o # o
      BY <1>1, <1>2
    <3>3. OwnMove(c, o, q, r, ids, m, NoCall, r, ids)
      BY <1>3, <3>1, <3>2, LookMove
    <3>4. QED
      BY <1>2, <1>6, <1>7, <1>10, <2>3, <3>3
  <2>4. CASE Refill(c, r) /\ Still
    <3>1. r.next <= r.next
      BY <1>4
    <3>2. QED
      BY <1>1, <1>2, <2>0, <2>4, <3>1, RefillIds DEF r
  <2>5. CASE /\ r.initialized /\ q.hadRange /\ SameGeneration(c) /\ InRange(r, q.id)
             /\ Issue(c, r, q.id, r.generation)
    <3>1. Valid(q, r)
      BY <1>1, <2>0, <2>5 DEF SameGeneration, Valid
    <3>2. q.id \in Carried(q, r)
      BY <1>4, <2>0, <2>5, <3>1 DEF Carried, HasId
    <3>3. \A y \in q.id..(q.id + q.count - 1) : y = q.id
      BY <1>4, <2>0
    <3>4. q.id <= r.next /\ r.next <= r.next /\ r.start <= q.id /\ q.id <= r.end
      BY <1>4, <1>13, <2>5, <3>2 DEF InRange
    <3>5. Issue(c, [r EXCEPT !.next = r.next], q.id, r.generation)
      BY <1>12, <2>5
    <3>6. QED
      BY <1>4, <1>11, <2>0, <2>5, <3>2, <3>3, <3>4, <3>5
  <2>6. CASE r.initialized /\ InRange(r, again.next) /\ Issue(c, again, again.next, r.generation)
    <3>1. again = [r EXCEPT !.next = r.next + 1]
      BY <1>2 DEF again, KeyRecord
    <3>2. \A y \in (r.next + 1)..(r.next + 1 + q.count - 1) : y = r.next + 1
      BY <1>4, <2>0
    <3>3. /\ r.next <= r.next + 1 /\ r.next < r.next + 1 /\ r.start <= r.next + 1
          /\ r.next + 1 <= r.end /\ r.next + 1 <= r.next + 1
      BY <1>4, <2>1, <2>6 DEF InRange
    <3>4. Issue(c, [r EXCEPT !.next = r.next + 1], r.next + 1, r.generation)
      BY <2>1, <2>6, <3>1
    <3>5. QED
      BY <1>11, <2>0, <2>6, <3>2, <3>3, <3>4
  <2>7. CASE Refill(c, again) /\ Still
    <3>1. r.next <= again.next
      BY <1>4, <2>1
    <3>2. QED
      BY <1>1, <1>2, <2>0, <2>1, <2>7, <3>1, RefillIds DEF r
  <2>8. QED
    BY <2>2, <2>3, <2>4, <2>5, <2>6, <2>7
<1>18. CASE AllocateBlockSlow(c)
  <2>1. /\ q.pc = "slow" /\ q.count > 1 /\ r.mu = None /\ Still /\ Goto(c, "block")
        /\ ks' = [ks EXCEPT ![o] = Hold(c, r)]
    BY <1>2, <1>18 DEF AllocateBlockSlow, At, Free, r
  <2>2. /\ Hold(c, r) \in KeyRecord /\ Hold(c, r).generation = r.generation
        /\ Hold(c, r).initialized = r.initialized /\ Hold(c, r).start = r.start
        /\ Hold(c, r).end = r.end /\ r.next <= Hold(c, r).next
        /\ Hold(c, r).standby = r.standby /\ Hold(c, r).fetch = r.fetch /\ Hold(c, r).mu = c
    BY <1>2, <1>4 DEF Hold, KeyRecord
  <2>3. ~q.hadRange
    BY <1>5, <2>1 DEF CallInv, Reading
  <2>4. SlowEnds(c, q, call'[c], Hold(c, r))
    BY <1>8, <2>1, <2>2, <2>3 DEF SlowEnds
  <2>5. OwnMove(c, o, q, r, ids, m, call'[c], Hold(c, r), ids)
    BY <1>3, <2>1, <2>2, <2>4, SlowMove
  <2>6. QED
    BY <1>2, <1>6, <1>8, <2>1, <2>5
<1>19. CASE BlockRefill(c)
  <2>1. q.pc = "rest" /\ Refill(c, r) /\ Still
    BY <1>1, <1>19 DEF BlockRefill, At
  <2>2. r.mu = c
    BY <1>5, <2>1 DEF CallInv, Writing
  <2>3. r.next <= r.next
    BY <1>4
  <2>4. QED
    BY <1>1, <1>2, <2>1, <2>2, <2>3, RefillIds DEF r
\* The new range, word by word.
<1>20. CASE ActivateOdd(c) \/ ActivateCursor(c) \/ ActivateStart(c) \/ ActivateEnd(c)
  <2> DEFINE cursor == r.standby.start + q.count - 1
  <2>0. cursor \in Nat /\ r.generation + 1 \in Nat
    BY <1>4
  <2>1. PICK x \in KeyRecord, pc \in OddLabel :
          /\ Write(c, x, pc)
          /\ x.initialized = r.initialized /\ x.standby = r.standby /\ x.fetch = r.fetch
          /\ x.mu = r.mu
          /\ \/ /\ q.pc = "odd" /\ pc = "cursor" /\ x.generation = r.generation + 1
             \/ /\ q.pc = "cursor" /\ pc = "low" /\ x.generation = r.generation
                /\ x.next = cursor
             \/ /\ q.pc = "low" /\ pc = "high" /\ x.generation = r.generation
                /\ x.next = r.next /\ x.start = r.standby.start
             \/ /\ q.pc = "high" /\ pc = "even" /\ x.generation = r.generation
                /\ x.next = r.next /\ x.start = r.start /\ x.end = r.standby.end
    <3>1. CASE ActivateOdd(c)
      <4> DEFINE x == [r EXCEPT !.generation = @ + 1]
      <4>1. /\ x \in KeyRecord /\ x.initialized = r.initialized /\ x.standby = r.standby
            /\ x.fetch = r.fetch /\ x.mu = r.mu /\ x.generation = r.generation + 1
        BY <1>2, <2>0 DEF KeyRecord
      <4>2. q.pc = "odd" /\ Write(c, x, "cursor")
        BY <1>1, <3>1 DEF ActivateOdd, At
      <4> HIDE DEF x, cursor
      <4>3. QED
        BY <4>1, <4>2 DEF OddLabel
    <3>2. CASE ActivateCursor(c)
      <4> DEFINE x == [r EXCEPT !.next = cursor]
      <4>1. /\ x \in KeyRecord /\ x.initialized = r.initialized /\ x.standby = r.standby
            /\ x.fetch = r.fetch /\ x.mu = r.mu /\ x.generation = r.generation
            /\ x.next = cursor
        BY <1>2, <2>0 DEF KeyRecord
      <4>2. q.pc = "cursor" /\ Write(c, x, "low")
        BY <1>1, <3>2 DEF ActivateCursor, At
      <4> HIDE DEF x, cursor
      <4>3. QED
        BY <4>1, <4>2 DEF OddLabel
    <3>3. CASE ActivateStart(c)
      <4> DEFINE x == [r EXCEPT !.start = r.standby.start]
      <4>1. /\ x \in KeyRecord /\ x.initialized = r.initialized /\ x.standby = r.standby
            /\ x.fetch = r.fetch /\ x.mu = r.mu /\ x.generation = r.generation
            /\ x.next = r.next /\ x.start = r.standby.start
        BY <1>2, <1>4 DEF KeyRecord
      <4>2. q.pc = "low" /\ Write(c, x, "high")
        BY <1>1, <3>3 DEF ActivateStart, At
      <4> HIDE DEF x, cursor
      <4>3. QED
        BY <4>1, <4>2 DEF OddLabel
    <3>4. CASE ActivateEnd(c)
      <4> DEFINE x == [r EXCEPT !.end = r.standby.end]
      <4>1. /\ x \in KeyRecord /\ x.initialized = r.initialized /\ x.standby = r.standby
            /\ x.fetch = r.fetch /\ x.mu = r.mu /\ x.generation = r.generation
            /\ x.next = r.next /\ x.start = r.start /\ x.end = r.standby.end
        BY <1>2, <1>4 DEF KeyRecord
      <4>2. q.pc = "high" /\ Write(c, x, "even")
        BY <1>1, <3>4 DEF ActivateEnd, At
      <4> HIDE DEF x, cursor
      <4>3. QED
        BY <4>1, <4>2 DEF OddLabel
    <3>5. QED
      BY <1>20, <3>1, <3>2, <3>3, <3>4
  <2> HIDE DEF cursor
  <2>2. ks' = [ks EXCEPT ![o] = x] /\ Goto(c, pc) /\ Still
    BY <2>1 DEF Write
  <2>3. /\ Writing(c, q, r) /\ q.pc \in {"odd"} \cup OddLabel
        /\ q.pc = "odd" => IsEven(r.generation)
    <3>1. q.pc \in {"odd"} \cup OddLabel /\ Writing(c, q, r)
      BY <1>5, <2>1 DEF CallInv, OddLabel
    <3>2. r.mu = c
      BY <3>1 DEF Writing
    <3>3. QED
      BY <1>3, <3>1, <3>2 DEF Own, OddLabel
  <2>4. r.generation <= x.generation /\ ~IsEven(x.generation)
    <3>1. r.generation <= r.generation + 1 /\ r.generation <= r.generation
      BY <1>4
    <3>2. IsEven(r.generation) => ~IsEven(r.generation + 1)
      BY <1>4, IsEvenStep
    <3>3. q.pc # "odd" => ~IsEven(r.generation)
      BY <2>3 DEF Writing
    <3>4. QED
      BY <2>1, <2>3, <3>1, <3>2, <3>3
  <2> DEFINE q2 == call'[c]
  <2>5. /\ q2.o = q.o /\ q2.generation = q.generation /\ q2.hadRange = q.hadRange
        /\ q2.id = q.id /\ q2.count = q.count /\ q2.floor = q.floor /\ q2.pc = pc
    BY <1>8, <2>2
  <2> HIDE DEF q2
  <2>6. Writing(c, q2, x)
    <3>1. x.mu = c /\ Size(x.standby) >= q.count
      BY <2>1, <2>3 DEF Writing
    <3>2. cursor >= r.standby.start + q.count - 1
      BY <1>4 DEF cursor
    <3>3. QED
      BY <2>1, <2>3, <2>4, <2>5, <3>1, <3>2 DEF Writing, OddLabel
  <2>7. OwnMove(c, o, q, r, ids, m, q2, x, ids)
    BY <1>3, <2>1, <2>3, <2>4, <2>5, <2>6, WriteMove
  <2>8. QED
    BY <1>2, <1>6, <1>8, <2>2, <2>5, <2>7 DEF q2
<1>21. CASE ActivateEven(c)
  <2> DEFINE k == [r EXCEPT !.generation = @ + 1, !.initialized = TRUE,
                            !.standby = NoRange, !.timer = 0]
             new == r.standby.start..(r.standby.start + q.count - 1)
  <2>0. q.pc = "even" /\ r.mu = c
    BY <1>5, <1>21 DEF ActivateEven, At, CallInv, Writing, OddLabel
  <2>1. NoRange \in Block /\ r.generation + 1 \in Nat /\ None \in Caller \cup {None}
    BY <1>4, FreshTypes
  <2>2. /\ k \in KeyRecord /\ k.generation = r.generation + 1 /\ k.initialized = TRUE
        /\ k.standby = NoRange /\ k.start = r.start /\ k.end = r.end /\ k.next = r.next
        /\ k.fetch = r.fetch /\ k.mu = r.mu
    BY <1>2, <2>1 DEF KeyRecord
  <2>3. Issue(c, k, r.standby.start, r.generation + 1)
    BY <1>1, <1>21 DEF ActivateEven
  <2> HIDE DEF k
  <2>4. /\ Gated(c, k) \in KeyRecord /\ Gated(c, k).generation = r.generation + 1
        /\ Gated(c, k).initialized = TRUE
        /\ Gated(c, k).standby = NoRange /\ Gated(c, k).start = r.start
        /\ Gated(c, k).end = r.end /\ Gated(c, k).next = r.next
        /\ Gated(c, k).fetch = r.fetch /\ Gated(c, k).mu = None
    BY <2>0, <2>1, <2>2 DEF Gated, KeyRecord
  <2> HIDE DEF new
  <2>5. ASSUME NEW q2, NEW ids2, IssueEnds(q, q2, r.generation + 1, ids, ids2, new)
        PROVE  OwnMove(c, o, q, r, ids, m, q2, Gated(c, k), ids2) /\ ids \cap new = {}
    <3>1. new = FirstIds(q, r)
      BY DEF new, FirstIds
    <3>2. IssueEnds(q, q2, Gated(c, k).generation, ids, ids2, new)
      BY <2>4, <2>5
    <3> DEFINE r2 == Gated(c, k)
    <3>3. /\ r2 \in KeyRecord /\ r2.generation = r.generation + 1 /\ r2.initialized = TRUE
          /\ r2.standby = NoRange /\ r2.start = r.start
          /\ r2.end = r.end /\ r2.next = r.next
          /\ r2.fetch = r.fetch /\ r2.mu = None
      BY <2>4
    <3>4. IssueEnds(q, q2, r2.generation, ids, ids2, new)
      BY <3>2
    <3> HIDE DEF r2
    <3>5. Own(c, o, q, r, ids, m) /\ q.pc = "even"
      BY <1>3, <2>0
    <3> HIDE DEF q, o
    <3>6. OwnMove(c, o, q, r, ids, m, q2, r2, ids2) /\ ids \cap new = {}
      BY <3>1, <3>3, <3>4, <3>5, EvenMove
    <3>7. QED
      BY <3>6 DEF r2
  <2>6. ids \cap new = {}
    <3>1. IssueEnds(q, NoCall, r.generation + 1, ids, ids, new)
      BY DEF IssueEnds
    <3>2. QED
      BY <2>5, <3>1
  <2>7. new = r.standby.start..(r.standby.start + q.count - 1)
    BY DEF new
  <2>8. QED
    BY <1>1, <2>2, <2>3, <2>5, <2>6, <2>7, IssueIds DEF r, ids, m
<1>22. QED
  BY <1>14, <1>15, <1>16, <1>17, <1>18, <1>19, <1>20, <1>21

\* A call that turns to its next key is new there.
Joins(q, out) == q.o \in State /\ FreshCall(q, out[KeyOf(q.o)])

LEMMA TurnJoins ==
    ASSUME KeyTypes, NEW r \in CallRecord
    PROVE  Turn(r) = NoCall \/ Joins(Turn(r), issued)
<1>1. CASE r.todo = <<>>
  BY <1>1 DEF Turn
<1>2. CASE r.todo # <<>>
  <2> DEFINE o == Head(r.todo)
             t == [r EXCEPT !.pc = IF r.count = 1 THEN "fast" ELSE "block",
                            !.o = o, !.todo = Tail(r.todo),
                            !.floor = Max(issued[KeyOf(o)] \cup {0}),
                            !.hadRange = FALSE, !.id = 0, !.generation = 0, !.start = 0]
  <2>1. r.todo \in Seq(State)
    BY DEF CallRecord
  <2>2. o \in State
    BY <1>2, <2>1, HeadTailProperties
  <2>3. KeyOf(o) \in Key
    BY <2>2, StateFacts
  <2>4. Max(issued[KeyOf(o)] \cup {0}) \in issued[KeyOf(o)] \cup {0}
    BY <2>3, MaxOfBounded DEF KeyTypes
  <2> HIDE DEF o
  <2>5. /\ t.pc = IF r.count = 1 THEN "fast" ELSE "block"
        /\ t.o = o /\ t.floor = Max(issued[KeyOf(o)] \cup {0})
        /\ t.hadRange = FALSE /\ t.generation = 0 /\ t.count = r.count
    BY DEF CallRecord
  <2>6. Turn(r) = t
    BY <1>2 DEF Turn, o
  <2> HIDE DEF t
  <2>7. QED
    BY <2>2, <2>4, <2>5, <2>6 DEF Joins, FreshCall
<1>3. QED
  BY <1>1, <1>2

\* A call leaves its state for another; it may have begun a fetch for the state.
LEMMA JoinIds ==
    ASSUME Shape, FetchInv, IdsInv, NEW c \in Caller, call[c].o # None,
           call[c].pc \notin Working, \A d \in Caller \ {c} : call'[d] = call[d],
           NEW x \in KeyRecord, ks' = [ks EXCEPT ![call[c].o] = x],
           x.generation = Mine(c).generation, x.initialized = Mine(c).initialized,
           x.start = Mine(c).start, x.end = Mine(c).end, x.next = Mine(c).next,
           x.mu = Mine(c).mu, x.standby \in {Mine(c).standby, NoRange},
           x.mu # None => x.standby = Mine(c).standby,
           x.fetch = Mine(c).fetch \/ x.fetch.at # "answered",
           Still, call'[c].o = None \/ Joins(call'[c], issued)
    PROVE  LocalMove(c, call[c].o)
<1> DEFINE o == call[c].o
           q == call[c]
           r == ks[o]
           ids == issued[KeyOf(o)]
           m == mark[KeyOf(o)]
           q2 == call'[c]
<1>1. /\ o \in State /\ r \in KeyRecord /\ Mine(c) = r /\ ids \in SUBSET Nat /\ m \in Nat
      /\ ks \in [State -> KeyRecord] /\ o # None
  BY CallTypes DEF Shape, KeyTypes, Mine
<1>2. Own(c, o, q, r, ids, m) /\ IsCached(o)
  BY OwnFacts
<1>3. r.mu # c
  BY <1>2 DEF Own
<1>4. Ranges(x, ids, m)
  <2>1. Ranges(r, ids, m) /\ r.next <= x.next /\ m <= m
    BY <1>1, <1>2 DEF Own, KeyRecord
  <2> HIDE DEF r, ids, m
  <2>2. QED
    BY <1>1, <2>1, RangesKept
<1>5. q2.o = o => CallInv(c, q2, x, ids) /\ Carried(q2, x) = {}
  BY <1>1, FreshCallInv DEF Joins
<1>6. Move(c, o, q, r, ids, q2, x, ids, m)
  <2> HIDE DEF o, q, r, ids, m, q2
  <2>1. QED
    BY <1>1, <1>3, <1>4, <1>5, StayMove
<1>7. OwnMove(c, o, q, r, ids, m, q2, x, ids)
  BY <1>6 DEF OwnMove
<1>8. ks'[o] = x /\ \A p \in State \ {o} : ks'[p] = ks[p]
  BY <1>1
<1>9. q2.o \in {o, None} \/ (q2.o \in State /\ FreshCall(q2, issued[KeyOf(q2.o)]))
  BY DEF Joins
<1>10. QED
  BY <1>7, <1>8, <1>9 DEF LocalMove, Still

LEMMA BatchIdsStep ==
    ASSUME Shape, KeyTypes', FetchInv, IdsInv, NEW c \in Caller,
           PrepareBatchRange(c) \/ AfterAllocate(c)
    PROVE  call[c].o \in State /\ LocalMove(c, call[c].o)
<1> DEFINE q == call[c]
           o == call[c].o
           r == ks[o]
           sent(by) == [NoFetch EXCEPT !.by = by, !.at = "sent"]
<1>1. /\ q \in CallRecord /\ o \in State /\ CallStates(q) /\ r \in KeyRecord
      /\ call \in [Caller -> Call] /\ ks \in [State -> KeyRecord] /\ Mine(c) = r /\ o # None
  BY CallTypes, ConstantFacts DEF Shape, KeyTypes, StatesInv, CallStates, FetchLabel, At,
     PrepareBatchRange, AfterAllocate, Mine
<1>2. \A d \in Caller \ {c} : call'[d] = call[d]
  BY BatchCalls DEF OwnStep
<1>3. ks = [ks EXCEPT ![o] = r] /\ NoCall.o = None
  BY <1>1 DEF NoCall
<1>4. q.pc \notin Working /\ Still /\ q.pc \in {"prepare", "after"}
  BY DEF PrepareBatchRange, AfterAllocate, At, Working, BlockLabel, OddLabel, Still
<1>5. ASSUME NEW by \in Caller \cup {"prefetch"}
      PROVE  sent(by) \in Fetch /\ sent(by).at # "answered" /\ sent(by) # NoFetch
  <2>1. NoFetch \in Fetch /\ NoFetch.at = "none"
    BY FreshTypes DEF NoFetch
  <2>2. sent(by).at = "sent" /\ sent(by) \in Fetch
    BY <2>1 DEF Fetch
  <2>3. QED
    BY <2>1, <2>2
<1>6. CASE AfterAllocate(c)
  <2> DEFINE x == [r EXCEPT !.fetch = sent("prefetch"), !.timer = 0]
  <2>1. /\ x \in KeyRecord /\ x.generation = r.generation /\ x.initialized = r.initialized
        /\ x.start = r.start /\ x.end = r.end /\ x.next = r.next /\ x.mu = r.mu
        /\ x.standby = r.standby /\ x.fetch = sent("prefetch")
    BY <1>1, <1>5 DEF KeyRecord
  <2>2. PICK y \in {r, x} : ks' = [ks EXCEPT ![o] = y]
    BY <1>1, <1>3, <1>6 DEF AfterAllocate
  <2>3. call'[c] = Turn(q)
    BY <1>1, <1>6 DEF AfterAllocate
  <2>4. call'[c].o = None \/ Joins(call'[c], issued)
    BY <1>1, <1>3, <2>3, TurnJoins DEF Shape
  <2> HIDE DEF x, sent
  <2>5. /\ y \in KeyRecord /\ y.generation = r.generation /\ y.initialized = r.initialized
        /\ y.start = r.start /\ y.end = r.end /\ y.next = r.next /\ y.mu = r.mu
        /\ y.standby \in {r.standby, NoRange} /\ y.standby = r.standby
        /\ y.fetch = r.fetch \/ y.fetch.at # "answered"
    BY <1>1, <1>5, <2>1, <2>2
  <2> HIDE DEF r
  <2>6. QED
    BY <1>1, <1>2, <1>4, <2>2, <2>4, <2>5, JoinIds
<1>7. CASE PrepareBatchRange(c)
  <2> DEFINE n == CHOOSE n \in DOMAIN q.todo : q.todo[n] = q.o
             wanted == ~HasReadyBlock(Mine(c), q.count) /\ Mine(c).fetch = NoFetch
             pending == IF wanted THEN Append(q.pending, q.o) ELSE q.pending
             next == IF n < Len(q.todo)
                     THEN [q EXCEPT !.o = q.todo[n + 1], !.pending = pending]
                     ELSE IF pending = <<>> THEN Turn(q)
                     ELSE [q EXCEPT !.pc = "reserve", !.o = None, !.pending = pending]
             x == [r EXCEPT !.standby = NoRange, !.timer = 0, !.fetch = sent(c)]
  <2>1. call'[c] = next
    BY <1>1, <1>7 DEF PrepareBatchRange
  <2>2. PICK y \in {r, x} : ks' = [ks EXCEPT ![o] = y]
    BY <1>1, <1>3, <1>7 DEF PrepareBatchRange
  <2>3. q.pc = "prepare" /\ r.mu = None
    BY <1>1, <1>7 DEF PrepareBatchRange, At, Free
  <2>4. NoRange \in Block
    BY FreshTypes
  <2>5. /\ x \in KeyRecord /\ x.generation = r.generation /\ x.initialized = r.initialized
        /\ x.start = r.start /\ x.end = r.end /\ x.next = r.next /\ x.mu = r.mu
        /\ x.standby = NoRange /\ x.fetch = sent(c)
    BY <1>1, <1>5, <2>4 DEF KeyRecord
  <2>6. n < Len(q.todo) => q.todo[n + 1] \in State
    BY <1>7, NextOfBatch DEF PrepareBatchRange
  <2>7. q.generation = 0 /\ ~q.hadRange /\ q.floor = 0
    BY <2>3, <1>1, OwnFacts DEF Own, CallInv, Reading
  <2> HIDE DEF x, sent, n, wanted, pending
  <2>8. call'[c].o = None \/ Joins(call'[c], issued)
    <3>1. CASE n < Len(q.todo)
      <4>1. call'[c] = [q EXCEPT !.o = q.todo[n + 1], !.pending = pending]
        BY <2>1, <3>1
      <4>2. /\ call'[c].o = q.todo[n + 1] /\ call'[c].pc = q.pc
            /\ call'[c].generation = q.generation /\ call'[c].hadRange = q.hadRange
            /\ call'[c].floor = q.floor
        BY <1>1, <4>1 DEF CallRecord
      <4>3. QED
        BY <2>3, <2>6, <2>7, <3>1, <4>2 DEF Joins, FreshCall
    <3>2. CASE ~(n < Len(q.todo)) /\ pending = <<>>
      BY <1>1, <1>3, <2>1, <3>2, TurnJoins DEF Shape
    <3>3. CASE ~(n < Len(q.todo)) /\ pending # <<>>
      BY <1>1, <2>1, <3>3 DEF CallRecord
    <3>4. QED
      BY <3>1, <3>2, <3>3
  <2> HIDE DEF next
  <2>9. /\ y \in KeyRecord /\ y.generation = r.generation /\ y.initialized = r.initialized
        /\ y.start = r.start /\ y.end = r.end /\ y.next = r.next /\ y.mu = r.mu
        /\ y.standby \in {r.standby, NoRange}
        /\ y.mu # None => y.standby = r.standby
        /\ y.fetch = r.fetch \/ y.fetch.at # "answered"
    BY <1>1, <1>5, <2>2, <2>3, <2>5
  <2> HIDE DEF r
  <2>10. QED
    BY <1>1, <1>2, <1>4, <2>2, <2>8, <2>9, JoinIds
<1>8. QED
  BY <1>6, <1>7

\* The call waits for a fetch of its own, or tries again, and its state is as it was.
LEMMA FetchCallInv ==
    ASSUME NEW c, NEW q \in CallRecord, NEW q2, NEW r \in KeyRecord, NEW r2 \in KeyRecord,
           NEW ids, CallInv(c, q, r, ids),
           q.pc \in FetchLabel, q2.pc \in FetchLabel \cup {"slow"},
           q2.generation = q.generation, q2.hadRange = q.hadRange,
           q2.id = q.id, q2.count = q.count, q2.floor = q.floor,
           r2.generation = r.generation, r2.initialized = r.initialized,
           r2.start = r.start, r2.end = r.end, r2.next = r.next
    PROVE  CallInv(c, q2, r2, ids) /\ Carried(q2, r2) = Carried(q, r)
<1>1. Valid(q2, r2) <=> Valid(q, r)
  BY DEF Valid
<1>2. Carried(q2, r2) = Carried(q, r)
  BY <1>1 DEF Carried, HasId, FastLabel, FetchLabel
<1>3. Reading(q2, r2)
  BY DEF CallInv, Reading, FastLabel, BlockLabel, FetchLabel
<1>4. Writing(c, q2, r2)
  BY DEF Writing, OddLabel, FetchLabel
<1>5. QED
  BY <1>2, <1>3, <1>4 DEF CallInv, Fresh

\* The move of a state whose fetch goes on, with a call that is not at work on it.
LEMMA FetchRow ==
    ASSUME Shape, IdsInv, NEW p \in State, IsCached(p), NEW c \in Caller \cup {"prefetch"},
           c \in Caller => call[c].pc \notin Working,
           \A d \in Caller \ {c} : call'[d] = call[d] \/ Woke(call[d], call'[d]),
           ks'[p] \in KeyRecord, issued' = issued,
           ks'[p].generation = ks[p].generation, ks'[p].initialized = ks[p].initialized,
           ks'[p].start = ks[p].start, ks'[p].end = ks[p].end, ks'[p].next = ks[p].next,
           ks'[p].mu = ks[p].mu, ks[p].mu # None => ks'[p].standby = ks[p].standby,
           Ranges(ks'[p], issued[KeyOf(p)], mark'[KeyOf(p)]),
           c \in Caller /\ call'[c].o = p =>
             /\ CallInv(c, call'[c], ks'[p], issued[KeyOf(p)])
             /\ \A y \in Carried(call'[c], ks'[p]) : call[c].o = p /\ y \in Carried(call[c], ks[p])
    PROVE  RowStep(c, p)
<1> DEFINE q == CallOf(c)
           q2 == CallOf(c)'
           r == ks[p]
           r2 == ks'[p]
           ids == issued[KeyOf(p)]
           m2 == mark'[KeyOf(p)]
<1>1. r \in KeyRecord /\ r2 \in KeyRecord /\ r.mu # c
  BY NotLocked DEF Shape, KeyTypes
<1>2. NoCall.o # p
  BY ConstantFacts DEF NoCall
<1>3. q2.o = p => /\ CallInv(c, q2, r2, ids)
                  /\ \A y \in Carried(q2, r2) : q.o = p /\ y \in Carried(q, r)
  BY <1>2 DEF CallOf
<1>4. r.mu # None => r2.standby = r.standby
  OBVIOUS
<1>5. Ranges(r2, ids, m2)
  OBVIOUS
<1> HIDE DEF q, q2
<1>6. Move(c, p, q, r, ids, q2, r2, ids, m2)
  BY <1>1, <1>3, <1>4, <1>5, StayMove
<1>7. QED
  BY <1>6 DEF RowStep, q, q2

LEMMA ReserveIds ==
    ASSUME Shape, KeyTypes', FetchInv, IdsInv, NEW c \in Caller, Reserve(c)
    PROVE  IdsInv'
<1> DEFINE q == call[c]
           P == {q.pending[n] : n \in DOMAIN q.pending}
           step == StepFor(q.count)
           Answer(at, o) == [ks[o].fetch EXCEPT !.at = at,
            !.got = IF at = "answered" THEN [start |-> mark[KeyOf(o)] + 1,
                                             end |-> mark[KeyOf(o)] + step]
                    ELSE NoRange]
           Answered(at) ==
            /\ ks' = [o \in State |-> IF o \in P THEN [ks[o] EXCEPT !.fetch = Answer(at, o)]
                                      ELSE ks[o]]
            /\ Goto(c, IF at = "answered" THEN "complete" ELSE "fail")
           committed == [k \in Key |-> IF k \in {KeyOf(o) : o \in P} THEN mark[k] + step
                                       ELSE mark[k]]
<1>1. PICK at \in {"answered", "failed"} :
        /\ Answered(at) /\ (mark' = mark \/ mark' = committed)
        /\ at = "answered" => mark' = committed
  BY DEF Reserve
<1>2. /\ q \in CallRecord /\ call \in [Caller -> Call] /\ ks \in [State -> KeyRecord]
      /\ mark \in [Key -> Nat] /\ issued' = issued /\ cached' = cached /\ q.pc = "reserve"
      /\ None \notin Caller /\ NoFetch.by = None /\ ks' \in [State -> KeyRecord]
      /\ issued \in [Key -> SUBSET Nat]
  BY CallTypes, ConstantFacts DEF Shape, KeyTypes, NoFetch, Reserve, At
<1>3. step \in Nat /\ 0 < step
  <2>1. q.count \in Nat
    BY <1>2 DEF CallRecord
  <2>2. QED
    BY <2>1, StepForSize, ConstantFacts
<1>4. ASSUME NEW k \in Key
      PROVE  mark'[k] \in Nat /\ mark[k] <= mark'[k]
  <2>1. mark'[k] \in {mark[k], mark[k] + step}
    <3> HIDE DEF step, P
    <3>1. committed[k] \in {mark[k], mark[k] + step}
      OBVIOUS
    <3> HIDE DEF committed
    <3>2. QED
      BY <1>1, <3>1
  <2>2. mark[k] \in Nat
    BY <1>2
  <2> HIDE DEF step
  <2>3. QED
    BY <1>3, <2>1, <2>2
<1>5. /\ \A d \in Caller \ {c} : call'[d] = call[d]
      /\ call'[c].pc \in FetchLabel
      /\ call'[c].o = q.o /\ call'[c].generation = q.generation
      /\ call'[c].hadRange = q.hadRange /\ call'[c].id = q.id
      /\ call'[c].count = q.count /\ call'[c].floor = q.floor
  BY <1>1, <1>2 DEF Goto, CallRecord, FetchLabel
<1> HIDE DEF step
<1>6. ASSUME NEW p \in State, IsCached(p)
      PROVE  RowStep(c, p)
  <2> DEFINE r == ks[p]
             r2 == ks'[p]
             ids == issued[KeyOf(p)]
             m == mark[KeyOf(p)]
             m2 == mark'[KeyOf(p)]
  <2>1. /\ r \in KeyRecord /\ r2 \in KeyRecord /\ KeyOf(p) \in Key /\ ids \in SUBSET Nat
        /\ m \in Nat /\ m2 \in Nat /\ m <= m2 /\ r.fetch \in Fetch
    BY <1>2, <1>4, StateFacts DEF KeyRecord
  <2>2. Ranges(r, ids, m) /\ \A y \in ids : y <= m
    BY <1>6, <2>1 DEF IdsInv, RowInv
  <2>3. r2 = IF p \in P THEN [r EXCEPT !.fetch = Answer(at, p)] ELSE r
    BY <1>1
  <2> HIDE DEF P
  <2>4. /\ r2.generation = r.generation /\ r2.initialized = r.initialized
        /\ r2.start = r.start /\ r2.end = r.end /\ r2.next = r.next /\ r2.mu = r.mu
        /\ r2.standby = r.standby /\ r2.fetch = IF p \in P THEN Answer(at, p) ELSE r.fetch
    BY <2>1, <2>3 DEF KeyRecord
  <2>5. Ranges(r2, ids, m2)
    <3>0. r.next <= r2.next /\ r2.standby \in {r.standby, NoRange}
      BY <2>1, <2>4 DEF KeyRecord
    <3>1. CASE p \notin P
      <4>1. r2.fetch = r.fetch \/ r2.fetch.at # "answered"
        BY <2>4, <3>1
      <4> HIDE DEF r, r2, ids, m, m2
      <4>2. QED
        BY <2>1, <2>2, <2>4, <3>0, <4>1, RangesKept
    <3>2. CASE p \in P /\ at = "failed"
      <4>0. Answer(at, p).at # "answered"
        BY <2>1, <3>2 DEF Fetch
      <4>1. r2.fetch = r.fetch \/ r2.fetch.at # "answered"
        BY <2>4, <3>2, <4>0
      <4> HIDE DEF r, r2, ids, m, m2
      <4>2. QED
        BY <2>1, <2>2, <2>4, <3>0, <4>1, RangesKept
    <3>3. CASE p \in P /\ at = "answered"
      <4>1. r2.fetch.got = [start |-> m + 1, end |-> m + step]
        BY <2>1, <2>4, <3>3 DEF Fetch
      <4>2. m2 = m + step
        BY <1>1, <2>1, <3>3
      <4>3. r.standby = NoRange
        <5>1. r.fetch.by = c
          BY <3>3 DEF P, FetchInv, PendingInv
        <5>2. QED
          BY <1>2, <5>1 DEF FetchInv
      <4>4. r2.fetch.got.start = m + 1 /\ r2.fetch.got.end = m2 /\ m < m2
        BY <1>3, <2>1, <4>1, <4>2
      <4>5. /\ r2.generation = r.generation /\ r2.initialized = r.initialized
            /\ r2.start = r.start /\ r2.end = r.end /\ r2.next = r.next
            /\ r2.standby = r.standby
        BY <2>4
      <4>6. \A y \in ids : y <= m
        BY <2>2
      <4> HIDE DEF r, r2, ids, m, m2
      <4>7. QED
        BY <2>1, <2>2, <4>3, <4>4, <4>5, <4>6, RangesReserved
    <3>4. QED
      BY <3>1, <3>2, <3>3
  <2>6. ASSUME call'[c].o = p
        PROVE  /\ CallInv(c, call'[c], r2, ids)
               /\ \A y \in Carried(call'[c], r2) : q.o = p /\ y \in Carried(q, r)
    <3>1. Own(c, p, q, r, ids, m)
      BY <1>5, <2>6, OwnFacts, ConstantFacts
    <3>2. CallInv(c, q, r, ids)
      BY <3>1 DEF Own
    <3>3. q.pc \in FetchLabel
      BY <1>2 DEF FetchLabel
    <3> DEFINE q2 == call'[c]
    <3>4. /\ q2.pc \in FetchLabel \cup {"slow"} /\ q2.o = q.o
          /\ q2.generation = q.generation /\ q2.hadRange = q.hadRange
          /\ q2.id = q.id /\ q2.count = q.count /\ q2.floor = q.floor
      BY <1>5
    <3> HIDE DEF r, r2, ids, q, q2
    <3>5. CallInv(c, q2, r2, ids) /\ Carried(q2, r2) = Carried(q, r)
      BY <1>2, <2>1, <2>4, <3>2, <3>3, <3>4, FetchCallInv
    <3>6. QED
      BY <2>6, <3>4, <3>5 DEF q2
  <2>7. q.pc \notin Working
    BY <1>2 DEF Working, BlockLabel, OddLabel
  <2>8. QED
    BY <1>2, <1>5, <1>6, <2>1, <2>4, <2>5, <2>6, <2>7, FetchRow
<1>7. ASSUME NEW k \in Key, NEW y \in issued'[k]
      PROVE  1 <= y /\ y <= mark'[k]
  <2>1. y \in Nat /\ mark[k] \in Nat /\ 1 <= y /\ y <= mark[k]
    BY <1>2, <1>7 DEF IdsInv
  <2>2. QED
    BY <1>4, <2>1
<1>8. QED
  BY <1>2, <1>6, <1>7, AllRows

-----------------------------------------------------------------------------
\* A step that changes the fetch of state o, or nothing of it that a call reads.
FetchOnly(o) ==
    /\ cached' = cached /\ issued' = issued
    /\ \A p \in State \ {o} : ks'[p] = ks[p]
    /\ \A k \in Key \ {KeyOf(o)} : mark'[k] = mark[k]
    /\ mark[KeyOf(o)] <= mark'[KeyOf(o)]
    /\ ks'[o].generation = ks[o].generation /\ ks'[o].initialized = ks[o].initialized
    /\ ks'[o].start = ks[o].start /\ ks'[o].end = ks[o].end /\ ks'[o].next = ks[o].next
    /\ ks'[o].mu = ks[o].mu /\ (ks[o].mu # None => ks'[o].standby = ks[o].standby)
    /\ Ranges(ks'[o], issued[KeyOf(o)], mark'[KeyOf(o)])

LEMMA FetchIds ==
    ASSUME Shape, KeyTypes', IdsInv, NEW o \in State, IsCached(o), FetchOnly(o),
           NEW c \in Caller \cup {"prefetch"}, c \in Caller => call[c].pc \notin Working,
           \A d \in Caller \ {c} : call'[d] = call[d] \/ Woke(call[d], call'[d]),
           \A p \in State : c \in Caller /\ call'[c].o = p =>
             /\ CallInv(c, call'[c], ks'[p], issued[KeyOf(p)])
             /\ \A y \in Carried(call'[c], ks'[p]) : call[c].o = p /\ y \in Carried(call[c], ks[p])
    PROVE  IdsInv'
<1>1. ASSUME NEW p \in State, IsCached(p)
      PROVE  RowStep(c, p)
  <2>1. ks'[p] \in KeyRecord
    BY DEF KeyTypes
  <2>2. /\ ks'[p].generation = ks[p].generation /\ ks'[p].initialized = ks[p].initialized
        /\ ks'[p].start = ks[p].start /\ ks'[p].end = ks[p].end /\ ks'[p].next = ks[p].next
        /\ ks'[p].mu = ks[p].mu /\ (ks[p].mu # None => ks'[p].standby = ks[p].standby)
    BY DEF FetchOnly
  <2>3. Ranges(ks'[p], issued[KeyOf(p)], mark'[KeyOf(p)])
    <3>1. CASE p = o
      BY <3>1 DEF FetchOnly
    <3>2. CASE p # o
      <4>1. KeyOf(p) # KeyOf(o) /\ KeyOf(p) \in Key
        BY <1>1, <3>2, OneCached, StateFacts
      <4>2. ks'[p] = ks[p] /\ mark'[KeyOf(p)] = mark[KeyOf(p)]
        BY <3>2, <4>1 DEF FetchOnly
      <4>3. Ranges(ks[p], issued[KeyOf(p)], mark[KeyOf(p)])
        BY <1>1 DEF IdsInv, RowInv
      <4>4. QED
        BY <4>2, <4>3
    <3>3. QED
      BY <3>1, <3>2
  <2>4. issued' = issued
    BY DEF FetchOnly
  <2>5. QED
    BY <1>1, <2>1, <2>2, <2>3, <2>4, FetchRow
<1>2. ASSUME NEW k \in Key, NEW y \in issued'[k]
      PROVE  1 <= y /\ y <= mark'[k]
  <2>1. y \in issued[k] /\ issued[k] \in SUBSET Nat /\ mark[k] \in Nat /\ mark'[k] \in Nat
    BY <1>2 DEF FetchOnly, Shape, KeyTypes
  <2>2. mark[k] <= mark'[k]
    BY <2>1, StateFacts DEF FetchOnly
  <2>3. 1 <= y /\ y <= mark[k] /\ y \in Nat
    BY <2>1 DEF IdsInv
  <2>4. QED
    BY <2>1, <2>2, <2>3
<1>3. cached' = cached
  BY DEF FetchOnly
<1>4. QED
  BY <1>1, <1>2, <1>3, AllRows

\* What a completed fetch leaves of its state.
LEMMA CompleteOnly ==
    ASSUME Shape, KeyTypes', FetchInv, IdsInv, NEW o \in State, IsCached(o), Free(o),
           NEW timer, Complete(o, timer), Still
    PROVE  FetchOnly(o)
<1> DEFINE r == ks[o]
           r2 == ks'[o]
           ids == issued[KeyOf(o)]
           m == mark[KeyOf(o)]
<1>1. /\ r \in KeyRecord /\ r2 \in KeyRecord /\ KeyOf(o) \in Key /\ ids \in SUBSET Nat
      /\ m \in Nat /\ ks \in [State -> KeyRecord]
  BY StateFacts DEF Shape, KeyTypes
<1>2. /\ r2.generation = r.generation /\ r2.initialized = r.initialized
      /\ r2.start = r.start /\ r2.end = r.end /\ r2.next = r.next /\ r2.mu = r.mu
      /\ r2.standby = IF r.fetch.at = "answered" THEN r.fetch.got ELSE r.standby
      /\ r2.fetch = NoFetch
      /\ \A p \in State \ {o} : ks'[p] = ks[p]
  BY <1>1 DEF Complete, KeyRecord
<1>3. Ranges(r, ids, m)
  BY DEF IdsInv, RowInv
<1>4. Ranges(r2, ids, m)
  <2> HIDE DEF r, r2, ids, m
  <2>1. QED
    BY <1>1, <1>2, <1>3, RangesCompleted
<1>5. r.mu = None /\ m <= m
  BY <1>1 DEF Free
<1>6. QED
  BY <1>2, <1>4, <1>5 DEF FetchOnly, Still

\* Those who waited for a fetch go on with what they had, or fail.
LEMMA WakeWoke ==
    ASSUME NEW o, NEW ok, NEW c \in Caller
    PROVE  Wake(Woken(o), ok)[c] = call[c] \/ Woke(call[c], Wake(Woken(o), ok)[c])
  BY DEF Wake, Woken, Waiters, At, Woke

\* Nothing that the ids depend on changes.
LEMMA SameIds ==
    ASSUME IdsInv, issued' = issued, mark' = mark, call' = call,
           \A p \in State : IsCached(p)' => IsCached(p) /\ ks'[p] = ks[p]
    PROVE  IdsInv'
<1>1. ASSUME NEW p \in State, IsCached(p)'
      PROVE  Row(p)'
  <2>1. Row(p) /\ ks'[p] = ks[p]
    BY <1>1 DEF IdsInv, Row
  <2>2. CallsOn(p)' = CallsOn(p)
    BY DEF CallsOn
  <2>3. QED
    BY <2>1, <2>2 DEF Row
<1>2. QED
  BY <1>1 DEF IdsInv, Row

\* A step of a state that no call takes part in, and that leaves its ranges.
LEMMA IdleIds ==
    ASSUME Shape, KeyTypes', FetchInv, IdsInv, NEW o \in State, IsCached(o),
           UNCHANGED <<call, mark, cached, issued>>, NEW x \in KeyRecord,
           ks' = [ks EXCEPT ![o] = x],
           x.generation = ks[o].generation, x.initialized = ks[o].initialized,
           x.start = ks[o].start, x.end = ks[o].end, x.next = ks[o].next, x.mu = ks[o].mu,
           x.standby = ks[o].standby, x.fetch = ks[o].fetch \/ x.fetch.at # "answered"
    PROVE  IdsInv'
<1> DEFINE r == ks[o]
           ids == issued[KeyOf(o)]
           m == mark[KeyOf(o)]
<1>1. /\ r \in KeyRecord /\ KeyOf(o) \in Key /\ ids \in SUBSET Nat /\ m \in Nat
      /\ ks \in [State -> KeyRecord]
  BY StateFacts DEF Shape, KeyTypes
<1>2. Ranges(r, ids, m) /\ r.next <= x.next /\ m <= m
  BY <1>1 DEF IdsInv, RowInv, KeyRecord
<1>3. Ranges(x, ids, m)
  <2>1. x.standby \in {r.standby, NoRange}
    OBVIOUS
  <2> HIDE DEF r, ids, m
  <2>2. QED
    BY <1>1, <1>2, <2>1, RangesKept DEF r
<1>4. ks'[o] = x /\ \A p \in State \ {o} : ks'[p] = ks[p]
  BY <1>1
<1>5. FetchOnly(o)
  BY <1>1, <1>2, <1>3, <1>4 DEF FetchOnly
<1>6. "prefetch" \notin Caller
  BY ConstantFacts
<1>7. QED
  BY <1>5, <1>6, FetchIds

\* Who has a fetch, a timer or a place in the cache is in the cache.
LEMMA InCacheFacts ==
    ASSUME Shape, NEW o \in State,
           ks[o].fetch # NoFetch \/ ks[o].timer # 0 \/ InCache(o)
    PROVE  IsCached(o)
  BY DEF Shape, StatesInv, InCache, IsCached

LEMMA ReservedIds ==
    ASSUME Shape, KeyTypes', FetchInv, IdsInv, NEW o \in State, BackgroundReserve(o)
    PROVE  IdsInv'
<1> DEFINE r == ks[o]
           r2 == ks'[o]
           ids == issued[KeyOf(o)]
           m == mark[KeyOf(o)]
           m2 == mark'[KeyOf(o)]
<1>1. /\ r \in KeyRecord /\ r2 \in KeyRecord /\ KeyOf(o) \in Key /\ ids \in SUBSET Nat
      /\ m \in Nat /\ m2 \in Nat /\ ks \in [State -> KeyRecord] /\ mark \in [Key -> Nat]
      /\ r.fetch \in Fetch /\ Step \in Nat \ {0}
  BY StateFacts, ConstantFacts DEF Shape, KeyTypes, KeyRecord
<1>2. r.fetch # NoFetch
  BY ConstantFacts DEF BackgroundReserve, NoFetch
<1>3. IsCached(o) /\ r.standby = NoRange
  BY <1>2, InCacheFacts DEF FetchInv
<1>4. m2 \in {m, m + Step} /\ \A k \in Key \ {KeyOf(o)} : mark'[k] = mark[k]
  BY <1>1 DEF BackgroundReserve
<1>5. /\ r2.generation = r.generation /\ r2.initialized = r.initialized
      /\ r2.start = r.start /\ r2.end = r.end /\ r2.next = r.next /\ r2.mu = r.mu
      /\ r2.standby = r.standby
      /\ \A p \in State \ {o} : ks'[p] = ks[p]
      /\ issued' = issued /\ cached' = cached /\ call' = call
  BY <1>1 DEF BackgroundReserve, KeyRecord
<1>6. /\ Ranges(r, ids, m)
      /\ \A y \in ids : y <= m
  BY <1>1, <1>3 DEF IdsInv, RowInv
<1>7. Ranges(r2, ids, m2)
  <2>1. CASE r2.fetch.got = [start |-> m + 1, end |-> m + Step] /\ m2 = m + Step
    <3>1. r2.fetch.got.start = m + 1 /\ r2.fetch.got.end = m2 /\ m < m2
      BY <1>1, <2>1
    <3> HIDE DEF r, r2, ids, m, m2
    <3>2. QED
      BY <1>1, <1>3, <1>5, <1>6, <3>1, RangesReserved
  <2>2. CASE r2.fetch.at = "failed"
    <3>1. /\ m <= m2 /\ r.next <= r2.next /\ r2.standby \in {r.standby, NoRange}
          /\ r2.fetch = r.fetch \/ r2.fetch.at # "answered"
      BY <1>1, <1>4, <1>5, <2>2 DEF KeyRecord
    <3> HIDE DEF r, r2, ids, m, m2
    <3>2. QED
      BY <1>1, <1>5, <1>6, <3>1, RangesKept
  <2>3. QED
    <3>1. \/ /\ ks' = [ks EXCEPT ![o].fetch.at = "answered",
                                 ![o].fetch.got = [start |-> m + 1, end |-> m + Step]]
             /\ mark' = [mark EXCEPT ![KeyOf(o)] = m + Step]
          \/ ks' = [ks EXCEPT ![o].fetch.at = "failed"]
      BY DEF BackgroundReserve
    <3>2. QED
      BY <1>1, <2>1, <2>2, <3>1 DEF KeyRecord, Fetch
<1>8. m <= m2
  BY <1>1, <1>4
<1>9. FetchOnly(o)
  BY <1>4, <1>5, <1>7, <1>8 DEF FetchOnly
<1>10. "prefetch" \notin Caller
  BY ConstantFacts
<1>11. QED
  BY <1>3, <1>5, <1>9, <1>10, FetchIds

LEMMA BackgroundIds ==
    ASSUME Shape, KeyTypes', FetchInv, IdsInv, NEW o \in State, Background(o)
    PROVE  IdsInv'
<1>1. /\ ks[o] \in KeyRecord /\ ks \in [State -> KeyRecord] /\ None \notin Caller
      /\ "prefetch" \notin Caller /\ NoFetch.by = None /\ None # "prefetch"
      /\ NoFetch \in Fetch /\ ks = [ks EXCEPT ![o] = ks[o]]
  BY ConstantFacts, FreshTypes DEF Shape, KeyTypes, NoFetch
<1>2. CASE BackgroundReserve(o)
  BY <1>2, ReservedIds
<1>3. CASE CompletePrefetch(o)
  <2>1. /\ call' = Wake(Woken(o), TRUE) /\ Complete(o, ks[o].generation) /\ Still /\ Free(o)
        /\ ks[o].fetch # NoFetch
    BY <1>1, <1>3 DEF CompletePrefetch
  <2>2. IsCached(o)
    BY <2>1, InCacheFacts
  <2>3. FetchOnly(o)
    BY <2>1, <2>2, CompleteOnly
  <2>4. \A d \in Caller : call'[d] = call[d] \/ Woke(call[d], call'[d])
    BY <2>1, WakeWoke
  <2>5. QED
    BY <1>1, <2>2, <2>3, <2>4, FetchIds
<1>4. CASE TimerFires(o)
  <2> DEFINE x == [ks[o] EXCEPT !.timer = 0, !.fired = ks[o].timer]
  <2>1. /\ x \in KeyRecord /\ x.generation = ks[o].generation
        /\ x.initialized = ks[o].initialized /\ x.start = ks[o].start /\ x.end = ks[o].end
        /\ x.next = ks[o].next /\ x.mu = ks[o].mu /\ x.standby = ks[o].standby
        /\ x.fetch = ks[o].fetch
    BY <1>1 DEF KeyRecord
  <2>2. ks' = [ks EXCEPT ![o] = x] /\ UNCHANGED <<call, mark, cached, issued>> /\ IsCached(o)
    BY <1>1, <1>4, InCacheFacts DEF TimerFires, Still
  <2> HIDE DEF x
  <2>3. QED
    BY <2>1, <2>2, IdleIds
<1>5. CASE RetryPrefetch(o)
  <2> DEFINE sent == [NoFetch EXCEPT !.by = "prefetch", !.at = "sent"]
             x == [ks[o] EXCEPT !.fired = 0]
             y == [ks[o] EXCEPT !.fired = 0, !.timer = 0, !.fetch = sent]
  <2>1. UNCHANGED <<call, mark, cached, issued>>
    BY <1>5 DEF RetryPrefetch, Still
  <2>2. CASE ks' = [ks EXCEPT ![o] = x]
    <3>1. /\ x \in KeyRecord /\ x.generation = ks[o].generation
          /\ x.initialized = ks[o].initialized /\ x.start = ks[o].start /\ x.end = ks[o].end
          /\ x.next = ks[o].next /\ x.mu = ks[o].mu /\ x.standby = ks[o].standby
          /\ x.fetch = ks[o].fetch
      BY <1>1 DEF KeyRecord
    <3> HIDE DEF x
    <3>2. CASE IsCached(o)
      BY <2>1, <2>2, <3>1, <3>2, IdleIds
    <3>3. CASE ~IsCached(o)
      <4>1. \A p \in State : IsCached(p)' => IsCached(p) /\ ks'[p] = ks[p]
        BY <1>1, <2>1, <2>2, <3>3 DEF IsCached
      <4>2. QED
        BY <2>1, <4>1, SameIds
    <3>4. QED
      BY <3>2, <3>3
  <2>3. CASE ks' = [ks EXCEPT ![o] = y] /\ InCache(o)
    <3>1. sent \in Fetch /\ sent.at # "answered"
      BY <1>1 DEF NoFetch, Fetch
    <3> HIDE DEF sent
    <3>2. /\ y \in KeyRecord /\ y.generation = ks[o].generation
          /\ y.initialized = ks[o].initialized /\ y.start = ks[o].start /\ y.end = ks[o].end
          /\ y.next = ks[o].next /\ y.mu = ks[o].mu /\ y.standby = ks[o].standby
          /\ y.fetch = sent
      BY <1>1, <3>1 DEF KeyRecord
    <3> HIDE DEF y
    <3>3. y.fetch = ks[o].fetch \/ y.fetch.at # "answered"
      BY <3>1, <3>2
    <3>4. IsCached(o)
      BY <2>3, InCacheFacts
    <3>5. QED
      BY <2>1, <2>3, <3>2, <3>3, <3>4, IdleIds
  <2>4. QED
    BY <1>5, <2>2, <2>3 DEF RetryPrefetch
<1>6. CASE CollectIdle(o)
  <2> DEFINE x == [ks[o] EXCEPT !.recent = FALSE]
  <2>1. /\ x \in KeyRecord /\ x.generation = ks[o].generation
        /\ x.initialized = ks[o].initialized /\ x.start = ks[o].start /\ x.end = ks[o].end
        /\ x.next = ks[o].next /\ x.mu = ks[o].mu /\ x.standby = ks[o].standby
        /\ x.fetch = ks[o].fetch
    BY <1>1 DEF KeyRecord
  <2>2. ks' = [ks EXCEPT ![o] = x] /\ UNCHANGED <<call, mark, cached, issued>> /\ IsCached(o)
    BY <1>6 DEF CollectIdle, IsCached
  <2> HIDE DEF x
  <2>3. QED
    BY <2>1, <2>2, IdleIds
<1>7. CASE EvictIdle(o)
  <2> DEFINE x == [ks[o] EXCEPT !.retired = TRUE, !.timer = 0]
  <2>1. \/ cached' = cached /\ ks' = ks
        \/ cached' = [cached EXCEPT ![KeyOf(o)] = 0] /\ ks' = [ks EXCEPT ![o] = x]
    BY <1>7 DEF EvictIdle
  <2> HIDE DEF x
  <2>2. \A p \in State : IsCached(p)' => IsCached(p) /\ ks'[p] = ks[p]
    <3>1. CASE cached' = cached /\ ks' = ks
      BY <3>1 DEF IsCached
    <3>2. CASE cached' = [cached EXCEPT ![KeyOf(o)] = 0] /\ ks' = [ks EXCEPT ![o] = x]
      <4>1. ASSUME NEW p \in State, IsCached(p)'
            PROVE  IsCached(p) /\ p # o
        <5>1. /\ p[2] # 0 /\ KeyOf(p) \in Key /\ KeyOf(o) \in Key
              /\ cached \in [Key -> 0..MaxStates]
          BY StateFacts DEF Shape, KeyTypes
        <5>2. KeyOf(p) # KeyOf(o) /\ cached[KeyOf(p)] = p[2]
          BY <3>2, <4>1, <5>1 DEF IsCached
        <5>3. QED
          BY <5>2 DEF IsCached
      <4>2. QED
        BY <1>1, <3>2, <4>1
    <3>3. QED
      BY <2>1, <3>1, <3>2
  <2>3. issued' = issued /\ mark' = mark /\ call' = call
    BY <1>7 DEF EvictIdle
  <2>4. QED
    BY <2>2, <2>3, SameIds
<1>8. QED
  BY <1>2, <1>3, <1>4, <1>5, <1>6, <1>7 DEF Background

LEMMA CompleteIds ==
    ASSUME Shape, KeyTypes', FetchInv, IdsInv, NEW c \in Caller, CompleteFetch(c)
    PROVE  IdsInv'
<1> DEFINE q == call[c]
           o == Head(q.pending)
           ok == At(c, "complete")
           left == [q EXCEPT !.pending = Tail(@)]
           slow == [left EXCEPT !.pc = "slow"]
           done == IF left.pending # <<>> THEN left
                   ELSE IF ~ok THEN NoCall
                   ELSE IF q.o = None THEN Turn(left)
                   ELSE slow
<1>1. /\ q \in CallRecord /\ q.pc \in FetchLabel /\ call \in [Caller -> Call]
      /\ ks \in [State -> KeyRecord] /\ ks' \in [State -> KeyRecord]
      /\ CallStates(q) /\ NoCall.o = None /\ None \notin State
  BY CallTypes, ConstantFacts DEF Shape, KeyTypes, StatesInv, CompleteFetch, FetchLabel, NoCall
<1>2. o \in State /\ o \in q.held /\ Tail(q.pending) \in Seq(State)
  BY <1>1, FirstPending
<1>3. IsCached(o)
  BY <1>1, <1>2 DEF CallStates
<1>4. /\ left \in CallRecord
      /\ left.pc = q.pc /\ left.o = q.o /\ left.generation = q.generation
      /\ left.hadRange = q.hadRange /\ left.id = q.id /\ left.count = q.count
      /\ left.floor = q.floor
  BY <1>1, <1>2 DEF CallRecord
<1>5. /\ slow.pc = "slow" /\ slow.o = left.o /\ slow.generation = left.generation
      /\ slow.hadRange = left.hadRange /\ slow.id = left.id /\ slow.count = left.count
      /\ slow.floor = left.floor
  <2> HIDE DEF left
  <2>1. QED
    BY <1>4 DEF CallRecord
<1>6. /\ \A d \in Caller : call'[d] = IF d = c THEN done ELSE Wake(Woken(o), ok)[d]
      /\ Complete(o, ks[o].timer) /\ Still /\ Free(o)
  BY DEF CompleteFetch, Wake
<1>7. Turn(left) = NoCall \/ Joins(Turn(left), issued)
  <2> HIDE DEF left
  <2>1. QED
    BY <1>4, TurnJoins DEF Shape
<1>8. done \in {left, slow, NoCall} \/ Joins(done, issued)
  <2> HIDE DEF left, slow, ok
  <2>1. QED
    BY <1>7
<1> HIDE DEF left, slow, done, ok
<1>9. FetchOnly(o)
  BY <1>2, <1>3, <1>6, CompleteOnly
<1>10. \A d \in Caller \ {c} : call'[d] = call[d] \/ Woke(call[d], call'[d])
  BY <1>6, WakeWoke
<1>11. ASSUME NEW p \in State, call'[c].o = p
       PROVE  /\ CallInv(c, call'[c], ks'[p], issued[KeyOf(p)])
              /\ \A y \in Carried(call'[c], ks'[p]) : q.o = p /\ y \in Carried(q, ks[p])
  <2> DEFINE r == ks[p]
             r2 == ks'[p]
             ids == issued[KeyOf(p)]
             q2 == call'[c]
  <2>1. r \in KeyRecord /\ r2 \in KeyRecord /\ q2 = done
    BY <1>1, <1>6
  <2>2. CASE Joins(q2, issued)
    <3>1. FreshCall(q2, ids)
      BY <1>11, <2>2 DEF Joins
    <3> HIDE DEF r, r2, ids, q2
    <3>2. CallInv(c, q2, r2, ids) /\ Carried(q2, r2) = {}
      BY <2>1, <3>1, FreshCallInv
    <3>3. QED
      BY <3>2 DEF r2, ids, q2
  <2>3. CASE q2 \in {left, slow}
    <3>1. /\ q2.pc \in FetchLabel \cup {"slow"} /\ q2.o = q.o
          /\ q2.generation = q.generation /\ q2.hadRange = q.hadRange
          /\ q2.id = q.id /\ q2.count = q.count /\ q2.floor = q.floor
      BY <1>1, <1>4, <1>5, <2>3
    <3>2. q.o = p /\ q.o # None
      BY <1>1, <1>11, <3>1
    <3>3. CallInv(c, q, r, ids)
      BY <3>2, OwnFacts DEF Own
    <3>4. /\ r2.generation = r.generation /\ r2.initialized = r.initialized
          /\ r2.start = r.start /\ r2.end = r.end /\ r2.next = r.next
      BY <1>9 DEF FetchOnly
    <3> HIDE DEF r, r2, ids, q, q2
    <3>5. CallInv(c, q2, r2, ids) /\ Carried(q2, r2) = Carried(q, r)
      BY <1>1, <2>1, <3>1, <3>3, <3>4, FetchCallInv
    <3>6. QED
      BY <3>2, <3>5 DEF r, r2, ids, q2
  <2>4. q2 # NoCall
    BY <1>1, <1>11
  <2>5. QED
    BY <1>8, <2>1, <2>2, <2>3, <2>4
<1>12. q.pc \notin Working
  BY <1>1 DEF FetchLabel, Working, BlockLabel, OddLabel
<1> HIDE DEF o
<1>13. QED
  BY <1>2, <1>3, <1>9, <1>10, <1>11, <1>12, FetchIds

\* A state that has just been created has no range, and only new calls.
LEMMA NewStateRow ==
    ASSUME NEW p \in State, NEW f \in [Caller -> Call], NEW ids, NEW m \in Nat,
           \A d \in Caller : f[d].o = p => FreshCall(f[d], ids)
    PROVE  RowOf(p, NewState, ids, m, f)
<1>1. /\ NewState \in KeyRecord /\ NewState.mu = None /\ NewState.generation = 0
      /\ NewState.standby = NoRange /\ NewState.fetch = NoFetch /\ NewState.end = 0
      /\ NewState.initialized = FALSE /\ NoFetch.at = "none"
  BY FreshTypes DEF NewState, NoFetch
<1>2. Ranges(NewState, ids, m)
  BY <1>1 DEF Ranges, Above
<1>3. \A d \in Caller : f[d].o = p => CallInv(d, f[d], NewState, ids) /\ Carried(f[d], NewState) = {}
  BY <1>1, FreshCallInv
<1>4. IsEven(0)
  BY DEF IsEven
<1>5. QED
  BY <1>1, <1>2, <1>3, <1>4 DEF RowOf

LEMMA BeginIds ==
    ASSUME Shape, KeyTypes', FetchInv, IdsInv, NEW c \in Caller, NEW a \in Requests, Begin(c, a)
    PROVE  IdsInv'
<1> DEFINE s == [Begun(a) EXCEPT !.pc = "prepare", !.o = Head(BeginStates(a))]
<1>1. /\ born' = [k \in Key |-> IF k \in NewKeys(a) THEN born[k] + 1 ELSE born[k]]
      /\ cached' = [k \in Key |-> IF k \in NewKeys(a) THEN born'[k] ELSE cached[k]]
      /\ ks' = ks /\ mark' = mark /\ issued' = issued /\ KeyTypes /\ StatesInv
      /\ call[c].pc = "idle"
  BY DEF Begin, NewKeys, Shape, At
<1>2. \A k \in Key : /\ born[k] \in Nat
                     /\ cached'[k] = IF k \in NewKeys(a) THEN born[k] + 1 ELSE cached[k]
  BY <1>1 DEF KeyTypes
<1>3. /\ Begun(a) \in CallRecord
      /\ call' = [call EXCEPT ![c] = IF a.batch THEN s ELSE Turn(Begun(a))]
      /\ call \in [Caller -> Call] /\ call' \in [Caller -> Call]
  BY <1>1, BegunCall DEF KeyTypes
<1>4. call'[c] = NoCall \/ Joins(call'[c], issued)
  <2>1. CASE a.batch
    <3>1. Head(BeginStates(a)) \in State
      BY <1>1, BeginFacts
    <3>2. Begun(a).generation = 0 /\ Begun(a).hadRange = FALSE /\ Begun(a).floor = 0
      BY DEF Begun, NoCall
    <3>3. /\ s.pc = "prepare" /\ s.o = Head(BeginStates(a)) /\ s.generation = 0
          /\ s.hadRange = FALSE /\ s.floor = 0
      BY <1>3, <3>2 DEF CallRecord
    <3>4. call'[c] = s
      BY <1>3, <2>1
    <3> HIDE DEF s
    <3>5. QED
      BY <3>1, <3>3, <3>4 DEF Joins, FreshCall
  <2>2. CASE ~a.batch
    BY <1>1, <1>3, <2>2, TurnJoins
  <2>3. QED
    BY <2>1, <2>2
<1>5. /\ \A d \in Caller \ {c} : call'[d] = call[d]
      /\ NoCall.o = None /\ None \notin State
  BY <1>3, ConstantFacts DEF NoCall
<1>6. ASSUME NEW p \in State, call'[c].o = p
      PROVE  FreshCall(call'[c], issued[KeyOf(p)])
  BY <1>4, <1>5, <1>6 DEF Joins
<1>7. ASSUME NEW p \in State, IsCached(p)'
      PROVE  Row(p)'
  <2>1. ks[p] \in KeyRecord /\ mark[KeyOf(p)] \in Nat /\ KeyOf(p) \in Key
    BY <1>1, StateFacts DEF KeyTypes
  <2>2. CASE IsCached(p)
    <3>1. Row(p) /\ Ranges(ks[p], issued[KeyOf(p)], mark[KeyOf(p)])
      BY <2>2 DEF IdsInv, RowInv, Row
    <3>2. call[c].pc \notin Working
      BY <1>1 DEF Working, BlockLabel, OddLabel
    <3>3. call'[c].o = p => /\ CallInv(c, call'[c], ks[p], issued[KeyOf(p)])
                            /\ Carried(call'[c], ks[p]) = {}
      BY <1>6, <2>1, FreshCallInv
    <3>4. RowStep(c, p)
      BY <1>1, <1>5, <2>1, <2>2, <3>1, <3>2, <3>3, FetchRow
    <3>5. QED
      BY <3>1, <3>4, RowStepInv
  <2>3. CASE ~IsCached(p)
    <3>1. ks[p] = NewState
      BY <1>1, <1>2, <1>7, <2>1, <2>3, StateFacts DEF IsCached, StatesInv
    <3>2. ASSUME NEW d \in Caller, call'[d].o = p
          PROVE  FreshCall(call'[d], issued[KeyOf(p)])
      <4>1. CASE d = c
        BY <1>6, <3>2, <4>1
      <4>2. CASE d # c
        <5>1. call[d].o = p /\ CallStates(call[d])
          BY <1>1, <1>5, <3>2, <4>2 DEF StatesInv
        <5>2. IsCached(p)
          BY <1>5, <5>1 DEF CallStates
        <5>3. QED
          BY <2>3, <5>2
      <4>3. QED
        BY <4>1, <4>2
    <3>3. RowOf(p, NewState, issued[KeyOf(p)], mark[KeyOf(p)], call')
      BY <1>3, <2>1, <3>2, NewStateRow
    <3>4. RowOf(p, ks'[p], issued'[KeyOf(p)], mark'[KeyOf(p)], call')
      BY <1>1, <3>1, <3>3
    <3>5. QED
      BY <3>4, RowCalls DEF Row, CallsOn
  <2>4. QED
    BY <2>2, <2>3
<1>8. QED
  BY <1>1, <1>7 DEF IdsInv, Row

\* A waiting call is cancelled.
LEMMA CancelIds ==
    ASSUME Shape, KeyTypes', IdsInv, NEW c \in Caller, Cancel(c)
    PROVE  IdsInv'
<1>1. /\ ks' = ks /\ mark' = mark /\ issued' = issued /\ cached' = cached
      /\ call' = [d \in Caller |-> IF d = c THEN NoCall ELSE call[d]] /\ call[c].pc = "wait"
  BY DEF Cancel, Ended, At
<1>2. ASSUME NEW p \in State, IsCached(p)
      PROVE  RowStep("prefetch", p)
  <2>1. ks[p] \in KeyRecord /\ "prefetch" \notin Caller
    BY ConstantFacts DEF Shape, KeyTypes
  <2>2. Ranges(ks[p], issued[KeyOf(p)], mark[KeyOf(p)])
    BY <1>2 DEF IdsInv, RowInv
  <2>3. \A d \in Caller : call'[d] = call[d] \/ Woke(call[d], call'[d])
    BY <1>1 DEF Woke
  <2>4. QED
    BY <1>1, <1>2, <2>1, <2>2, <2>3, FetchRow
<1>3. QED
  BY <1>1, <1>2, AllRows DEF IdsInv

LEMMA IdsStep ==
    ASSUME Shape, KeyTypes', FetchInv, IdsInv, [Next]_vars
    PROVE  IdsInv'
<1>1. CASE UNCHANGED vars \/ Withdraw
  BY <1>1, SameIds DEF vars, Withdraw, IsCached
<1>2. ASSUME NEW c \in Caller, NEW a \in Requests, Begin(c, a)
      PROVE  IdsInv'
  BY <1>2, BeginIds
<1>3. ASSUME NEW c \in Caller, CallStep(c)
      PROVE  IdsInv'
  <2>1. CASE PrepareBatchRange(c) \/ AfterAllocate(c)
    BY <2>1, BatchIdsStep, LocalIds
  <2>2. CASE \/ FastLoad(c) \/ FastAdd(c) \/ FastStart(c) \/ FastEnd(c) \/ FastRestart(c)
             \/ BlockLoad(c) \/ BlockNext(c) \/ BlockStart(c) \/ BlockEnd(c)
    BY <2>2, FastIds, LocalIds
  <2>3. CASE \/ FastReturn(c) \/ BlockSwap(c) \/ BlockReturn(c)
             \/ AllocateSlow(c) \/ AllocateBlockSlow(c) \/ BlockRefill(c)
             \/ ActivateOdd(c) \/ ActivateCursor(c) \/ ActivateStart(c) \/ ActivateEnd(c)
             \/ ActivateEven(c)
    BY <2>3, SlowIds, LocalIds
  <2>4. CASE Reserve(c) \/ CompleteFetch(c)
    BY <2>4, ReserveIds, CompleteIds
  <2>5. QED
    BY <1>3, <2>1, <2>2, <2>3, <2>4 DEF CallStep
<1>4. ASSUME NEW c \in Caller, Cancel(c)
      PROVE  IdsInv'
  BY <1>4, CancelIds
<1>5. ASSUME NEW o \in State, Background(o)
      PROVE  IdsInv'
  BY <1>5, BackgroundIds
<1>6. QED
  BY <1>1, <1>2, <1>3, <1>4, <1>5 DEF Next

LEMMA IdsInit == Init => IdsInv
<1> SUFFICES ASSUME Init
             PROVE  IdsInv
  OBVIOUS
<1>1. \A k \in Key : issued[k] = {}
  BY DEF Init
<1>2. \A o \in State : ~IsCached(o)
  BY StateFacts DEF Init, IsCached
<1>3. QED
  BY <1>1, <1>2 DEF IdsInv

LEMMA IdsHold == Spec => [](Shape /\ FetchInv /\ IdsInv)
<1>1. Shape /\ FetchInv /\ IdsInv /\ [Next]_vars => Shape' /\ FetchInv' /\ IdsInv'
  <2> SUFFICES ASSUME Shape, FetchInv, IdsInv, [Next]_vars
               PROVE  Shape' /\ FetchInv' /\ IdsInv'
    OBVIOUS
  <2>1. KeyTypes'
    BY TypesStep
  <2>2. QED
    BY <2>1, StatesStep, FetchInvStep, IdsStep DEF Shape
<1>2. Init => Shape /\ FetchInv /\ IdsInv
  BY ShapeInit, FetchInvInit, IdsInit
<1>3. QED
  BY <1>1, <1>2, PTL DEF Spec

-----------------------------------------------------------------------------
\* The promise to the callers.

\* What a call asks for, to MonotonicIds.
NotAsked == [floor |-> -1]
Asks(q) ==
    IF q.o = None \/ q.pc \in {"prepare", "after"} THEN NotAsked
    ELSE [key |-> KeyOf(q.o), floor |-> q.floor]
Asked == [c \in Caller |-> Asks(call[c])]

LEMMA NoCallAsks == Asks(NoCall) = NotAsked
  BY DEF Asks, NoCall

\* A call turns to its next key, and the others go on.
LEMMA TurnStarts ==
    ASSUME KeyTypes, FetchInv, IdsInv, NEW c \in Caller, NEW r \in CallRecord,
           call'[c] = Turn(r), r.todo # <<>>, issued' = issued, Asks(call[c]) = NotAsked,
           \A d \in Caller \ {c} : Asks(call'[d]) = Asks(call[d])
    PROVE  Promise!Next
<1> DEFINE o == Head(r.todo)
           k == KeyOf(o)
           floor == Max(issued[k] \cup {0})
           t == [r EXCEPT !.pc = IF r.count = 1 THEN "fast" ELSE "block",
                          !.o = o, !.todo = Tail(r.todo), !.floor = floor,
                          !.hadRange = FALSE, !.id = 0, !.generation = 0, !.start = 0]
<1>1. o \in State /\ k \in Key /\ o # None
  <2>1. r.todo \in Seq(State)
    BY DEF CallRecord
  <2>2. o \in State
    BY <2>1, HeadTailProperties
  <2>3. QED
    BY <2>2, StateFacts, ConstantFacts
<1>2. floor \in issued[k] \cup {0} /\ floor \in Nat /\ \A y \in issued[k] : y <= floor
  BY <1>1, MaxOfBounded DEF KeyTypes
<1>3. issued[k] \in SUBSET Nat /\ mark[k] \in Nat /\ MaxMark \in Nat /\ mark[k] <= MaxMark
  BY <1>1, ConstantFacts DEF KeyTypes, FetchInv
<1>4. \A y \in issued[k] : 1 <= y /\ y <= mark[k]
  BY <1>1 DEF IdsInv
<1>5. call'[c] = t
  BY DEF Turn
<1> HIDE DEF o, k, floor
<1>6. floor \in (1..MaxMark) \cup {0}
  BY <1>2, <1>3, <1>4
<1>7. \A y \in issued[k] : y < floor + 1
  BY <1>2, <1>3
<1>8. t.pc \in {"fast", "block"} /\ t.o = o /\ t.floor = floor
  BY DEF CallRecord
<1> HIDE DEF t
<1>9. Asks(call'[c]) = [key |-> k, floor |-> floor]
  BY <1>1, <1>5, <1>8 DEF Asks, k
<1>10. Asked' = [Asked EXCEPT ![c] = [key |-> k, floor |-> floor]]
  BY <1>9 DEF Asked
<1>11. Asked[c] = NotAsked
  BY DEF Asked
<1>12. \E d \in Caller, x \in Key, f \in (1..MaxMark) \cup {0} :
         /\ Asked[d] = NotAsked
         /\ f \in issued[x] \cup {0}
         /\ \A y \in issued[x] : y < f + 1
         /\ Asked' = [Asked EXCEPT ![d] = [key |-> x, floor |-> f]]
         /\ UNCHANGED issued
  BY <1>1, <1>2, <1>6, <1>7, <1>10, <1>11
<1>13. QED
  BY <1>12, Zenon DEF Promise!Next, Promise!Start, Promise!NoRequest, Promise!Below, Asked, Asks,
     NotAsked

\* Calls fail or go on, and nothing comes out.
LEMMA RestFails ==
    ASSUME issued' = issued,
           \A c \in Caller : Asks(call'[c]) \in {Asks(call[c]), NotAsked}
    PROVE  Promise!Next
<1> DEFINE failed == {c \in Caller : Asks(call'[c]) = NotAsked}
<1>1. Asked' = [c \in Caller |-> IF c \in failed THEN NotAsked ELSE Asked[c]]
  BY DEF Asked
<1>2. failed \in SUBSET Caller
  OBVIOUS
<1> HIDE DEF failed
<1>3. \E T \in SUBSET Caller :
        /\ Asked' = [c \in Caller |-> IF c \in T THEN NotAsked ELSE Asked[c]]
        /\ UNCHANGED issued
  BY <1>1, <1>2, Zenon
<1>4. QED
  BY <1>3, Zenon DEF Promise!Next, Promise!Fail, Promise!NoRequest, Asked, Asks, NotAsked

\* The last check of an allocation: the ids come out, or the call fails.
LEMMA IssueReturns ==
    ASSUME Shape, FetchInv, IdsInv, KeyTypes', IdsInv', NEW c \in Caller, call[c].o # None,
           call[c].pc \notin {"prepare", "after"}, LocalMove(c, call[c].o),
           NEW k, NEW first \in Nat, NEW generation, Issue(c, k, first, generation)
    PROVE  Promise!Next
<1> DEFINE q == call[c]
           x == KeyOf(q.o)
           last == first + q.count - 1
           ids == issued[x]
<1>1. /\ q \in CallRecord /\ x \in Key /\ ids \in SUBSET Nat /\ mark[x] \in Nat
      /\ q.o \in State /\ q.count \in Nat /\ q.floor \in Nat /\ q.count >= 1
      /\ call \in [Caller -> Call] /\ issued \in [Key -> SUBSET Nat]
  <2>1. /\ q \in CallRecord /\ x \in Key /\ ids \in SUBSET Nat /\ mark[x] \in Nat
        /\ q.o \in State /\ call \in [Caller -> Call] /\ issued \in [Key -> SUBSET Nat]
    BY CallTypes DEF Shape, KeyTypes
  <2>2. Own(c, q.o, q, ks[q.o], ids, mark[x])
    BY OwnFacts
  <2> HIDE DEF q, ids, x
  <2>3. QED
    BY <2>1, <2>2, OwnNumbers
<1>2. MaxMark \in Nat /\ mark[x] <= MaxMark
  BY <1>1, ConstantFacts DEF FetchInv
<1>3. CASE Ended({c}) /\ issued' = issued
  <2>1. \A d \in Caller : Asks(call'[d]) \in {Asks(call[d]), NotAsked}
    BY <1>3, NoCallAsks DEF Ended
  <2>2. QED
    BY <1>3, <2>1, RestFails
<1>4. CASE /\ issued' = [issued EXCEPT ![x] = Given(ids, first..last)]
           /\ call' = [call EXCEPT ![c].pc = "after", ![c].id = last,
                                   ![c].generation = generation]
  <2>1. issued'[x] = Given(ids, first..last)
    BY <1>1, <1>4
  <2>2. \A y \in issued'[x] : 1 <= y
    BY <1>1 DEF IdsInv
  <2>3. \A y \in issued'[x] \ ids : 1 <= y /\ y <= mark[x] /\ q.floor < y
    BY DEF LocalMove, OwnMove
  <2>4. last \in Int /\ first <= last
    BY <1>1
  <2> HIDE DEF q, ids, last, x
  <2>5. ids \cap first..last = {}
    <3>1. ids \cap first..last # {} => 0 \in issued'[x]
      BY <2>1 DEF Given
    <3>2. QED
      BY <2>2, <3>1
  <2>6. issued'[x] = ids \cup first..last
    BY <2>1, <2>5 DEF Given
  <2>7. first \in first..last /\ last \in first..last
    BY <2>4
  <2>8. /\ 1 <= first /\ first <= mark[x] /\ q.floor < first
        /\ 1 <= last /\ last <= mark[x]
    BY <2>3, <2>5, <2>6, <2>7
  <2>9. first \in 1..MaxMark /\ last \in 1..MaxMark
    BY <1>1, <1>2, <2>4, <2>8
  <2>10. Asks(q) = [key |-> x, floor |-> q.floor]
    BY DEF Asks, q, x
  <2>11. /\ \A d \in Caller \ {c} : call'[d] = call[d]
         /\ call'[c].pc = "after"
    BY <1>1, <1>4 DEF CallRecord, q
  <2>12. Asked' = [Asked EXCEPT ![c] = NotAsked]
    BY <2>11 DEF Asked, Asks
  <2>13. Asked[c] = [key |-> x, floor |-> q.floor]
    BY <2>10 DEF Asked, q
  <2>14. Asked[c].key = x /\ Asked[c].floor = q.floor
    BY <2>13
  <2>15. Asked[c] # NotAsked
    <3>1. NotAsked.floor = -1
      BY DEF NotAsked
    <3>2. QED
      BY <1>1, <2>14, <3>1
  <2>16. issued' = [issued EXCEPT ![x] = issued[x] \cup first..last]
    BY <1>4, <2>1, <2>6 DEF ids
  <2>17. /\ first > Asked[c].floor /\ issued[Asked[c].key] \cap first..last = {}
         /\ issued' = [issued EXCEPT ![Asked[c].key] = @ \cup first..last]
    BY <1>1, <2>5, <2>8, <2>14, <2>16 DEF ids
  <2> HIDE DEF NotAsked
  <2>18. \E d \in Caller, f, l \in 1..MaxMark :
           /\ Asked[d] # NotAsked
           /\ f > Asked[d].floor
           /\ f <= l
           /\ issued[Asked[d].key] \cap f..l = {}
           /\ issued' = [issued EXCEPT ![Asked[d].key] = @ \cup f..l]
           /\ Asked' = [Asked EXCEPT ![d] = NotAsked]
    BY <2>4, <2>9, <2>12, <2>15, <2>17
  <2>19. QED
    BY <2>18, Zenon DEF Promise!Next, Promise!Return, Promise!NoRequest, Asked, Asks, NotAsked
<1>5. QED
  BY <1>3, <1>4 DEF Issue

\* A call goes on with what it was asked for, or fails; the others stay.
GoesOn(c) ==
    /\ \A d \in Caller \ {c} : call'[d] = call[d]
    /\ \/ call'[c] = NoCall
       \/ /\ call'[c].o = call[c].o /\ call'[c].floor = call[c].floor
          /\ call'[c].pc \notin {"prepare", "after"}

LEMMA GoesOnAsks ==
    ASSUME NEW c \in Caller, GoesOn(c), call[c].pc \notin {"prepare", "after"},
           issued' = issued
    PROVE  Promise!Next
<1>1. Asks(call'[c]) \in {Asks(call[c]), NotAsked}
  BY NoCallAsks DEF GoesOn, Asks
<1>2. \A d \in Caller : Asks(call'[d]) \in {Asks(call[d]), NotAsked}
  BY <1>1 DEF GoesOn
<1>3. QED
  BY <1>2, RestFails

LEMMA GotoGoesOn ==
    ASSUME KeyTypes, NEW c \in Caller, NEW pc, pc \notin {"prepare", "after"}, Goto(c, pc)
    PROVE  GoesOn(c)
<1>1. call[c] \in CallRecord /\ call \in [Caller -> Call]
  BY CallTypes DEF KeyTypes
<1>2. QED
  BY <1>1 DEF Goto, GoesOn, CallRecord

LEMMA EndedGoesOn ==
    ASSUME NEW c \in Caller, Ended({c})
    PROVE  GoesOn(c)
  BY DEF Ended, GoesOn

LEMMA RefillGoesOn ==
    ASSUME KeyTypes, NEW c \in Caller, NEW k, Refill(c, k)
    PROVE  GoesOn(c)
<1>1. call[c] \in CallRecord /\ call \in [Caller -> Call]
  BY CallTypes DEF KeyTypes
<1>2. CASE call' = [call EXCEPT ![c].pc = "reserve", ![c].pending = <<call[c].o>>]
  BY <1>1, <1>2 DEF GoesOn, CallRecord
<1>3. CASE Goto(c, "odd") \/ Goto(c, "wait") \/ Ended({c})
  BY <1>3, GotoGoesOn, EndedGoesOn
<1>4. QED
  BY <1>2, <1>3 DEF Refill

LEMMA FastPromise ==
    ASSUME Shape, NEW c \in Caller,
           \/ FastLoad(c) \/ FastAdd(c) \/ FastStart(c) \/ FastEnd(c) \/ FastRestart(c)
           \/ BlockLoad(c) \/ BlockNext(c) \/ BlockStart(c) \/ BlockEnd(c)
    PROVE  Promise!Next
<1>1. /\ call[c] \in CallRecord /\ call \in [Caller -> Call] /\ KeyTypes
      /\ Missed(c) \in {"rest", "slow"}
  BY CallTypes DEF Shape, KeyTypes, Missed
<1>2. call[c].pc \notin {"prepare", "after"} /\ issued' = issued
  BY DEF At, FastLoad, FastAdd, FastStart, FastEnd, FastRestart, BlockLoad, BlockNext, BlockStart,
     BlockEnd, Read, Still
<1>3. GoesOn(c)
  <2>1. CASE FastAdd(c)
    <3>1. CASE Ended({c})
      BY <3>1, EndedGoesOn
    <3>2. CASE call' = [call EXCEPT ![c].id = Mine(c).next + 1,
                          ![c].pc = IF call[c].generation % 2 = 0 THEN "start" ELSE "slow"]
      BY <1>1, <3>2 DEF GoesOn, CallRecord
    <3>3. QED
      BY <2>1, <3>1, <3>2 DEF FastAdd
  <2>2. CASE FastLoad(c)
    BY <1>1, <2>2 DEF FastLoad, GoesOn, CallRecord
  <2>3. CASE FastStart(c)
    BY <1>1, <2>3 DEF FastStart, GoesOn, CallRecord
  <2>4. CASE BlockLoad(c)
    BY <1>1, <2>4 DEF BlockLoad, GoesOn, CallRecord
  <2>5. CASE BlockNext(c)
    BY <1>1, <2>5 DEF BlockNext, GoesOn, CallRecord
  <2>6. CASE FastEnd(c) \/ FastRestart(c) \/ BlockStart(c) \/ BlockEnd(c)
    <3>1. PICK pc \in {"restart", "slow", "generation", "last", "cas", "rest"} : Goto(c, pc)
      BY <1>1, <2>6 DEF FastEnd, FastRestart, BlockStart, BlockEnd, Read
    <3>2. QED
      BY <1>1, <3>1, GotoGoesOn
  <2>7. QED
    BY <2>1, <2>2, <2>3, <2>4, <2>5, <2>6
<1>4. QED
  BY <1>2, <1>3, GoesOnAsks

LEMMA SlowPromise ==
    ASSUME Shape, FetchInv, IdsInv, KeyTypes', IdsInv', NEW c \in Caller,
           \/ FastReturn(c) \/ BlockSwap(c) \/ BlockReturn(c)
           \/ AllocateSlow(c) \/ AllocateBlockSlow(c) \/ BlockRefill(c)
           \/ ActivateOdd(c) \/ ActivateCursor(c) \/ ActivateStart(c) \/ ActivateEnd(c)
           \/ ActivateEven(c)
    PROVE  Promise!Next
<1> DEFINE o == call[c].o
           k == Mine(c)
<1>1. /\ call[c] \in CallRecord /\ k \in KeyRecord /\ o # None /\ KeyTypes
  BY CallTypes DEF Shape, KeyTypes, StatesInv, CallStates, FetchLabel, At, FastReturn, BlockSwap,
     BlockReturn, AllocateSlow, AllocateBlockSlow, BlockRefill, ActivateOdd, ActivateCursor,
     ActivateStart, ActivateEnd, ActivateEven, Mine
<1>2. LocalMove(c, o)
  BY SlowIds
<1>3. call[c].pc \notin {"prepare", "after"}
  BY DEF At, FastReturn, BlockSwap, BlockReturn, AllocateSlow, AllocateBlockSlow, BlockRefill,
     ActivateOdd, ActivateCursor, ActivateStart, ActivateEnd, ActivateEven
<1>4. /\ k.next + 1 \in Nat /\ call[c].id \in Nat /\ call[c].id + 1 \in Nat
      /\ k.standby.start \in Nat
  <2> HIDE DEF k
  <2>1. k.next \in Nat /\ k.standby \in Block
    BY <1>1 DEF KeyRecord
  <2>2. call[c].id \in Nat
    BY <1>1 DEF CallRecord
  <2>3. QED
    BY <2>1, <2>2 DEF Block
<1>5. ASSUME NEW x, NEW first \in Nat, NEW generation, Issue(c, x, first, generation)
      PROVE  Promise!Next
  BY <1>1, <1>2, <1>3, <1>5, IssueReturns
<1>6. ASSUME Still, NEW pc \in {"slow", "rest", "swapped", "block"} \cup OddLabel, Goto(c, pc)
      PROVE  Promise!Next
  <2>1. pc \notin {"prepare", "after"}
    BY <1>6 DEF OddLabel
  <2>2. QED
    BY <1>1, <1>3, <1>6, <2>1, GotoGoesOn, GoesOnAsks DEF Still
<1>7. ASSUME Still, Ended({c})
      PROVE  Promise!Next
  BY <1>3, <1>7, EndedGoesOn, GoesOnAsks DEF Still
<1>8. ASSUME Still, NEW x, Refill(c, x)
      PROVE  Promise!Next
  BY <1>1, <1>3, <1>8, RefillGoesOn, GoesOnAsks DEF Still
<1>9. Missed(c) \in {"slow", "rest"}
  BY DEF Missed
<1> HIDE DEF o
<1>10. CASE FastReturn(c)
  BY <1>4, <1>5, <1>6, <1>10 DEF FastReturn
<1>11. CASE BlockSwap(c)
  BY <1>6, <1>7, <1>9, <1>11 DEF BlockSwap
<1>12. CASE BlockReturn(c)
  BY <1>4, <1>5, <1>6, <1>9, <1>12 DEF BlockReturn
<1>13. CASE AllocateSlow(c)
  <2> DEFINE again == [k EXCEPT !.next = @ + 1]
  <2>1. \/ Ended({c}) /\ Still
        \/ Refill(c, k) /\ Still
        \/ Issue(c, k, call[c].id, k.generation)
        \/ Issue(c, again, again.next, k.generation)
        \/ Refill(c, again) /\ Still
    BY <1>13 DEF AllocateSlow
  <2>2. again.next \in Nat
    BY <1>1, <1>4 DEF KeyRecord
  <2> HIDE DEF again, k
  <2>3. QED
    BY <1>4, <1>5, <1>7, <1>8, <2>1, <2>2
<1>14. CASE AllocateBlockSlow(c)
  BY <1>6, <1>14 DEF AllocateBlockSlow
<1>15. CASE BlockRefill(c)
  BY <1>8, <1>15 DEF BlockRefill
<1>16. CASE ActivateOdd(c) \/ ActivateCursor(c) \/ ActivateStart(c) \/ ActivateEnd(c)
  <2>1. Still /\ \E pc \in OddLabel : Goto(c, pc)
    BY <1>16 DEF ActivateOdd, ActivateCursor, ActivateStart, ActivateEnd, Write, OddLabel
  <2>2. QED
    BY <1>6, <2>1
<1>17. CASE ActivateEven(c)
  BY <1>4, <1>5, <1>17 DEF ActivateEven
<1>18. QED
  BY <1>10, <1>11, <1>12, <1>13, <1>14, <1>15, <1>16, <1>17

\* A call that asks for nothing turns to its next key, or is over.
LEMMA TurnPromise ==
    ASSUME KeyTypes, FetchInv, IdsInv, NEW c \in Caller, NEW r \in CallRecord,
           call'[c] = Turn(r), issued' = issued, Asks(call[c]) = NotAsked,
           \A d \in Caller \ {c} : Asks(call'[d]) = Asks(call[d])
    PROVE  Promise!Next
<1>1. CASE r.todo # <<>>
  BY <1>1, TurnStarts
<1>2. CASE r.todo = <<>>
  <2>1. call'[c] = NoCall
    BY <1>2 DEF Turn
  <2>2. Asks(call'[c]) = NotAsked
    BY <2>1, NoCallAsks
  <2>3. \A d \in Caller : Asks(call'[d]) \in {Asks(call[d]), NotAsked}
    BY <2>2
  <2>4. QED
    BY <2>3, RestFails
<1>3. QED
  BY <1>1, <1>2

LEMMA BatchPromise ==
    ASSUME Shape, FetchInv, IdsInv, NEW c \in Caller, PrepareBatchRange(c) \/ AfterAllocate(c)
    PROVE  Promise!Next
<1> DEFINE r == call[c]
<1>1. r \in CallRecord /\ call \in [Caller -> Call] /\ KeyTypes
  BY CallTypes DEF Shape, KeyTypes
<1>2. \A d \in Caller \ {c} : call'[d] = call[d]
  BY BatchCalls DEF OwnStep
<1>3. Asks(r) = NotAsked /\ issued' = issued
  BY DEF Asks, PrepareBatchRange, AfterAllocate, At
<1>4. CASE call'[c] = Turn(r)
  BY <1>1, <1>2, <1>3, <1>4, TurnPromise
<1>5. CASE Asks(call'[c]) = NotAsked
  <2>1. \A d \in Caller : Asks(call'[d]) \in {Asks(call[d]), NotAsked}
    BY <1>2, <1>5
  <2>2. QED
    BY <1>3, <2>1, RestFails
<1>6. CASE AfterAllocate(c)
  BY <1>1, <1>4, <1>6 DEF AfterAllocate
<1>7. CASE PrepareBatchRange(c)
  <2> DEFINE n == CHOOSE n \in DOMAIN r.todo : r.todo[n] = r.o
             wanted == ~HasReadyBlock(Mine(c), r.count) /\ Mine(c).fetch = NoFetch
             pending == IF wanted THEN Append(r.pending, r.o) ELSE r.pending
             more == [r EXCEPT !.o = r.todo[n + 1], !.pending = pending]
             sent == [r EXCEPT !.pc = "reserve", !.o = None, !.pending = pending]
  <2>1. call'[c] \in {more, sent, Turn(r)} /\ r.pc = "prepare"
    BY <1>1, <1>7 DEF PrepareBatchRange, At
  <2> HIDE DEF n, pending
  <2>2. more.pc = r.pc /\ sent.o = None
    BY <1>1 DEF CallRecord
  <2> HIDE DEF more, sent
  <2>3. call'[c] \in {more, sent} => Asks(call'[c]) = NotAsked
    BY <2>1, <2>2 DEF Asks
  <2>4. QED
    BY <1>4, <1>5, <2>1, <2>3
<1>8. QED
  BY <1>6, <1>7

\* A fetch ends, and its waiters go on or fail.
LEMMA WakeAsks ==
    ASSUME KeyTypes, NEW o, NEW ok, NEW c \in Caller
    PROVE  /\ Asks(Wake(Woken(o), ok)[c]) \in {Asks(call[c]), NotAsked}
           /\ ok = TRUE => Asks(Wake(Woken(o), ok)[c]) = Asks(call[c])
<1>1. call[c] \in CallRecord
  BY CallTypes DEF KeyTypes
<1>2. /\ [call[c] EXCEPT !.pc = "slow"].o = call[c].o
      /\ [call[c] EXCEPT !.pc = "slow"].floor = call[c].floor
      /\ [call[c] EXCEPT !.pc = "slow"].pc = "slow"
  BY <1>1 DEF CallRecord
<1>3. c \in Woken(o) => Asks([call[c] EXCEPT !.pc = "slow"]) = Asks(call[c])
  BY <1>2 DEF Woken, Waiters, At, Asks
<1>4. Wake(Woken(o), ok)[c] = IF c \notin Woken(o) THEN call[c]
                              ELSE IF ok THEN [call[c] EXCEPT !.pc = "slow"] ELSE NoCall
  BY DEF Wake
<1>5. QED
  BY <1>3, <1>4, NoCallAsks

LEMMA CompletePromise ==
    ASSUME Shape, FetchInv, IdsInv, NEW c \in Caller, CompleteFetch(c)
    PROVE  Promise!Next
<1> DEFINE q == call[c]
           o == Head(q.pending)
           ok == At(c, "complete")
           left == [q EXCEPT !.pending = Tail(@)]
           slow == [left EXCEPT !.pc = "slow"]
           done == IF left.pending # <<>> THEN left
                   ELSE IF ~ok THEN NoCall
                   ELSE IF q.o = None THEN Turn(left)
                   ELSE slow
<1>1. /\ q \in CallRecord /\ q.pc \in {"complete", "fail"} /\ KeyTypes
      /\ Tail(q.pending) \in Seq(State) /\ issued' = issued
  BY CallTypes, FirstPending DEF Shape, CompleteFetch, FetchLabel, Still
<1>2. /\ left \in CallRecord /\ left.pc = q.pc /\ left.o = q.o /\ left.floor = q.floor
  BY <1>1 DEF CallRecord
<1>3. slow.pc = "slow" /\ slow.o = q.o /\ slow.floor = q.floor
  <2> HIDE DEF left
  <2>1. QED
    BY <1>2 DEF CallRecord
<1>4. \A d \in Caller : call'[d] = IF d = c THEN done ELSE Wake(Woken(o), ok)[d]
  BY DEF CompleteFetch, Wake
<1>5. done \in {left, slow, NoCall} \/ (done = Turn(left) /\ q.o = None /\ ok)
  <2> HIDE DEF left, slow, ok
  <2>1. QED
    OBVIOUS
<1> HIDE DEF left, slow, done, o
<1>6. CASE done \in {left, slow, NoCall}
  <2>1. Asks(done) \in {Asks(q), NotAsked}
    BY <1>1, <1>2, <1>3, <1>6, NoCallAsks DEF Asks
  <2> HIDE DEF ok
  <2>2. \A d \in Caller : Asks(call'[d]) \in {Asks(call[d]), NotAsked}
    BY <1>1, <1>4, <2>1, WakeAsks
  <2>3. QED
    BY <1>1, <2>2, RestFails
<1>7. CASE done = Turn(left) /\ q.o = None /\ ok
  <2>1. Asks(q) = NotAsked /\ call'[c] = Turn(left)
    BY <1>4, <1>7 DEF Asks
  <2>2. ok = TRUE
    BY <1>7 DEF At
  <2> HIDE DEF ok
  <2>3. \A d \in Caller \ {c} : Asks(call'[d]) = Asks(call[d])
    BY <1>1, <1>4, <2>2, WakeAsks
  <2>4. QED
    BY <1>1, <1>2, <2>1, <2>3, TurnPromise
<1>8. QED
  BY <1>5, <1>6, <1>7

LEMMA BeginPromise ==
    ASSUME Shape, FetchInv, IdsInv, NEW c \in Caller, NEW a \in Requests, Begin(c, a)
    PROVE  Promise!Next
<1> DEFINE s == [Begun(a) EXCEPT !.pc = "prepare", !.o = Head(BeginStates(a))]
<1>1. /\ Begun(a) \in CallRecord /\ KeyTypes
      /\ call' = [call EXCEPT ![c] = IF a.batch THEN s ELSE Turn(Begun(a))]
      /\ call \in [Caller -> Call] /\ issued' = issued /\ call[c] = NoCall
  BY BegunCall, CallTypes, CallFields DEF Shape, KeyTypes, Begin, At
<1>2. s.pc = "prepare"
  BY <1>1 DEF CallRecord
<1>3. Asks(call[c]) = NotAsked
  BY <1>1, NoCallAsks
<1> HIDE DEF s
<1>4. CASE a.batch
  <2>1. Asks(call'[c]) = NotAsked
    BY <1>1, <1>2, <1>4 DEF Asks
  <2>2. \A d \in Caller : Asks(call'[d]) \in {Asks(call[d]), NotAsked}
    BY <1>1, <2>1
  <2>3. QED
    BY <1>1, <2>2, RestFails
<1>5. CASE ~a.batch
  <2>1. call'[c] = Turn(Begun(a)) /\ \A d \in Caller \ {c} : Asks(call'[d]) = Asks(call[d])
    BY <1>1, <1>5
  <2>2. QED
    BY <1>1, <1>3, <2>1, TurnPromise
<1>6. QED
  BY <1>4, <1>5

LEMMA PromiseStep ==
    ASSUME Shape, FetchInv, IdsInv, KeyTypes', IdsInv', [Next]_vars
    PROVE  Promise!Next
<1>1. ASSUME issued' = issued, call' = call
      PROVE  Promise!Next
  BY <1>1, RestFails
<1>2. CASE UNCHANGED vars \/ Withdraw
  BY <1>1, <1>2 DEF vars, Withdraw
<1>3. ASSUME NEW c \in Caller, NEW a \in Requests, Begin(c, a)
      PROVE  Promise!Next
  BY <1>3, BeginPromise
<1>4. ASSUME NEW c \in Caller, CallStep(c)
      PROVE  Promise!Next
  <2>1. CASE PrepareBatchRange(c) \/ AfterAllocate(c)
    BY <2>1, BatchPromise
  <2>2. CASE \/ FastLoad(c) \/ FastAdd(c) \/ FastStart(c) \/ FastEnd(c) \/ FastRestart(c)
             \/ BlockLoad(c) \/ BlockNext(c) \/ BlockStart(c) \/ BlockEnd(c)
    BY <2>2, FastPromise
  <2>3. CASE \/ FastReturn(c) \/ BlockSwap(c) \/ BlockReturn(c)
             \/ AllocateSlow(c) \/ AllocateBlockSlow(c) \/ BlockRefill(c)
             \/ ActivateOdd(c) \/ ActivateCursor(c) \/ ActivateStart(c) \/ ActivateEnd(c)
             \/ ActivateEven(c)
    BY <2>3, SlowPromise
  <2>4. CASE Reserve(c)
    <3>1. PICK pc \in {"complete", "fail"} : Goto(c, pc)
      BY <2>4 DEF Reserve
    <3>2. call[c].pc \notin {"prepare", "after"} /\ issued' = issued
      BY <2>4 DEF Reserve, At
    <3>3. GoesOn(c)
      BY <3>1, GotoGoesOn DEF Shape
    <3>4. QED
      BY <3>2, <3>3, GoesOnAsks
  <2>5. CASE CompleteFetch(c)
    BY <2>5, CompletePromise
  <2>6. QED
    BY <1>4, <2>1, <2>2, <2>3, <2>4, <2>5 DEF CallStep
<1>5. ASSUME NEW c \in Caller, Cancel(c)
      PROVE  Promise!Next
  <2>1. call[c].pc \notin {"prepare", "after"} /\ issued' = issued /\ Ended({c})
    BY <1>5 DEF Cancel, At
  <2>2. QED
    BY <2>1, EndedGoesOn, GoesOnAsks
<1>6. ASSUME NEW o \in State, Background(o)
      PROVE  Promise!Next
  <2>1. CASE CompletePrefetch(o)
    <3>1. call' = Wake(Woken(o), TRUE) /\ issued' = issued
      BY <2>1 DEF CompletePrefetch, Still
    <3>2. \A d \in Caller : Asks(call'[d]) \in {Asks(call[d]), NotAsked}
      BY <3>1, WakeAsks DEF Shape
    <3>3. QED
      BY <3>1, <3>2, RestFails
  <2>2. CASE \/ BackgroundReserve(o) \/ TimerFires(o) \/ RetryPrefetch(o) \/ CollectIdle(o)
             \/ EvictIdle(o)
    BY <1>1, <2>2 DEF BackgroundReserve, TimerFires, RetryPrefetch, CollectIdle, EvictIdle, Still
  <2>3. QED
    BY <1>6, <2>1, <2>2 DEF Background
<1>7. QED
  BY <1>2, <1>3, <1>4, <1>5, <1>6 DEF Next

\* What the service promises its callers, per key, for any number of callers, keys,
\* states and ids, and whatever the callers interleave while a refill rewrites the range
\* under them: no id twice, and every id above those that were out when the call began
\* (allocate, tryAllocateBlock, activateStandbyLocked).
THEOREM KeyIdsAreMonotonic == Spec => Monotonic
<1>1. Init => Promise!Init
  BY NoCallAsks, ConstantFacts DEF Init, NoCall, Promise!Init, Promise!NoRequest
<1>2. /\ Shape /\ FetchInv /\ IdsInv /\ (Shape /\ FetchInv /\ IdsInv)' /\ [Next]_vars
      => [Promise!Next]_Promise!vars
  BY PromiseStep DEF Shape
<1>3. QED
  BY <1>1, <1>2, IdsHold, PTL DEF Spec, Monotonic, Promise!Spec
=============================================================================
