--------------------------- MODULE KeyStateProofs ---------------------------
(***************************************************************************)
(* The keys of one slot: one reservation in flight per key, and evicted    *)
(* states are dead, for any number of callers, keys and states, whatever   *)
(* the callers interleave.                                                 *)
(***************************************************************************)
EXTENDS KeyState, TLAPS, FiniteSetTheorems, SequenceTheorems, WellFoundedInduction

-----------------------------------------------------------------------------
\* Types.

Block == [start: Nat \ {0}, end: Nat]

Fetch == [by: Caller \cup {"prefetch", None}, at: {"none", "sent", "answered", "failed"},
          got: Block]

KeyRecord ==
    [generation: Nat, initialized: BOOLEAN, next: Nat, start: Nat, end: Nat,
     standby: Block, fetch: Fetch, mu: Caller \cup {None}, timer: Nat, fired: Nat,
     recent: BOOLEAN, retired: BOOLEAN]

FastLabel == {"start", "end", "restart", "generation"}
BlockLabel == {"next", "first", "last", "cas", "swapped"}
OddLabel == {"cursor", "low", "high", "even"}
FetchLabel == {"reserve", "complete", "fail"}
Label == {"idle", "prepare", "wait", "after", "fast", "add", "slow", "block", "rest", "odd"}
            \cup FastLabel \cup BlockLabel \cup OddLabel \cup FetchLabel

CallRecord ==
    [pc: Label, todo: Seq(State), count: Nat, held: SUBSET State, pending: Seq(State),
     o: State \cup {None}, generation: Nat, hadRange: BOOLEAN, id: Nat, start: Nat,
     floor: Nat]

Call == {NoCall} \cup {r \in CallRecord : r.pc # "idle" /\ r.count # 0}

Bounded(ids) == \E m \in Nat : \A y \in ids : y <= m

KeyTypes ==
    /\ mark \in [Key -> Nat] /\ owned \in BOOLEAN
    /\ cached \in [Key -> 0..MaxStates] /\ born \in [Key -> 0..MaxStates]
    /\ ks \in [State -> KeyRecord]
    /\ call \in [Caller -> Call]
    /\ issued \in [Key -> SUBSET Nat]
    /\ \A k \in Key : Bounded(issued[k])

-----------------------------------------------------------------------------
\* Which states there are, and who is at work on them.

IsCached(o) == cached[KeyOf(o)] = o[2]

\* Everybody works on cached states, and nothing else happens to the others.
CallStates(r) ==
    /\ \A o \in r.held : IsCached(o)
    /\ r.todo \in Seq(r.held) /\ r.pending \in Seq(r.held)
    /\ r.o # None => r.o \in r.held
    /\ r.o = None => r.pc \in FetchLabel \cup {"idle"}
    /\ r.pc = "prepare" => \E n \in DOMAIN r.todo : r.todo[n] = r.o
    /\ r.pc \in FetchLabel => r.pending # <<>>

StatesInv ==
    /\ \A k \in Key : cached[k] <= born[k]
    /\ \A o \in State : o[2] > born[KeyOf(o)] => ks[o] = NewState
    /\ \A o \in State : ~IsCached(o) => ks[o].fetch = NoFetch /\ ks[o].timer = 0
    /\ \A o \in State : IsCached(o) => ~ks[o].retired
    /\ \A c \in Caller : CallStates(call[c])

-----------------------------------------------------------------------------
\* Facts about numbers and sequences.

LEMMA ConstantFacts ==
    /\ Step \in Nat \ {0} /\ MaxMark \in Nat /\ MaxStates \in Nat
    /\ None \notin Caller /\ None \notin State /\ "prefetch" \notin Caller /\ None # "prefetch"
    /\ \A r \in Requests : r.keys \in Seq(Key) /\ r.keys # <<>> /\ r.count \in Nat \ {0}
  BY KeyStateAssumption DEF KeyStateAssumption, State

LEMMA StateFacts ==
    ASSUME NEW o \in State
    PROVE  KeyOf(o) \in Key /\ o[2] \in 1..MaxStates /\ o = <<KeyOf(o), o[2]>>
  BY DEF State, KeyOf

LEMMA Least ==
    ASSUME NEW S \in SUBSET Nat, S # {}
    PROVE  \E x \in S : \A y \in S : x <= y
<1>0. S \subseteq Nat
  OBVIOUS
<1>1. OpToRel(<, Nat) = {ss \in Nat \X Nat : ss[1] < ss[2]}
  BY DEF OpToRel
<1>2. PICK x \in S : \A y \in S : ~(<<y, x>> \in OpToRel(<, Nat))
  BY <1>0, NatLessThanWellFounded, WFMin
<1>3. ASSUME NEW y \in S, y < x
      PROVE  FALSE
  <2>1. <<y, x>> \in {ss \in Nat \X Nat : ss[1] < ss[2]}
    BY <1>3
  <2>2. QED
    BY <1>1, <1>2, <2>1, Zenon
<1>4. QED
  BY <1>3

LEMMA GreatestIsMax ==
    ASSUME NEW S \in SUBSET Nat, NEW m \in Nat, \A y \in S : y <= m, S # {}
    PROVE  Max(S) \in S /\ \A y \in S : y <= Max(S)
<1> DEFINE T == {d \in Nat : \E y \in S : d = m - y}
<1>1. T \in SUBSET Nat
  OBVIOUS
<1>2. T # {}
  <2>1. PICK y \in S : TRUE
    OBVIOUS
  <2>2. m - y \in Nat
    BY y \in Nat, y <= m
  <2>3. m - y \in T
    BY <2>2
  <2>4. QED
    BY <2>3
<1>3. PICK t \in T : \A u \in T : t <= u
  BY <1>1, <1>2, Least
<1>4. PICK x \in S : t = m - x
  OBVIOUS
<1>5. ASSUME NEW y \in S
      PROVE  x >= y
  <2>1. y \in Nat /\ x \in Nat /\ y <= m /\ x <= m
    OBVIOUS
  <2>2. m - y \in T
    BY <2>1
  <2> HIDE DEF T
  <2>3. QED
    BY <1>3, <1>4, <2>1, <2>2
<1>6. Max(S) \in S /\ \A y \in S : Max(S) >= y
  BY <1>5, Zenon DEF Max
<1>7. \A y \in S : y \in Nat
  OBVIOUS
<1>8. QED
  BY <1>6, <1>7

\* The greatest id there is, and 0 for none.
LEMMA MaxOfBounded ==
    ASSUME NEW S \in SUBSET Nat, Bounded(S)
    PROVE  /\ Max(S \cup {0}) \in S \cup {0}
           /\ Max(S \cup {0}) \in Nat
           /\ \A y \in S : y <= Max(S \cup {0})
<1>1. PICK m \in Nat : \A y \in S : y <= m
  BY DEF Bounded
<1>2. /\ S \cup {0} \in SUBSET Nat
      /\ \A y \in S \cup {0} : y <= m
      /\ S \cup {0} # {}
  BY <1>1
<1>3. /\ Max(S \cup {0}) \in S \cup {0}
      /\ \A y \in S \cup {0} : y <= Max(S \cup {0})
  BY <1>2, GreatestIsMax
<1>4. QED
  BY <1>2, <1>3

LEMMA StepForSize ==
    ASSUME NEW n \in Nat
    PROVE  StepFor(n) \in Nat /\ StepFor(n) >= Step /\ StepFor(n) >= n
<1>1. Step \in Nat
  BY ConstantFacts
<1>2. {Step, n} \in SUBSET Nat /\ {Step, n} # {} /\ \A y \in {Step, n} : y <= Step + n
  BY <1>1
<1>3. Step + n \in Nat
  BY <1>1
<1>4. Max({Step, n}) \in {Step, n} /\ \A y \in {Step, n} : y <= Max({Step, n})
  BY <1>2, <1>3, GreatestIsMax
<1>5. QED
  BY <1>1, <1>4 DEF StepFor

LEMMA OneKey ==
    ASSUME NEW S, NEW x \in S
    PROVE  <<x>> \in Seq(S) /\ <<x>> # <<>> /\ Len(<<x>>) = 1 /\ <<x>>[1] = x
  OBVIOUS

LEMMA CallFields ==
    ASSUME NEW r \in Call
    PROVE  r \in CallRecord /\ (r.pc = "idle" => r = NoCall) /\ (r.pc # "idle" => r.count # 0)
<1>1. NoCall \in CallRecord /\ NoCall.pc = "idle"
  BY EmptySeq DEF CallRecord, NoCall, Label
<1>2. QED
  BY <1>1 DEF Call

\* The call turns to its next key.
LEMMA TurnCall ==
    ASSUME KeyTypes, NEW r \in Call, r.pc # "idle"
    PROVE  Turn(r) \in Call /\ (Turn(r) = NoCall \/ Turn(r).pc \in {"fast", "block"})
<1>1. r \in CallRecord /\ r.count # 0
  BY CallFields
<1>2. ASSUME r.todo # <<>>
      PROVE  LET o == Head(r.todo)
                 t == [r EXCEPT !.pc = IF r.count = 1 THEN "fast" ELSE "block",
                       !.o = o, !.todo = Tail(r.todo),
                       !.floor = Max(issued[KeyOf(o)] \cup {0}),
                       !.hadRange = FALSE, !.id = 0, !.generation = 0, !.start = 0]
             IN  t \in CallRecord /\ t.pc \in {"fast", "block"} /\ t.count # 0
  <2>1. r.todo \in Seq(State)
    BY <1>1 DEF CallRecord
  <2>2. Head(r.todo) \in State /\ Tail(r.todo) \in Seq(State)
    BY <1>2, <2>1, HeadTailProperties
  <2>3. KeyOf(Head(r.todo)) \in Key
    BY <2>2, StateFacts
  <2>4. Max(issued[KeyOf(Head(r.todo))] \cup {0}) \in Nat
    BY <2>3, MaxOfBounded DEF KeyTypes
  <2>5. QED
    BY <1>1, <2>2, <2>4 DEF CallRecord, Label
<1>3. QED
  BY <1>2 DEF Turn, Call

-----------------------------------------------------------------------------
\* Types, action by action.

LEMMA CallTypes ==
    ASSUME KeyTypes, NEW c \in Caller
    PROVE  /\ call[c] \in Call /\ call[c] \in CallRecord
           /\ call[c].o # None =>
                call[c].o \in State /\ Mine(c) \in KeyRecord /\ KeyOf(call[c].o) \in Key
<1>1. call[c] \in Call /\ call[c] \in CallRecord
  BY CallFields DEF KeyTypes
<1>2. QED
  BY <1>1, StateFacts DEF KeyTypes, CallRecord, Mine

\* Issue, and with it all the actions that end in one.
LEMMA IssueTypes ==
    ASSUME KeyTypes, NEW c \in Caller, call[c].o # None, ~At(c, "idle"),
           NEW k \in KeyRecord, NEW first \in Nat, NEW generation \in Nat,
           Issue(c, k, first, generation)
    PROVE  KeyTypes'
<1> DEFINE o == call[c].o
           last == first + call[c].count - 1
<1>1. o \in State /\ KeyOf(o) \in Key /\ call[c] \in CallRecord /\ call[c].count # 0
  BY CallTypes, CallFields DEF At
<1>2. last \in Nat
  BY <1>1 DEF CallRecord
<1>3. ks' \in [State -> KeyRecord]
  BY <1>1, ConstantFacts DEF Issue, KeyTypes, KeyRecord
<1>4. call' \in [Caller -> Call]
  <2>1. \/ call' = [call EXCEPT ![c].pc = "after", ![c].id = last, ![c].generation = generation]
        \/ Ended({c})
    BY <1>1 DEF Issue
  <2>2. [call[c] EXCEPT !.pc = "after", !.id = last, !.generation = generation] \in Call
    BY <1>1, <1>2 DEF CallRecord, Call, Label
  <2>3. NoCall \in Call
    BY DEF Call
  <2> HIDE DEF last
  <2>4. QED
    BY <2>1, <2>2, <2>3 DEF Ended, KeyTypes
<1>5. /\ issued' \in [Key -> SUBSET Nat]
      /\ \A x \in Key : Bounded(issued'[x])
  <2>1. CASE issued' = issued
    BY <2>1 DEF KeyTypes
  <2>2. CASE issued' = [issued EXCEPT ![KeyOf(o)] = Given(@, first..last)]
    <3>1. Given(issued[KeyOf(o)], first..last) \in SUBSET Nat
      BY <1>1, <1>2 DEF Given, KeyTypes
    <3>2. PICK m \in Nat : \A y \in issued[KeyOf(o)] : y <= m
      BY <1>1 DEF KeyTypes, Bounded
    <3>3. \A y \in Given(issued[KeyOf(o)], first..last) : y <= m + last
      BY <1>1, <1>2, <3>2 DEF Given, KeyTypes
    <3>4. m + last \in Nat
      BY <1>2, <3>2
    <3>5. Bounded(Given(issued[KeyOf(o)], first..last))
      BY <3>3, <3>4 DEF Bounded
    <3>6. QED
      BY <1>1, <2>2, <3>1, <3>5 DEF KeyTypes
  <2>3. QED
    BY <2>1, <2>2 DEF Issue
<1>6. QED
  BY <1>3, <1>4, <1>5 DEF Issue, KeyTypes

\* What only moves one call and some states.
LEMMA LocalTypes ==
    ASSUME KeyTypes, NEW c \in Caller, Still,
           NEW r \in Call, call' = [call EXCEPT ![c] = r],
           ks' \in [State -> KeyRecord]
    PROVE  KeyTypes'
<1>1. call' \in [Caller -> Call]
  BY DEF KeyTypes
<1>2. QED
  BY <1>1 DEF KeyTypes, Still

LEMMA FreshTypes == NewState \in KeyRecord /\ NoRange \in Block /\ NoFetch \in Fetch
  BY DEF NewState, NoRange, NoFetch, KeyRecord, Block, Fetch

\* One state is written.
LEMMA StateTypes ==
    ASSUME KeyTypes, NEW o \in State, NEW k \in KeyRecord, ks' = [ks EXCEPT ![o] = k]
    PROVE  ks' \in [State -> KeyRecord]
  BY DEF KeyTypes

LEMMA FastTypes ==
    ASSUME KeyTypes, StatesInv, NEW c \in Caller,
           \/ FastLoad(c) \/ FastAdd(c) \/ FastStart(c) \/ FastEnd(c) \/ FastRestart(c)
           \/ BlockLoad(c) \/ BlockNext(c) \/ BlockStart(c) \/ BlockEnd(c)
    PROVE  KeyTypes'
<1>1. /\ call[c] \in Call /\ call[c] \in CallRecord /\ call[c].pc # "idle" /\ Still
      /\ call[c].o \in State /\ Mine(c) \in KeyRecord
  BY CallTypes DEF StatesInv, CallStates, FetchLabel, At, FastLoad, FastAdd, FastStart, FastEnd,
     FastRestart, BlockLoad, BlockNext, BlockStart, BlockEnd, Read
<1>2. ks' \in [State -> KeyRecord]
  <2>1. CASE FastAdd(c)
    <3>1. [Mine(c) EXCEPT !.next = @ + 1] \in KeyRecord
      BY <1>1 DEF KeyRecord
    <3>2. QED
      BY <1>1, <2>1, <3>1 DEF FastAdd, Mine, KeyTypes
  <2>2. QED
    BY <2>1 DEF KeyTypes, FastLoad, FastStart, FastEnd, FastRestart, BlockLoad, BlockNext,
       BlockStart, BlockEnd, Read
<1>3. /\ Mine(c).generation \in Nat /\ Mine(c).next \in Nat /\ Mine(c).next + 1 \in Nat
      /\ Mine(c).start \in Nat /\ Mine(c).initialized \in BOOLEAN
      /\ call[c].generation \in Nat /\ call[c].id \in Nat /\ call[c].start \in Nat
      /\ call[c].hadRange \in BOOLEAN
  BY <1>1 DEF KeyRecord, CallRecord
<1>4. ASSUME NEW r \in Call, call' = [call EXCEPT ![c] = r]
      PROVE  KeyTypes'
  BY <1>1, <1>2, <1>4, LocalTypes
<1>5. ASSUME NEW pc \in Label \ {"idle"}
      PROVE
        /\ [call[c] EXCEPT !.pc = pc] \in Call
        /\ [call[c] EXCEPT !.pc = pc, !.generation = Mine(c).generation] \in Call
        /\ [call[c] EXCEPT !.pc = pc, !.hadRange = Mine(c).initialized,
                           !.generation = Mine(c).generation] \in Call
        /\ [call[c] EXCEPT !.pc = pc, !.id = Mine(c).next] \in Call
        /\ [call[c] EXCEPT !.pc = pc, !.id = Mine(c).next + 1] \in Call
        /\ [call[c] EXCEPT !.pc = pc, !.start = Mine(c).start] \in Call
  BY <1>1, <1>3, CallFields DEF CallRecord, Call
<1>6. CASE FastLoad(c)
  <2> DEFINE pc == IF Mine(c).initialized THEN "add" ELSE "slow"
  <2>1. pc \in Label \ {"idle"}
    BY DEF Label
  <2>2. call' = [call EXCEPT ![c] = [@ EXCEPT !.pc = pc, !.hadRange = Mine(c).initialized,
                                              !.generation = Mine(c).generation]]
    BY <1>6 DEF FastLoad, KeyTypes
  <2>3. QED
    BY <1>4, <1>5, <2>1, <2>2
<1>7. CASE FastStart(c)
  <2> DEFINE pc == IF call[c].id >= Mine(c).start THEN "end" ELSE "slow"
  <2>1. pc \in Label \ {"idle"}
    BY DEF Label, FastLabel, BlockLabel, Missed
  <2>2. call' = [call EXCEPT ![c] = [@ EXCEPT !.pc = pc, !.start = Mine(c).start]]
    BY <1>7 DEF FastStart, KeyTypes
  <2>3. QED
    BY <1>4, <1>5, <2>1, <2>2
<1>8. CASE FastEnd(c)
  <2> DEFINE pc == IF call[c].id <= Mine(c).end THEN "restart" ELSE "slow"
  <2>1. pc \in Label \ {"idle"}
    BY DEF Label, FastLabel, BlockLabel, Missed
  <2>2. call' = [call EXCEPT ![c] = [@ EXCEPT !.pc = pc]]
    BY <1>8 DEF FastEnd, Read, Goto, KeyTypes
  <2>3. QED
    BY <1>4, <1>5, <2>1, <2>2
<1>9. CASE FastRestart(c)
  <2> DEFINE pc == IF call[c].start = Mine(c).start THEN "generation" ELSE "slow"
  <2>1. pc \in Label \ {"idle"}
    BY DEF Label, FastLabel, BlockLabel, Missed
  <2>2. call' = [call EXCEPT ![c] = [@ EXCEPT !.pc = pc]]
    BY <1>9 DEF FastRestart, Read, Goto, KeyTypes
  <2>3. QED
    BY <1>4, <1>5, <2>1, <2>2
<1>10. CASE BlockLoad(c)
  <2> DEFINE pc == IF Mine(c).initialized /\ Mine(c).generation % 2 = 0 THEN "next" ELSE Missed(c)
  <2>1. pc \in Label \ {"idle"}
    BY DEF Label, FastLabel, BlockLabel, Missed
  <2>2. call' = [call EXCEPT ![c] = [@ EXCEPT !.pc = pc, !.generation = Mine(c).generation]]
    BY <1>10 DEF BlockLoad, KeyTypes
  <2>3. QED
    BY <1>4, <1>5, <2>1, <2>2
<1>11. CASE BlockNext(c)
  <2> DEFINE pc == "first"
  <2>1. pc \in Label \ {"idle"}
    BY DEF Label, FastLabel, BlockLabel, Missed
  <2>2. call' = [call EXCEPT ![c] = [@ EXCEPT !.pc = pc, !.id = Mine(c).next]]
    BY <1>11 DEF BlockNext, KeyTypes
  <2>3. QED
    BY <1>4, <1>5, <2>1, <2>2
<1>12. CASE BlockStart(c)
  <2> DEFINE pc == IF call[c].id >= Mine(c).start THEN "last" ELSE Missed(c)
  <2>1. pc \in Label \ {"idle"}
    BY DEF Label, FastLabel, BlockLabel, Missed
  <2>2. call' = [call EXCEPT ![c] = [@ EXCEPT !.pc = pc]]
    BY <1>12 DEF BlockStart, Read, Goto, KeyTypes
  <2>3. QED
    BY <1>4, <1>5, <2>1, <2>2
<1>13. CASE BlockEnd(c)
  <2> DEFINE pc == IF call[c].id + call[c].count <= Mine(c).end THEN "cas" ELSE Missed(c)
  <2>1. pc \in Label \ {"idle"}
    BY DEF Label, FastLabel, BlockLabel, Missed
  <2>2. call' = [call EXCEPT ![c] = [@ EXCEPT !.pc = pc]]
    BY <1>13 DEF BlockEnd, Read, Goto, KeyTypes
  <2>3. QED
    BY <1>4, <1>5, <2>1, <2>2
<1>14. CASE FastAdd(c)
  <2> DEFINE pc == IF call[c].generation % 2 = 0 THEN "start" ELSE "slow"
  <2>1. pc \in Label \ {"idle"}
    BY DEF Label, FastLabel
  <2>2. \/ call' = [call EXCEPT ![c] = [@ EXCEPT !.pc = pc, !.id = Mine(c).next + 1]]
        \/ call' = [call EXCEPT ![c] = NoCall]
    BY <1>14 DEF FastAdd, Ended, KeyTypes
  <2>3. NoCall \in Call
    BY DEF Call
  <2>4. QED
    BY <1>4, <1>5, <2>1, <2>2, <2>3
<1>15. QED
  BY <1>6, <1>7, <1>8, <1>9, <1>10, <1>11, <1>12, <1>13, <1>14

LEMMA GotoTypes ==
    ASSUME KeyTypes, NEW c \in Caller, ~At(c, "idle"), NEW pc \in Label \ {"idle"},
           ks' \in [State -> KeyRecord], Goto(c, pc), Still
    PROVE  KeyTypes'
<1>1. call[c] \in Call /\ call[c].pc # "idle"
  BY CallTypes DEF At
<1>2. [call[c] EXCEPT !.pc = pc] \in Call
  BY <1>1, CallFields DEF CallRecord, Call
<1>3. call' = [call EXCEPT ![c] = [call[c] EXCEPT !.pc = pc]]
  BY DEF Goto, KeyTypes
<1>4. QED
  BY <1>2, <1>3, LocalTypes

LEMMA EndedTypes ==
    ASSUME KeyTypes, NEW c \in Caller, ks' \in [State -> KeyRecord], Ended({c}), Still
    PROVE  KeyTypes'
<1>1. call' = [call EXCEPT ![c] = NoCall] /\ NoCall \in Call
  BY DEF Ended, KeyTypes, Call
<1>2. QED
  BY <1>1, LocalTypes

LEMMA RefillTypes ==
    ASSUME KeyTypes, NEW c \in Caller, ~At(c, "idle"), call[c].o \in State,
           NEW k \in KeyRecord, Refill(c, k), Still
    PROVE  KeyTypes'
<1> DEFINE o == call[c].o
           dropped == Release([k EXCEPT !.standby = NoRange])
           sent == [dropped EXCEPT !.timer = 0,
                                   !.fetch = [NoFetch EXCEPT !.by = c, !.at = "sent"]]
<1>1. Hold(c, k) \in KeyRecord /\ Release(k) \in KeyRecord /\ dropped \in KeyRecord
  BY FreshTypes DEF KeyRecord, Hold, Release
<1>2. [NoFetch EXCEPT !.by = c, !.at = "sent"] \in Fetch
  BY FreshTypes DEF Fetch
<1>3. sent \in KeyRecord
  BY <1>1, <1>2 DEF KeyRecord
<1>4. \A x \in KeyRecord : [ks EXCEPT ![o] = x] \in [State -> KeyRecord]
  BY DEF KeyTypes
<1> HIDE DEF o
<1>5. CASE Goto(c, "odd") /\ ks' = [ks EXCEPT ![o] = Hold(c, k)]
  BY <1>1, <1>4, <1>5, GotoTypes DEF Label
<1>6. CASE ks' = [ks EXCEPT ![o] = Release(k)] /\ Ended({c})
  BY <1>1, <1>4, <1>6, EndedTypes
<1>7. CASE ks' = [ks EXCEPT ![o] = dropped] /\ Goto(c, "wait")
  BY <1>1, <1>4, <1>7, GotoTypes DEF Label
<1>8. CASE /\ ks' = [ks EXCEPT ![o] = sent]
           /\ call' = [call EXCEPT ![c].pc = "reserve", ![c].pending = <<o>>]
  <2>1. <<o>> \in Seq(State)
    BY DEF o
  <2>2. call[c] \in Call /\ call[c].pc # "idle"
    BY CallTypes DEF At
  <2>3. [call[c] EXCEPT !.pc = "reserve", !.pending = <<o>>] \in Call
    BY <2>1, <2>2, CallFields DEF CallRecord, Call, Label, FetchLabel
  <2>4. call' = [call EXCEPT ![c] = [@ EXCEPT !.pc = "reserve", !.pending = <<o>>]]
    BY <1>8 DEF KeyTypes
  <2>5. QED
    BY <1>3, <1>4, <1>8, <2>3, <2>4, LocalTypes
<1>9. QED
  BY <1>5, <1>6, <1>7, <1>8 DEF Refill, o

LEMMA SlowTypes ==
    ASSUME KeyTypes, StatesInv, NEW c \in Caller,
           \/ FastReturn(c) \/ BlockSwap(c) \/ BlockReturn(c)
           \/ AllocateSlow(c) \/ AllocateBlockSlow(c) \/ BlockRefill(c)
           \/ ActivateOdd(c) \/ ActivateCursor(c) \/ ActivateStart(c) \/ ActivateEnd(c)
           \/ ActivateEven(c)
    PROVE  KeyTypes'
<1> DEFINE o == call[c].o
           k == Mine(c)
<1>1. /\ call[c] \in Call /\ call[c] \in CallRecord /\ ~At(c, "idle")
      /\ o \in State /\ k \in KeyRecord /\ o # None /\ call[c].count # 0
  BY CallTypes, CallFields, ConstantFacts DEF StatesInv, CallStates, FetchLabel, At, FastReturn, BlockSwap,
     BlockReturn, AllocateSlow, AllocateBlockSlow, BlockRefill, ActivateOdd, ActivateCursor,
     ActivateStart, ActivateEnd, ActivateEven
<1>2. /\ k.generation \in Nat /\ k.next \in Nat /\ k.standby \in Block
      /\ call[c].generation \in Nat /\ call[c].id \in Nat /\ call[c].count \in Nat \ {0}
      /\ k.standby.start \in Nat \ {0} /\ k.standby.end \in Nat
      /\ k = ks[o]
  BY <1>1 DEF KeyRecord, CallRecord, Block, Mine
<1>3. \A x \in KeyRecord : [ks EXCEPT ![o] = x] \in [State -> KeyRecord]
  BY DEF KeyTypes
<1>4. ks \in [State -> KeyRecord]
  BY DEF KeyTypes
<1> HIDE DEF k
<1>5. CASE FastReturn(c)
  BY <1>1, <1>2, <1>4, <1>5, IssueTypes, GotoTypes DEF FastReturn, Label, k
<1>6. CASE BlockSwap(c)
  <2>1. /\ [k EXCEPT !.mu = IF Locked(c) THEN None ELSE @] \in KeyRecord
        /\ [k EXCEPT !.next = @ + call[c].count] \in KeyRecord
    BY <1>1, <1>2 DEF KeyRecord
  <2>2. /\ [ks EXCEPT ![o].mu = IF Locked(c) THEN None ELSE @] \in [State -> KeyRecord]
        /\ [ks EXCEPT ![o].next = @ + call[c].count] \in [State -> KeyRecord]
    BY <1>2, <1>3, <2>1 DEF KeyTypes
  <2>3. Missed(c) \in Label \ {"idle"} /\ "swapped" \in Label \ {"idle"}
    BY DEF Missed, Label, BlockLabel
  <2>4. QED
    BY <1>1, <1>4, <1>6, <2>2, <2>3, EndedTypes, GotoTypes DEF BlockSwap
<1>7. CASE BlockReturn(c)
  <2>1. Missed(c) \in Label \ {"idle"} /\ call[c].id + 1 \in Nat
    BY <1>2 DEF Missed, Label
  <2>2. QED
    BY <1>1, <1>2, <1>4, <1>7, <2>1, IssueTypes, GotoTypes DEF BlockReturn, k
<1>8. CASE AllocateSlow(c)
  <2>1. [k EXCEPT !.next = @ + 1] \in KeyRecord /\ k.next + 1 \in Nat
    BY <1>1, <1>2 DEF KeyRecord
  <2>2. [k EXCEPT !.next = @ + 1].next = k.next + 1
        /\ [k EXCEPT !.next = @ + 1].generation = k.generation
    BY <1>1 DEF KeyRecord
  <2> DEFINE again == [k EXCEPT !.next = @ + 1]
  <2>3. again \in KeyRecord /\ again.next \in Nat
    BY <2>1, <2>2
  <2>4. \/ ~owned /\ Ended({c}) /\ UNCHANGED ks /\ Still
        \/ Refill(c, k) /\ Still
        \/ Issue(c, k, call[c].id, k.generation)
        \/ Issue(c, again, again.next, k.generation)
        \/ Refill(c, again) /\ Still
    BY <1>8 DEF AllocateSlow, k
  <2> HIDE DEF again
  <2>5. QED
    BY <1>1, <1>2, <1>4, <2>3, <2>4, EndedTypes, RefillTypes, IssueTypes
<1>9. CASE AllocateBlockSlow(c)
  <2>1. Hold(c, k) \in KeyRecord
    BY <1>1 DEF KeyRecord, Hold
  <2>2. ks' = [ks EXCEPT ![o] = Hold(c, k)]
    BY <1>2, <1>9 DEF AllocateBlockSlow
  <2>3. QED
    BY <1>1, <1>3, <1>9, <2>1, <2>2, GotoTypes DEF AllocateBlockSlow, Label
<1>10. CASE BlockRefill(c)
  BY <1>1, <1>10, RefillTypes DEF BlockRefill, k
<1>11. CASE ActivateOdd(c) \/ ActivateCursor(c) \/ ActivateStart(c) \/ ActivateEnd(c)
  <2>1. /\ [k EXCEPT !.generation = @ + 1] \in KeyRecord
        /\ [k EXCEPT !.next = k.standby.start + call[c].count - 1] \in KeyRecord
        /\ [k EXCEPT !.start = k.standby.start] \in KeyRecord
        /\ [k EXCEPT !.end = k.standby.end] \in KeyRecord
    BY <1>1, <1>2 DEF KeyRecord
  <2>2. \A pc \in OddLabel : pc \in Label \ {"idle"}
    BY DEF Label, OddLabel
  <2>3. PICK x \in KeyRecord, pc \in OddLabel : Write(c, x, pc)
    BY <1>11, <2>1 DEF ActivateOdd, ActivateCursor, ActivateStart, ActivateEnd, OddLabel, k
  <2>4. QED
    BY <1>1, <1>3, <2>2, <2>3, GotoTypes DEF Write
<1>12. CASE ActivateEven(c)
  <2> DEFINE x == [k EXCEPT !.generation = @ + 1, !.initialized = TRUE,
                            !.standby = NoRange, !.timer = 0]
  <2>1. NoRange \in Block /\ k.generation + 1 \in Nat
    BY <1>2, FreshTypes
  <2>2. x \in KeyRecord
    BY <1>1, <2>1 DEF KeyRecord
  <2>3. Issue(c, x, k.standby.start, k.generation + 1)
    BY <1>12 DEF ActivateEven, k
  <2> HIDE DEF x
  <2>4. QED
    BY <1>1, <1>2, <2>1, <2>2, <2>3, IssueTypes
<1>13. QED
  BY <1>5, <1>6, <1>7, <1>8, <1>9, <1>10, <1>11, <1>12

\* All that is assumed of the state before a step.
Shape == KeyTypes /\ StatesInv

\* The first key of a batch, and its next one.
LEMMA NextOfBatch ==
    ASSUME Shape, NEW c \in Caller, At(c, "prepare")
    PROVE  LET r == call[c]
               n == CHOOSE n \in DOMAIN r.todo : r.todo[n] = r.o
           IN  /\ n \in DOMAIN r.todo /\ r.todo[n] = r.o
               /\ n < Len(r.todo) => /\ n + 1 \in DOMAIN r.todo
                                     /\ r.todo[n + 1] \in r.held /\ r.todo[n + 1] \in State
<1> DEFINE r == call[c]
           n == CHOOSE n \in DOMAIN r.todo : r.todo[n] = r.o
<1>1. r.todo \in Seq(r.held) /\ r.held \in SUBSET State
  BY CallTypes DEF Shape, StatesInv, CallStates, CallRecord
<1>2. \E m \in DOMAIN r.todo : r.todo[m] = r.o
  BY DEF Shape, StatesInv, CallStates, At
<1>3. n \in DOMAIN r.todo /\ r.todo[n] = r.o
  BY <1>2
<1>4. n \in 1..Len(r.todo)
  BY <1>1, <1>3
<1> HIDE DEF n, r
<1>5. ASSUME n < Len(r.todo)
      PROVE  n + 1 \in DOMAIN r.todo /\ r.todo[n + 1] \in r.held /\ r.todo[n + 1] \in State
  <2>1. n + 1 \in 1..Len(r.todo)
    BY <1>1, <1>4, <1>5
  <2>2. QED
    BY <1>1, <2>1
<1>6. QED
  BY <1>3, <1>5 DEF n, r

LEMMA BatchTypes ==
    ASSUME Shape, NEW c \in Caller, PrepareBatchRange(c) \/ AfterAllocate(c)
    PROVE  KeyTypes'
<1> DEFINE r == call[c]
           o == call[c].o
<1>1. /\ r \in Call /\ r \in CallRecord /\ r.pc # "idle" /\ ~At(c, "idle") /\ r.count # 0
      /\ o \in State /\ ks[o] \in KeyRecord /\ Still
  BY CallTypes, CallFields, ConstantFacts DEF Shape, StatesInv, CallStates, FetchLabel, At,
     PrepareBatchRange, AfterAllocate, Still, Mine
<1>2. /\ [NoFetch EXCEPT !.by = c, !.at = "sent"] \in Fetch
      /\ [NoFetch EXCEPT !.by = "prefetch", !.at = "sent"] \in Fetch
  BY FreshTypes DEF Fetch
<1>3. ks' \in [State -> KeyRecord]
  <2> DEFINE x == [ks[o] EXCEPT !.standby = NoRange, !.timer = 0,
                                !.fetch = [NoFetch EXCEPT !.by = c, !.at = "sent"]]
             y == [ks[o] EXCEPT !.fetch = [NoFetch EXCEPT !.by = "prefetch", !.at = "sent"],
                                !.timer = 0]
  <2>1. x \in KeyRecord /\ y \in KeyRecord
    BY <1>1, <1>2, FreshTypes DEF KeyRecord
  <2>2. ks' = ks \/ ks' = [ks EXCEPT ![o] = x] \/ ks' = [ks EXCEPT ![o] = y]
    BY <1>1 DEF PrepareBatchRange, AfterAllocate, Shape, KeyTypes
  <2> HIDE DEF x, y
  <2>3. QED
    BY <2>1, <2>2 DEF Shape, KeyTypes
<1>4. Turn(r) \in Call
  BY <1>1, TurnCall DEF Shape
<1>5. CASE AfterAllocate(c)
  <2>1. call' = [call EXCEPT ![c] = Turn(r)]
    BY <1>5 DEF AfterAllocate
  <2>2. QED
    BY <1>1, <1>3, <1>4, <2>1, LocalTypes DEF Shape
<1>6. CASE PrepareBatchRange(c)
  <2> DEFINE n == CHOOSE n \in DOMAIN r.todo : r.todo[n] = r.o
             wanted == ~HasReadyBlock(Mine(c), r.count) /\ Mine(c).fetch = NoFetch
             pending == IF wanted THEN Append(r.pending, r.o) ELSE r.pending
             next == IF n < Len(r.todo)
                     THEN [r EXCEPT !.o = r.todo[n + 1], !.pending = pending]
                     ELSE IF pending = <<>> THEN Turn(r)
                     ELSE [r EXCEPT !.pc = "reserve", !.o = None, !.pending = pending]
  <2>1. n < Len(r.todo) => r.todo[n + 1] \in State
    BY <1>6, NextOfBatch DEF PrepareBatchRange
  <2>2. pending \in Seq(State)
    BY <1>1 DEF CallRecord
  <2>3. call' = [call EXCEPT ![c] = next]
    BY <1>6 DEF PrepareBatchRange
  <2> HIDE DEF n, wanted, pending
  <2>4. next \in Call
    <3>1. ASSUME n < Len(r.todo)
          PROVE  [r EXCEPT !.o = r.todo[n + 1], !.pending = pending] \in Call
      BY <1>1, <2>1, <2>2, <3>1 DEF CallRecord, Call
    <3>2. [r EXCEPT !.pc = "reserve", !.o = None, !.pending = pending] \in Call
      BY <1>1, <2>2 DEF CallRecord, Call, Label, FetchLabel
    <3>3. QED
      BY <1>4, <3>1, <3>2
  <2>5. QED
    BY <1>1, <1>3, <2>3, <2>4, LocalTypes DEF Shape
<1>7. QED
  BY <1>5, <1>6

LEMMA ReserveTypes ==
    ASSUME Shape, NEW c \in Caller, Reserve(c)
    PROVE  KeyTypes'
<1> DEFINE P == {call[c].pending[n] : n \in DOMAIN call[c].pending}
           step == StepFor(call[c].count)
           Answer(at, o) == [ks[o].fetch EXCEPT !.at = at,
            !.got = IF at = "answered" THEN [start |-> mark[KeyOf(o)] + 1,
                                             end |-> mark[KeyOf(o)] + step]
                    ELSE NoRange]
           Answered(at) ==
            /\ ks' = [o \in State |-> IF o \in P THEN [ks[o] EXCEPT !.fetch = Answer(at, o)]
                                      ELSE ks[o]]
            /\ Goto(c, IF at = "answered" THEN "complete" ELSE "fail")
           committed == [k \in Key |-> IF k \in {KeyOf(o) : o \in P} THEN mark[k] + step
                                       ELSE mark[k]]
<1>1. /\ call[c] \in Call /\ call[c] \in CallRecord /\ call[c].pc # "idle" /\ step \in Nat
      /\ At(c, "reserve")
  BY CallTypes, StepForSize DEF Shape, At, Reserve, CallRecord
<1>2. PICK at \in {"answered", "failed"} : Answered(at) /\ mark' \in {mark, committed}
  BY DEF Reserve
<1>3. committed \in [Key -> Nat]
  BY <1>1 DEF Shape, KeyTypes
<1>4. ASSUME NEW o \in State
      PROVE  [ks[o] EXCEPT !.fetch = Answer(at, o)] \in KeyRecord
  <2>1. mark[KeyOf(o)] \in Nat /\ ks[o].fetch \in Fetch /\ ks[o] \in KeyRecord
    BY StateFacts DEF Shape, KeyTypes, KeyRecord
  <2>2. mark[KeyOf(o)] + 1 \in Nat \ {0} /\ mark[KeyOf(o)] + step \in Nat
    BY <1>1, <2>1
  <2>3. [start |-> mark[KeyOf(o)] + 1, end |-> mark[KeyOf(o)] + step] \in Block
    BY <2>2 DEF Block
  <2>4. Answer(at, o) \in Fetch
    BY <2>1, <2>3, FreshTypes DEF Fetch
  <2> HIDE DEF Answer
  <2>5. QED
    BY <2>1, <2>4 DEF KeyRecord
<1>5. ks' \in [State -> KeyRecord]
  BY <1>2, <1>4 DEF Shape, KeyTypes
<1>6. /\ [call[c] EXCEPT !.pc = "complete"] \in Call /\ [call[c] EXCEPT !.pc = "fail"] \in Call
  BY <1>1, CallFields DEF CallRecord, Call, Label, FetchLabel
<1>7. call' = [call EXCEPT ![c] = [call[c] EXCEPT !.pc = "complete"]]
      \/ call' = [call EXCEPT ![c] = [call[c] EXCEPT !.pc = "fail"]]
  BY <1>2 DEF Goto, Shape, KeyTypes
<1>8. call' \in [Caller -> Call]
  BY <1>6, <1>7 DEF Shape, KeyTypes
<1>9. mark' \in [Key -> Nat]
  BY <1>2, <1>3 DEF Shape, KeyTypes
<1>10. QED
  BY <1>5, <1>8, <1>9 DEF Reserve, Shape, KeyTypes

LEMMA CompleteState ==
    ASSUME KeyTypes, NEW o \in State, NEW timer \in Nat, Complete(o, timer)
    PROVE  ks' \in [State -> KeyRecord]
<1> DEFINE ok == ks[o].fetch.at = "answered"
           x == [ks[o] EXCEPT !.standby = IF ok THEN ks[o].fetch.got ELSE @,
                              !.timer = IF ok THEN 0 ELSE timer,
                              !.fetch = NoFetch]
<1>1. ks[o] \in KeyRecord /\ ks[o].fetch.got \in Block
  BY DEF KeyTypes, KeyRecord, Fetch
<1>2. x \in KeyRecord
  BY <1>1, FreshTypes DEF KeyRecord
<1>3. ks' = [ks EXCEPT ![o] = x]
  BY DEF Complete
<1>4. QED
  BY <1>2, <1>3 DEF KeyTypes

LEMMA WakeCalls ==
    ASSUME KeyTypes, NEW C \in SUBSET Caller, NEW ok \in BOOLEAN,
           \A c \in C : call[c].pc # "idle"
    PROVE  Wake(C, ok) \in [Caller -> Call]
<1>1. ASSUME NEW c \in C
      PROVE  [call[c] EXCEPT !.pc = "slow"] \in Call
  <2>1. c \in Caller /\ call[c].pc # "idle"
    OBVIOUS
  <2>2. call[c] \in CallRecord /\ call[c].count # 0
    BY <2>1, CallTypes, CallFields
  <2>3. QED
    BY <2>2 DEF CallRecord, Call, Label
<1>2. NoCall \in Call
  BY DEF Call
<1>3. QED
  BY <1>1, <1>2 DEF Wake, KeyTypes

\* The first state of a caller's fetches, and what is left.
LEMMA FirstPending ==
    ASSUME Shape, NEW c \in Caller, call[c].pc \in FetchLabel
    PROVE  /\ Head(call[c].pending) \in State /\ Head(call[c].pending) \in call[c].held
           /\ Tail(call[c].pending) \in Seq(State) /\ Tail(call[c].pending) \in Seq(call[c].held)
           /\ 1 \in DOMAIN call[c].pending
           /\ call[c].pending \in Seq(State)
<1>1. call[c].pending \in Seq(call[c].held) /\ call[c].held \in SUBSET State
      /\ call[c].pending # <<>> /\ call[c].pending \in Seq(State)
  BY CallTypes DEF Shape, StatesInv, CallStates, CallRecord
<1>2. ASSUME NEW S, call[c].pending \in Seq(S)
      PROVE  /\ Head(call[c].pending) \in S /\ Tail(call[c].pending) \in Seq(S)
             /\ 1 \in DOMAIN call[c].pending
  <2>1. Head(call[c].pending) \in S /\ Tail(call[c].pending) \in Seq(S)
    BY <1>1, <1>2, HeadTailProperties
  <2>2. Len(call[c].pending) \in Nat /\ Len(call[c].pending) # 0
    BY <1>1, <1>2, EmptySeq
  <2>3. QED
    BY <1>2, <2>1, <2>2
<1>3. QED
  BY <1>1, <1>2

LEMMA CompleteTypes ==
    ASSUME Shape, NEW c \in Caller, CompleteFetch(c)
    PROVE  KeyTypes'
<1> DEFINE r == call[c]
           o == Head(r.pending)
           ok == At(c, "complete")
           left == [r EXCEPT !.pending = Tail(@)]
           done == IF left.pending # <<>> THEN left
                   ELSE IF ~ok THEN NoCall
                   ELSE IF r.o = None THEN Turn(left)
                   ELSE [left EXCEPT !.pc = "slow"]
<1>1. r \in Call /\ r \in CallRecord /\ r.pc # "idle" /\ r.count # 0 /\ r.pc \in FetchLabel
      /\ KeyTypes
  BY CallTypes, CallFields DEF Shape, CompleteFetch, FetchLabel
<1>2. o \in State /\ Tail(r.pending) \in Seq(State)
  BY <1>1, FirstPending
<1>3. left \in Call /\ left.pc = r.pc
  BY <1>1, <1>2 DEF CallRecord, Call
<1>4. ks[o].timer \in Nat
  BY <1>1, <1>2 DEF KeyTypes, KeyRecord
<1>5. ks' \in [State -> KeyRecord]
  BY <1>1, <1>2, <1>4, CompleteState DEF CompleteFetch
<1>6. done \in Call
  <2> HIDE DEF left
  <2>1. Turn(left) \in Call
    BY <1>1, <1>3, TurnCall
  <2>2. [left EXCEPT !.pc = "slow"] \in Call
    BY <1>1, <1>3, CallFields DEF CallRecord, Call, Label
  <2>3. QED
    BY <1>3, <2>1, <2>2 DEF Call
<1> HIDE DEF done
<1>7. \A d \in Woken(o) : d \in Caller /\ call[d].pc # "idle"
  BY DEF Woken, Waiters, At
<1>8. Wake(Woken(o), ok) \in [Caller -> Call]
  <2>1. ok \in BOOLEAN /\ Woken(o) \in SUBSET Caller
    BY <1>7 DEF At
  <2>2. QED
    BY <1>1, <1>7, <2>1, WakeCalls
<1>9. call' = [Wake(Woken(o), ok) EXCEPT ![c] = done] /\ Still
  BY DEF CompleteFetch, done
<1>10. call' \in [Caller -> Call]
  BY <1>6, <1>8, <1>9
<1>11. QED
  BY <1>1, <1>5, <1>9, <1>10 DEF KeyTypes, Still

\* What a call asks for: the states of its keys, one each.
BeginStates(r) == [n \in DOMAIN r.keys |-> Acquired(r.keys[n])]
Begun(r) == [NoCall EXCEPT !.todo = BeginStates(r), !.count = r.count,
                           !.held = {BeginStates(r)[n] : n \in DOMAIN BeginStates(r)}]
NewKeys(r) == {k \in {r.keys[n] : n \in DOMAIN r.keys} : cached[k] = 0}

LEMMA BeginFacts ==
    ASSUME KeyTypes, NEW c \in Caller, NEW r \in Requests, Begin(c, r)
    PROVE  /\ BeginStates(r) \in Seq(State) /\ BeginStates(r) # <<>>
           /\ DOMAIN BeginStates(r) = DOMAIN r.keys
           /\ Head(BeginStates(r)) = BeginStates(r)[1] /\ 1 \in DOMAIN BeginStates(r)
           /\ BeginStates(r) \in Seq(Begun(r).held) /\ Begun(r).held \in SUBSET State
           /\ r.keys \in Seq(Key) /\ r.count \in Nat \ {0}
<1>1. r.keys \in Seq(Key) /\ r.keys # <<>> /\ r.count \in Nat \ {0}
  BY ConstantFacts
<1>2. \A n \in DOMAIN r.keys : r.keys[n] \in Key
  BY <1>1
<1>3. ASSUME NEW n \in DOMAIN r.keys
      PROVE  Acquired(r.keys[n]) \in State
  <2>1. /\ cached[r.keys[n]] \in 0..MaxStates /\ born[r.keys[n]] \in 0..MaxStates
        /\ MaxStates \in Nat
    BY <1>2, ConstantFacts DEF KeyTypes
  <2>2. cached[r.keys[n]] = 0 => born[r.keys[n]] < MaxStates
    BY DEF Begin
  <2>3. QED
    BY <1>2, <2>1, <2>2 DEF Acquired, Cached, State
<1>4. BeginStates(r) \in Seq(State) /\ DOMAIN BeginStates(r) = DOMAIN r.keys
  <2>1. DOMAIN r.keys = 1..Len(r.keys) /\ Len(r.keys) \in Nat
    BY <1>1
  <2>2. BeginStates(r) \in [1..Len(r.keys) -> State]
    BY <1>3, <2>1 DEF BeginStates
  <2>3. QED
    BY <2>1, <2>2, SeqDef
<1>5. Len(r.keys) \in Nat /\ Len(r.keys) # 0 /\ DOMAIN r.keys = 1..Len(r.keys)
  BY <1>1, EmptySeq
<1>6. BeginStates(r) # <<>> /\ 1 \in DOMAIN BeginStates(r)
  BY <1>4, <1>5
<1>7. Begun(r).held = {BeginStates(r)[n] : n \in DOMAIN BeginStates(r)}
  BY DEF Begun, NoCall
<1>8. BeginStates(r) \in Seq(Begun(r).held) /\ Begun(r).held \in SUBSET State
  <2>1. \A n \in DOMAIN BeginStates(r) : BeginStates(r)[n] \in Begun(r).held
    BY <1>7
  <2>2. BeginStates(r) \in [1..Len(BeginStates(r)) -> Begun(r).held]
    BY <1>4, <2>1
  <2>3. Len(BeginStates(r)) \in Nat
    BY <1>4
  <2>4. QED
    BY <1>4, <1>7, <2>2, <2>3, SeqDef
<1>9. Head(BeginStates(r)) = BeginStates(r)[1]
  BY <1>4, <1>6
<1>10. QED
  BY <1>1, <1>4, <1>6, <1>8, <1>9

LEMMA BegunCall ==
    ASSUME KeyTypes, NEW c \in Caller, NEW r \in Requests, Begin(c, r)
    PROVE  /\ Begun(r) \in CallRecord
           /\ Begun(r).count # 0 /\ Begun(r).todo = BeginStates(r)
           /\ call' = [call EXCEPT ![c] = IF r.batch
                          THEN [Begun(r) EXCEPT !.pc = "prepare", !.o = Head(BeginStates(r))]
                          ELSE Turn(Begun(r))]
           /\ [Begun(r) EXCEPT !.pc = "prepare", !.o = Head(BeginStates(r))] \in Call
           /\ Turn(Begun(r)) \in Call
           /\ Turn(Begun(r)).pc \in {"fast", "block"}
<1>1. Begun(r) \in CallRecord
  BY BeginFacts, EmptySeq DEF Begun, CallRecord, NoCall, Label
<1>2. Begun(r).count # 0 /\ Begun(r).todo = BeginStates(r) /\ Begun(r).pc = "idle"
  BY BeginFacts DEF Begun, NoCall
<1>3. call' = [call EXCEPT ![c] = IF r.batch
                THEN [Begun(r) EXCEPT !.pc = "prepare", !.o = Head(BeginStates(r))]
                ELSE Turn(Begun(r))]
  BY DEF Begin, Begun, BeginStates
<1>4. Head(BeginStates(r)) \in State
  BY BeginFacts
<1>5. [Begun(r) EXCEPT !.pc = "prepare", !.o = Head(BeginStates(r))] \in Call
  BY <1>1, <1>2, <1>4 DEF CallRecord, Call, Label
<1>6. Turn(Begun(r)) \in Call /\ Turn(Begun(r)).pc \in {"fast", "block"}
  <2> DEFINE o == Head(BeginStates(r))
             t == [Begun(r) EXCEPT !.pc = IF Begun(r).count = 1 THEN "fast" ELSE "block",
                       !.o = o, !.todo = Tail(BeginStates(r)),
                       !.floor = Max(issued[KeyOf(o)] \cup {0}),
                       !.hadRange = FALSE, !.id = 0, !.generation = 0, !.start = 0]
  <2>1. Turn(Begun(r)) = t
    BY <1>2, BeginFacts DEF Turn
  <2>2. Tail(BeginStates(r)) \in Seq(State)
    BY BeginFacts, HeadTailProperties
  <2>3. Max(issued[KeyOf(o)] \cup {0}) \in Nat
    BY <1>4, StateFacts, MaxOfBounded DEF KeyTypes
  <2> HIDE DEF o
  <2>4. o \in State
    BY <1>4 DEF o
  <2>5. t \in CallRecord /\ t.pc \in {"fast", "block"} /\ t.count # 0
    BY <1>1, <1>2, <2>2, <2>3, <2>4 DEF CallRecord, Label
  <2>6. QED
    BY <2>1, <2>5 DEF Call
<1>7. QED
  BY <1>1, <1>2, <1>3, <1>5, <1>6

LEMMA BeginTypes ==
    ASSUME KeyTypes, NEW c \in Caller, NEW r \in Requests, Begin(c, r)
    PROVE  KeyTypes'
<1>1. call' \in [Caller -> Call]
  BY BegunCall DEF KeyTypes
<1>2. /\ born' = [k \in Key |-> IF k \in NewKeys(r) THEN born[k] + 1 ELSE born[k]]
      /\ cached' = [k \in Key |-> IF k \in NewKeys(r) THEN born'[k] ELSE cached[k]]
      /\ \A k \in NewKeys(r) : born[k] < MaxStates
  BY DEF Begin, NewKeys
<1>3. \A k \in Key : born[k] \in 0..MaxStates /\ cached[k] \in 0..MaxStates /\ MaxStates \in Nat
  BY ConstantFacts DEF KeyTypes
<1>4. \A k \in Key : born'[k] \in 0..MaxStates
  BY <1>2, <1>3
<1>5. born' \in [Key -> 0..MaxStates] /\ cached' \in [Key -> 0..MaxStates]
  BY <1>2, <1>3, <1>4
<1>6. QED
  BY <1>1, <1>5 DEF Begin, KeyTypes

LEMMA BackgroundTypes ==
    ASSUME KeyTypes, NEW o \in State, Background(o)
    PROVE  KeyTypes'
<1>1. /\ ks[o] \in KeyRecord /\ KeyOf(o) \in Key /\ mark[KeyOf(o)] \in Nat /\ Step \in Nat
      /\ ks[o].fetch \in Fetch /\ ks[o].generation \in Nat /\ ks[o].timer \in Nat
  BY StateFacts, ConstantFacts DEF KeyTypes, KeyRecord
<1>2. \A x \in KeyRecord : [ks EXCEPT ![o] = x] \in [State -> KeyRecord]
  BY DEF KeyTypes
<1>3. CASE BackgroundReserve(o)
  <2> DEFINE end == mark[KeyOf(o)] + Step
             got == [start |-> mark[KeyOf(o)] + 1, end |-> end]
             f == [ks[o].fetch EXCEPT !.at = "answered", !.got = got]
             g == [ks[o].fetch EXCEPT !.at = "failed"]
  <2>1. end \in Nat /\ got \in Block
    BY <1>1 DEF Block
  <2>2. f \in Fetch /\ g \in Fetch
    BY <1>1, <2>1 DEF Fetch
  <2>3. [ks[o] EXCEPT !.fetch = f] \in KeyRecord /\ [ks[o] EXCEPT !.fetch = g] \in KeyRecord
    BY <1>1, <2>2 DEF KeyRecord
  <2>4. \/ ks' = [ks EXCEPT ![o] = [ks[o] EXCEPT !.fetch = f]]
        \/ ks' = [ks EXCEPT ![o] = [ks[o] EXCEPT !.fetch = g]]
    <3>1. \/ ks' = [ks EXCEPT ![o].fetch.at = "answered", ![o].fetch.got = got]
          \/ ks' = [ks EXCEPT ![o].fetch.at = "failed"]
      BY <1>3 DEF BackgroundReserve
    <3>2. /\ ks = [s \in State |-> ks[s]]
          /\ ks[o] = [[ks[o] EXCEPT !.fetch = f] EXCEPT !.fetch = ks[o].fetch]
      BY <1>1 DEF KeyTypes, KeyRecord
    <3> HIDE DEF got
    <3>3. ASSUME ks' = [ks EXCEPT ![o].fetch.at = "answered", ![o].fetch.got = got]
          PROVE  ks' = [ks EXCEPT ![o] = [ks[o] EXCEPT !.fetch = f]]
      BY <1>1, <3>2, <3>3 DEF KeyTypes, KeyRecord, Fetch
    <3>4. ASSUME ks' = [ks EXCEPT ![o].fetch.at = "failed"]
          PROVE  ks' = [ks EXCEPT ![o] = [ks[o] EXCEPT !.fetch = g]]
      BY <1>1, <3>2, <3>4 DEF KeyTypes, KeyRecord, Fetch
    <3>5. QED
      BY <3>1, <3>3, <3>4
  <2>5. mark' = mark \/ mark' = [mark EXCEPT ![KeyOf(o)] = end]
    BY <1>3 DEF BackgroundReserve
  <2> HIDE DEF f, g, end
  <2>6. mark' \in [Key -> Nat]
    BY <1>1, <2>1, <2>5 DEF KeyTypes
  <2>7. ks' \in [State -> KeyRecord]
    BY <1>2, <2>3, <2>4
  <2>8. QED
    BY <1>3, <2>6, <2>7 DEF BackgroundReserve, KeyTypes
<1>4. CASE CompletePrefetch(o)
  <2>1. ks' \in [State -> KeyRecord]
    BY <1>1, <1>4, CompleteState DEF CompletePrefetch
  <2>2. Woken(o) \in SUBSET Caller /\ \A c \in Woken(o) : call[c].pc # "idle"
    BY DEF Woken, Waiters, At
  <2>3. call' \in [Caller -> Call]
    BY <1>4, <2>2, WakeCalls DEF CompletePrefetch
  <2>4. QED
    BY <1>4, <2>1, <2>3 DEF CompletePrefetch, Still, KeyTypes
<1>5. CASE TimerFires(o) \/ RetryPrefetch(o)
  <2> DEFINE x == [ks[o] EXCEPT !.timer = 0, !.fired = ks[o].timer]
             y == [ks[o] EXCEPT !.fired = 0]
             f == [NoFetch EXCEPT !.by = "prefetch", !.at = "sent"]
             z == [ks[o] EXCEPT !.fired = 0, !.timer = 0, !.fetch = f]
  <2>1. f \in Fetch
    BY FreshTypes DEF Fetch
  <2>2. x \in KeyRecord /\ y \in KeyRecord /\ z \in KeyRecord
    BY <1>1, <2>1 DEF KeyRecord
  <2>3. ks' = [ks EXCEPT ![o] = x] \/ ks' = [ks EXCEPT ![o] = y] \/ ks' = [ks EXCEPT ![o] = z]
    BY <1>5 DEF TimerFires, RetryPrefetch, KeyTypes
  <2> HIDE DEF x, y, z
  <2>4. ks' \in [State -> KeyRecord]
    BY <1>2, <2>2, <2>3
  <2>5. QED
    BY <1>5, <2>4 DEF TimerFires, RetryPrefetch, Still, KeyTypes
<1>6. CASE CollectIdle(o) \/ EvictIdle(o)
  <2> DEFINE x == [ks[o] EXCEPT !.recent = FALSE]
             y == [ks[o] EXCEPT !.retired = TRUE, !.timer = 0]
  <2>1. x \in KeyRecord /\ y \in KeyRecord
    BY <1>1 DEF KeyRecord
  <2>2. ks' = [ks EXCEPT ![o] = x] \/ ks' = [ks EXCEPT ![o] = y] \/ ks' = ks
    BY <1>6 DEF CollectIdle, EvictIdle, KeyTypes
  <2> HIDE DEF x, y
  <2>3. ks' \in [State -> KeyRecord]
    BY <1>2, <2>1, <2>2 DEF KeyTypes
  <2>4. cached' = cached \/ cached' = [cached EXCEPT ![KeyOf(o)] = 0]
    BY <1>6 DEF CollectIdle, EvictIdle
  <2>5. 0 \in 0..MaxStates
    BY ConstantFacts
  <2>6. cached' \in [Key -> 0..MaxStates]
    BY <2>4, <2>5 DEF KeyTypes
  <2>7. QED
    BY <1>6, <2>3, <2>6 DEF CollectIdle, EvictIdle, KeyTypes
<1>7. QED
  BY <1>3, <1>4, <1>5, <1>6 DEF Background

\* Types hold of every step.
LEMMA TypesStep ==
    ASSUME Shape, [Next]_vars
    PROVE  KeyTypes'
<1>1. CASE UNCHANGED vars
  BY <1>1 DEF vars, Shape, KeyTypes
<1>2. ASSUME NEW c \in Caller, NEW r \in Requests, Begin(c, r)
      PROVE  KeyTypes'
  BY <1>2, BeginTypes DEF Shape
<1>3. ASSUME NEW c \in Caller, CallStep(c)
      PROVE  KeyTypes'
  BY <1>3, BatchTypes, FastTypes, SlowTypes, ReserveTypes, CompleteTypes DEF CallStep, Shape
<1>4. ASSUME NEW c \in Caller, Cancel(c)
      PROVE  KeyTypes'
  <2>1. call' = [call EXCEPT ![c] = NoCall]
    BY <1>4 DEF Cancel, Ended, Shape, KeyTypes
  <2>2. call' \in [Caller -> Call]
    BY <2>1 DEF Shape, KeyTypes, Call
  <2>3. QED
    BY <1>4, <2>2 DEF Cancel, Shape, KeyTypes
<1>5. ASSUME NEW o \in State, Background(o)
      PROVE  KeyTypes'
  BY <1>5, BackgroundTypes DEF Shape
<1>6. CASE Withdraw
  BY <1>6 DEF Withdraw, Shape, KeyTypes
<1>7. QED
  BY <1>1, <1>2, <1>3, <1>4, <1>5, <1>6 DEF Next

-----------------------------------------------------------------------------
\* Everybody works on cached states, step by step.

\* The call goes on with what it holds.
Moved(r, s) ==
    /\ s.held = r.held /\ s.todo = r.todo /\ s.pending = r.pending /\ s.o = r.o
    /\ r.o # None /\ s.pc \notin {"prepare", "idle"} \cup FetchLabel

LEMMA MovedCall ==
    ASSUME NEW r, NEW s, CallStates(r), Moved(r, s)
    PROVE  CallStates(s)
  BY DEF CallStates, Moved

LEMMA NoCallStates == CallStates(NoCall)
  BY EmptySeq DEF CallStates, NoCall, FetchLabel

LEMMA TurnStates ==
    ASSUME KeyTypes, NEW r \in Call, \A o \in r.held : IsCached(o),
           r.todo \in Seq(r.held), r.pending \in Seq(r.held)
    PROVE  CallStates(Turn(r))
<1> DEFINE o == Head(r.todo)
           t == [r EXCEPT !.pc = IF r.count = 1 THEN "fast" ELSE "block",
                       !.o = o, !.todo = Tail(r.todo),
                       !.floor = Max(issued[KeyOf(o)] \cup {0}),
                       !.hadRange = FALSE, !.id = 0, !.generation = 0, !.start = 0]
<1>1. r \in CallRecord /\ r.todo \in Seq(r.held) /\ r.held \in SUBSET State
  BY CallFields DEF CallRecord
<1>2. CASE r.todo = <<>>
  BY <1>2, NoCallStates DEF Turn
<1>3. CASE r.todo # <<>>
  <2>1. o \in r.held /\ Tail(r.todo) \in Seq(r.held)
    BY <1>1, <1>3, HeadTailProperties
  <2>2. o # None
    BY <1>1, <2>1, ConstantFacts
  <2>3. Turn(r) = t
    BY <1>3 DEF Turn
  <2> HIDE DEF o
  <2>4. /\ t.held = r.held /\ t.todo = Tail(r.todo) /\ t.pending = r.pending /\ t.o = o
        /\ t.pc \notin {"prepare", "idle"} \cup FetchLabel
    BY <1>1 DEF CallRecord, FetchLabel
  <2> HIDE DEF t
  <2>5. QED
    BY <2>1, <2>2, <2>3, <2>4 DEF CallStates
<1>4. QED
  BY <1>2, <1>3

\* A step that creates and evicts nothing.
LEMMA CacheKept ==
    ASSUME Shape, KeyTypes', cached' = cached, born' = born,
           \A o \in State : ks'[o] = ks[o] \/ (IsCached(o) /\ ks'[o].retired = ks[o].retired),
           \A c \in Caller : CallStates(call'[c])
    PROVE  StatesInv'
<1>1. \A o : IsCached(o)' = IsCached(o)
  BY DEF IsCached
<1>2. \A o \in State : cached[KeyOf(o)] <= born[KeyOf(o)]
  BY StateFacts DEF Shape, StatesInv
<1>3. ASSUME NEW o \in State, IsCached(o)
      PROVE  ~(o[2] > born[KeyOf(o)])
  <2>1. cached[KeyOf(o)] \in Nat /\ born[KeyOf(o)] \in Nat /\ cached[KeyOf(o)] = o[2]
    BY <1>3, StateFacts, ConstantFacts DEF Shape, KeyTypes, IsCached
  <2>2. QED
    BY <1>2, <2>1
<1>4. \A c \in Caller : CallStates(call[c])'
  BY <1>1 DEF CallStates
<1>5. QED
  BY <1>1, <1>3, <1>4 DEF Shape, StatesInv

\* The calls of the others stay as they are.
LEMMA OneCall ==
    ASSUME Shape, NEW c \in Caller,
           \A d \in Caller \ {c} : call'[d] = call[d], CallStates(call'[c])
    PROVE  \A d \in Caller : CallStates(call'[d])
  BY DEF Shape, StatesInv

LEMMA FastCalls ==
    ASSUME Shape, NEW c \in Caller,
           \/ FastLoad(c) \/ FastAdd(c) \/ FastStart(c) \/ FastEnd(c) \/ FastRestart(c)
           \/ BlockLoad(c) \/ BlockNext(c) \/ BlockStart(c) \/ BlockEnd(c)
    PROVE  /\ \A d \in Caller \ {c} : call'[d] = call[d]
           /\ call'[c] = NoCall \/ Moved(call[c], call'[c])
           /\ \A o \in State : ks'[o] = ks[o] \/ (o = call[c].o /\ ks'[o].retired = ks[o].retired)
<1>1. call[c] \in CallRecord /\ call[c].o # None /\ call \in [Caller -> Call]
      /\ ks \in [State -> KeyRecord]
  BY CallTypes DEF Shape, KeyTypes, StatesInv, CallStates, FetchLabel, At, FastLoad, FastAdd,
     FastStart, FastEnd, FastRestart, BlockLoad, BlockNext, BlockStart, BlockEnd
<1>3. \A d \in Caller \ {c} : call'[d] = call[d]
  BY <1>1 DEF Ended, Goto, Read, FastLoad, FastAdd, FastStart, FastEnd, FastRestart,
     BlockLoad, BlockNext, BlockStart, BlockEnd
<1>4. call'[c] = NoCall \/ Moved(call[c], call'[c])
  <2>1. CASE FastAdd(c)
    BY <1>1, <2>1 DEF FastAdd, Ended, Moved, CallRecord, FetchLabel
  <2>2. CASE FastLoad(c)
    BY <1>1, <2>2 DEF FastLoad, Moved, CallRecord, FetchLabel
  <2>3. CASE FastStart(c)
    BY <1>1, <2>3 DEF FastStart, Moved, CallRecord, FetchLabel
  <2>4. CASE BlockLoad(c)
    BY <1>1, <2>4 DEF BlockLoad, Missed, Moved, CallRecord, FetchLabel
  <2>5. CASE BlockNext(c)
    BY <1>1, <2>5 DEF BlockNext, Moved, CallRecord, FetchLabel
  <2>6. CASE FastEnd(c) \/ FastRestart(c) \/ BlockStart(c) \/ BlockEnd(c)
    BY <1>1, <2>6 DEF FastEnd, FastRestart, BlockStart, BlockEnd, Read, Goto, Missed, Moved,
       CallRecord, FetchLabel
  <2>7. QED
    BY <2>1, <2>2, <2>3, <2>4, <2>5, <2>6
<1>5. \A o \in State : ks'[o] = ks[o] \/ (o = call[c].o /\ ks'[o].retired = ks[o].retired)
  BY <1>1 DEF Read, FastLoad, FastAdd, FastStart, FastEnd, FastRestart,
     BlockLoad, BlockNext, BlockStart, BlockEnd, KeyRecord
<1>6. QED
  BY <1>3, <1>4, <1>5

\* What a step of c's own call leaves of the others.
OwnStep(c) ==
    /\ \A d \in Caller \ {c} : call'[d] = call[d]
    /\ \A o \in State : ks'[o] = ks[o] \/ (o = call[c].o /\ ks'[o].retired = ks[o].retired)

LEMMA IssueCalls ==
    ASSUME Shape, NEW c \in Caller, call[c].o # None, NEW k \in KeyRecord,
           k.retired = Mine(c).retired,
           NEW first, NEW generation, Issue(c, k, first, generation)
    PROVE  OwnStep(c) /\ (call'[c] = NoCall \/ Moved(call[c], call'[c]))
<1>1. call[c] \in CallRecord /\ call \in [Caller -> Call] /\ ks \in [State -> KeyRecord]
  BY CallTypes DEF Shape, KeyTypes
<1>2. \A d \in Caller \ {c} : call'[d] = call[d]
  BY <1>1 DEF Issue, Ended
<1>3. call'[c] = NoCall \/ Moved(call[c], call'[c])
  BY <1>1 DEF Issue, Ended, Moved, CallRecord, FetchLabel
<1>4. \A o \in State : ks'[o] = ks[o] \/ (o = call[c].o /\ ks'[o].retired = ks[o].retired)
  BY <1>1 DEF Issue, KeyRecord, Mine
<1>5. QED
  BY <1>2, <1>3, <1>4 DEF OwnStep

LEMMA RefillCalls ==
    ASSUME Shape, NEW c \in Caller, call[c].o # None, NEW k \in KeyRecord,
           k.retired = Mine(c).retired, Refill(c, k)
    PROVE  OwnStep(c) /\ CallStates(call'[c])
<1> DEFINE o == call[c].o
<1>1. call[c] \in CallRecord /\ call \in [Caller -> Call] /\ ks \in [State -> KeyRecord]
      /\ o \in State /\ CallStates(call[c])
  BY CallTypes DEF Shape, KeyTypes, StatesInv
<1>2. \A d \in Caller \ {c} : call'[d] = call[d]
  BY <1>1 DEF Refill, Goto, Ended
<1>3. ASSUME NEW x \in State
      PROVE  ks'[x] = ks[x] \/ (x = o /\ ks'[x].retired = ks[x].retired)
  <2>1. CASE x # o
    BY <1>1, <2>1 DEF Refill
  <2>2. CASE x = o
    <3>1. /\ Hold(c, k).retired = k.retired /\ Release(k).retired = k.retired
          /\ Release([k EXCEPT !.standby = NoRange]).retired = k.retired
          /\ [Release([k EXCEPT !.standby = NoRange]) EXCEPT !.timer = 0,
                !.fetch = [NoFetch EXCEPT !.by = c, !.at = "sent"]].retired = k.retired
      BY DEF Hold, Release, KeyRecord
    <3>2. QED
      BY <1>1, <2>2, <3>1 DEF Refill, Mine
  <2>3. QED
    BY <2>1, <2>2
<1>4. CallStates(call'[c])
  <2>1. \/ Goto(c, "odd") \/ Goto(c, "wait") \/ Ended({c})
        \/ call' = [call EXCEPT ![c].pc = "reserve", ![c].pending = <<o>>]
    BY DEF Refill
  <2>2. CASE Goto(c, "odd") \/ Goto(c, "wait")
    <3>1. Moved(call[c], call'[c])
      BY <1>1, <2>2 DEF Goto, Moved, CallRecord, FetchLabel
    <3>2. QED
      BY <1>1, <3>1, MovedCall
  <2>3. CASE Ended({c})
    BY <2>3, NoCallStates DEF Ended
  <2>4. CASE call' = [call EXCEPT ![c].pc = "reserve", ![c].pending = <<o>>]
    <3>1. call'[c] = [call[c] EXCEPT !.pc = "reserve", !.pending = <<o>>]
      BY <1>1, <2>4
    <3>2. /\ call'[c].held = call[c].held /\ call'[c].todo = call[c].todo
          /\ call'[c].pending = <<o>> /\ call'[c].o = o /\ call'[c].pc = "reserve"
      BY <1>1, <3>1 DEF CallRecord
    <3>3. o \in call[c].held
      BY <1>1 DEF CallStates
    <3>4. <<o>> \in Seq(call[c].held) /\ <<o>> # <<>>
      BY <3>3, OneKey
    <3>5. QED
      BY <1>1, <3>2, <3>3, <3>4 DEF CallStates, FetchLabel
  <2>5. QED
    BY <2>1, <2>2, <2>3, <2>4
<1>5. QED
  BY <1>2, <1>3, <1>4 DEF OwnStep

LEMMA SlowCalls ==
    ASSUME Shape, NEW c \in Caller,
           \/ FastReturn(c) \/ BlockSwap(c) \/ BlockReturn(c)
           \/ AllocateSlow(c) \/ AllocateBlockSlow(c) \/ BlockRefill(c)
           \/ ActivateOdd(c) \/ ActivateCursor(c) \/ ActivateStart(c) \/ ActivateEnd(c)
           \/ ActivateEven(c)
    PROVE  OwnStep(c) /\ CallStates(call'[c])
<1> DEFINE o == call[c].o
           k == Mine(c)
<1>1. /\ call[c] \in CallRecord /\ o \in State /\ k \in KeyRecord /\ o # None
      /\ call \in [Caller -> Call] /\ ks \in [State -> KeyRecord] /\ k = ks[o]
      /\ CallStates(call[c])
  BY CallTypes DEF Shape, KeyTypes, StatesInv, CallStates, FetchLabel, At, FastReturn, BlockSwap,
     BlockReturn, AllocateSlow, AllocateBlockSlow, BlockRefill, ActivateOdd, ActivateCursor,
     ActivateStart, ActivateEnd, ActivateEven, Mine
<1>2. /\ Moved(call[c], call'[c]) => CallStates(call'[c])
      /\ CallStates(NoCall)
  BY <1>1, MovedCall, NoCallStates
<1> HIDE DEF k
<1>0. /\ k.next \in Nat /\ k.next + 1 \in Nat /\ k.next + call[c].count \in Nat
      /\ k.mu \in Caller \cup {None} /\ c \in Caller \cup {None}
  BY <1>1 DEF KeyRecord, CallRecord
<1>3. ASSUME NEW x \in KeyRecord, x.retired = k.retired, NEW pc \in Label,
             pc \notin {"prepare", "idle"} \cup FetchLabel,
             ks' = ks \/ ks' = [ks EXCEPT ![o] = x], Goto(c, pc)
      PROVE  OwnStep(c) /\ CallStates(call'[c])
  <2>1. \A d \in Caller \ {c} : call'[d] = call[d]
    BY <1>1, <1>3 DEF Goto
  <2>2. Moved(call[c], call'[c])
    BY <1>1, <1>3 DEF Goto, Moved, CallRecord
  <2>3. QED
    BY <1>1, <1>2, <1>3, <2>1, <2>2 DEF OwnStep
<1>4. ASSUME NEW x \in KeyRecord, x.retired = k.retired,
             ks' = ks \/ ks' = [ks EXCEPT ![o] = x], Ended({c})
      PROVE  OwnStep(c) /\ CallStates(call'[c])
  BY <1>1, <1>2, <1>4 DEF OwnStep, Ended
<1>5. ASSUME NEW x \in KeyRecord, x.retired = k.retired, NEW first, NEW generation,
             Issue(c, x, first, generation)
      PROVE  OwnStep(c) /\ CallStates(call'[c])
  BY <1>1, <1>2, <1>5, IssueCalls DEF k
<1>6. ASSUME NEW x \in KeyRecord, x.retired = k.retired, Refill(c, x)
      PROVE  OwnStep(c) /\ CallStates(call'[c])
  BY <1>1, <1>6, RefillCalls DEF k
<1>7. /\ \A pc \in {"slow", "rest", "swapped", "block"} \cup OddLabel :
           pc \in Label /\ pc \notin {"prepare", "idle"} \cup FetchLabel
      /\ Missed(c) \in {"rest", "slow"}
  BY DEF Label, BlockLabel, OddLabel, FetchLabel, Missed
<1>8. CASE FastReturn(c)
  BY <1>1, <1>3, <1>5, <1>7, <1>8 DEF FastReturn, k
<1>9. CASE BlockSwap(c)
  <2> DEFINE x == [k EXCEPT !.mu = IF Locked(c) THEN None ELSE @]
             y == [k EXCEPT !.next = @ + call[c].count]
  <2>1. x \in KeyRecord /\ x.retired = k.retired /\ y \in KeyRecord /\ y.retired = k.retired
    BY <1>0, <1>1 DEF KeyRecord
  <2>2. \/ Ended({c}) /\ ks' = [ks EXCEPT ![o] = x]
        \/ Goto(c, "swapped") /\ ks' = [ks EXCEPT ![o] = y]
        \/ Goto(c, Missed(c)) /\ ks' = ks
    BY <1>1, <1>9 DEF BlockSwap, k
  <2> HIDE DEF x, y
  <2>3. QED
    BY <1>1, <1>3, <1>4, <1>7, <2>1, <2>2
<1>10. CASE BlockReturn(c)
  <2>1. Missed(c) \in Label /\ Missed(c) \notin {"prepare", "idle"} \cup FetchLabel
    BY <1>7
  <2>2. \/ Issue(c, k, call[c].id + 1, call[c].generation)
        \/ Goto(c, Missed(c)) /\ ks' = ks
    BY <1>10 DEF BlockReturn, k
  <2>3. CASE Issue(c, k, call[c].id + 1, call[c].generation)
    BY <1>1, <1>5, <2>3
  <2>4. CASE Goto(c, Missed(c)) /\ ks' = ks
    <3>1. PICK pc \in Label : pc = Missed(c) /\ pc \notin {"prepare", "idle"} \cup FetchLabel
      BY <2>1
    <3>2. Goto(c, pc)
      BY <2>4, <3>1
    <3>3. QED
      BY <1>1, <1>3, <2>4, <3>1, <3>2
  <2>5. QED
    BY <2>2, <2>3, <2>4
<1>11. CASE AllocateSlow(c)
  <2> DEFINE again == [k EXCEPT !.next = @ + 1]
  <2>1. again \in KeyRecord /\ again.retired = k.retired
    BY <1>0, <1>1 DEF KeyRecord
  <2>2. \/ Ended({c}) /\ ks' = ks
        \/ Refill(c, k)
        \/ Issue(c, k, call[c].id, k.generation)
        \/ Issue(c, again, again.next, k.generation)
        \/ Refill(c, again)
    BY <1>11 DEF AllocateSlow, k
  <2> HIDE DEF again
  <2>3. QED
    BY <1>1, <1>4, <1>5, <1>6, <2>1, <2>2
<1>12. CASE AllocateBlockSlow(c)
  <2>1. Hold(c, k) \in KeyRecord /\ Hold(c, k).retired = k.retired
    BY <1>0, <1>1 DEF KeyRecord, Hold
  <2>2. ks' = [ks EXCEPT ![o] = Hold(c, k)]
    BY <1>1, <1>12 DEF AllocateBlockSlow, k
  <2>3. QED
    BY <1>3, <1>7, <1>12, <2>1, <2>2 DEF AllocateBlockSlow
<1>13. CASE BlockRefill(c)
  BY <1>1, <1>6, <1>13 DEF BlockRefill, k
<1>14. CASE ActivateOdd(c) \/ ActivateCursor(c) \/ ActivateStart(c) \/ ActivateEnd(c)
  <2>1. call[c].count \in Nat /\ k.standby.start \in Nat \ {0} /\ k.standby.end \in Nat
    BY <1>1 DEF CallRecord, KeyRecord, Block
  <2>2. /\ [k EXCEPT !.generation = @ + 1] \in KeyRecord
        /\ [k EXCEPT !.generation = @ + 1].retired = k.retired
        /\ [k EXCEPT !.next = k.standby.start + call[c].count - 1] \in KeyRecord
        /\ [k EXCEPT !.next = k.standby.start + call[c].count - 1].retired = k.retired
        /\ [k EXCEPT !.start = k.standby.start] \in KeyRecord
        /\ [k EXCEPT !.start = k.standby.start].retired = k.retired
        /\ [k EXCEPT !.end = k.standby.end] \in KeyRecord
        /\ [k EXCEPT !.end = k.standby.end].retired = k.retired
    BY <1>1, <2>1 DEF KeyRecord
  <2>3. PICK x \in KeyRecord, pc \in OddLabel : Write(c, x, pc) /\ x.retired = k.retired
    BY <1>14, <2>2 DEF ActivateOdd, ActivateCursor, ActivateStart, ActivateEnd, OddLabel, k
  <2>4. QED
    BY <1>3, <1>7, <2>3 DEF Write
<1>15. CASE ActivateEven(c)
  <2> DEFINE x == [k EXCEPT !.generation = @ + 1, !.initialized = TRUE,
                            !.standby = NoRange, !.timer = 0]
  <2>1. NoRange \in Block /\ k.generation + 1 \in Nat
    BY <1>1, FreshTypes DEF KeyRecord
  <2>2. x \in KeyRecord /\ x.retired = k.retired
    BY <1>1, <2>1 DEF KeyRecord
  <2>3. Issue(c, x, k.standby.start, k.generation + 1)
    BY <1>15 DEF ActivateEven, k
  <2> HIDE DEF x
  <2>4. QED
    BY <1>5, <2>2, <2>3
<1>16. QED
  BY <1>8, <1>9, <1>10, <1>11, <1>12, <1>13, <1>14, <1>15

LEMMA BatchCalls ==
    ASSUME Shape, NEW c \in Caller, PrepareBatchRange(c) \/ AfterAllocate(c)
    PROVE  OwnStep(c) /\ CallStates(call'[c])
<1> DEFINE r == call[c]
           o == call[c].o
<1>1. /\ r \in Call /\ r \in CallRecord /\ r.pc # "idle" /\ o \in State /\ CallStates(r)
      /\ KeyTypes /\ call \in [Caller -> Call] /\ ks \in [State -> KeyRecord] /\ o \in r.held
  BY CallTypes, ConstantFacts DEF Shape, KeyTypes, StatesInv, CallStates, FetchLabel, At,
     PrepareBatchRange, AfterAllocate
<1>2. \A d \in Caller \ {c} : call'[d] = call[d]
  BY <1>1 DEF PrepareBatchRange, AfterAllocate
<1>3. \A x \in State : ks'[x] = ks[x] \/ (x = o /\ ks'[x].retired = ks[x].retired)
  <2> DEFINE u == [ks[o] EXCEPT !.standby = NoRange, !.timer = 0,
                                !.fetch = [NoFetch EXCEPT !.by = c, !.at = "sent"]]
             v == [ks[o] EXCEPT !.fetch = [NoFetch EXCEPT !.by = "prefetch", !.at = "sent"],
                                !.timer = 0]
  <2>1. u.retired = ks[o].retired /\ v.retired = ks[o].retired
    BY <1>1 DEF KeyRecord
  <2>2. ks' = ks \/ ks' = [ks EXCEPT ![o] = u] \/ ks' = [ks EXCEPT ![o] = v]
    BY <1>1 DEF PrepareBatchRange, AfterAllocate
  <2> HIDE DEF u, v
  <2>3. QED
    BY <1>1, <2>1, <2>2
<1>4. CallStates(Turn(r))
  BY <1>1, TurnStates DEF CallStates
<1>5. CASE AfterAllocate(c)
  BY <1>1, <1>2, <1>3, <1>4, <1>5 DEF AfterAllocate, OwnStep
<1>6. CASE PrepareBatchRange(c)
  <2> DEFINE n == CHOOSE n \in DOMAIN r.todo : r.todo[n] = r.o
             wanted == ~HasReadyBlock(Mine(c), r.count) /\ Mine(c).fetch = NoFetch
             pending == IF wanted THEN Append(r.pending, r.o) ELSE r.pending
             next == IF n < Len(r.todo)
                     THEN [r EXCEPT !.o = r.todo[n + 1], !.pending = pending]
                     ELSE IF pending = <<>> THEN Turn(r)
                     ELSE [r EXCEPT !.pc = "reserve", !.o = None, !.pending = pending]
  <2>1. n < Len(r.todo) => n + 1 \in DOMAIN r.todo /\ r.todo[n + 1] \in r.held
    BY <1>6, NextOfBatch DEF PrepareBatchRange
  <2>2. pending \in Seq(r.held)
    <3>1. r.pending \in Seq(r.held) /\ r.o \in r.held
      BY <1>1 DEF CallStates
    <3>2. Append(r.pending, r.o) \in Seq(r.held)
      BY <3>1, AppendProperties
    <3>3. QED
      BY <3>1, <3>2
  <2>3. call'[c] = next
    BY <1>1, <1>6 DEF PrepareBatchRange
  <2>4. r.pc = "prepare"
    BY <1>6 DEF PrepareBatchRange, At
  <2> HIDE DEF n, wanted, pending
  <2>5. ASSUME n < Len(r.todo)
        PROVE  CallStates([r EXCEPT !.o = r.todo[n + 1], !.pending = pending])
    <3> DEFINE s == [r EXCEPT !.o = r.todo[n + 1], !.pending = pending]
    <3>1. /\ s.held = r.held /\ s.todo = r.todo /\ s.pending = pending
          /\ s.o = r.todo[n + 1] /\ s.pc = "prepare"
      BY <1>1, <2>4 DEF CallRecord
    <3>2. r.todo[n + 1] # None /\ r.todo[n + 1] \in r.held
      BY <1>1, <2>1, <2>5, ConstantFacts DEF CallRecord
    <3> HIDE DEF s
    <3>3. \E m \in DOMAIN s.todo : s.todo[m] = s.o
      BY <2>1, <2>5, <3>1
    <3>4. CallStates(s)
      BY <1>1, <2>2, <3>1, <3>2, <3>3 DEF CallStates, FetchLabel
    <3>5. QED
      BY <3>4 DEF s
  <2>6. ASSUME pending # <<>>
        PROVE  CallStates([r EXCEPT !.pc = "reserve", !.o = None, !.pending = pending])
    BY <1>1, <2>2, <2>6 DEF CallStates, FetchLabel, CallRecord
  <2>7. CallStates(call'[c])
    BY <1>4, <2>3, <2>5, <2>6
  <2>8. QED
    BY <1>2, <1>3, <2>7 DEF OwnStep
<1>7. QED
  BY <1>5, <1>6

\* A step of a call's own, whatever it is.
LEMMA OwnStepStates ==
    ASSUME Shape, KeyTypes', NEW c \in Caller, OwnStep(c), CallStates(call'[c]),
           cached' = cached, born' = born, call[c].o # None
    PROVE  StatesInv'
<1>1. IsCached(call[c].o)
  BY DEF Shape, StatesInv, CallStates
<1>2. \A d \in Caller : CallStates(call'[d])
  BY OneCall DEF OwnStep
<1>3. \A o \in State : ks'[o] = ks[o] \/ (IsCached(o) /\ ks'[o].retired = ks[o].retired)
  BY <1>1 DEF OwnStep
<1>4. QED
  BY <1>2, <1>3, CacheKept

LEMMA ReserveStates ==
    ASSUME Shape, KeyTypes', NEW c \in Caller, Reserve(c)
    PROVE  StatesInv'
<1> DEFINE P == {call[c].pending[n] : n \in DOMAIN call[c].pending}
           step == StepFor(call[c].count)
           Answer(at, o) == [ks[o].fetch EXCEPT !.at = at,
            !.got = IF at = "answered" THEN [start |-> mark[KeyOf(o)] + 1,
                                             end |-> mark[KeyOf(o)] + step]
                    ELSE NoRange]
           Answered(at) ==
            /\ ks' = [o \in State |-> IF o \in P THEN [ks[o] EXCEPT !.fetch = Answer(at, o)]
                                      ELSE ks[o]]
            /\ Goto(c, IF at = "answered" THEN "complete" ELSE "fail")
<1>1. PICK at \in {"answered", "failed"} : Answered(at)
  BY DEF Reserve
<1>2. /\ call[c] \in CallRecord /\ CallStates(call[c]) /\ call[c].pc = "reserve"
      /\ call \in [Caller -> Call] /\ ks \in [State -> KeyRecord]
  BY CallTypes DEF Shape, KeyTypes, StatesInv, Reserve, At
<1>3. \A o \in P : o \in call[c].held /\ IsCached(o)
  BY <1>2 DEF CallStates
<1>4. ASSUME NEW o \in State
      PROVE  ks'[o] = ks[o] \/ (IsCached(o) /\ ks'[o].retired = ks[o].retired)
  <2> HIDE DEF Answer, P
  <2>1. ks'[o] = IF o \in P THEN [ks[o] EXCEPT !.fetch = Answer(at, o)] ELSE ks[o]
    BY <1>1
  <2>2. [ks[o] EXCEPT !.fetch = Answer(at, o)].retired = ks[o].retired
    BY <1>2 DEF KeyRecord
  <2>3. QED
    BY <1>3, <2>1, <2>2
<1>5. \A d \in Caller \ {c} : call'[d] = call[d]
  BY <1>1, <1>2 DEF Goto
<1>6. CallStates(call'[c])
  <2>1. /\ call'[c].held = call[c].held /\ call'[c].todo = call[c].todo
        /\ call'[c].pending = call[c].pending /\ call'[c].o = call[c].o
        /\ call'[c].pc \in FetchLabel
    BY <1>1, <1>2 DEF Goto, CallRecord, FetchLabel
  <2>2. QED
    BY <1>2, <2>1 DEF CallStates, FetchLabel
<1>7. \A d \in Caller : CallStates(call'[d])
  BY <1>5, <1>6, OneCall
<1>8. QED
  BY <1>4, <1>7, CacheKept DEF Reserve

\* Who waited is woken, or fails.
LEMMA WakeStates ==
    ASSUME Shape, NEW o \in State, NEW ok \in BOOLEAN
    PROVE  \A c \in Caller : CallStates(Wake(Woken(o), ok)[c])
<1> TAKE c \in Caller
<1>1. call[c] \in CallRecord /\ CallStates(call[c])
  BY CallTypes DEF Shape, StatesInv
<1>2. ASSUME c \in Woken(o)
      PROVE  Moved(call[c], [call[c] EXCEPT !.pc = "slow"])
  BY <1>1, <1>2, ConstantFacts DEF Woken, Waiters, Moved, CallRecord, FetchLabel
<1>3. QED
  BY <1>1, <1>2, MovedCall, NoCallStates DEF Wake

LEMMA CompleteKept ==
    ASSUME Shape, NEW o \in State, IsCached(o), NEW timer, Complete(o, timer)
    PROVE  \A x \in State : ks'[x] = ks[x] \/ (IsCached(x) /\ ks'[x].retired = ks[x].retired)
  BY DEF Complete, Shape, KeyTypes, KeyRecord

LEMMA CompleteStates ==
    ASSUME Shape, KeyTypes', NEW c \in Caller, CompleteFetch(c)
    PROVE  StatesInv'
<1> DEFINE r == call[c]
           o == Head(r.pending)
           ok == At(c, "complete")
           left == [r EXCEPT !.pending = Tail(@)]
           done == IF left.pending # <<>> THEN left
                   ELSE IF ~ok THEN NoCall
                   ELSE IF r.o = None THEN Turn(left)
                   ELSE [left EXCEPT !.pc = "slow"]
<1>1. /\ r \in Call /\ r \in CallRecord /\ r.pc # "idle" /\ r.pc \in FetchLabel /\ KeyTypes
      /\ CallStates(r) /\ r.count # 0 /\ call \in [Caller -> Call]
  BY CallTypes, CallFields DEF Shape, KeyTypes, StatesInv, CompleteFetch, FetchLabel
<1>2. o \in State /\ o \in r.held /\ Tail(r.pending) \in Seq(r.held)
      /\ Tail(r.pending) \in Seq(State)
  BY <1>1, FirstPending
<1>3. IsCached(o)
  BY <1>1, <1>2 DEF CallStates
<1>4. left \in Call /\ left.pc = r.pc
      /\ left.pending = Tail(r.pending) /\ left.held = r.held /\ left.todo = r.todo
      /\ left.o = r.o
  BY <1>1, <1>2 DEF CallRecord, Call
<1>5. CallStates(done)
  <2> HIDE DEF left
  <2>1. CASE left.pending # <<>>
    BY <1>1, <1>2, <1>4, <2>1 DEF CallStates, FetchLabel
  <2>2. CASE r.o = None /\ left.pending = <<>> /\ ok
    <3>1. CallStates(Turn(left))
      BY <1>1, <1>2, <1>4, TurnStates DEF CallStates
    <3>2. QED
      BY <2>2, <3>1
  <2>3. CASE r.o # None
    <3> DEFINE t == [left EXCEPT !.pc = "slow"]
    <3>1. t.held = r.held /\ t.todo = r.todo /\ t.pending = left.pending /\ t.o = r.o
          /\ t.pc = "slow"
      BY <1>4, CallFields DEF CallRecord
    <3> HIDE DEF t
    <3>2. CallStates(t)
      BY <1>1, <1>2, <1>4, <2>3, <3>1 DEF CallStates, FetchLabel
    <3>3. QED
      BY <2>1, <2>3, <3>2, NoCallStates DEF t
  <2>4. QED
    BY <2>1, <2>2, <2>3, NoCallStates
<1> HIDE DEF done
<1>6. /\ call' = [Wake(Woken(o), ok) EXCEPT ![c] = done]
      /\ Complete(o, ks[o].timer) /\ Still
  BY DEF CompleteFetch, done
<1>7. Wake(Woken(o), ok) = [d \in Caller |-> Wake(Woken(o), ok)[d]]
  BY DEF Wake
<1>8. \A d \in Caller : CallStates(Wake(Woken(o), ok)[d])
  <2>1. ok \in BOOLEAN
    BY DEF At
  <2>2. QED
    BY <1>2, <2>1, WakeStates
<1>9. \A d \in Caller : call'[d] = IF d = c THEN done ELSE Wake(Woken(o), ok)[d]
  BY <1>6, <1>7
<1>10. \A d \in Caller : CallStates(call'[d])
  BY <1>5, <1>8, <1>9
<1>11. \A x \in State : ks'[x] = ks[x] \/ (IsCached(x) /\ ks'[x].retired = ks[x].retired)
  BY <1>2, <1>3, <1>6, CompleteKept
<1>12. QED
  BY <1>6, <1>10, <1>11, CacheKept DEF Still

LEMMA BeginStatesInv ==
    ASSUME Shape, KeyTypes', NEW c \in Caller, NEW r \in Requests, Begin(c, r)
    PROVE  StatesInv'
<1>1. /\ born' = [k \in Key |-> IF k \in NewKeys(r) THEN born[k] + 1 ELSE born[k]]
      /\ cached' = [k \in Key |-> IF k \in NewKeys(r) THEN born'[k] ELSE cached[k]]
      /\ ks' = ks /\ KeyTypes /\ StatesInv
      /\ \A k \in NewKeys(r) : cached[k] = 0
  BY DEF Begin, NewKeys, Shape
<1>2. \A k \in Key : /\ born[k] \in Nat /\ cached[k] \in Nat /\ born'[k] \in Nat
                     /\ cached[k] <= born[k]
                     /\ born'[k] = IF k \in NewKeys(r) THEN born[k] + 1 ELSE born[k]
                     /\ cached'[k] = IF k \in NewKeys(r) THEN born[k] + 1 ELSE cached[k]
                     /\ k \in NewKeys(r) => cached[k] = 0
  BY <1>1 DEF KeyTypes, StatesInv
<1>3. \A o \in State : KeyOf(o) \in Key /\ o[2] \in Nat \ {0}
  BY StateFacts
<1>4. \A k \in Key : cached'[k] <= born'[k]
  BY <1>2
<1>5. ASSUME NEW o \in State, o[2] > born'[KeyOf(o)]
      PROVE  ks'[o] = NewState
  <2>1. o[2] > born[KeyOf(o)]
    BY <1>2, <1>3, <1>5
  <2>2. QED
    BY <1>1, <2>1 DEF StatesInv
<1>6. ASSUME NEW o \in State, IsCached(o)
      PROVE  IsCached(o)'
  BY <1>2, <1>3, <1>6 DEF IsCached
<1>7. ASSUME NEW o \in State, IsCached(o)'
      PROVE  ~ks[o].retired
  <2>1. CASE IsCached(o)
    BY <1>1, <2>1 DEF StatesInv
  <2>2. CASE ~IsCached(o)
    <3>1. o[2] > born[KeyOf(o)]
      BY <1>2, <1>3, <1>7, <2>2 DEF IsCached
    <3>2. ks[o] = NewState
      BY <1>1, <3>1 DEF StatesInv
    <3>3. QED
      BY <3>2 DEF NewState
  <2>3. QED
    BY <2>1, <2>2
<1>8. \A k \in {r.keys[n] : n \in DOMAIN r.keys} : k \in Key
  BY ConstantFacts
<1>9. ASSUME NEW n \in DOMAIN r.keys, NEW o, o = Acquired(r.keys[n])
      PROVE  IsCached(o)'
  <2> DEFINE k == r.keys[n]
  <2>1. k \in Key /\ (cached[k] = 0 <=> k \in NewKeys(r))
    BY <1>8 DEF NewKeys
  <2> HIDE DEF k
  <2>2. o = Acquired(k)
    BY <1>9 DEF k
  <2>3. QED
    BY <1>2, <2>1, <2>2 DEF Acquired, Cached, IsCached, KeyOf
<1>10. Begun(r).held = {BeginStates(r)[n] : n \in DOMAIN r.keys} /\ Begun(r).pending = <<>>
       /\ Begun(r).todo = BeginStates(r)
  BY BeginFacts DEF Begun, NoCall, Shape
<1>11. ASSUME NEW o \in Begun(r).held
       PROVE  IsCached(o)'
  <2>1. PICK n \in DOMAIN r.keys : o = Acquired(r.keys[n])
    BY <1>10 DEF BeginStates
  <2>2. QED
    BY <1>9, <2>1
<1>12. CallStates(call[c])'
  <2> DEFINE s == [Begun(r) EXCEPT !.pc = "prepare", !.o = Head(BeginStates(r))]
  <2>1. call' = [call EXCEPT ![c] = IF r.batch THEN s ELSE Turn(Begun(r))]
        /\ Begun(r) \in CallRecord /\ Begun(r).count # 0
    BY BegunCall DEF Shape
  <2>2. /\ BeginStates(r) \in Seq(Begun(r).held) /\ 1 \in DOMAIN BeginStates(r)
        /\ Head(BeginStates(r)) = BeginStates(r)[1] /\ Begun(r).held \in SUBSET State
        /\ Head(BeginStates(r)) \in Begun(r).held /\ BeginStates(r) # <<>>
        /\ Tail(BeginStates(r)) \in Seq(Begun(r).held)
    BY BeginFacts, HeadTailProperties DEF Shape
  <2>3. <<>> \in Seq(Begun(r).held) /\ Head(BeginStates(r)) # None
    BY <2>2, EmptySeq, ConstantFacts
  <2>4. CASE r.batch
    <3>1. /\ s.held = Begun(r).held /\ s.todo = BeginStates(r) /\ s.pending = <<>>
          /\ s.o = BeginStates(r)[1] /\ s.pc = "prepare"
      BY <1>10, <2>1, <2>2 DEF CallRecord
    <3>2. call'[c] = s
      BY <2>1, <2>4 DEF Shape, KeyTypes
    <3> HIDE DEF s
    <3>3. \E n \in DOMAIN s.todo : s.todo[n] = s.o
      BY <2>2, <3>1
    <3>4. QED
      BY <1>11, <2>2, <2>3, <3>1, <3>2, <3>3 DEF CallStates, FetchLabel
  <2>5. CASE ~r.batch
    <3> DEFINE o == Head(BeginStates(r))
               t == [Begun(r) EXCEPT !.pc = IF Begun(r).count = 1 THEN "fast" ELSE "block",
                       !.o = o, !.todo = Tail(BeginStates(r)),
                       !.floor = Max(issued[KeyOf(o)] \cup {0}),
                       !.hadRange = FALSE, !.id = 0, !.generation = 0, !.start = 0]
    <3>1. Turn(Begun(r)) = t
      BY <1>10, <2>2 DEF Turn
    <3>2. call'[c] = t
      BY <2>1, <2>5, <3>1 DEF Shape, KeyTypes
    <3> HIDE DEF o
    <3>3. /\ t.held = Begun(r).held /\ t.todo = Tail(BeginStates(r)) /\ t.pending = <<>>
          /\ t.o = o /\ t.pc \notin {"prepare", "idle"} \cup FetchLabel
      BY <1>10, <2>1 DEF CallRecord, FetchLabel
    <3> HIDE DEF t
    <3>4. QED
      BY <1>11, <2>2, <2>3, <3>2, <3>3 DEF CallStates, o
  <2>6. QED
    BY <2>4, <2>5
<1>13. ASSUME NEW d \in Caller
       PROVE  CallStates(call[d])'
  <2>1. CASE d = c
    BY <1>12, <2>1
  <2>2. CASE d # c
    <3>1. call'[d] = call[d] /\ call[d].held \in SUBSET State /\ CallStates(call[d])
      BY <1>1, <2>2, CallTypes DEF Begin, Shape, KeyTypes, StatesInv, CallRecord
    <3>2. QED
      BY <1>6, <3>1 DEF CallStates
  <2>3. QED
    BY <2>1, <2>2
<1>14. ASSUME NEW o \in State, ~IsCached(o)'
       PROVE  ks'[o].fetch = NoFetch /\ ks'[o].timer = 0
  BY <1>1, <1>6, <1>14 DEF StatesInv
<1>15. QED
  BY <1>1, <1>4, <1>5, <1>7, <1>13, <1>14 DEF StatesInv

LEMMA BackgroundStates ==
    ASSUME Shape, KeyTypes', NEW o \in State, Background(o)
    PROVE  StatesInv'
<1>1. ks[o] \in KeyRecord /\ ks \in [State -> KeyRecord] /\ KeyOf(o) \in Key
      /\ KeyTypes /\ StatesInv
  BY StateFacts DEF Shape, KeyTypes
<1>2. ASSUME cached' = cached, born' = born, \A c \in Caller : CallStates(call'[c]),
             \A x \in State : ks'[x] = ks[x] \/ (x = o /\ ks'[x].retired = ks[x].retired),
             IsCached(o)
      PROVE  StatesInv'
  BY <1>2, CacheKept
<1>3. \A c \in Caller : CallStates(call[c])
  BY <1>1 DEF StatesInv
<1>4. CASE BackgroundReserve(o)
  <2>1. IsCached(o)
    <3>1. ks[o].fetch # NoFetch
      BY <1>4, ConstantFacts DEF BackgroundReserve, NoFetch
    <3>2. QED
      BY <1>1, <3>1 DEF StatesInv
  <2>2. \A x \in State : ks'[x] = ks[x] \/ (x = o /\ ks'[x].retired = ks[x].retired)
    BY <1>1, <1>4 DEF BackgroundReserve, KeyRecord
  <2>3. QED
    BY <1>2, <1>3, <1>4, <2>1, <2>2 DEF BackgroundReserve
<1>5. CASE CompletePrefetch(o)
  <2>1. IsCached(o)
    <3>1. ks[o].fetch # NoFetch
      BY <1>5, ConstantFacts DEF CompletePrefetch, NoFetch
    <3>2. QED
      BY <1>1, <3>1 DEF StatesInv
  <2>2. \A x \in State : ks'[x] = ks[x] \/ (IsCached(x) /\ ks'[x].retired = ks[x].retired)
    BY <1>5, <2>1, CompleteKept DEF CompletePrefetch
  <2>3. \A c \in Caller : CallStates(call'[c])
    BY <1>5, WakeStates DEF CompletePrefetch
  <2>4. QED
    BY <1>5, <2>2, <2>3, CacheKept DEF CompletePrefetch, Still
<1>6. CASE TimerFires(o)
  <2>1. IsCached(o)
    BY <1>1, <1>6 DEF StatesInv, TimerFires
  <2>2. \A x \in State : ks'[x] = ks[x] \/ (x = o /\ ks'[x].retired = ks[x].retired)
    BY <1>1, <1>6 DEF TimerFires, KeyRecord
  <2>3. QED
    BY <1>2, <1>3, <1>6, <2>1, <2>2 DEF TimerFires, Still
<1>7. CASE RetryPrefetch(o) /\ IsCached(o)
  <2>1. \A x \in State : ks'[x] = ks[x] \/ (x = o /\ ks'[x].retired = ks[x].retired)
    BY <1>1, <1>7 DEF RetryPrefetch, KeyRecord
  <2>2. QED
    BY <1>2, <1>3, <1>7, <2>1 DEF RetryPrefetch, Still
<1>8. CASE RetryPrefetch(o) /\ ~IsCached(o)
  <2>1. ks' = [ks EXCEPT ![o].fired = 0]
    BY <1>8 DEF RetryPrefetch, InCache, IsCached
  <2>2. ks[o].fired # 0
    BY <1>8 DEF RetryPrefetch
  <2>3. \A x \in State : x # o => ks'[x] = ks[x]
    BY <1>1, <2>1
  <2>4. ks'[o].fetch = ks[o].fetch /\ ks'[o].timer = ks[o].timer /\ ks'[o].retired = ks[o].retired
    BY <1>1, <2>1 DEF KeyRecord
  <2>5. ~(o[2] > born[KeyOf(o)])
    <3>1. NewState.fired = 0
      BY DEF NewState
    <3>2. QED
      BY <1>1, <2>2, <3>1 DEF StatesInv
  <2>6. cached' = cached /\ born' = born /\ call' = call
    BY <1>8 DEF RetryPrefetch, Still
  <2>7. \A x : IsCached(x)' = IsCached(x)
    BY <2>6 DEF IsCached
  <2>8. \A c \in Caller : CallStates(call[c])'
    BY <1>3, <2>6, <2>7 DEF CallStates
  <2>9. QED
    BY <1>1, <2>3, <2>4, <2>5, <2>6, <2>7, <2>8 DEF StatesInv
<1>9. CASE CollectIdle(o)
  <2>1. IsCached(o)
    BY <1>9 DEF CollectIdle, IsCached
  <2>2. \A x \in State : ks'[x] = ks[x] \/ (x = o /\ ks'[x].retired = ks[x].retired)
    BY <1>1, <1>9 DEF CollectIdle, KeyRecord
  <2>3. QED
    BY <1>2, <1>3, <1>9, <2>1, <2>2 DEF CollectIdle
<1>10. CASE EvictIdle(o) /\ UNCHANGED <<cached, ks>>
  <2>1. \A x : IsCached(x)' = IsCached(x)
    BY <1>10 DEF IsCached
  <2>2. \A c \in Caller : CallStates(call[c])'
    BY <1>3, <1>10, <2>1 DEF CallStates, EvictIdle
  <2>3. QED
    BY <1>1, <1>10, <2>1, <2>2 DEF EvictIdle, StatesInv
<1>11. CASE EvictIdle(o) /\ ~UNCHANGED <<cached, ks>>
  <2>1. /\ IsCached(o) /\ Quiescent(o)
        /\ cached' = [cached EXCEPT ![KeyOf(o)] = 0]
        /\ ks' = [ks EXCEPT ![o].retired = TRUE, ![o].timer = 0]
        /\ born' = born /\ call' = call
    BY <1>11 DEF EvictIdle, IsCached
  <2>2. \A x \in State : IsCached(x)' <=> IsCached(x) /\ x # o
    <3> TAKE x \in State
    <3>1. x[2] # 0 /\ KeyOf(x) \in Key /\ x = <<KeyOf(x), x[2]>> /\ o = <<KeyOf(o), o[2]>>
          /\ cached \in [Key -> 0..MaxStates]
      BY <1>1, StateFacts DEF KeyTypes
    <3>2. cached'[KeyOf(x)] = IF KeyOf(x) = KeyOf(o) THEN 0 ELSE cached[KeyOf(x)]
      BY <2>1, <3>1
    <3>3. IsCached(x)' <=> cached'[KeyOf(x)] = x[2]
      BY DEF IsCached, KeyOf
    <3>4. QED
      BY <2>1, <3>1, <3>2, <3>3 DEF IsCached
  <2>3. \A x \in State : x # o => ks'[x] = ks[x]
    BY <1>1, <2>1
  <2>4. ks'[o].fetch = NoFetch /\ ks'[o].timer = 0
    BY <1>1, <2>1 DEF KeyRecord, Quiescent
  <2>5. \A c \in Caller : CallStates(call[c])'
    <3> TAKE c \in Caller
    <3>1. o \notin call[c].held /\ call[c].held \in SUBSET State /\ CallStates(call[c])
      BY <1>3, <2>1, CallTypes DEF Quiescent, Users, CallRecord, Shape
    <3>2. QED
      BY <2>1, <2>2, <3>1 DEF CallStates
  <2>6. ~(o[2] > born[KeyOf(o)])
    <3>1. o[2] = cached[KeyOf(o)] /\ cached[KeyOf(o)] <= born[KeyOf(o)]
          /\ cached[KeyOf(o)] \in Nat /\ born[KeyOf(o)] \in Nat
      BY <1>1, <2>1 DEF IsCached, StatesInv, KeyTypes
    <3>2. QED
      BY <3>1
  <2>7. \A k \in Key : cached'[k] <= born'[k]
    BY <1>1, <2>1 DEF KeyTypes, StatesInv
  <2>8. QED
    BY <1>1, <2>1, <2>2, <2>3, <2>4, <2>5, <2>6, <2>7 DEF StatesInv
<1>12. QED
  BY <1>4, <1>5, <1>6, <1>7, <1>8, <1>9, <1>10, <1>11 DEF Background

\* The states hold of every step.
LEMMA StatesStep ==
    ASSUME Shape, [Next]_vars
    PROVE  StatesInv'
<1>0. KeyTypes'
  BY TypesStep
<1>1. CASE UNCHANGED vars
  <2>1. \A x : IsCached(x)' = IsCached(x)
    BY <1>1 DEF IsCached, vars
  <2>2. \A c \in Caller : CallStates(call[c])'
    BY <1>1, <2>1 DEF vars, Shape, StatesInv, CallStates
  <2>3. QED
    BY <1>1, <2>1, <2>2 DEF vars, Shape, StatesInv
<1>2. ASSUME NEW c \in Caller, NEW r \in Requests, Begin(c, r)
      PROVE  StatesInv'
  BY <1>0, <1>2, BeginStatesInv
<1>3. ASSUME NEW c \in Caller, CallStep(c)
      PROVE  StatesInv'
  <2>1. CASE Reserve(c)
    BY <1>0, <2>1, ReserveStates
  <2>2. CASE CompleteFetch(c)
    BY <1>0, <2>2, CompleteStates
  <2>3. CASE PrepareBatchRange(c) \/ AfterAllocate(c)
    <3>1. OwnStep(c) /\ CallStates(call'[c])
      BY <2>3, BatchCalls
    <3>2. cached' = cached /\ born' = born /\ call[c].o # None
      BY <2>3 DEF PrepareBatchRange, AfterAllocate, Shape, StatesInv, CallStates, At, FetchLabel
    <3>3. QED
      BY <1>0, <3>1, <3>2, OwnStepStates
  <2>4. CASE \/ FastReturn(c) \/ BlockSwap(c) \/ BlockReturn(c)
             \/ AllocateSlow(c) \/ AllocateBlockSlow(c) \/ BlockRefill(c)
             \/ ActivateOdd(c) \/ ActivateCursor(c) \/ ActivateStart(c) \/ ActivateEnd(c)
             \/ ActivateEven(c)
    <3>1. OwnStep(c) /\ CallStates(call'[c])
      BY <2>4, SlowCalls
    <3>2. cached' = cached /\ born' = born
      BY <2>4 DEF FastReturn, BlockSwap, BlockReturn, AllocateSlow, AllocateBlockSlow,
         BlockRefill, ActivateOdd, ActivateCursor, ActivateStart, ActivateEnd, ActivateEven,
         Issue, Still, Write
    <3>3. call[c].o # None
      BY <2>4 DEF FastReturn, BlockSwap, BlockReturn, AllocateSlow, AllocateBlockSlow,
         BlockRefill, ActivateOdd, ActivateCursor, ActivateStart, ActivateEnd, ActivateEven,
         Shape, StatesInv, CallStates, At, FetchLabel
    <3>4. QED
      BY <1>0, <3>1, <3>2, <3>3, OwnStepStates
  <2>5. CASE \/ FastLoad(c) \/ FastAdd(c) \/ FastStart(c) \/ FastEnd(c) \/ FastRestart(c)
             \/ BlockLoad(c) \/ BlockNext(c) \/ BlockStart(c) \/ BlockEnd(c)
    <3>1. OwnStep(c) /\ (call'[c] = NoCall \/ Moved(call[c], call'[c]))
      BY <2>5, FastCalls DEF OwnStep
    <3>2. CallStates(call'[c])
      BY <3>1, MovedCall, NoCallStates DEF Shape, StatesInv
    <3>3. cached' = cached /\ born' = born
      BY <2>5 DEF FastLoad, FastAdd, FastStart, FastEnd, FastRestart, BlockLoad, BlockNext,
         BlockStart, BlockEnd, Read, Still
    <3>4. call[c].o # None
      BY <2>5 DEF FastLoad, FastAdd, FastStart, FastEnd, FastRestart, BlockLoad, BlockNext,
         BlockStart, BlockEnd, Shape, StatesInv, CallStates, At, FetchLabel
    <3>5. QED
      BY <1>0, <3>1, <3>2, <3>3, <3>4, OwnStepStates
  <2>6. QED
    BY <1>3, <2>1, <2>2, <2>3, <2>4, <2>5 DEF CallStep
<1>4. ASSUME NEW c \in Caller, Cancel(c)
      PROVE  StatesInv'
  <2>1. call'[c] = NoCall /\ \A d \in Caller \ {c} : call'[d] = call[d]
    BY <1>4 DEF Cancel, Ended
  <2>2. \A d \in Caller : CallStates(call'[d])
    BY <2>1, OneCall, NoCallStates
  <2>3. QED
    BY <1>0, <1>4, <2>2, CacheKept DEF Cancel
<1>5. ASSUME NEW o \in State, Background(o)
      PROVE  StatesInv'
  BY <1>0, <1>5, BackgroundStates
<1>6. CASE Withdraw
  BY <1>0, <1>6, CacheKept DEF Withdraw, Shape, StatesInv
<1>7. QED
  BY <1>1, <1>2, <1>3, <1>4, <1>5, <1>6 DEF Next

LEMMA ShapeInit == Init => Shape
<1> SUFFICES ASSUME Init PROVE Shape
  OBVIOUS
<1>1. 0 \in 0..MaxStates
  BY ConstantFacts
<1>2. Bounded({})
  BY DEF Bounded
<1>3. \A k \in Key : issued[k] = {}
  BY DEF Init
<1>4. KeyTypes
  BY <1>1, <1>2, <1>3, FreshTypes DEF Init, KeyTypes, Call
<1>5. ASSUME NEW o \in State
      PROVE  ~IsCached(o) /\ ks[o] = NewState
  BY StateFacts DEF Init, IsCached
<1>6. NewState.fetch = NoFetch /\ NewState.timer = 0
  BY DEF NewState
<1>7. \A c \in Caller : CallStates(call[c])
  BY NoCallStates DEF Init
<1>8. StatesInv
  BY <1>5, <1>6, <1>7 DEF StatesInv, Init
<1>9. QED
  BY <1>4, <1>8 DEF Shape

LEMMA ShapeHolds == Spec => []Shape
<1>1. Shape /\ [Next]_vars => Shape'
  BY TypesStep, StatesStep DEF Shape
<1>2. QED
  BY <1>1, ShapeInit, PTL DEF Spec

\* A key has one reservation in flight: it is for the cached state of the key.
THEOREM KeyHasOneFlight == Spec => []SingleFlight
<1>1. ASSUME Shape
      PROVE  SingleFlight
  <2> SUFFICES ASSUME NEW k \in Key
               PROVE  Cardinality({o \in State : KeyOf(o) = k /\ ks[o].fetch # NoFetch}) <= 1
    BY DEF SingleFlight
  <2> DEFINE S == {o \in State : KeyOf(o) = k /\ ks[o].fetch # NoFetch}
  <2>1. S \subseteq {Cached(k)}
    <3>1. ASSUME NEW o \in S
          PROVE  o = Cached(k)
      <4>1. IsCached(o) /\ KeyOf(o) = k /\ o = <<KeyOf(o), o[2]>>
        BY <1>1, StateFacts DEF Shape, StatesInv
      <4>2. QED
        BY <4>1 DEF IsCached, Cached
    <3>2. QED
      BY <3>1
  <2>2. IsFiniteSet({Cached(k)}) /\ Cardinality({Cached(k)}) = 1
    BY FS_Singleton
  <2>3. QED
    BY <2>1, <2>2, FS_Subset, FS_CardinalityType
<1>2. QED
  BY <1>1, ShapeHolds, PTL

\* An evicted state is dead: nobody holds it, nothing is fetched for it, and no timer
\* of its will fire (evictIdleCandidates, retryPrefetch).
THEOREM EvictedStatesAreDead == Spec => []RetiredIsQuiet
<1>1. ASSUME Shape
      PROVE  RetiredIsQuiet
  <2> SUFFICES ASSUME NEW o \in State, ks[o].retired
               PROVE  Users(o) = {} /\ ks[o].fetch = NoFetch /\ ks[o].timer = 0
    BY DEF RetiredIsQuiet
  <2>1. ~IsCached(o)
    BY <1>1 DEF Shape, StatesInv
  <2>2. ASSUME NEW c \in Caller, o \in call[c].held
        PROVE  FALSE
    BY <1>1, <2>1, <2>2 DEF Shape, StatesInv, CallStates
  <2>3. QED
    BY <1>1, <2>1, <2>2 DEF Users, Shape, StatesInv
<1>2. QED
  BY <1>1, ShapeHolds, PTL
=============================================================================
