-------------------------- MODULE MeasuresProofs --------------------------
(***************************************************************************)
(* What a process may conclude from what it measures: the alarms of the    *)
(* storage clock, the threshold that starts the next range, the audit of   *)
(* the ids it hands out. For all bounds, all calls and all histories.      *)
(***************************************************************************)
EXTENDS Measures, Sequences, FiniteSetTheorems, WellFoundedInduction, TLAPS

-----------------------------------------------------------------------------
\* ClockMonitor.

ClockRow == [time : Nat, drift : Int, jump : Nat]
SampleRow == [at : {"idle", "asked", "read"}, start : Nat, read : ClockRow]
LastRow == [start : Nat, end : Nat, read : ClockRow]

MonitorTypeOK ==
    /\ clock \in ClockRow
    /\ sample \in SampleRow
    /\ last \in LastRow
    /\ {armed, violated, broken, missed} \subseteq BOOLEAN

\* Storage read its clock within the two readings of the local one.
Bracketed ==
    /\ last.start <= last.read.time
    /\ last.read.time <= last.end
    /\ last.end <= clock.time
    /\ sample.at # "idle" => last.end <= sample.start /\ sample.start <= clock.time
    /\ sample.at = "read" =>
         sample.start <= sample.read.time /\ sample.read.time <= clock.time

MonitorInv == MonitorTypeOK /\ Bracketed /\ NoFalseAlarm /\ NothingBlatantMissed

-----------------------------------------------------------------------------
\* The change of the storage clock lies between Lower and Upper, and these lie no
\* farther from it than the delays.
LEMMA Brackets ==
    ASSUME NEW s \in SampleRow, NEW l \in LastRow, NEW end \in Nat,
           l.start <= l.read.time, l.read.time <= l.end,
           s.start <= s.read.time, s.read.time <= end
    PROVE  /\ Change(s, l) \in Int /\ Delays(s, l, end) \in Int
           /\ Lower(s, l, end) \in Int /\ Upper(s, l, end) \in Int
           /\ Lower(s, l, end) <= Change(s, l)
           /\ Change(s, l) <= Upper(s, l, end)
           /\ Change(s, l) - Delays(s, l, end) <= Lower(s, l, end)
           /\ Upper(s, l, end) <= Change(s, l) + Delays(s, l, end)
<1>1. /\ s.start \in Nat /\ l.start \in Nat /\ l.end \in Nat
      /\ s.read.time \in Nat /\ s.read.drift \in Int /\ s.read.jump \in Nat
      /\ l.read.time \in Nat /\ l.read.drift \in Int /\ l.read.jump \in Nat
  BY DEF SampleRow, LastRow, ClockRow
<1>2. QED
  BY <1>1 DEF Change, Delays, Lower, Upper, Delta, Storage, Ahead

\* An alarm is never false, and no blatant change goes without one.
LEMMA AlarmIsRight ==
    ASSUME NEW lower \in Int, NEW upper \in Int, NEW change \in Int, NEW delays \in Int,
           lower <= change, change <= upper,
           change - delays <= lower, upper <= change + delays
    PROVE  /\ Alarm(lower, upper) => ~Allowed(change)
           /\ Blatant(change, delays) => Alarm(lower, upper)
<1>1. DriftBound \in Nat /\ JumpBound \in Nat
  BY ClockAssumption
<1>2. Alarm(lower, upper) => ~Allowed(change)
  BY <1>1 DEF Alarm, Allowed
<1>3. Blatant(change, delays) => Alarm(lower, upper)
  BY <1>1 DEF Blatant, Alarm
<1>4. QED
  BY <1>2, <1>3

-----------------------------------------------------------------------------
LEMMA InitMonitor == Init => MonitorInv
<1> SUFFICES ASSUME Init PROVE MonitorInv
  OBVIOUS
<1>1. Zero \in ClockRow /\ Zero.time = 0
  BY DEF Zero, ClockRow
<1>2. /\ sample \in SampleRow /\ sample.at = "idle"
      /\ last \in LastRow /\ last.start = 0 /\ last.end = 0 /\ last.read.time = 0
  BY <1>1 DEF Init, NoSample, SampleRow, LastRow
<1>3. MonitorTypeOK
  BY <1>1, <1>2, Zenon DEF Init, MonitorTypeOK
<1>4. Bracketed
  BY <1>1, <1>2 DEF Init, Bracketed
<1>5. QED
  BY <1>3, <1>4 DEF Init, MonitorInv, NoFalseAlarm, NothingBlatantMissed

LEMMA NextMonitor == MonitorInv /\ [Next]_vars => MonitorInv'
<1> SUFFICES ASSUME MonitorInv, [Next]_vars PROVE MonitorInv'
  OBVIOUS
<1> USE DEF MonitorInv, NoFalseAlarm, NothingBlatantMissed
<1>0. /\ clock.time \in Nat /\ clock.drift \in Int /\ clock.jump \in Nat
      /\ sample.start \in Nat /\ sample.read \in ClockRow
      /\ last.start \in Nat /\ last.end \in Nat /\ last.read \in ClockRow
  BY DEF MonitorTypeOK, ClockRow, SampleRow, LastRow
<1>1. CASE Pass
  <2>1. clock' \in ClockRow /\ clock'.time = clock.time + 1
    BY <1>0, <1>1 DEF Pass, MonitorTypeOK, ClockRow
  <2>2. MonitorTypeOK'
    BY <1>1, <2>1 DEF Pass, MonitorTypeOK
  <2>3. Bracketed'
    BY <1>0, <1>1, <2>1 DEF Pass, Bracketed, ClockRow
  <2>4. QED
    BY <1>1, <2>2, <2>3 DEF Pass
<1>2. ASSUME NEW d \in {-1, 1}, Drift(d) PROVE MonitorInv'
  <2>1. clock' \in ClockRow /\ clock'.time = clock.time
    BY <1>0, <1>2 DEF Drift, MonitorTypeOK, ClockRow
  <2>2. MonitorTypeOK' /\ Bracketed'
    BY <1>2, <2>1 DEF Drift, MonitorTypeOK, Bracketed
  <2>3. QED
    BY <1>2, <2>2 DEF Drift
<1>3. CASE Jump
  <2>1. clock' \in ClockRow /\ clock'.time = clock.time
    BY <1>0, <1>3 DEF Jump, MonitorTypeOK, ClockRow
  <2>2. MonitorTypeOK' /\ Bracketed'
    BY <1>3, <2>1 DEF Jump, MonitorTypeOK, Bracketed
  <2>3. QED
    BY <1>3, <2>2 DEF Jump
<1>4. CASE Start
  <2>1. sample' \in SampleRow /\ sample'.at = "asked" /\ sample'.start = clock.time
    BY <1>0, <1>4 DEF Start, MonitorTypeOK, SampleRow
  <2>2. MonitorTypeOK' /\ Bracketed'
    BY <1>0, <1>4, <2>1 DEF Start, MonitorTypeOK, Bracketed
  <2>3. QED
    BY <1>4, <2>2 DEF Start
<1>5. CASE Read
  <2>1. /\ sample' \in SampleRow /\ sample'.at = "read"
        /\ sample'.start = sample.start /\ sample'.read = clock
    BY <1>0, <1>5 DEF Read, MonitorTypeOK, SampleRow
  <2>2. MonitorTypeOK' /\ Bracketed'
    BY <1>0, <1>5, <2>1 DEF Read, MonitorTypeOK, Bracketed
  <2>3. QED
    BY <1>5, <2>2 DEF Read
<1>6. CASE Fail
  <2>1. sample' \in SampleRow /\ sample'.at = "idle"
    BY <1>6 DEF Fail, NoSample, SampleRow, Zero, ClockRow
  <2>2. MonitorTypeOK' /\ Bracketed'
    BY <1>6, <2>1 DEF Fail, MonitorTypeOK, Bracketed
  <2>3. QED
    BY <1>6, <2>2 DEF Fail
<1>7. CASE Finish
  <2> DEFINE end == clock.time
             lower == Lower(sample, last, end)
             upper == Upper(sample, last, end)
             change == Change(sample, last)
             delays == Delays(sample, last, end)
  <2>1. /\ change \in Int /\ delays \in Int /\ lower \in Int /\ upper \in Int
        /\ lower <= change /\ change <= upper
        /\ change - delays <= lower /\ upper <= change + delays
    BY <1>0, <1>7, Brackets DEF Finish, Bracketed, MonitorTypeOK
  <2>2. /\ Alarm(lower, upper) => ~Allowed(change)
        /\ Blatant(change, delays) => Alarm(lower, upper)
    <3> HIDE DEF lower, upper, change, delays
    <3>1. QED
      BY <2>1, AlarmIsRight
  <2>3. /\ sample' \in SampleRow /\ sample'.at = "idle"
        /\ last' \in LastRow /\ last'.start = sample.start /\ last'.end = clock.time
        /\ last'.read = sample.read /\ clock' = clock
    BY <1>0, <1>7 DEF Finish, NoSample, SampleRow, LastRow, Zero, ClockRow
  <2>4. Bracketed'
    BY <1>0, <1>7, <2>3 DEF Finish, Bracketed
  <2>5. CASE ~armed
    <3>1. MonitorTypeOK'
      BY <1>7, <2>3, <2>5 DEF Finish, MonitorTypeOK
    <3>2. QED
      BY <1>7, <2>4, <2>5, <3>1 DEF Finish
  <2>6. CASE armed
    <3>1. /\ armed' = TRUE
          /\ violated' = (violated \/ Alarm(lower, upper))
          /\ broken' = (broken \/ ~Allowed(change))
          /\ missed' = (missed \/ (~Alarm(lower, upper) /\ Blatant(change, delays)))
      BY <1>7, <2>6 DEF Finish
    <3> HIDE DEF lower, upper, change, delays
    <3>2. MonitorTypeOK'
      BY <2>3, <3>1 DEF MonitorTypeOK
    <3>3. NoFalseAlarm' /\ NothingBlatantMissed'
      BY <2>2, <3>1
    <3>4. QED
      BY <2>4, <3>2, <3>3
  <2>7. QED
    BY <2>5, <2>6 DEF MonitorTypeOK
<1>8. CASE UNCHANGED vars
  BY <1>8 DEF vars, MonitorTypeOK, Bracketed
<1>9. QED
  BY <1>1, <1>2, <1>3, <1>4, <1>5, <1>6, <1>7, <1>8 DEF Next

-----------------------------------------------------------------------------
\* An instance is fenced only for a change of the storage clock (Observe), whatever
\* the delays of the samples.
THEOREM AlarmsAreReal == Spec => []NoFalseAlarm
<1>1. MonitorInv => NoFalseAlarm
  BY DEF MonitorInv
<1>2. QED
  BY <1>1, InitMonitor, NextMonitor, PTL DEF Spec

\* A change that the delays cannot hide is always reported (Observe).
THEOREM BlatantIsReported == Spec => []NothingBlatantMissed
<1>1. MonitorInv => NothingBlatantMissed
  BY DEF MonitorInv
<1>2. QED
  BY <1>1, InitMonitor, NextMonitor, PTL DEF Spec

-----------------------------------------------------------------------------
\* Prefetch: the percentile.

LEMMA LeastOf ==
    ASSUME NEW S, S \subseteq Nat, S # {}
    PROVE  \E x \in S : \A y \in S : x <= y
<1>1. OpToRel(<, Nat) = {ss \in Nat \X Nat : ss[1] < ss[2]}
  BY DEF OpToRel
<1>2. PICK x \in S : \A y \in S : ~(<<y, x>> \in OpToRel(<, Nat))
  BY NatLessThanWellFounded, WFMin
<1>3. ASSUME NEW y \in S, y < x
      PROVE  FALSE
  <2>1. <<y, x>> \in {ss \in Nat \X Nat : ss[1] < ss[2]}
    BY <1>3
  <2>2. QED
    BY <1>1, <1>2, <2>1, Zenon
<1>4. QED
  BY <1>3

\* Of finitely many numbers one is the largest: the one that most are not above.
LEMMA LargestOf ==
    ASSUME NEW D, IsFiniteSet(D), D # {}, NEW f, \A i \in D : f[i] \in Nat
    PROVE  \E i \in D : \A j \in D : f[j] <= f[i]
<1> DEFINE L(i) == {j \in D : f[j] <= f[i]}
           C(i) == Cardinality(D) - Cardinality(L(i))
           S == {C(i) : i \in D}
<1>1. \A i \in D : /\ IsFiniteSet(L(i)) /\ Cardinality(L(i)) \in Nat
                   /\ Cardinality(L(i)) <= Cardinality(D) /\ Cardinality(D) \in Nat
  <2> TAKE i \in D
  <2>1. L(i) \subseteq D
    OBVIOUS
  <2> HIDE DEF L
  <2>2. QED
    BY <2>1, FS_Subset, FS_CardinalityType
<1>2. S \subseteq Nat /\ S # {}
  <2> HIDE DEF L
  <2>1. QED
    BY <1>1
<1> HIDE DEF S
<1>3. PICK c \in S : \A y \in S : c <= y
  BY <1>2, LeastOf
<1>4. PICK i \in D : c = C(i)
  BY DEF S
<1>5. ASSUME NEW j \in D, f[i] < f[j] PROVE FALSE
  <2>1. L(i) \subseteq L(j)
    <3>1. ASSUME NEW k \in D, f[k] <= f[i] PROVE f[k] <= f[j]
      <4>1. f[k] \in Nat /\ f[i] \in Nat /\ f[j] \in Nat
        OBVIOUS
      <4>2. QED
        BY <1>5, <3>1, <4>1
    <3>2. QED
      BY <3>1
  <2>2. j \in L(j) /\ j \notin L(i)
    <3>1. f[i] \in Nat /\ f[j] \in Nat
      OBVIOUS
    <3>2. QED
      BY <1>5, <3>1
  <2> HIDE DEF L
  <2>3. Cardinality(L(i)) < Cardinality(L(j))
    <3>1. L(i) # L(j)
      BY <2>2
    <3>2. Cardinality(L(i)) <= Cardinality(L(j))
          /\ (Cardinality(L(i)) = Cardinality(L(j)) => L(i) = L(j))
      BY <1>1, <2>1, FS_Subset
    <3>3. QED
      BY <1>1, <3>1, <3>2
  <2>4. C(j) \in S
    BY DEF S
  <2>5. C(i) <= C(j)
    BY <1>3, <1>4, <2>4
  <2>6. QED
    BY <1>1, <2>3, <2>5
<1>6. \A j \in D : f[j] <= f[i]
  <2> TAKE j \in D
  <2>1. f[i] \in Nat /\ f[j] \in Nat
    OBVIOUS
  <2>2. QED
    BY <1>5, <2>1
<1>7. QED
  BY <1>6

ValuesOf(D, f) == {f[i] : i \in D}
LessThan(D, f, v) == {i \in D : f[i] < v}
AtMost(D, f, v) == {i \in D : f[i] <= v}

\* The value of a rank exists.
LEMMA RankedValue ==
    ASSUME NEW D, IsFiniteSet(D), NEW f, \A i \in D : f[i] \in Nat,
           NEW rank \in 1..Cardinality(D)
    PROVE  \E v \in ValuesOf(D, f) : /\ Cardinality(LessThan(D, f, v)) < rank
                                     /\ rank <= Cardinality(AtMost(D, f, v))
<1> DEFINE V == {f[i] : i \in D}
           Under(v) == {i \in D : f[i] < v}
           UpTo(v) == {i \in D : f[i] <= v}
           S == {v \in V : rank <= Cardinality(UpTo(v))}
<1>1. Cardinality(D) \in Nat /\ rank \in Nat /\ rank >= 1 /\ rank <= Cardinality(D)
  BY FS_CardinalityType
<1>2. D # {}
  BY <1>1, FS_EmptySet
<1>3. V \subseteq Nat
  OBVIOUS
<1>4. S # {}
  <2>1. PICK i \in D : \A j \in D : f[j] <= f[i]
    BY <1>2, LargestOf
  <2>2. UpTo(f[i]) = D
    BY <2>1
  <2>3. f[i] \in S
    BY <1>1, <2>2
  <2>4. QED
    BY <2>3
<1>5. PICK v \in S : \A w \in S : v <= w
  BY <1>3, <1>4, LeastOf
<1>6. Cardinality(Under(v)) \in Nat /\ IsFiniteSet(Under(v))
  <2>1. Under(v) \subseteq D
    OBVIOUS
  <2> HIDE DEF Under
  <2>2. QED
    BY <2>1, FS_Subset, FS_CardinalityType
<1>7. ASSUME Cardinality(Under(v)) >= rank PROVE FALSE
  <2>1. Under(v) # {}
    <3> HIDE DEF Under
    <3>1. QED
      BY <1>1, <1>6, <1>7, FS_EmptySet
  <2>2. PICK i \in Under(v) : \A j \in Under(v) : f[j] <= f[i]
    <3>1. \A j \in Under(v) : f[j] \in Nat
      OBVIOUS
    <3> HIDE DEF Under
    <3>2. QED
      BY <1>6, <2>1, <3>1, LargestOf
  <2>3. f[i] < v /\ f[i] \in Nat /\ v \in Nat /\ i \in D
    BY <1>3, <2>2
  <2>4. UpTo(f[i]) = Under(v)
    <3>1. ASSUME NEW j \in D, f[j] <= f[i] PROVE f[j] < v
      <4>1. f[j] \in Nat
        OBVIOUS
      <4>2. QED
        BY <2>3, <3>1, <4>1
    <3>2. QED
      BY <2>2, <3>1
  <2>5. f[i] \in S
    BY <1>1, <1>6, <1>7, <2>3, <2>4
  <2>6. v <= f[i]
    BY <1>5, <2>5
  <2>7. QED
    BY <2>3, <2>6
<1>8. v \in V /\ rank <= Cardinality(UpTo(v))
  BY <1>5
<1>9. Cardinality(Under(v)) < rank
  <2> HIDE DEF Under
  <2>1. QED
    BY <1>1, <1>6, <1>7
<1>10. QED
  BY <1>8, <1>9 DEF ValuesOf, LessThan, AtMost

Sample == [at : Nat, took : Nat, ok : BOOLEAN]
Tracker == [samples : Seq(Sample), p99 : Nat, trusted : BOOLEAN, at : Nat, updates : Nat]

\* An instance of FiniteSets has a Cardinality of its own.
LEMMA RefillCounts == \A S : Refill!Cardinality(S) = Cardinality(S)
  BY DEF Refill!Cardinality, Cardinality

\* The constants of Prefetch.
LEMMA RefillNumbers ==
    ASSUME Refill!Validate
    PROVE  /\ DefaultStep \in Nat /\ 0 < DefaultStep /\ MaxStep \in Nat /\ DefaultStep <= MaxStep
           /\ RatioNum \in Nat /\ 0 < RatioNum /\ RatioDen \in Nat /\ RatioNum < RatioDen
           /\ Multiplier \in Nat /\ MinSamples \in Int /\ 1 <= MinSamples
           /\ Window \in Nat /\ ResetAfter \in Nat
           /\ ReserveTimeout \in Nat /\ 0 < ReserveTimeout /\ MinLead \in Nat
           /\ \A c \in Counts : c \in Nat /\ 0 < c
<1>1. MinSamples \in 1..RingSize
  BY DEF Refill!Validate
<1>2. MinSamples \in Int /\ 1 <= MinSamples
  BY <1>1
<1>3. QED
  BY <1>2 DEF Refill!Validate

\* A rank of the percentile.
LEMMA RankOf ==
    ASSUME NEW n \in Nat, n > 0
    PROVE  (99 * n + 99) \div 100 \in 1..n
  OBVIOUS

LEMMA P99Type ==
    ASSUME NEW t \in Tracker, Refill!Recent(t) # {}
    PROVE  Refill!P99(t) \in Nat
<1> DEFINE D == Refill!Recent(t)
           f == [i \in D |-> t.samples[i].took]
           rank == (99 * Cardinality(D) + 99) \div 100
<1>1. t.samples \in Seq(Sample) /\ DOMAIN t.samples = 1..Len(t.samples) /\ Len(t.samples) \in Nat
  BY DEF Tracker
<1>2. D \subseteq 1..Len(t.samples)
  BY <1>1 DEF Refill!Recent
<1>3. \A i \in 1..Len(t.samples) : t.samples[i].took \in Nat
  <2> TAKE i \in 1..Len(t.samples)
  <2>1. t.samples[i] \in Sample
    BY <1>1
  <2>2. QED
    BY <2>1 DEF Sample
<1>4. IsFiniteSet(D)
  <2>1. IsFiniteSet(1..Len(t.samples))
    BY <1>1, FS_Interval
  <2> HIDE DEF D
  <2>2. QED
    BY <1>2, <2>1, FS_Subset
<1>5. Cardinality(D) \in Nat /\ Cardinality(D) > 0
  <2> HIDE DEF D
  <2>1. Cardinality(D) \in Nat /\ Cardinality(D) # 0
    BY <1>4, FS_CardinalityType, FS_EmptySet DEF D
  <2>2. QED
    BY <2>1
<1>6. rank \in 1..Cardinality(D)
  BY <1>5, RankOf
<1>7. \A i \in D : f[i] = t.samples[i].took /\ f[i] \in Nat
  BY <1>2, <1>3
<1> HIDE DEF rank, D
<1>8. PICK v \in ValuesOf(D, f) : /\ Cardinality(LessThan(D, f, v)) < rank
                                  /\ rank <= Cardinality(AtMost(D, f, v))
  <2> HIDE DEF f
  <2>1. \A i \in D : f[i] \in Nat
    BY <1>7
  <2>2. QED
    BY <1>4, <1>6, <2>1, RankedValue
<1>9. ValuesOf(D, f) = {t.samples[i].took : i \in D}
  BY <1>7 DEF ValuesOf
<1>10. \A w : LessThan(D, f, w) = {i \in D : t.samples[i].took < w}
  BY <1>7 DEF LessThan
<1>11. \A w : AtMost(D, f, w) = {i \in D : t.samples[i].took <= w}
  BY <1>7 DEF AtMost
<1> HIDE DEF f
<1>12. Refill!P99(t)
         = CHOOSE w \in {t.samples[i].took : i \in D} :
              /\ Cardinality({i \in D : t.samples[i].took < w}) < rank
              /\ rank <= Cardinality({i \in D : t.samples[i].took <= w})
  BY RefillCounts DEF Refill!P99, rank, D
<1>13. \E w \in {t.samples[i].took : i \in D} :
              /\ Cardinality({i \in D : t.samples[i].took < w}) < rank
              /\ rank <= Cardinality({i \in D : t.samples[i].took <= w})
  BY <1>8, <1>9, <1>10, <1>11
<1>14. Refill!P99(t) \in {t.samples[i].took : i \in D}
  BY <1>12, <1>13
<1>15. QED
  BY <1>2, <1>3, <1>14

LEMMA RecomputedType ==
    ASSUME Refill!Validate, now \in Nat, NEW t \in Tracker
    PROVE  Refill!Recomputed(t) \in Tracker
<1>1. ASSUME Refill!Successes(t) >= MinSamples PROVE Refill!P99(t) \in Nat
  <2>1. Refill!Recent(t) # {}
    <3> SUFFICES ASSUME Refill!Recent(t) = {} PROVE FALSE
      OBVIOUS
    <3>1. {i \in Refill!Recent(t) : t.samples[i].ok} = {}
      OBVIOUS
    <3>2. Refill!Successes(t) = 0
      BY <3>1, RefillCounts, FS_EmptySet DEF Refill!Successes
    <3>3. QED
      BY <1>1, <3>2, RefillNumbers
  <2>2. QED
    BY <2>1, P99Type
<1>2. (Refill!Successes(t) >= MinSamples) \in BOOLEAN
  OBVIOUS
<1>3. PICK b \in BOOLEAN : b = (Refill!Successes(t) >= MinSamples)
  BY <1>2
<1>4. PICK p : p = Refill!P99(t)
  OBVIOUS
<1>5. Refill!Recomputed(t)
        = [t EXCEPT !.at = now, !.updates = 0, !.trusted = (Refill!Successes(t) >= MinSamples),
                    !.p99 = IF (Refill!Successes(t) >= MinSamples) THEN Refill!P99(t) ELSE 0]
  BY Zenon DEF Refill!Recomputed
<1>6. Refill!Recomputed(t) = [t EXCEPT !.at = now, !.updates = 0, !.trusted = b,
                                       !.p99 = IF b THEN p ELSE 0]
  BY <1>3, <1>4, <1>5, Zenon
<1>7. b => p \in Nat
  BY <1>1, <1>3, <1>4
<1>8. [t EXCEPT !.at = now, !.updates = 0, !.trusted = b, !.p99 = IF b THEN p ELSE 0]
         \in Tracker
  BY <1>7 DEF Tracker
<1>9. QED
  BY <1>6, <1>8

LEMMA RefreshedType ==
    ASSUME Refill!Validate, now \in Nat, NEW t \in Tracker
    PROVE  Refill!Refreshed(t) \in Tracker
  BY RecomputedType DEF Refill!Refreshed

LEMMA ObserveType ==
    ASSUME Refill!Validate, now \in Nat, NEW t \in Tracker, NEW took \in Nat, NEW ok \in BOOLEAN
    PROVE  Refill!Observe(t, took, ok) \in Tracker
<1> DEFINE kept == IF Len(t.samples) = RingSize THEN Tail(t.samples) ELSE t.samples
           new == [at |-> now, took |-> took, ok |-> ok]
           added == [t EXCEPT !.updates = @ + 1, !.samples = Append(kept, new)]
<1>1. t.samples \in Seq(Sample) /\ t.updates \in Nat
  BY DEF Tracker
<1>2. kept \in Seq(Sample)
  <2>1. CASE Len(t.samples) = RingSize
    <3>1. t.samples # <<>>
      BY <2>1, RefillNumbers DEF Refill!Validate
    <3>2. Tail(t.samples) \in Seq(Sample)
      BY <1>1, <3>1
    <3>3. QED
      BY <2>1, <3>2
  <2>2. CASE Len(t.samples) # RingSize
    BY <1>1, <2>2
  <2>3. QED
    BY <2>1, <2>2
<1>3. new \in Sample
  BY DEF Sample
<1> HIDE DEF kept, new
<1>4. Append(kept, new) \in Seq(Sample) /\ t.updates + 1 \in Nat
  BY <1>1, <1>2, <1>3
<1>5. added \in Tracker
  BY <1>4 DEF Tracker
<1>6. Refill!Observe(t, took, ok) = IF Refill!Due(added) THEN Refill!Recomputed(added) ELSE added
  BY DEF Refill!Observe, kept, new
<1> HIDE DEF added
<1>7. QED
  BY <1>5, <1>6, RecomputedType

\* How long a reservation may be expected to take, in ids ahead.
LEMMA LeadType ==
    ASSUME Refill!Validate, now \in Nat, tracker \in Tracker
    PROVE  Refill!PrefetchLead \in Nat
<1>1. Refill!Refreshed(tracker).p99 \in Nat
  BY RefreshedType DEF Tracker
<1>2. Refill!Expected(tracker) \in Nat
  BY <1>1, RefillNumbers DEF Refill!Expected
<1>3. Refill!Expected(tracker) * Multiplier \in Nat
  BY <1>2, RefillNumbers
<1>4. QED
  BY <1>3, RefillNumbers DEF Refill!PrefetchLead, Refill!Smaller, Refill!Larger

-----------------------------------------------------------------------------
\* Prefetch: the threshold lies within the range, however it came about.

Estimate == [anchorAt : Nat, anchorIds : Nat, seenAt : Nat, seenIds : Nat, n : Nat,
             ids : Nat, span : Nat \ {0}, ready : BOOLEAN]
EstimateOK(e) == e \in Estimate /\ e.anchorIds <= e.seenIds

\* Of the times of retries nothing is needed.
KeyOK(k) ==
    /\ DOMAIN k = {"size", "used", "step", "standby", "prefetchAt", "block", "gate", "after",
                   "timer", "attempt", "lastUsed"}
    /\ {k.size, k.used, k.step, k.standby, k.prefetchAt, k.block} \subseteq Nat
    /\ k.used <= k.size
    /\ k.size > 0 => k.prefetchAt <= k.size

RefillInv ==
    /\ now \in Nat
    /\ tracker \in Tracker
    /\ EstimateOK(est)
    /\ KeyOK(key)
    /\ fetch \in [step : Nat, background : BOOLEAN, started : Nat] /\ fetch.started <= now

LEMMA CeilDivType ==
    ASSUME NEW x \in Nat, NEW y \in Nat \ {0}
    PROVE  Refill!CeilDiv(x, y) \in Nat
<1>1. x + y - 1 \in Nat
  OBVIOUS
<1>2. PICK z \in Nat : z = x + y - 1
  BY <1>1
<1>3. z \div y \in Nat
  OBVIOUS
<1>4. QED
  BY <1>2, <1>3 DEF Refill!CeilDiv

LEMMA ResetRateType ==
    ASSUME now \in Nat, NEW c \in Nat
    PROVE  EstimateOK(Refill!ResetRate(c))
  BY DEF EstimateOK, Estimate, Refill!ResetRate

LEMMA ObserveRateType ==
    ASSUME now \in Nat, NEW e, EstimateOK(e), NEW c \in Nat
    PROVE  EstimateOK(Refill!ObserveRate(e, c))
<1> DEFINE seen == [e EXCEPT !.seenAt = now, !.seenIds = c, !.n = @ + 1]
<1>1. /\ e.anchorAt \in Nat /\ e.anchorIds \in Nat /\ e.seenIds \in Nat /\ e.n \in Nat
      /\ e.n + 1 \in Nat /\ e.anchorIds <= e.seenIds /\ e \in Estimate
  BY DEF EstimateOK, Estimate
<1>2. CASE Refill!Idle(e)
  BY <1>2, ResetRateType DEF Refill!ObserveRate
<1>3. CASE ~Refill!Idle(e) /\ c <= e.seenIds
  BY <1>3 DEF Refill!ObserveRate
<1>4. ASSUME ~Refill!Idle(e), ~(c <= e.seenIds)
      PROVE  EstimateOK(Refill!ObserveRate(e, c))
  <2>1. seen \in Estimate /\ seen.anchorIds = e.anchorIds /\ seen.seenIds = c
        /\ seen.anchorAt = e.anchorAt
    BY <1>1 DEF Estimate
  <2>2. e.anchorIds <= c /\ c - e.anchorIds \in Nat
    BY <1>1, <1>4
  <2>3. CASE Refill!Ready(seen)
    <3>1. now > e.anchorAt
      BY <2>1, <2>3 DEF Refill!Ready
    <3>2. now - e.anchorAt \in Nat \ {0}
      BY <1>1, <3>1
    <3>3. Refill!ObserveRate(e, c)
            = [seen EXCEPT !.ids = c - e.anchorIds, !.span = now - e.anchorAt, !.ready = TRUE]
      BY <1>4, <2>3 DEF Refill!ObserveRate
    <3> HIDE DEF seen
    <3>4. PICK r : r = [seen EXCEPT !.ids = c - e.anchorIds, !.span = now - e.anchorAt,
                                    !.ready = TRUE]
      OBVIOUS
    <3>5. r \in Estimate /\ r.anchorIds = e.anchorIds /\ r.seenIds = c
      BY <2>1, <2>2, <3>2, <3>4 DEF Estimate
    <3>6. QED
      BY <2>2, <3>3, <3>4, <3>5 DEF EstimateOK
  <2>4. CASE ~Refill!Ready(seen)
    <3>1. Refill!ObserveRate(e, c) = [seen EXCEPT !.ready = FALSE]
      BY <1>4, <2>4 DEF Refill!ObserveRate
    <3> HIDE DEF seen
    <3>2. PICK r : r = [seen EXCEPT !.ready = FALSE]
      OBVIOUS
    <3>3. r \in Estimate /\ r.anchorIds = e.anchorIds /\ r.seenIds = c
      BY <2>1, <3>2 DEF Estimate
    <3>4. QED
      BY <2>2, <3>1, <3>2, <3>3 DEF EstimateOK
  <2>5. QED
    BY <2>3, <2>4
<1>5. QED
  BY <1>2, <1>3, <1>4

LEMMA AllowanceType ==
    ASSUME Refill!Validate, now \in Nat, tracker \in Tracker,
           NEW e, EstimateOK(e), NEW size \in Nat, NEW block \in Nat
    PROVE  Refill!Allowance(e, size, block) \in Nat
<1>1. e.ids \in Nat /\ e.span \in Nat \ {0}
  BY DEF EstimateOK, Estimate
<1>2. CASE e.ready
  <2>1. e.ids * Refill!PrefetchLead \in Nat
    BY <1>1, LeadType
  <2>2. Refill!CeilDiv(e.ids * Refill!PrefetchLead, e.span) \in Nat
    BY <1>1, <2>1, CeilDivType
  <2>3. PICK x \in Nat : x = Refill!CeilDiv(e.ids * Refill!PrefetchLead, e.span)
    BY <2>2
  <2>4. Refill!Allowance(e, size, block) = Refill!Smaller(x + Refill!Larger(1, block), size)
    BY <1>2, <2>3 DEF Refill!Allowance
  <2>5. QED
    BY <2>4 DEF Refill!Smaller, Refill!Larger
<1>3. CASE ~e.ready
  <2>1. size * RatioNum \in Nat /\ RatioDen \in Nat \ {0}
    BY RefillNumbers
  <2>2. Refill!CeilDiv(size * RatioNum, RatioDen) \in Nat
    BY <2>1, CeilDivType
  <2>3. PICK x \in Nat : x = Refill!CeilDiv(size * RatioNum, RatioDen)
    BY <2>2
  <2>4. Refill!Allowance(e, size, block)
          = size - Refill!Smaller(Refill!Larger(x, 1), size)
    BY <1>3, <2>3 DEF Refill!Allowance
  <2>5. QED
    BY <2>4 DEF Refill!Smaller, Refill!Larger
<1>4. QED
  BY <1>2, <1>3

LEMMA ThresholdType ==
    ASSUME Refill!Validate, now \in Nat, tracker \in Tracker,
           NEW e, EstimateOK(e), NEW size \in Nat, NEW block \in Nat
    PROVE  /\ Refill!Threshold(e, size, block) \in Nat
           /\ size > 0 => Refill!Threshold(e, size, block) <= size
<1>1. PICK a \in Nat : a = Refill!Allowance(e, size, block)
  BY AllowanceType
<1>2. Refill!Threshold(e, size, block) = IF a >= size THEN 1 ELSE size - a
  BY <1>1 DEF Refill!Threshold
<1>3. QED
  BY <1>2

LEMMA NextStepType ==
    ASSUME Refill!Validate, NEW e, NEW k, KeyOK(k)
    PROVE  Refill!NextStep(e, k) \in Nat
<1>1. k.step \in Nat
  BY DEF KeyOK
<1>2. PICK step \in Nat : step = Refill!Larger(k.step, DefaultStep)
  BY <1>1, RefillNumbers DEF Refill!Larger
<1>3. /\ 2 * step \in Nat /\ MaxStep \in Nat
      /\ Refill!Larger(step \div 2, DefaultStep) \in Nat
  <2>1. step \div 2 \in Nat
    OBVIOUS
  <2>2. QED
    BY <2>1, RefillNumbers DEF Refill!Larger
<1>4. Refill!NextStep(e, k) \in {step, MaxStep, 2 * step, Refill!Larger(step \div 2, DefaultStep)}
  BY <1>2, Zenon DEF Refill!NextStep
<1>5. QED
  BY <1>3, <1>4

\* What a call watches leaves the range as it is.
WatchedOK(w, k) ==
    /\ EstimateOK(w.est) /\ KeyOK(w.key)
    /\ w.key.size = k.size /\ w.key.used = k.used /\ w.key.standby = k.standby
    /\ w.key.after = k.after

LEMMA WatchedType ==
    ASSUME Refill!Validate, now \in Nat, tracker \in Tracker,
           NEW k, KeyOK(k), NEW e, EstimateOK(e), NEW count \in Nat
    PROVE  WatchedOK(Refill!Watched(k, e, count), k)
<1> DEFINE w == Refill!Watched(k, e, count)
<1>1. PICK seen : seen = IF Refill!Sampled(k) THEN Refill!ObserveRate(e, k.used) ELSE e
  OBVIOUS
<1>2. PICK block : block = IF Refill!Sampled(k) /\ Refill!Idle(e) THEN count
                           ELSE Refill!Larger(k.block, count)
  OBVIOUS
<1>3. PICK gate : gate = IF Refill!Sampled(k) THEN now + SampleEvery ELSE k.gate
  OBVIOUS
<1>4. PICK at : at = IF seen # e \/ count > k.block THEN Refill!Threshold(seen, k.size, block)
                     ELSE k.prefetchAt
  OBVIOUS
<1>5. w = [est |-> seen, key |-> [k EXCEPT !.block = block, !.lastUsed = now, !.gate = gate,
                                           !.prefetchAt = at]]
  BY <1>1, <1>2, <1>3, <1>4, Zenon DEF Refill!Watched
<1>6. {k.size, k.used, k.step, k.standby, k.prefetchAt, k.block} \subseteq Nat
  BY DEF KeyOK
<1>7. EstimateOK(seen)
  BY <1>1, <1>6, ObserveRateType
<1>8. block \in Nat
  BY <1>2, <1>6 DEF Refill!Larger
<1>9. at \in Nat /\ (k.size > 0 => at <= k.size)
  <2>1. CASE seen # e \/ count > k.block
    BY <1>4, <1>6, <1>7, <1>8, <2>1, ThresholdType
  <2>2. CASE ~(seen # e \/ count > k.block)
    BY <1>4, <2>2 DEF KeyOK
  <2>3. QED
    BY <2>1, <2>2
<1> HIDE DEF w
<1>10. w.est = seen
  BY <1>5
<1>11. PICK x : x = [k EXCEPT !.block = block, !.lastUsed = now, !.gate = gate, !.prefetchAt = at]
  OBVIOUS
<1>12. w.key = x
  BY <1>5, <1>11
<1>13. /\ DOMAIN x = DOMAIN k
       /\ x.size = k.size /\ x.used = k.used /\ x.standby = k.standby /\ x.after = k.after
       /\ x.step = k.step /\ x.prefetchAt = at /\ x.block = block
  BY <1>11 DEF KeyOK
<1>14. KeyOK(x)
  BY <1>8, <1>9, <1>13 DEF KeyOK
<1>15. WatchedOK(w, k)
  BY <1>7, <1>10, <1>12, <1>13, <1>14 DEF WatchedOK
<1>16. QED
  BY <1>15 DEF w

\* A call that leaves a key without ids, and no range there or on its way, backs off.
LEMMA AfterAllocateOK ==
    ASSUME Refill!Validate, RefillInv, NEW k, KeyOK(k), k.size > 0, NEW e, EstimateOK(e),
           NEW count \in Nat, Refill!AfterAllocate(k, e, count), now' = now
    PROVE  /\ RefillInv'
           /\ key'.used = k.used /\ key'.size = k.size
           /\ key'.used = key'.size
                => key'.standby > 0 \/ fetch' # Refill!NoFetch \/ now < key'.after
<1>1. PICK w : w = Refill!Watched(k, e, count)
  OBVIOUS
<1>2. /\ EstimateOK(w.est) /\ KeyOK(w.key)
      /\ w.key.size = k.size /\ w.key.used = k.used /\ w.key.standby = k.standby
      /\ w.key.after = k.after
  <2>1. now \in Nat /\ tracker \in Tracker
    BY DEF RefillInv
  <2>2. WatchedOK(w, k)
    BY <1>1, <2>1, WatchedType
  <2>3. QED
    BY <2>2 DEF WatchedOK
<1>3. /\ est' = w.est
      /\ tracker' = IF w.est.ready THEN Refill!Refreshed(tracker) ELSE tracker
      /\ IF Refill!WantsPrefetch(w.key, w.est)
         THEN /\ key' = [w.key EXCEPT !.after = 0, !.timer = 0]
              /\ Refill!Start(Refill!NextStep(w.est, w.key), TRUE)
         ELSE key' = w.key /\ UNCHANGED fetch
  BY <1>1, Zenon DEF Refill!AfterAllocate
<1>4. now \in Nat /\ tracker \in Tracker
  BY DEF RefillInv
<1>5. tracker' \in Tracker
  BY <1>3, <1>4, RefreshedType
<1>6. CASE Refill!WantsPrefetch(w.key, w.est)
  <2>1. PICK x : x = [w.key EXCEPT !.after = 0, !.timer = 0]
    OBVIOUS
  <2>2. key' = x /\ KeyOK(x) /\ x.used = k.used /\ x.size = k.size
    <3>1. /\ DOMAIN x = DOMAIN w.key
          /\ x.size = w.key.size /\ x.used = w.key.used /\ x.standby = w.key.standby
          /\ x.step = w.key.step /\ x.prefetchAt = w.key.prefetchAt /\ x.block = w.key.block
      BY <1>2, <2>1 DEF KeyOK
    <3>2. KeyOK(x)
      BY <1>2, <3>1 DEF KeyOK
    <3>3. QED
      BY <1>2, <1>3, <1>6, <2>1, <3>1, <3>2
  <2>3. PICK step \in Nat : step = Refill!NextStep(w.est, w.key)
    BY <1>2, NextStepType
  <2>4. fetch' = [step |-> step, background |-> TRUE, started |-> now]
    BY <1>3, <1>6, <2>3 DEF Refill!Start
  <2>5. fetch' # Refill!NoFetch
    BY <2>4 DEF Refill!NoFetch
  <2>6. fetch' \in [step : Nat, background : BOOLEAN, started : Nat] /\ fetch'.started <= now
    BY <1>4, <2>4
  <2>7. QED
    BY <1>2, <1>3, <1>4, <1>5, <2>2, <2>5, <2>6 DEF RefillInv
<1>7. CASE ~Refill!WantsPrefetch(w.key, w.est)
  <2>1. key' = w.key /\ fetch' = fetch
    BY <1>3, <1>7
  <2>2. RefillInv'
    BY <1>2, <1>3, <1>4, <1>5, <2>1 DEF RefillInv
  <2>3. ASSUME w.key.used = w.key.size
        PROVE  w.key.standby > 0 \/ fetch # Refill!NoFetch \/ now < w.key.after
    <3>1. /\ w.key.used \in Nat /\ w.key.size \in Nat /\ w.key.prefetchAt \in Nat
          /\ w.key.standby \in Nat /\ w.key.block \in Nat
          /\ w.key.prefetchAt <= w.key.size
      BY <1>2 DEF KeyOK
    <3>2. PICK a \in Nat : a = Refill!Allowance(w.est, w.key.size, w.key.block)
      BY <1>2, <1>4, <3>1, AllowanceType
    <3>3. w.key.used >= w.key.prefetchAt /\ w.key.size - w.key.used <= a
      BY <2>3, <3>1, <3>2
    <3>4. w.key.standby # 0 \/ fetch # Refill!NoFetch \/ now < w.key.after
      BY <1>7, <3>2, <3>3 DEF Refill!WantsPrefetch
    <3>5. QED
      BY <3>1, <3>4
  <2>4. QED
    BY <1>2, <2>1, <2>2, <2>3
<1>8. QED
  BY <1>6, <1>7

LEMMA FromActiveOK ==
    ASSUME Refill!Validate, RefillInv, NEW count \in Counts, Refill!FromActive(count)
    PROVE  /\ RefillInv'
           /\ key'.used = key'.size
                => key'.standby > 0 \/ fetch' # Refill!NoFetch \/ now < key'.after
<1>1. count \in Nat /\ 0 < count /\ now' = now /\ KeyOK(key) /\ EstimateOK(est)
      /\ key.used + count <= key.size
  BY RefillNumbers DEF RefillInv, Refill!FromActive, Refill!Fits
<1>2. PICK k : k = [key EXCEPT !.used = @ + count]
  OBVIOUS
<1>3. /\ DOMAIN k = DOMAIN key /\ k.used = key.used + count /\ k.size = key.size
      /\ k.step = key.step /\ k.standby = key.standby /\ k.prefetchAt = key.prefetchAt
      /\ k.block = key.block
  BY <1>1, <1>2 DEF KeyOK
<1>4. key.used \in Nat /\ key.size \in Nat /\ key.used + count \in Nat
  BY <1>1 DEF KeyOK
<1>5. KeyOK(k) /\ k.size > 0
  BY <1>1, <1>3, <1>4 DEF KeyOK
<1>6. Refill!AfterAllocate(k, est, count)
  BY <1>2 DEF Refill!FromActive
<1>7. QED
  BY <1>1, <1>5, <1>6, AfterAllocateOK

LEMMA FromStandbyOK ==
    ASSUME Refill!Validate, RefillInv, NEW count \in Counts, Refill!FromStandby(count)
    PROVE  /\ RefillInv'
           /\ key'.used = key'.size
                => key'.standby > 0 \/ fetch' # Refill!NoFetch \/ now < key'.after
<1>1. /\ count \in Nat /\ 0 < count /\ now' = now /\ now \in Nat /\ tracker \in Tracker
      /\ KeyOK(key) /\ key.standby >= count /\ key.standby \in Nat
  BY RefillNumbers DEF RefillInv, Refill!FromStandby, KeyOK
<1>2. PICK k : k = Refill!Activated(key, count)
  OBVIOUS
<1>3. PICK e : e = Refill!ResetRate(0)
  OBVIOUS
<1>4. EstimateOK(e)
  BY <1>1, <1>3, ResetRateType
<1>5. PICK at \in Nat : at = Refill!Threshold(e, key.standby, 0) /\ at <= key.standby
  <2>1. PICK size \in Nat : size = key.standby /\ size > 0
    BY <1>1
  <2>2. /\ Refill!Threshold(e, size, 0) \in Nat
        /\ size > 0 => Refill!Threshold(e, size, 0) <= size
    BY <1>1, <1>4, ThresholdType
  <2>3. QED
    BY <2>1, <2>2
<1>6. k = [Refill!NoRetry(key) EXCEPT !.standby = 0, !.size = key.standby, !.step = key.standby,
                                      !.used = count, !.block = 0, !.gate = 0,
                                      !.lastUsed = now, !.prefetchAt = at]
  BY <1>2, <1>3, <1>5, Zenon DEF Refill!Activated
<1>7. DOMAIN Refill!NoRetry(key) = DOMAIN key
  BY DEF Refill!NoRetry
<1>8. /\ DOMAIN k = DOMAIN key /\ k.used = count /\ k.size = key.standby /\ k.step = key.standby
      /\ k.standby = 0 /\ k.prefetchAt = at /\ k.block = 0
  BY <1>1, <1>6, <1>7 DEF KeyOK
<1>9. KeyOK(k) /\ k.size > 0
  BY <1>1, <1>5, <1>8 DEF KeyOK
<1>10. Refill!AfterAllocate(k, e, count)
  BY <1>2, <1>3 DEF Refill!FromStandby
<1>11. QED
  BY <1>1, <1>4, <1>9, <1>10, AfterAllocateOK

\* Of these two sorts of fields only the first matter.
LEMMA SameKey ==
    ASSUME NEW k, KeyOK(k), NEW x, DOMAIN x = DOMAIN k,
           x.size = k.size, x.used = k.used, x.step = k.step, x.standby \in Nat,
           x.prefetchAt = k.prefetchAt, x.block = k.block
    PROVE  KeyOK(x)
  BY DEF KeyOK

LEMMA NoRetryKeeps ==
    ASSUME NEW k, KeyOK(k), NEW x, x = Refill!NoRetry(k)
    PROVE  /\ DOMAIN x = DOMAIN k /\ x.size = k.size /\ x.used = k.used /\ x.step = k.step
           /\ x.standby = k.standby /\ x.prefetchAt = k.prefetchAt /\ x.block = k.block
  BY DEF KeyOK, Refill!NoRetry

LEMMA ReserveOK ==
    ASSUME Refill!Validate, RefillInv, NEW count \in Counts, Refill!Reserve(count)
    PROVE  RefillInv' /\ key'.used = key.used
<1>1. count \in Nat /\ now \in Nat /\ KeyOK(key)
  BY RefillNumbers DEF RefillInv
<1>2. PICK y : y = [key EXCEPT !.standby = 0]
  OBVIOUS
<1>3. KeyOK(y) /\ y.used = key.used
  <2>1. /\ DOMAIN y = DOMAIN key /\ y.size = key.size /\ y.used = key.used /\ y.step = key.step
        /\ y.standby = 0 /\ y.prefetchAt = key.prefetchAt /\ y.block = key.block
    BY <1>1, <1>2 DEF KeyOK
  <2>2. QED
    BY <1>1, <2>1, SameKey
<1>4. key' = Refill!NoRetry(y)
  BY <1>2 DEF Refill!Reserve
<1>5. KeyOK(key') /\ key'.used = key.used
  <2>1. PICK x : x = Refill!NoRetry(y)
    OBVIOUS
  <2>2. /\ DOMAIN x = DOMAIN y /\ x.size = y.size /\ x.used = y.used /\ x.step = y.step
        /\ x.standby = y.standby /\ x.prefetchAt = y.prefetchAt /\ x.block = y.block
    BY <1>3, <2>1, NoRetryKeeps
  <2>3. y.standby \in Nat
    BY <1>3 DEF KeyOK
  <2>4. KeyOK(x)
    BY <1>3, <2>2, <2>3, SameKey
  <2>5. QED
    BY <1>3, <1>4, <2>1, <2>2, <2>4
<1>6. PICK s : s = IF key.size = 0 THEN DefaultStep ELSE Refill!NextStep(est, key)
  OBVIOUS
<1>7. s \in Nat
  BY <1>1, <1>6, NextStepType, RefillNumbers
<1>8. fetch' = [step |-> Refill!Larger(s, count), background |-> FALSE, started |-> now]
  BY <1>6 DEF Refill!Reserve, Refill!Start
<1>9. Refill!Larger(s, count) \in Nat
  BY <1>1, <1>7 DEF Refill!Larger
<1>10. fetch' \in [step : Nat, background : BOOLEAN, started : Nat] /\ fetch'.started <= now
  BY <1>1, <1>8, <1>9
<1>11. UNCHANGED <<now, tracker, est>>
  BY DEF Refill!Reserve
<1>12. QED
  BY <1>5, <1>10, <1>11 DEF RefillInv

LEMMA TookType ==
    ASSUME Refill!Validate, RefillInv
    PROVE  Refill!Took \in Nat
<1>1. now - fetch.started \in Nat
  BY DEF RefillInv
<1>2. QED
  BY <1>1, RefillNumbers DEF Refill!Took, Refill!Smaller

LEMMA NoFetchType ==
    ASSUME now \in Nat
    PROVE  /\ Refill!NoFetch \in [step : Nat, background : BOOLEAN, started : Nat]
           /\ Refill!NoFetch.started <= now
  BY DEF Refill!NoFetch

LEMMA SucceedOK ==
    ASSUME Refill!Validate, RefillInv, Refill!Succeed
    PROVE  RefillInv' /\ key'.used = key.used
<1>1. now \in Nat /\ KeyOK(key) /\ fetch.step \in Nat /\ tracker \in Tracker
  BY DEF RefillInv
<1>2. tracker' \in Tracker
  BY <1>1, TookType, ObserveType DEF Refill!Succeed
<1>3. PICK x : x = Refill!NoRetry(key)
  OBVIOUS
<1>4. /\ DOMAIN x = DOMAIN key /\ x.size = key.size /\ x.used = key.used /\ x.step = key.step
      /\ x.standby = key.standby /\ x.prefetchAt = key.prefetchAt /\ x.block = key.block
  BY <1>1, <1>3, NoRetryKeeps
<1>5. PICK y : y = [x EXCEPT !.standby = fetch.step]
  OBVIOUS
<1>6. KeyOK(y) /\ y.used = key.used
  <2>1. /\ DOMAIN y = DOMAIN key /\ y.size = key.size /\ y.used = key.used /\ y.step = key.step
        /\ y.standby = fetch.step /\ y.prefetchAt = key.prefetchAt /\ y.block = key.block
    BY <1>1, <1>4, <1>5 DEF KeyOK
  <2>2. QED
    BY <1>1, <2>1, SameKey
<1>7. key' = y /\ fetch' = Refill!NoFetch /\ now' = now /\ est' = est
  BY <1>3, <1>5 DEF Refill!Succeed
<1>8. QED
  BY <1>1, <1>2, <1>6, <1>7, NoFetchType DEF RefillInv

LEMMA FailForegroundOK ==
    ASSUME Refill!Validate, RefillInv, Refill!FailForeground
    PROVE  RefillInv' /\ key'.used = key.used
<1>1. now \in Nat /\ tracker \in Tracker
  BY DEF RefillInv
<1>2. tracker' \in Tracker
  BY <1>1, TookType, ObserveType DEF Refill!FailForeground
<1>3. fetch' = Refill!NoFetch /\ UNCHANGED <<now, est, key>>
  BY DEF Refill!FailForeground
<1>4. QED
  BY <1>1, <1>2, <1>3, NoFetchType DEF RefillInv

LEMMA FailBackgroundOK ==
    ASSUME Refill!Validate, RefillInv, Refill!FailBackground
    PROVE  RefillInv' /\ key'.used = key.used
<1>1. now \in Nat /\ tracker \in Tracker /\ KeyOK(key)
  BY DEF RefillInv
<1>2. PICK seen : seen = Refill!Observe(tracker, Refill!Took, FALSE)
  OBVIOUS
<1>3. seen \in Tracker
  BY <1>1, <1>2, TookType, ObserveType
<1>4. /\ tracker' = Refill!Refreshed(seen)
      /\ \E delay : key' = [key EXCEPT !.attempt = @ + 1, !.timer = now + delay,
                                       !.after = now + delay]
      /\ fetch' = Refill!NoFetch /\ UNCHANGED <<now, est>>
  BY <1>2 DEF Refill!FailBackground
<1>5. tracker' \in Tracker
  BY <1>1, <1>3, <1>4, RefreshedType
<1>6. KeyOK(key') /\ key'.used = key.used
  <2>1. PICK delay : key' = [key EXCEPT !.attempt = @ + 1, !.timer = now + delay,
                                        !.after = now + delay]
    BY <1>4
  <2>2. PICK y : y = key'
    OBVIOUS
  <2>3. /\ DOMAIN y = DOMAIN key /\ y.size = key.size /\ y.used = key.used /\ y.step = key.step
        /\ y.standby = key.standby /\ y.prefetchAt = key.prefetchAt /\ y.block = key.block
    BY <1>1, <2>1, <2>2 DEF KeyOK
  <2>4. key.standby \in Nat
    BY <1>1 DEF KeyOK
  <2>5. QED
    BY <1>1, <2>2, <2>3, <2>4, SameKey
<1>7. QED
  BY <1>1, <1>4, <1>5, <1>6, NoFetchType DEF RefillInv

LEMMA RetryPrefetchOK ==
    ASSUME Refill!Validate, RefillInv, Refill!RetryPrefetch
    PROVE  RefillInv' /\ key'.used = key.used
<1>1. now \in Nat /\ KeyOK(key) /\ key.standby \in Nat
  BY DEF RefillInv, KeyOK
<1>2. UNCHANGED <<now, tracker, est>>
  BY DEF Refill!RetryPrefetch
<1>3. CASE now - key.lastUsed > ResetAfter
  <2>1. PICK x : x = Refill!NoRetry(key)
    OBVIOUS
  <2>2. /\ DOMAIN x = DOMAIN key /\ x.size = key.size /\ x.used = key.used /\ x.step = key.step
        /\ x.standby = key.standby /\ x.prefetchAt = key.prefetchAt /\ x.block = key.block
    BY <1>1, <2>1, NoRetryKeeps
  <2>3. KeyOK(x)
    BY <1>1, <2>2, SameKey
  <2>4. key' = x /\ fetch' = fetch
    BY <1>3, <2>1 DEF Refill!RetryPrefetch
  <2>5. QED
    BY <1>2, <2>2, <2>3, <2>4 DEF RefillInv
<1>4. CASE ~(now - key.lastUsed > ResetAfter)
  <2>1. PICK y : y = [key EXCEPT !.timer = 0, !.after = 0]
    OBVIOUS
  <2>2. /\ DOMAIN y = DOMAIN key /\ y.size = key.size /\ y.used = key.used /\ y.step = key.step
        /\ y.standby = key.standby /\ y.prefetchAt = key.prefetchAt /\ y.block = key.block
    BY <1>1, <2>1 DEF KeyOK
  <2>3. KeyOK(y)
    BY <1>1, <2>2, SameKey
  <2>4. PICK s \in Nat : s = Refill!NextStep(est, key)
    BY <1>1, NextStepType
  <2>5. key' = y /\ fetch' = [step |-> s, background |-> TRUE, started |-> now]
    BY <1>4, <2>1, <2>4 DEF Refill!RetryPrefetch, Refill!Start
  <2>6. fetch' \in [step : Nat, background : BOOLEAN, started : Nat] /\ fetch'.started <= now
    BY <1>1, <2>5
  <2>7. QED
    BY <1>2, <2>2, <2>3, <2>5, <2>6 DEF RefillInv
<1>5. QED
  BY <1>3, <1>4

LEMMA TimePassesOK ==
    ASSUME Refill!Validate, RefillInv, Refill!Pass
    PROVE  RefillInv' /\ key'.used = key.used
<1>1. now' = now + 1 /\ UNCHANGED <<tracker, est, key, fetch>> /\ now \in Nat
  BY DEF RefillInv, Refill!Pass
<1>2. now' \in Nat /\ now <= now'
  BY <1>1
<1>3. fetch.started \in Nat /\ fetch.started <= now
  BY DEF RefillInv
<1>4. fetch.started <= now'
  BY <1>1, <1>2, <1>3
<1>5. QED
  BY <1>1, <1>2, <1>4 DEF RefillInv

\* A call that takes the last id of a range leaves the next one on its way, whatever the
\* rates, the latencies and the steps are: the threshold, which earlier calls have set
\* from other estimates, lies within the range (configurePrefetchThresholdLocked), and
\* no allowance is negative (prefetchAllowanceRateLocked).
THEOREM ExhaustedRangesAreFollowed == Refill!Spec => ExhaustionPrefetches
<1> USE MeasuresAssumption
<1>1. Refill!Init => RefillInv
  <2> SUFFICES ASSUME Refill!Init PROVE RefillInv
    OBVIOUS
  <2>1. now = 1 /\ tracker = [samples |-> <<>>, p99 |-> 0, trusted |-> FALSE, at |-> 0,
                              updates |-> 0]
        /\ est = Refill!ResetRate(0) /\ fetch = Refill!NoFetch
    BY DEF Refill!Init
  <2>2. tracker \in Tracker
    BY <2>1 DEF Tracker
  <2>3. EstimateOK(est)
    BY <2>1, ResetRateType
  <2>4. KeyOK(key)
    BY DEF Refill!Init, KeyOK
  <2>5. QED
    BY <2>1, <2>2, <2>3, <2>4, NoFetchType DEF RefillInv
<1>2. ASSUME RefillInv, [Refill!Next]_(Refill!vars)
      PROVE  /\ RefillInv'
             /\ key'.used = key'.size /\ key'.used # key.used
                  => key'.standby > 0 \/ fetch' # Refill!NoFetch \/ now < key'.after
  <2>1. CASE UNCHANGED Refill!vars
    BY <1>2, <2>1 DEF RefillInv, Refill!vars
  <2>2. ASSUME NEW count \in Counts,
               Refill!FromActive(count) \/ Refill!FromStandby(count) \/ Refill!Reserve(count)
        PROVE  /\ RefillInv'
               /\ key'.used = key'.size /\ key'.used # key.used
                    => key'.standby > 0 \/ fetch' # Refill!NoFetch \/ now < key'.after
    BY <1>2, <2>2, FromActiveOK, FromStandbyOK, ReserveOK
  <2>3. CASE \/ Refill!Succeed \/ Refill!FailForeground \/ Refill!FailBackground
             \/ Refill!RetryPrefetch \/ Refill!Pass
    BY <1>2, <2>3, SucceedOK, FailForegroundOK, FailBackgroundOK, RetryPrefetchOK, TimePassesOK
  <2>4. QED
    BY <1>2, <2>1, <2>2, <2>3 DEF Refill!Next
<1>3. RefillInv /\ [Refill!Next]_(Refill!vars) => RefillInv'
  BY <1>2
<1>4. RefillInv /\ [Refill!Next]_(Refill!vars)
         => [key'.used = key'.size /\ key'.used # key.used
               => key'.standby > 0 \/ fetch' # Refill!NoFetch \/ now < key'.after]_(Refill!vars)
  BY <1>2
<1>5. QED
  BY <1>1, <1>3, <1>4, PTL DEF Refill!Spec, ExhaustionPrefetches, Refill!ExhaustionPrefetches

-----------------------------------------------------------------------------
\* Recorder: sequences.

LEMMA PushIs ==
    ASSUME NEW S, NEW q \in Seq(S), NEW o \in S
    PROVE  /\ <<o>> \o q \in Seq(S) /\ Len(<<o>> \o q) = Len(q) + 1 /\ Len(q) \in Nat
           /\ (<<o>> \o q)[1] = o
           /\ \A m \in 2..(Len(q) + 1) : (<<o>> \o q)[m] = q[m - 1]
  OBVIOUS

LEMMA FrontIs ==
    ASSUME NEW S, NEW q \in Seq(S), q # <<>>
    PROVE  /\ Record!Front(q) \in Seq(S) /\ Len(Record!Front(q)) = Len(q) - 1
           /\ \A m \in 1..(Len(q) - 1) : Record!Front(q)[m] = q[m]
  BY DEF Record!Front

LEMMA RemoveIs ==
    ASSUME NEW S, NEW q \in Seq(S), NEW i \in 1..Len(q)
    PROVE  /\ Record!RemoveAt(q, i) \in Seq(S) /\ Len(Record!RemoveAt(q, i)) = Len(q) - 1
           /\ \A m \in 1..(Len(q) - 1) :
                Record!RemoveAt(q, i)[m] = IF m < i THEN q[m] ELSE q[m + 1]
<1> DEFINE a == SubSeq(q, 1, i - 1)
           b == SubSeq(q, i + 1, Len(q))
<1>1. Len(q) \in Nat
  OBVIOUS
<1>2. /\ a \in Seq(S) /\ Len(a) = i - 1
      /\ \A m \in 1..(i - 1) : a[m] = q[m]
  OBVIOUS
<1>3. /\ b \in Seq(S) /\ Len(b) = Len(q) - i
      /\ \A m \in 1..(Len(q) - i) : b[m] = q[i + m]
  OBVIOUS
<1>4. Record!RemoveAt(q, i) = a \o b
  BY DEF Record!RemoveAt
<1> HIDE DEF a, b
<1>5. a \o b \in Seq(S) /\ Len(a \o b) = Len(q) - 1
  BY <1>1, <1>2, <1>3
<1>6. ASSUME NEW m \in 1..(Len(q) - 1)
      PROVE  (a \o b)[m] = IF m < i THEN q[m] ELSE q[m + 1]
  <2>1. CASE m < i
    <3>1. m \in 1..Len(a) /\ m \in 1..(i - 1)
      BY <1>1, <1>2, <2>1
    <3>2. (a \o b)[m] = a[m]
      BY <1>2, <1>3, <3>1
    <3>3. QED
      BY <1>2, <2>1, <3>1, <3>2
  <2>2. CASE ~(m < i)
    <3>1. m - Len(a) \in 1..Len(b) /\ m - Len(a) = m - i + 1 /\ m > Len(a)
          /\ m \in 1..(Len(a) + Len(b))
      BY <1>1, <1>2, <1>3, <2>2
    <3>2. (a \o b)[m] = b[m - Len(a)]
      BY <1>2, <1>3, <3>1
    <3>3. b[m - i + 1] = q[i + (m - i + 1)] /\ i + (m - i + 1) = m + 1
      BY <1>1, <1>3, <3>1
    <3>4. QED
      BY <2>2, <3>1, <3>2, <3>3
  <2>3. QED
    BY <2>1, <2>2
<1>7. QED
  BY <1>4, <1>5, <1>6

-----------------------------------------------------------------------------
\* Recorder: the baselines.

Obs == [key : Key, id : Nat, start : Nat, end : Nat]

\* The baselines are filed observations of different keys.
Baselines(q, f) ==
    /\ q \in Seq(Obs) /\ Len(q) <= Capacity
    /\ \A i \in DOMAIN q : \E j \in DOMAIN f : q[i] = f[j]
    /\ \A i, j \in DOMAIN q : q[i].key = q[j].key => i = j

\* i is where the baselines q remember filed observation j.
RemembersAt(q, f, j, i) ==
    i + j <= Len(f) + 1 /\ q[i].key = f[j].key /\ q[i].end >= f[j].end

\* The key of each of the last Capacity filed observations has a baseline that returned
\* no earlier, and no further back in the list than observations were filed since.
Remembers(q, f) ==
    \A j \in DOMAIN f : j + Capacity > Len(f) => \E i \in DOMAIN q : RemembersAt(q, f, j, i)

\* r is what stays of the baselines q behind the one of key k: no other key has moved
\* back, and at most the last one is gone.
Rest(r, q, k) ==
    /\ r \in Seq(Obs) /\ Len(r) < Capacity
    /\ \A m \in DOMAIN r : \E i \in DOMAIN q : r[m] = q[i] /\ q[i].key # k
    /\ \A m, n \in DOMAIN r : r[m].key = r[n].key => m = n
    /\ \A i \in DOMAIN q : q[i].key # k /\ i < Capacity
         => \E m \in DOMAIN r : m <= i /\ r[m] = q[i]

LEMMA AppendIs ==
    ASSUME NEW f \in Seq(Obs), NEW o \in Obs
    PROVE  /\ Append(f, o) \in Seq(Obs) /\ Len(Append(f, o)) = Len(f) + 1 /\ Len(f) \in Nat
           /\ Append(f, o)[Len(f) + 1] = o
           /\ \A j \in 1..Len(f) : Append(f, o)[j] = f[j]
  OBVIOUS

\* A baseline b of o's key in front of the rest, no earlier than o and than the one
\* it replaces.
LEMMA FrontedRemembers ==
    ASSUME Capacity \in Nat \ {0},
           NEW f \in Seq(Obs), NEW q, Baselines(q, f), Remembers(q, f), NEW o \in Obs,
           NEW r, Rest(r, q, o.key),
           NEW b \in Obs, b.key = o.key, b.end >= o.end,
           b = o \/ \E j \in DOMAIN f : b = f[j],
           \A i \in DOMAIN q : q[i].key = o.key => b.end >= q[i].end
    PROVE  Baselines(<<b>> \o r, Append(f, o)) /\ Remembers(<<b>> \o r, Append(f, o))
<1> DEFINE s == <<b>> \o r
           g == Append(f, o)
<1>1. /\ s \in Seq(Obs) /\ Len(s) = Len(r) + 1 /\ Len(r) \in Nat /\ s[1] = b
      /\ \A m \in 2..(Len(r) + 1) : s[m] = r[m - 1]
      /\ r \in Seq(Obs)
  BY PushIs DEF Rest
<1>2. /\ g \in Seq(Obs) /\ Len(g) = Len(f) + 1 /\ Len(f) \in Nat /\ g[Len(f) + 1] = o
      /\ \A j \in 1..Len(f) : g[j] = f[j]
  BY AppendIs
<1> HIDE DEF s, g
<1>3. /\ DOMAIN s = 1..(Len(r) + 1) /\ DOMAIN r = 1..Len(r)
      /\ DOMAIN g = 1..(Len(f) + 1) /\ DOMAIN f = 1..Len(f)
  BY <1>1, <1>2
<1>4. \A m \in DOMAIN s : m = 1 \/ (m - 1 \in DOMAIN r /\ s[m] = r[m - 1])
  BY <1>1, <1>3
<1>5. \A m \in DOMAIN r : m + 1 \in DOMAIN s /\ s[m + 1] = r[m]
  <2> SUFFICES ASSUME NEW m \in DOMAIN r PROVE m + 1 \in DOMAIN s /\ s[m + 1] = r[m]
    OBVIOUS
  <2>1. m + 1 \in 2..(Len(r) + 1) /\ (m + 1) - 1 = m
    BY <1>1, <1>3
  <2>2. QED
    BY <1>1, <1>3, <2>1
<1>6. Baselines(s, g)
  <2>1. Len(s) <= Capacity
    BY <1>1 DEF Rest
  <2>2. ASSUME NEW m \in DOMAIN s PROVE \E j \in DOMAIN g : s[m] = g[j]
    <3>1. CASE m = 1
      <4>1. CASE b = o
        BY <1>1, <1>2, <1>3, <3>1, <4>1
      <4>2. CASE \E j \in DOMAIN f : b = f[j]
        BY <1>1, <1>2, <1>3, <3>1, <4>2
      <4>3. QED
        BY <4>1, <4>2
    <3>2. CASE m - 1 \in DOMAIN r /\ s[m] = r[m - 1]
      <4>1. PICK i \in DOMAIN q : r[m - 1] = q[i]
        BY <3>2 DEF Rest
      <4>2. PICK j \in DOMAIN f : q[i] = f[j]
        BY DEF Baselines
      <4>3. j \in DOMAIN g /\ g[j] = f[j]
        BY <1>2, <1>3
      <4>4. QED
        BY <3>2, <4>1, <4>2, <4>3
    <3>3. QED
      BY <1>4, <3>1, <3>2
  <2>3. \A m \in DOMAIN r : r[m].key # o.key
    BY DEF Rest
  <2>4. ASSUME NEW m \in DOMAIN s, NEW n \in DOMAIN s, s[m].key = s[n].key PROVE m = n
    <3>1. CASE m = 1
      <4>1. CASE n = 1
        BY <3>1, <4>1
      <4>2. CASE n - 1 \in DOMAIN r /\ s[n] = r[n - 1]
        BY <1>1, <2>3, <2>4, <3>1, <4>2
      <4>3. QED
        BY <1>4, <4>1, <4>2
    <3>2. CASE m - 1 \in DOMAIN r /\ s[m] = r[m - 1]
      <4>1. CASE n = 1
        BY <1>1, <2>3, <2>4, <3>2, <4>1
      <4>2. CASE n - 1 \in DOMAIN r /\ s[n] = r[n - 1]
        <5>1. m - 1 = n - 1
          BY <2>4, <3>2, <4>2 DEF Rest
        <5>2. QED
          BY <1>3, <5>1
      <4>3. QED
        BY <1>4, <4>1, <4>2
    <3>3. QED
      BY <1>4, <3>1, <3>2
  <2>5. QED
    BY <1>1, <2>1, <2>2, <2>4 DEF Baselines
<1>7. Remembers(s, g)
  <2> SUFFICES ASSUME NEW j \in DOMAIN g, j + Capacity > Len(g)
               PROVE  \E i \in DOMAIN s : RemembersAt(s, g, j, i)
    BY DEF Remembers
  <2>1. CASE j = Len(f) + 1
    <3>1. 1 \in DOMAIN s
      BY <1>1, <1>3
    <3>2. RemembersAt(s, g, j, 1)
      BY <1>1, <1>2, <2>1 DEF RemembersAt
    <3>3. QED
      BY <3>1, <3>2
  <2>2. CASE j \in DOMAIN f
    <3>1. j + Capacity > Len(f) /\ g[j] = f[j] /\ j \in Nat
      BY <1>2, <1>3, <2>2
    <3>2. PICK i \in DOMAIN q : RemembersAt(q, f, j, i)
      BY <2>2, <3>1 DEF Remembers
    <3>3. i \in Nat /\ i < Capacity
      BY <1>2, <3>1, <3>2 DEF RemembersAt, Baselines
    <3>4. f[j] \in Obs /\ q[i] \in Obs
      BY <2>2 DEF Baselines
    <3>5. CASE q[i].key = o.key
      <4>1. 1 \in DOMAIN s
        BY <1>1, <1>3
      <4>2. b.end >= q[i].end /\ q[i].end >= f[j].end
        BY <3>2, <3>5 DEF RemembersAt
      <4>3. b.end \in Nat /\ q[i].end \in Nat /\ f[j].end \in Nat
        BY <3>4 DEF Obs
      <4>4. s[1].end >= g[j].end
        BY <1>1, <3>1, <4>2, <4>3
      <4>5. RemembersAt(s, g, j, 1)
        BY <1>1, <1>2, <1>3, <2>2, <3>1, <3>2, <3>5, <4>4 DEF RemembersAt
      <4>6. QED
        BY <4>1, <4>5
    <3>6. CASE q[i].key # o.key
      <4>1. PICK m \in DOMAIN r : m <= i /\ r[m] = q[i]
        BY <3>3, <3>6 DEF Rest
      <4>2. m + 1 \in DOMAIN s /\ s[m + 1] = q[i]
        BY <1>5, <4>1
      <4>3. (m + 1) + j <= Len(g) + 1
        BY <1>2, <1>3, <3>1, <3>2, <3>3, <4>1 DEF RemembersAt
      <4>4. RemembersAt(s, g, j, m + 1)
        BY <3>1, <3>2, <4>2, <4>3 DEF RemembersAt
      <4>5. QED
        BY <4>2, <4>4
    <3>7. QED
      BY <3>5, <3>6
  <2>3. QED
    BY <1>2, <1>3, <2>1, <2>2
<1>8. QED
  BY <1>6, <1>7 DEF s, g

\* The last baseline makes room, or there is room.
LEMMA RestWithoutKey ==
    ASSUME Capacity \in Nat \ {0}, NEW f, NEW q, Baselines(q, f), NEW k,
           \A i \in DOMAIN q : q[i].key # k
    PROVE  Rest(IF Len(q) = Capacity THEN Record!Front(q) ELSE q, q, k)
<1>1. q \in Seq(Obs) /\ Len(q) \in Nat /\ Len(q) <= Capacity /\ DOMAIN q = 1..Len(q)
  BY DEF Baselines
<1>2. CASE Len(q) = Capacity
  <2>1. q # <<>>
    BY <1>1, <1>2
  <2> DEFINE r == Record!Front(q)
  <2>2. r \in Seq(Obs) /\ Len(r) = Len(q) - 1 /\ \A m \in 1..(Len(q) - 1) : r[m] = q[m]
    BY <1>1, <2>1, FrontIs
  <2> HIDE DEF r
  <2>3. DOMAIN r = 1..(Len(q) - 1) /\ \A m \in DOMAIN r : m \in DOMAIN q
    BY <1>1, <2>2
  <2>4. \A i \in DOMAIN q : i < Capacity => i \in DOMAIN r
    BY <1>1, <1>2, <2>3
  <2>5. \A i \in DOMAIN q : i < Capacity => i \in DOMAIN r /\ i <= i /\ r[i] = q[i]
    BY <1>1, <2>2, <2>3, <2>4
  <2>6. Len(r) < Capacity
    BY <1>1, <1>2, <2>2
  <2>7. \A m \in DOMAIN r : m \in DOMAIN q /\ r[m] = q[m]
    BY <2>2, <2>3
  <2>8. Rest(r, q, k)
    BY <2>2, <2>5, <2>6, <2>7 DEF Rest, Baselines
  <2>9. QED
    BY <1>2, <2>8 DEF r
<1>3. PICK n \in Nat : n = Len(q) /\ n <= Capacity
  BY <1>1
<1>4. CASE n < Capacity
  <2>1. n # Capacity
    BY <1>4
  <2>2. \A i \in DOMAIN q : i <= i /\ q[i] = q[i]
    BY <1>1
  <2>3. Rest(q, q, k)
    BY <1>1, <1>3, <1>4, <2>2 DEF Rest, Baselines
  <2>4. QED
    BY <1>3, <2>1, <2>3
<1>5. QED
  BY <1>2, <1>3, <1>4

\* The baseline of the key leaves its place.
LEMMA RestWithKey ==
    ASSUME Capacity \in Nat \ {0}, NEW f, NEW q, Baselines(q, f), NEW e \in DOMAIN q
    PROVE  Rest(Record!RemoveAt(q, e), q, q[e].key)
<1> DEFINE r == Record!RemoveAt(q, e)
<1>1. q \in Seq(Obs) /\ Len(q) \in Nat /\ Len(q) <= Capacity /\ DOMAIN q = 1..Len(q)
  BY DEF Baselines
<1>2. /\ r \in Seq(Obs) /\ Len(r) = Len(q) - 1
      /\ \A m \in 1..(Len(q) - 1) : r[m] = IF m < e THEN q[m] ELSE q[m + 1]
  BY <1>1, RemoveIs
<1> HIDE DEF r
<1>3. DOMAIN r = 1..(Len(q) - 1) /\ e \in Nat
  BY <1>1, <1>2
<1> DEFINE at(m) == IF m < e THEN m ELSE m + 1
<1>4. \A m \in DOMAIN r : at(m) \in DOMAIN q /\ r[m] = q[at(m)] /\ at(m) # e
  BY <1>1, <1>2, <1>3
<1>5. \A m, n \in DOMAIN r : at(m) = at(n) => m = n
  BY <1>3
<1>6. \A i \in DOMAIN q : i # e => \E m \in DOMAIN r : m <= i /\ at(m) = i
  <2> SUFFICES ASSUME NEW i \in DOMAIN q, i # e
               PROVE  \E m \in DOMAIN r : m <= i /\ at(m) = i
    OBVIOUS
  <2>1. CASE i < e
    <3>1. i \in DOMAIN r /\ i <= i /\ at(i) = i
      BY <1>1, <1>3, <2>1
    <3>2. QED
      BY <3>1
  <2>2. CASE i > e
    <3>1. i - 1 \in DOMAIN r /\ i - 1 <= i /\ at(i - 1) = i
      BY <1>1, <1>3, <2>2
    <3>2. QED
      BY <3>1
  <2>3. QED
    BY <1>1, <1>3, <2>1, <2>2
<1> HIDE DEF at
<1>7. \A i, j \in DOMAIN q : q[i].key = q[j].key => i = j
  BY DEF Baselines
<1>8. \A m \in DOMAIN r : q[at(m)].key # q[e].key
  BY <1>4, <1>7
<1>9. \A m, n \in DOMAIN r : r[m].key = r[n].key => m = n
  BY <1>4, <1>5, <1>7
<1>10. \A i \in DOMAIN q : q[i].key # q[e].key => \E m \in DOMAIN r : m <= i /\ r[m] = q[i]
  BY <1>4, <1>6
<1>11. Len(r) < Capacity
  BY <1>1, <1>2
<1>12. \A m \in DOMAIN r : \E i \in DOMAIN q : r[m] = q[i] /\ q[i].key # q[e].key
  BY <1>4, <1>8
<1>13. Rest(r, q, q[e].key)
  BY <1>2, <1>9, <1>10, <1>11, <1>12 DEF Rest
<1>14. QED
  BY <1>13 DEF r

-----------------------------------------------------------------------------
\* Recorder: the ring.

\* How many observations the ring holds up to place m, counted from the oldest.
Age(n, m) == IF m > n THEN m - n ELSE m + Capacity - n

\* The ring r, whose oldest place is n + 1, holds the last Capacity of the filed ones.
Ring(r, n, f) ==
    /\ r \in Seq(Obs) /\ Len(r) <= Capacity /\ n \in 0..(Capacity - 1)
    /\ Len(r) < Capacity => n = 0 /\ r = f
    /\ Len(r) = Capacity
         => /\ Len(f) >= Capacity
            /\ \A m \in 1..Capacity : r[m] = f[Len(f) + Age(n, m) - Capacity]

SlottedIn(r, n, o) == IF Len(r) < Capacity THEN Append(r, o) ELSE [r EXCEPT ![n + 1] = o]

AdvancedFrom(r, n) == IF Len(r) < Capacity THEN n ELSE (n + 1) % Capacity

LEMMA NextPlace ==
    ASSUME Capacity \in Nat \ {0}, NEW n \in 0..(Capacity - 1)
    PROVE  (n + 1) % Capacity = IF n + 1 = Capacity THEN 0 ELSE n + 1
  OBVIOUS

LEMMA RingSlots ==
    ASSUME Capacity \in Nat \ {0}, NEW f \in Seq(Obs), NEW r, NEW n, Ring(r, n, f),
           NEW o \in Obs
    PROVE  Ring(SlottedIn(r, n, o), AdvancedFrom(r, n), Append(f, o))
<1> DEFINE g == Append(f, o)
<1>1. /\ g \in Seq(Obs) /\ Len(g) = Len(f) + 1 /\ Len(f) \in Nat /\ g[Len(f) + 1] = o
      /\ \A j \in 1..Len(f) : g[j] = f[j]
  BY AppendIs
<1>2. r \in Seq(Obs) /\ Len(r) <= Capacity /\ n \in 0..(Capacity - 1) /\ Len(r) \in Nat
  BY DEF Ring
<1>3. CASE Len(r) < Capacity
  <2>1. n = 0 /\ r = f
    BY <1>3 DEF Ring
  <2>2. SlottedIn(r, n, o) = g /\ AdvancedFrom(r, n) = 0
    BY <1>3, <2>1 DEF SlottedIn, AdvancedFrom
  <2> HIDE DEF g
  <2>3. Len(g) <= Capacity
    BY <1>1, <1>2, <1>3, <2>1
  <2>4. \A m \in 1..Capacity : Len(g) = Capacity => Len(g) + Age(0, m) - Capacity = m
    BY <1>1 DEF Age
  <2>5. Ring(g, 0, g)
    BY <1>1, <2>3, <2>4 DEF Ring
  <2>6. QED
    BY <2>2, <2>5 DEF g
<1>4. CASE Len(r) = Capacity
  <2> DEFINE s == [r EXCEPT ![n + 1] = o]
             p == (n + 1) % Capacity
  <2>1. SlottedIn(r, n, o) = s /\ AdvancedFrom(r, n) = p
    BY <1>2, <1>4 DEF SlottedIn, AdvancedFrom
  <2>2. /\ s \in Seq(Obs) /\ Len(s) = Capacity /\ s[n + 1] = o
        /\ \A m \in 1..Capacity : m # n + 1 => s[m] = r[m]
    BY <1>2, <1>4
  <2>3. p = IF n + 1 = Capacity THEN 0 ELSE n + 1
    BY <1>2, NextPlace
  <2> HIDE DEF s, p, g
  <2>4. p \in 0..(Capacity - 1)
    BY <1>2, <2>3
  <2>5. Len(f) >= Capacity
        /\ \A m \in 1..Capacity : r[m] = f[Len(f) + Age(n, m) - Capacity]
    BY <1>4 DEF Ring
  <2>6. ASSUME NEW m \in 1..Capacity PROVE s[m] = g[Len(g) + Age(p, m) - Capacity]
    <3>1. CASE m = n + 1
      <4>1. Age(p, m) = Capacity
        BY <1>2, <2>3, <3>1 DEF Age
      <4>2. Len(g) + Age(p, m) - Capacity = Len(f) + 1
        BY <1>1, <4>1
      <4>3. QED
        BY <1>1, <2>2, <3>1, <4>2
    <3>2. CASE m # n + 1
      <4>1. Age(p, m) = Age(n, m) - 1 /\ Age(n, m) \in 2..Capacity
        BY <1>2, <2>3, <3>2 DEF Age
      <4>2. Len(g) + Age(p, m) - Capacity = Len(f) + Age(n, m) - Capacity
        BY <1>1, <4>1
      <4>3. Len(f) + Age(n, m) - Capacity \in 1..Len(f)
        BY <1>1, <2>5, <4>1
      <4>4. g[Len(f) + Age(n, m) - Capacity] = f[Len(f) + Age(n, m) - Capacity]
        BY <1>1, <4>3
      <4>5. QED
        BY <2>2, <2>5, <3>2, <4>2, <4>4
    <3>3. QED
      BY <3>1, <3>2
  <2>7. Ring(s, p, g)
    BY <1>1, <2>2, <2>4, <2>5, <2>6 DEF Ring
  <2>8. QED
    BY <2>1, <2>7 DEF g
<1>5. QED
  BY <1>2, <1>3, <1>4

\* What the ring holds is one of the last Capacity filed observations.
LEMMA RingHolds ==
    ASSUME Capacity \in Nat \ {0}, NEW f \in Seq(Obs), NEW r, NEW n, Ring(r, n, f),
           NEW m \in DOMAIN r
    PROVE  \E j \in DOMAIN f : r[m] = f[j] /\ j + Capacity > Len(f)
<1>1. /\ r \in Seq(Obs) /\ Len(r) <= Capacity /\ n \in 0..(Capacity - 1) /\ Len(r) \in Nat
      /\ Len(f) \in Nat /\ DOMAIN r = 1..Len(r) /\ DOMAIN f = 1..Len(f)
  BY DEF Ring
<1>2. CASE Len(r) < Capacity
  <2>1. r = f
    BY <1>2 DEF Ring
  <2>2. m \in DOMAIN f /\ r[m] = f[m] /\ m + Capacity > Len(f)
    BY <1>1, <1>2, <2>1
  <2>3. QED
    BY <2>2
<1>3. CASE Len(r) = Capacity
  <2>1. Len(f) >= Capacity /\ r[m] = f[Len(f) + Age(n, m) - Capacity]
    BY <1>1, <1>3 DEF Ring
  <2>2. Age(n, m) \in 1..Capacity
    BY <1>1, <1>3 DEF Age
  <2>3. Len(f) + Age(n, m) - Capacity \in DOMAIN f
        /\ (Len(f) + Age(n, m) - Capacity) + Capacity > Len(f)
    BY <1>1, <2>1, <2>2
  <2>4. QED
    BY <2>1, <2>3
<1>4. QED
  BY <1>1, <1>2, <1>3

\* observations() returns what the ring holds.
LEMMA ObservationsAreInTheRing ==
    ASSUME NEW r \in Seq(Obs), NEW n \in Nat, n <= Len(r) \/ n = 0,
           NEW m \in DOMAIN (SubSeq(r, n + 1, Len(r)) \o SubSeq(r, 1, n))
    PROVE  \E i \in DOMAIN r : (SubSeq(r, n + 1, Len(r)) \o SubSeq(r, 1, n))[m] = r[i]
<1> DEFINE a == SubSeq(r, n + 1, Len(r))
           b == SubSeq(r, 1, n)
<1>1. Len(r) \in Nat /\ DOMAIN r = 1..Len(r) /\ n <= Len(r)
  OBVIOUS
<1>2. /\ a \in Seq(Obs) /\ Len(a) = Len(r) - n
      /\ \A i \in 1..(Len(r) - n) : a[i] = r[n + i]
  <2>1. /\ Len(a) = IF n + 1 <= Len(r) THEN Len(r) - (n + 1) + 1 ELSE 0
        /\ \A i \in 1..Len(a) : a[i] = r[(n + 1) + i - 1]
    OBVIOUS
  <2>2. a \in Seq(Obs)
    BY <1>1
  <2>3. Len(a) = Len(r) - n
    <3>1. PICK l \in Nat : l = Len(r) /\ n <= l
      BY <1>1
    <3>2. (IF n + 1 <= l THEN l - (n + 1) + 1 ELSE 0) = l - n
      BY <3>1
    <3>3. QED
      BY <2>1, <3>1, <3>2
  <2>4. \A i \in 1..(Len(r) - n) : (n + 1) + i - 1 = n + i
    BY <1>1
  <2>5. QED
    BY <2>1, <2>2, <2>3, <2>4
<1>3. b \in Seq(Obs) /\ Len(b) = n /\ \A i \in 1..n : b[i] = r[i]
  BY <1>1
<1>4. m \in DOMAIN (a \o b)
  OBVIOUS
<1> HIDE DEF a, b
<1>5. m \in 1..Len(r) /\ Len(a) \in Nat /\ Len(b) \in Nat /\ Len(a) + Len(b) = Len(r)
  BY <1>1, <1>2, <1>3, <1>4
<1>6. CASE m <= Len(r) - n
  <2>1. (a \o b)[m] = a[m] /\ a[m] = r[n + m] /\ n + m \in DOMAIN r
    BY <1>1, <1>2, <1>3, <1>5, <1>6
  <2>2. QED
    BY <2>1 DEF a, b
<1>7. CASE m > Len(r) - n
  <2>1. m - Len(a) \in 1..n /\ m > Len(a) /\ m \in 1..(Len(a) + Len(b))
    BY <1>1, <1>2, <1>3, <1>5, <1>7
  <2>2. (a \o b)[m] = b[m - Len(a)]
    BY <1>2, <1>3, <1>5, <2>1
  <2>3. b[m - Len(a)] = r[m - Len(a)] /\ m - Len(a) \in DOMAIN r
    BY <1>1, <1>3, <2>1
  <2>4. QED
    BY <2>2, <2>3 DEF a, b
<1>8. QED
  BY <1>1, <1>5, <1>6, <1>7

-----------------------------------------------------------------------------
\* Recorder: the invariant.

CallOK(c) ==
    /\ call[c].at = "running" => call[c].key \in Key /\ call[c].start \in Nat
    /\ call[c].at = "ended" => call[c].seen \in Obs

\* Each list is told by the history: the baselines, the ring, and that no key the ring
\* still holds has lost its baseline.
RecordInv ==
    /\ time \in Nat
    /\ call = [c \in Caller |-> call[c]]
    /\ \A c \in Caller : CallOK(c)
    /\ counters.order \in Nat
    /\ filed \in Seq(Obs)
    /\ Baselines(lru, filed)
    /\ Remembers(lru, filed)
    /\ Ring(ring, next, filed)

LEMMA BeginOK ==
    ASSUME RecordInv, NEW c \in Caller, Record!Begin(c)
    PROVE  RecordInv'
<1>1. PICK k \in Key :
        call' = [call EXCEPT ![c] = [at |-> "running", key |-> k, start |-> time]]
  BY DEF Record!Begin
<1>2. UNCHANGED <<time, ring, next, lru, counters, filed>>
  BY DEF Record!Begin
<1>3. call = [d \in Caller |-> call[d]] /\ time \in Nat
  BY DEF RecordInv
<1>4. call' = [d \in Caller |-> call'[d]]
  BY <1>1, <1>3
<1>5. call'[c] = [at |-> "running", key |-> k, start |-> time]
  BY <1>1, <1>3
<1>6. \A d \in Caller : d # c => call'[d] = call[d]
  BY <1>1, <1>3
<1>7. CallOK(c)'
  BY <1>3, <1>5 DEF CallOK
<1>8. \A d \in Caller : CallOK(d)'
  BY <1>6, <1>7 DEF CallOK, RecordInv
<1>9. QED
  BY <1>2, <1>4, <1>8 DEF RecordInv

LEMMA EndOK ==
    ASSUME RecordInv, NEW c \in Caller, Record!End(c)
    PROVE  RecordInv'
<1>1. PICK id \in 1..MaxId :
        call' = [call EXCEPT ![c] = [at |-> "ended",
                                     seen |-> [key |-> call[c].key, id |-> id,
                                               start |-> call[c].start, end |-> time]]]
  BY DEF Record!End
<1>2. UNCHANGED <<time, ring, next, lru, counters, filed>> /\ call[c].at = "running"
  BY DEF Record!End
<1>3. call = [d \in Caller |-> call[d]] /\ time \in Nat
  BY DEF RecordInv
<1> DEFINE o == [key |-> call[c].key, id |-> id, start |-> call[c].start, end |-> time]
<1>4. o \in Obs
  <2>1. call[c].key \in Key /\ call[c].start \in Nat /\ id \in Nat
    BY <1>2 DEF RecordInv, CallOK
  <2>2. QED
    BY <1>3, <2>1 DEF Obs
<1>5. call' = [call EXCEPT ![c] = [at |-> "ended", seen |-> o]]
  BY <1>1
<1> HIDE DEF o
<1>6. call' = [d \in Caller |-> call'[d]]
  BY <1>3, <1>5
<1>7. call'[c] = [at |-> "ended", seen |-> o]
  BY <1>3, <1>5
<1>8. \A d \in Caller : d # c => call'[d] = call[d]
  BY <1>3, <1>5
<1>9. CallOK(c)'
  BY <1>4, <1>7 DEF CallOK
<1>10. \A d \in Caller : CallOK(d)'
  BY <1>8, <1>9 DEF CallOK, RecordInv
<1>11. QED
  BY <1>2, <1>6, <1>10 DEF RecordInv

LEMMA ClockOK ==
    ASSUME RecordInv, Record!Pass
    PROVE  RecordInv'
<1>1. time' = time + 1 /\ UNCHANGED <<call, ring, next, lru, counters, filed>> /\ time \in Nat
  BY DEF RecordInv, Record!Pass
<1>2. \A c \in Caller : CallOK(c)'
  BY <1>1 DEF RecordInv, CallOK
<1>3. QED
  BY <1>1, <1>2 DEF RecordInv

\* What filing an observation leaves of the baselines.
LEMMA BaselinesRemembered ==
    ASSUME Record!CapacityPositive, RecordInv, NEW o \in Obs
    PROVE  /\ Baselines(Record!Remembered(o), Append(filed, o))
           /\ Remembers(Record!Remembered(o), Append(filed, o))
<1>1. Capacity \in Nat \ {0}
  BY DEF Record!CapacityPositive
<1>2. Baselines(lru, filed) /\ Remembers(lru, filed) /\ filed \in Seq(Obs)
  BY DEF RecordInv
<1>3. lru \in Seq(Obs) /\ \A i, j \in DOMAIN lru : lru[i].key = lru[j].key => i = j
  BY <1>2 DEF Baselines
<1>4. Record!IndexOf(o.key) = {i \in DOMAIN lru : lru[i].key = o.key}
  BY DEF Record!IndexOf
<1>5. CASE Record!IndexOf(o.key) = {}
  <2> DEFINE r == IF Len(lru) = Capacity THEN Record!Front(lru) ELSE lru
  <2>1. Record!Remembered(o) = <<o>> \o r
    BY <1>5 DEF Record!Remembered
  <2>2. \A i \in DOMAIN lru : lru[i].key # o.key
    BY <1>4, <1>5
  <2>3. Rest(r, lru, o.key)
    BY <1>1, <1>2, <2>2, RestWithoutKey
  <2>4. o.end >= o.end
    BY DEF Obs
  <2> HIDE DEF r
  <2>5. QED
    BY <1>1, <1>2, <2>1, <2>2, <2>3, <2>4, FrontedRemembers
<1>6. CASE Record!IndexOf(o.key) # {}
  <2> DEFINE e == CHOOSE i \in Record!IndexOf(o.key) : TRUE
             r == Record!RemoveAt(lru, e)
             b == Record!Later(lru[e], o)
  <2>1. Record!Remembered(o) = <<b>> \o r
    BY <1>6 DEF Record!Remembered
  <2>2. e \in Record!IndexOf(o.key)
    BY <1>6
  <2> HIDE DEF e
  <2>3. e \in DOMAIN lru /\ lru[e].key = o.key /\ lru[e] \in Obs
    BY <1>3, <1>4, <2>2
  <2>4. Rest(r, lru, o.key)
    BY <1>1, <1>2, <2>3, RestWithKey
  <2>5. b = (IF o.end > lru[e].end THEN o ELSE lru[e])
    BY DEF Record!Later
  <2> HIDE DEF r, b
  <2>6. b \in Obs /\ b.key = o.key /\ b.end >= o.end /\ b.end >= lru[e].end
    <3>1. o.end \in Nat /\ lru[e].end \in Nat
      BY <2>3 DEF Obs
    <3>2. CASE o.end > lru[e].end
      BY <2>3, <2>5, <3>1, <3>2
    <3>3. CASE ~(o.end > lru[e].end)
      BY <2>3, <2>5, <3>1, <3>3
    <3>4. QED
      BY <3>2, <3>3
  <2>7. \A i \in DOMAIN lru : lru[i].key = o.key => b.end >= lru[i].end
    BY <1>3, <2>3, <2>6
  <2>8. b = o \/ \E j \in DOMAIN filed : b = filed[j]
    <3>1. b = o \/ b = lru[e]
      BY <2>5
    <3>2. QED
      BY <1>2, <2>3, <3>1 DEF Baselines
  <2>9. QED
    BY <1>1, <1>2, <2>1, <2>4, <2>6, <2>7, <2>8, FrontedRemembers
<1>7. QED
  BY <1>5, <1>6

\* What is counted when o is filed.
LEMMA CountedOrder ==
    ASSUME RecordInv, NEW o \in Obs
    PROVE  /\ Record!Counted(o).order \in Nat
           /\ (Record!Counted(o).order > counters.order)
                <=> \E i \in DOMAIN lru : lru[i].key = o.key /\ lru[i].end < o.start
                                          /\ o.id <= lru[i].id
<1> DEFINE ps == {lru[i] : i \in Record!IndexOf(o.key)}
           stale == \E p \in ps : Record!Precedes(p, o) /\ o.id < p.id
           dup == \E p \in ps : Record!Precedes(p, o) /\ o.id = p.id
           hit == \E i \in DOMAIN lru : lru[i].key = o.key /\ lru[i].end < o.start
                                        /\ o.id <= lru[i].id
<1>1. Record!Counted(o).order = counters.order + (IF stale \/ dup THEN 1 ELSE 0)
  BY Zenon DEF Record!Counted
<1>2. counters.order \in Nat /\ lru \in Seq(Obs)
  BY DEF RecordInv, Baselines
<1>3. \A i \in DOMAIN lru : lru[i].id \in Nat
  <2>1. \A i \in DOMAIN lru : lru[i] \in Obs
    BY <1>2
  <2>2. QED
    BY <2>1 DEF Obs
<1>4. o.id \in Nat
  BY DEF Obs
<1>5. stale \/ dup => hit
  BY <1>3, <1>4 DEF Record!IndexOf, Record!Precedes
<1>6. hit => stale \/ dup
  <2> SUFFICES ASSUME NEW i \in DOMAIN lru, lru[i].key = o.key, lru[i].end < o.start,
                      o.id <= lru[i].id
               PROVE  stale \/ dup
    OBVIOUS
  <2>1. i \in Record!IndexOf(o.key)
    BY DEF Record!IndexOf
  <2>2. lru[i] \in ps /\ Record!Precedes(lru[i], o)
    BY <2>1 DEF Record!Precedes
  <2>3. o.id < lru[i].id \/ o.id = lru[i].id
    BY <1>3, <1>4
  <2>4. QED
    BY <2>2, <2>3
<1> HIDE DEF stale, dup, hit
<1>7. CASE stale \/ dup
  <2>1. Record!Counted(o).order = counters.order + 1
    BY <1>1, <1>7
  <2>2. Record!Counted(o).order \in Nat /\ Record!Counted(o).order > counters.order
    BY <1>2, <2>1
  <2>3. QED
    BY <1>5, <1>7, <2>2 DEF hit
<1>8. CASE ~(stale \/ dup)
  <2>1. Record!Counted(o).order = counters.order + 0
    BY <1>1, <1>8
  <2>2. Record!Counted(o).order \in Nat /\ ~(Record!Counted(o).order > counters.order)
    BY <1>2, <2>1
  <2>3. QED
    BY <1>6, <1>8, <2>2 DEF hit
<1>9. QED
  BY <1>7, <1>8

LEMMA FileOK ==
    ASSUME Record!CapacityPositive, RecordInv, NEW c \in Caller, Record!File(c)
    PROVE  /\ RecordInv'
           /\ call[c].seen \in Obs /\ filed' = Append(filed, call[c].seen)
           /\ counters' = Record!Counted(call[c].seen)
<1> DEFINE o == call[c].seen
<1>1. /\ counters' = Record!Counted(o)
      /\ lru' = Record!Remembered(o)
      /\ ring' = Record!Slotted(o)
      /\ next' = Record!Advanced
      /\ filed' = Append(filed, o)
      /\ call' = [call EXCEPT ![c] = Record!NoCall]
      /\ time' = time /\ call[c].at = "ended"
  BY DEF Record!File
<1>2. o \in Obs
  BY <1>1 DEF RecordInv, CallOK
<1> HIDE DEF o
<1>3. call = [d \in Caller |-> call[d]] /\ filed \in Seq(Obs) /\ Capacity \in Nat \ {0}
      /\ Ring(ring, next, filed) /\ time \in Nat
  BY DEF RecordInv, Record!CapacityPositive
<1>4. call' = [d \in Caller |-> call'[d]]
  BY <1>1, <1>3
<1>5. \A d \in Caller : CallOK(d)'
  <2>1. call'[c] = Record!NoCall /\ \A d \in Caller : d # c => call'[d] = call[d]
    BY <1>1, <1>3
  <2>2. CallOK(c)'
    BY <2>1 DEF CallOK, Record!NoCall
  <2>3. QED
    BY <2>1, <2>2 DEF CallOK, RecordInv
<1>6. filed' \in Seq(Obs)
  BY <1>1, <1>2, <1>3, AppendIs
<1>7. Baselines(lru', filed') /\ Remembers(lru', filed')
  BY <1>1, <1>2, BaselinesRemembered
<1>8. Ring(ring', next', filed')
  <2>1. ring' = SlottedIn(ring, next, o) /\ next' = AdvancedFrom(ring, next)
    BY <1>1 DEF Record!Slotted, Record!Advanced, SlottedIn, AdvancedFrom
  <2>2. QED
    BY <1>1, <1>2, <1>3, <2>1, RingSlots
<1>9. counters'.order \in Nat
  BY <1>1, <1>2, CountedOrder
<1>10. Baselines(lru, filed)' /\ Remembers(lru, filed)' /\ Ring(ring, next, filed)'
  BY <1>7, <1>8 DEF Baselines, Remembers, RemembersAt, Ring, Age
<1>11. RecordInv'
  BY <1>1, <1>3, <1>4, <1>5, <1>6, <1>9, <1>10 DEF RecordInv
<1>12. QED
  BY <1>1, <1>2, <1>11 DEF o

LEMMA RecordInit ==
    ASSUME Record!CapacityPositive, Record!Init
    PROVE  RecordInv
<1>1. /\ time = 1 /\ call = [c \in Caller |-> Record!NoCall]
      /\ ring = <<>> /\ next = 0 /\ lru = <<>> /\ filed = <<>>
      /\ counters = [stale |-> 0, duplicate |-> 0, order |-> 0, evicted |-> 0]
  BY DEF Record!Init
<1>2. Capacity \in Nat \ {0}
  BY DEF Record!CapacityPositive
<1>3. \A c \in Caller : CallOK(c)
  BY <1>1 DEF CallOK, Record!NoCall
<1>4. Len(<<>>) = 0 /\ <<>> \in Seq(Obs) /\ DOMAIN <<>> = {}
  OBVIOUS
<1>5. Baselines(lru, filed) /\ Remembers(lru, filed)
  BY <1>1, <1>2, <1>4 DEF Baselines, Remembers
<1>6. Ring(ring, next, filed)
  BY <1>1, <1>2, <1>4 DEF Ring
<1>7. counters.order = 0
  BY <1>1
<1>8. call = [c \in Caller |-> call[c]]
  BY <1>1
<1>9. QED
  BY <1>1, <1>3, <1>4, <1>5, <1>6, <1>7, <1>8 DEF RecordInv

\* A step keeps the invariant; it files an observation or counts nothing.
LEMMA RecordStep ==
    ASSUME Record!CapacityPositive, RecordInv, [Record!Next]_(Record!vars)
    PROVE  /\ RecordInv'
           /\ \/ filed' = filed /\ counters' = counters
              \/ \E o \in Obs : filed' = Append(filed, o) /\ counters' = Record!Counted(o)
<1>1. CASE UNCHANGED Record!vars
  <2>1. UNCHANGED <<time, call, ring, next, lru, counters, filed>>
    BY <1>1 DEF Record!vars
  <2>2. \A c \in Caller : CallOK(c)'
    BY <2>1 DEF CallOK, RecordInv
  <2>3. QED
    BY <2>1, <2>2 DEF RecordInv
<1>2. ASSUME NEW c \in Caller, Record!Begin(c) \/ Record!End(c)
      PROVE  RecordInv' /\ filed' = filed /\ counters' = counters
  <2>1. CASE Record!Begin(c)
    BY <2>1, BeginOK DEF Record!Begin
  <2>2. CASE Record!End(c)
    BY <2>2, EndOK DEF Record!End
  <2>3. QED
    BY <1>2, <2>1, <2>2
<1>3. ASSUME NEW c \in Caller, Record!File(c)
      PROVE  RecordInv'
             /\ \E o \in Obs : filed' = Append(filed, o) /\ counters' = Record!Counted(o)
  <2>1. RecordInv' /\ call[c].seen \in Obs /\ filed' = Append(filed, call[c].seen)
        /\ counters' = Record!Counted(call[c].seen)
    BY <1>3, FileOK
  <2>2. PICK o : o = call[c].seen
    OBVIOUS
  <2>3. o \in Obs /\ filed' = Append(filed, o) /\ counters' = Record!Counted(o)
    BY Zenon, <2>1, <2>2
  <2>4. QED
    BY <2>1, <2>3
<1>4. CASE Record!Pass
  BY <1>4, ClockOK DEF Record!Pass
<1>5. QED
  BY <1>1, <1>2, <1>3, <1>4 DEF Record!Next

\* p had returned before o began, and was filed before it.
FiledEarlier(p, o) == \E j \in DOMAIN filed : p = filed[j] /\ p.key = o.key /\ p.end < o.start

LEMMA BeforeIs ==
    ASSUME NEW o, NEW p
    PROVE  p \in Record!Before(o) <=> FiledEarlier(p, o)
  BY DEF Record!Before, FiledEarlier

LEMMA NewIs ==
    ASSUME filed \in Seq(Obs), NEW o \in Obs, filed' = Append(filed, o)
    PROVE  Record!New = o
  BY DEF Record!New, Record!Last

\* What the recorder flags is a real violation of the order of ids, in whatever order
\* calls overlap, end and file (record): a caller got an id although a larger or equal
\* one of the same key had been returned before its call began. A baseline is always an
\* observation that was filed.
THEOREM NothingIsFlaggedForNothing == Record!Spec => FlagsAreReal
<1> USE MeasuresAssumption
<1>1. Record!Init => RecordInv
  BY RecordInit
<1>2. RecordInv /\ [Record!Next]_(Record!vars) => RecordInv'
  BY RecordStep
<1>3. RecordInv /\ [Record!Next]_(Record!vars)
        => [counters'.order > counters.order
             => \E p \in Record!Before(Record!New) : Record!New.id <= p.id]_(Record!vars)
  <2> SUFFICES ASSUME RecordInv, [Record!Next]_(Record!vars),
                      counters'.order > counters.order
               PROVE  \E p \in Record!Before(Record!New) : Record!New.id <= p.id
    OBVIOUS
  <2>1. counters.order \in Nat
    BY DEF RecordInv
  <2>2. counters' # counters
    BY <2>1
  <2>3. PICK o \in Obs : filed' = Append(filed, o) /\ counters' = Record!Counted(o)
    BY <2>2, RecordStep
  <2>4. Record!New = o
    BY <2>3, NewIs DEF RecordInv
  <2>5. Record!Counted(o).order > counters.order
    BY <2>3
  <2>6. PICK i \in DOMAIN lru : lru[i].key = o.key /\ lru[i].end < o.start
                                /\ o.id <= lru[i].id
    BY <2>5, CountedOrder
  <2>7. PICK j \in DOMAIN filed : lru[i] = filed[j]
    BY DEF RecordInv, Baselines
  <2>8. FiledEarlier(lru[i], o)
    BY <2>6, <2>7 DEF FiledEarlier
  <2>9. lru[i] \in Record!Before(o)
    BY <2>8, BeforeIs
  <2>10. QED
    BY <2>4, <2>6, <2>9
<1>4. QED
  BY <1>1, <1>2, <1>3, PTL DEF Record!Spec, FlagsAreReal, Record!FlagsAreReal

\* What observations() returns was among the last Capacity to be filed.
LEMMA ObservedIsRecent ==
    ASSUME Record!CapacityPositive, RecordInv,
           NEW p, p \in Record!ToSet(Record!Observations)
    PROVE  \E j \in DOMAIN filed : p = filed[j] /\ j + Capacity > Len(filed)
<1>1. Capacity \in Nat \ {0} /\ filed \in Seq(Obs) /\ Ring(ring, next, filed)
  BY DEF Record!CapacityPositive, RecordInv
<1>2. ring \in Seq(Obs) /\ next \in Nat /\ (next <= Len(ring) \/ next = 0)
  <2>1. ring \in Seq(Obs) /\ next \in 0..(Capacity - 1) /\ Len(ring) <= Capacity
        /\ (Len(ring) < Capacity => next = 0) /\ Len(ring) \in Nat
    BY <1>1 DEF Ring
  <2>2. PICK l \in Nat : l = Len(ring)
    BY <2>1
  <2>3. next \in Nat /\ (next <= l \/ next = 0)
    BY <1>1, <2>1, <2>2
  <2>4. QED
    BY <2>1, <2>2, <2>3
<1>3. Record!Observations = SubSeq(ring, next + 1, Len(ring)) \o SubSeq(ring, 1, next)
  BY DEF Record!Observations
<1>4. PICK m \in DOMAIN Record!Observations : p = Record!Observations[m]
  BY DEF Record!ToSet
<1>5. PICK i \in DOMAIN ring : p = ring[i]
  BY <1>2, <1>3, <1>4, ObservationsAreInTheRing
<1>6. QED
  BY <1>1, <1>5, RingHolds

\* A call is compared with the latest response of its key that is still in the ring
\* (record, evict and moveToFront): a key of the ring never loses its baseline, and the
\* baseline is never replaced by an earlier response that is filed late.
THEOREM TheLatestIsCompared == Record!Spec => LatestIsCompared
<1> USE MeasuresAssumption
<1>1. Record!Init => RecordInv
  BY RecordInit
<1>2. RecordInv /\ [Record!Next]_(Record!vars) => RecordInv'
  BY RecordStep
<1>3. RecordInv /\ [Record!Next]_(Record!vars)
        => [Record!Filing
             => \A p \in Record!Before(Record!New) :
                  (/\ \A i \in DOMAIN filed : filed[i].key = Record!New.key
                                               => filed[i].end < p.end \/ filed[i] = p
                   /\ p \in Record!ToSet(Record!Observations)
                   /\ Record!New.id <= p.id)
                  => counters'.order > counters.order]_(Record!vars)
  <2> SUFFICES ASSUME RecordInv, [Record!Next]_(Record!vars), Record!Filing,
                      NEW p \in Record!Before(Record!New),
                      \A i \in DOMAIN filed : filed[i].key = Record!New.key
                                                => filed[i].end < p.end \/ filed[i] = p,
                      p \in Record!ToSet(Record!Observations),
                      Record!New.id <= p.id
               PROVE  counters'.order > counters.order
    OBVIOUS
  <2>1. filed \in Seq(Obs) /\ Remembers(lru, filed) /\ Baselines(lru, filed)
    BY DEF RecordInv
  <2>2. filed' # filed
    <3>1. Len(filed') > Len(filed) /\ Len(filed) \in Nat
      BY <2>1 DEF Record!Filing
    <3>2. QED
      BY <3>1
  <2>3. PICK o \in Obs : filed' = Append(filed, o) /\ counters' = Record!Counted(o)
    BY <2>2, RecordStep
  <2>4. Record!New = o
    BY <2>1, <2>3, NewIs
  <2>5. FiledEarlier(p, o)
    BY <2>4, BeforeIs
  <2>6. PICK j \in DOMAIN filed : p = filed[j] /\ j + Capacity > Len(filed)
    BY ObservedIsRecent
  <2>7. p \in Obs /\ p.key = o.key /\ p.end < o.start
    BY <2>1, <2>5, <2>6 DEF FiledEarlier
  <2>8. PICK i \in DOMAIN lru : lru[i].key = p.key /\ lru[i].end >= p.end
    BY <2>1, <2>6 DEF Remembers, RemembersAt
  <2>9. PICK l \in DOMAIN filed : lru[i] = filed[l]
    BY <2>1 DEF Baselines
  <2>10. lru[i].end < p.end \/ lru[i] = p
    BY <2>4, <2>7, <2>8, <2>9
  <2>11. lru[i] = p
    <3>1. lru[i] \in Obs
      BY <2>1 DEF Baselines
    <3>2. lru[i].end \in Nat /\ p.end \in Nat
      BY <2>7, <3>1 DEF Obs
    <3>3. QED
      BY <2>8, <2>10, <3>2
  <2>12. Record!Counted(o).order > counters.order
    BY <2>4, <2>7, <2>11, CountedOrder
  <2>13. QED
    BY <2>3, <2>12
<1>4. QED
  BY <1>1, <1>2, <1>3, PTL DEF Record!Spec, LatestIsCompared, Record!LatestIsCompared
=============================================================================
