-------------------------- MODULE PlacementProofs --------------------------
(***************************************************************************)
(* That no claim lifts a node above its quota while no other node joins    *)
(* and nothing is transferred to it, and that no slot is moved twice, for  *)
(* every fleet.                                                            *)
(*                                                                         *)
(* Both planners walk over the slots and count as they go; the walks are   *)
(* functions over 0..SlotCount here, and what they keep is proved by the   *)
(* least step that would lose it.  For the claims the quotas must add up   *)
(* to the slots, so that someone always has room; and a plan that is old   *)
(* when it is claimed still fits, because only joins shrink a quota and    *)
(* only transfers and its own claims give a node slots.  For the moves it  *)
(* is enough that a pass counts what is on its way at its target: then a   *)
(* slot that moved lies with a member within its quota, and stays there.   *)
(***************************************************************************)
EXTENDS Placement, FiniteSetTheorems, WellFoundedInduction, TLAPS

LEMMA LeastOf ==
    ASSUME NEW S, S \subseteq Nat, S # {}
    PROVE  \E x \in S : \A y \in S : x <= y
<1>1. OpToRel(<, Nat) = {ss \in Nat \X Nat : ss[1] < ss[2]}
  BY DEF OpToRel
<1>2. PICK x \in S : \A y \in S : ~(<<y, x>> \in OpToRel(<, Nat))
  BY NatLessThanWellFounded, WFMin, Zenon
<1>3. \A y \in S : ~(y < x)
  BY <1>1, <1>2
<1>4. QED
  BY <1>3

LEMMA MinIs ==
    ASSUME NEW S, S \subseteq Nat, S # {}
    PROVE  Min(S) \in S /\ \A y \in S : Min(S) <= y
  BY LeastOf DEF Min

-----------------------------------------------------------------------------
\* Quotas.

LEMMA DivisionIs ==
    ASSUME NEW a \in Nat, NEW b \in Nat, b > 0
    PROVE  /\ a \div b \in Nat /\ a % b \in Nat /\ a % b < b
           /\ a = b * (a \div b) + (a % b)
  OBVIOUS

LEMMA OneMore ==
    ASSUME NEW a \in Nat, NEW b \in Nat
    PROVE  a * b \in Nat /\ (a + 1) * b = a * b + b
  OBVIOUS

\* How many slots the first j nodes should have.
Share(j, q, r) == j * q + (IF j < r THEN j ELSE r)

LEMMA NextShare ==
    ASSUME NEW j \in Nat, NEW q \in Nat, NEW r \in Nat
    PROVE  /\ Share(j, q, r) \in Nat
           /\ Share(j + 1, q, r) = Share(j, q, r) + q + (IF j < r THEN 1 ELSE 0)
<1>1. PICK p \in Nat : p = j * q
  BY OneMore
<1>2. (j + 1) * q = p + q
  BY <1>1, OneMore
<1>3. Share(j, q, r) = p + (IF j < r THEN j ELSE r)
  BY <1>1 DEF Share
<1>4. Share(j + 1, q, r) = p + q + (IF j + 1 < r THEN j + 1 ELSE r)
  BY <1>2 DEF Share
<1>5. QED
  BY <1>1, <1>3, <1>4

\* P holds the first nodes of N.
Prefix(P, N) == P \subseteq N /\ \A m \in P : \A n \in N : n < m => n \in P

Has(T, A, n) == {t \in A : T[t] = n}
HasAny(T, A, P) == {t \in A : T[t] \in P}
Before(N, n) == {m \in N : m < n}

LEMMA QuotaIs ==
    ASSUME NEW N, NEW n,
           NEW q, q = SlotCount \div Cardinality(N), NEW r, r = SlotCount % Cardinality(N)
    PROVE  Quota(N, n) = q + (IF Cardinality(Before(N, n)) < r THEN 1 ELSE 0)
  BY Zenon DEF Quota, Before

\* A finite set has a greatest element: the one with the fewest beyond it.
LEMMA LargestOf ==
    ASSUME NEW D, D \subseteq Nat, IsFiniteSet(D), D # {}
    PROVE  \E i \in D : \A j \in D : j <= i
<1> DEFINE L(i) == {j \in D : j <= i}
           C(i) == Cardinality(D) - Cardinality(L(i))
           S == {C(i) : i \in D}
<1>1. \A i \in D : /\ IsFiniteSet(L(i)) /\ Cardinality(L(i)) \in Nat
                   /\ Cardinality(L(i)) <= Cardinality(D) /\ Cardinality(D) \in Nat
  <2> TAKE i \in D
  <2>1. L(i) \subseteq D
    OBVIOUS
  <2> HIDE DEF L
  <2>2. QED
    BY <2>1, FS_Subset, FS_CardinalityType
<1>2. S \subseteq Nat /\ S # {}
  <2> HIDE DEF L
  <2>1. \A i \in D : C(i) \in Nat
    BY <1>1
  <2> HIDE DEF C
  <2>2. QED
    BY <2>1
<1> HIDE DEF S
<1>3. PICK c \in S : \A y \in S : c <= y
  BY <1>2, LeastOf
<1>4. PICK i \in D : c = C(i)
  BY DEF S
<1>5. ASSUME NEW j \in D, i < j PROVE FALSE
  <2>1. L(i) \subseteq L(j)
    <3>1. ASSUME NEW k \in D, k <= i PROVE k <= j
      <4>1. k \in Nat /\ i \in Nat /\ j \in Nat
        OBVIOUS
      <4>2. QED
        BY <1>5, <3>1, <4>1
    <3>2. QED
      BY <3>1
  <2>2. j \in L(j) /\ j \notin L(i)
    <3>1. i \in Nat /\ j \in Nat
      OBVIOUS
    <3>2. QED
      BY <1>5, <3>1
  <2> HIDE DEF L
  <2>3. Cardinality(L(i)) < Cardinality(L(j))
    <3>1. L(i) # L(j)
      BY <2>2
    <3>2. Cardinality(L(i)) <= Cardinality(L(j))
          /\ (Cardinality(L(i)) = Cardinality(L(j)) => L(i) = L(j))
      BY <1>1, <2>1, FS_Subset
    <3>3. QED
      BY <1>1, <3>1, <3>2
  <2>4. C(j) \in S
    BY DEF S
  <2>5. C(i) <= C(j)
    BY <1>3, <1>4, <2>4
  <2>6. QED
    BY <1>1, <2>3, <2>5
<1>6. \A j \in D : j <= i
  <2> TAKE j \in D
  <2>1. i \in Nat /\ j \in Nat
    OBVIOUS
  <2>2. QED
    BY <1>5, <2>1
<1>7. QED
  BY <1>6

\* When every node has its quota, the first nodes have their share.
LEMMA SharesAddUp ==
    ASSUME NEW N, N \subseteq Nat, IsFiniteSet(N), N # {},
           NEW A, IsFiniteSet(A), NEW T,
           NEW q \in Nat, q = SlotCount \div Cardinality(N),
           NEW r \in Nat, r = SlotCount % Cardinality(N),
           \A n \in N : Cardinality(Has(T, A, n)) >= Quota(N, n),
           NEW P, Prefix(P, N)
    PROVE  Cardinality(HasAny(T, A, P)) >= Share(Cardinality(P), q, r)
<1> DEFINE Short(X) == ~(Cardinality(HasAny(T, A, X)) >= Share(Cardinality(X), q, r))
           Sizes == {j \in Nat : \E X : Prefix(X, N) /\ Cardinality(X) = j /\ Short(X)}
<1>1. \A X : Prefix(X, N) => IsFiniteSet(X) /\ Cardinality(X) \in Nat
  BY FS_Subset, FS_CardinalityType DEF Prefix
<1>2. \A X : IsFiniteSet(HasAny(T, A, X)) /\ Cardinality(HasAny(T, A, X)) \in Nat
  BY FS_Subset, FS_CardinalityType DEF HasAny
<1> SUFFICES ASSUME Sizes # {} PROVE FALSE
  BY <1>1
<1>3. PICK j \in Sizes : \A k \in Sizes : j <= k
  BY LeastOf
<1>4. PICK X : Prefix(X, N) /\ Cardinality(X) = j /\ Short(X)
  BY <1>3
<1>5. X # {}
  <2>1. ASSUME X = {} PROVE FALSE
    <3>1. Cardinality(X) = 0
      BY <2>1, FS_EmptySet
    <3>2. Share(0, q, r) = 0
      BY DEF Share
    <3>3. Cardinality(HasAny(T, A, X)) >= 0
      BY <1>2
    <3>4. QED
      BY <1>4, <3>1, <3>2, <3>3
  <2>2. QED
    BY <2>1
<1>6. PICK n \in X : \A y \in X : y <= n
  BY <1>1, <1>4, <1>5, LargestOf DEF Prefix
<1> DEFINE Y == X \ {n}
<1>7. Prefix(Y, N)
  BY <1>4, <1>6 DEF Prefix
<1>8. IsFiniteSet(X) /\ Cardinality(Y) = j - 1 /\ j \in Nat /\ Cardinality(Y) \in Nat
  BY <1>1, <1>4, <1>6, <1>7, FS_RemoveElement
<1>9. PICK i \in Nat : i = Cardinality(Y) /\ j = i + 1
  BY <1>8
<1>10. ~Short(Y)
  BY <1>3, <1>7, <1>9
<1>11. Before(N, n) = Y
  <2>1. X \subseteq N /\ n \in N /\ X \subseteq Nat
    BY <1>4 DEF Prefix
  <2>2. ASSUME NEW m \in N, m < n PROVE m \in Y
    BY <1>4, <2>1, <2>2 DEF Prefix
  <2>3. ASSUME NEW m \in Y PROVE m \in N /\ m < n
    BY <1>6, <2>1
  <2>4. QED
    BY <2>2, <2>3 DEF Before
<1>12. n \in N /\ Quota(N, n) = q + (IF i < r THEN 1 ELSE 0)
  BY <1>4, <1>6, <1>9, <1>11, QuotaIs DEF Prefix
<1>13. Cardinality(HasAny(T, A, X))
         = Cardinality(HasAny(T, A, Y)) + Cardinality(Has(T, A, n))
  <2>1. HasAny(T, A, X) = HasAny(T, A, Y) \cup Has(T, A, n)
        /\ HasAny(T, A, Y) \cap Has(T, A, n) = {}
    BY <1>6 DEF HasAny, Has
  <2>2. IsFiniteSet(Has(T, A, n))
    BY FS_Subset DEF Has
  <2>3. Cardinality({}) = 0
    BY FS_EmptySet
  <2>4. Cardinality(HasAny(T, A, Y)) \in Nat /\ Cardinality(Has(T, A, n)) \in Nat
    BY <1>2, <2>2, FS_CardinalityType
  <2>5. Cardinality(HasAny(T, A, Y) \cup Has(T, A, n))
          = Cardinality(HasAny(T, A, Y)) + Cardinality(Has(T, A, n)) - 0
    <3> HIDE DEF Y
    <3>1. QED
      BY <1>2, <2>1, <2>2, <2>3, FS_Union
  <2>6. QED
    BY <2>1, <2>4, <2>5
<1>14. Cardinality(Has(T, A, n)) >= q + (IF i < r THEN 1 ELSE 0)
       /\ Cardinality(Has(T, A, n)) \in Nat
  <2>1. IsFiniteSet(Has(T, A, n))
    BY FS_Subset DEF Has
  <2>2. QED
    BY <1>12, <2>1, FS_CardinalityType
<1>15. Cardinality(HasAny(T, A, Y)) >= Share(i, q, r)
  BY <1>9, <1>10
<1>16. PICK c \in Nat : c = Cardinality(HasAny(T, A, Y))
  BY <1>2
<1>17. PICK d \in Nat : d = Cardinality(Has(T, A, n))
  BY <1>14
<1>18. Share(i, q, r) \in Nat
       /\ Share(j, q, r) = Share(i, q, r) + q + (IF i < r THEN 1 ELSE 0)
  <2>1. /\ Share(i, q, r) \in Nat
        /\ Share(i + 1, q, r) = Share(i, q, r) + q + (IF i < r THEN 1 ELSE 0)
    BY NextShare
  <2>2. QED
    BY <1>9, <2>1
<1>19. c + d >= Share(j, q, r)
  BY <1>14, <1>15, <1>16, <1>17, <1>18
<1>20. QED
  BY <1>4, <1>13, <1>16, <1>17, <1>19

LEMMA QuotaType ==
    ASSUME NEW N, IsFiniteSet(N), N # {}, NEW n
    PROVE  Quota(N, n) \in Nat
<1>1. PICK b \in Nat : b = Cardinality(N) /\ b > 0
  BY FS_CardinalityType, FS_EmptySet
<1>2. PICK q \in Nat : q = SlotCount \div b
  BY <1>1, DivisionIs, PlacementAssumption
<1>3. PICK r \in Nat : r = SlotCount % b
  BY <1>1, DivisionIs, PlacementAssumption
<1>4. Quota(N, n) = q + (IF Cardinality(Before(N, n)) < r THEN 1 ELSE 0)
  BY <1>1, <1>2, <1>3, QuotaIs
<1>5. QED
  BY <1>4

\* While a slot is not assigned, some node is below its quota.
LEMMA SomeoneHasRoom ==
    ASSUME SlotCount \in Nat \ {0}, NEW N, N \subseteq Nat, IsFiniteSet(N), N # {},
           NEW A, A \subseteq Slot, A # Slot, NEW T
    PROVE  \E n \in N : Cardinality(Has(T, A, n)) < Quota(N, n)
<1> SUFFICES ASSUME \A n \in N : ~(Cardinality(Has(T, A, n)) < Quota(N, n))
             PROVE  FALSE
  OBVIOUS
<1>1. IsFiniteSet(Slot) /\ Cardinality(Slot) = SlotCount
  BY FS_Interval DEF Slot
<1>2. IsFiniteSet(A) /\ Cardinality(A) \in Nat /\ Cardinality(A) < SlotCount
  BY <1>1, FS_Subset, FS_CardinalityType
<1>3. PICK b \in Nat : b = Cardinality(N) /\ b > 0
  BY FS_CardinalityType, FS_EmptySet
<1>4. PICK q \in Nat : q = SlotCount \div b
  BY <1>3, DivisionIs
<1>5. PICK r \in Nat : r = SlotCount % b
  BY <1>3, DivisionIs
<1>6. SlotCount = b * q + r /\ r < b
  BY <1>3, <1>4, <1>5, DivisionIs
<1>7. \A n \in N : Cardinality(Has(T, A, n)) >= Quota(N, n)
  <2> SUFFICES ASSUME NEW n \in N PROVE Cardinality(Has(T, A, n)) >= Quota(N, n)
    OBVIOUS
  <2>1. Cardinality(Has(T, A, n)) \in Nat
    BY <1>2, FS_Subset, FS_CardinalityType DEF Has
  <2>2. Quota(N, n) \in Nat
    BY QuotaType
  <2>3. QED
    BY <2>1, <2>2
<1>8. Prefix(N, N)
  BY DEF Prefix
<1>9. Cardinality(HasAny(T, A, N)) >= Share(b, q, r)
  BY <1>2, <1>3, <1>4, <1>5, <1>7, <1>8, SharesAddUp
<1>10. Share(b, q, r) = SlotCount
  BY <1>6 DEF Share
<1>11. Cardinality(HasAny(T, A, N)) \in Nat
       /\ Cardinality(HasAny(T, A, N)) <= Cardinality(A)
  BY <1>2, FS_Subset, FS_CardinalityType DEF HasAny
<1>12. QED
  BY <1>2, <1>9, <1>10, <1>11

-----------------------------------------------------------------------------
\* Targets.

Nodes(M) == {NodeOf(i) : i \in M}

Kept0(M) ==
    [counts |-> [n \in Nodes(M) |-> Cardinality(KeptBy(M, n))],
     target |-> [s \in Slot |-> IF s \in Slot \ Kept(M) THEN None ELSE NodeOf(row[s].owner)]]

\* What planTargetsFromSegments does with slot s.
Given(M, acc, s) ==
    IF s \notin Slot \ Kept(M) THEN acc
    ELSE [counts |-> [acc.counts EXCEPT ![Chosen(Nodes(M), acc.counts)] =
                         acc.counts[Chosen(Nodes(M), acc.counts)] + 1],
          target |-> [acc.target EXCEPT ![s] = Chosen(Nodes(M), acc.counts)]]

-----------------------------------------------------------------------------
\* Migrations.

QuotaOf(A, i) == Quota(Nodes(A), NodeOf(i))

Unmoved(A, pending) ==
    [load |-> [i \in A |-> Load(i, pending)], moves |-> {}, full |-> FALSE]

\* The members that take another slot, and the one that gets it.
Room(A, load) == {j \in A : load[j] < QuotaOf(A, j)}
Taker(A, load) == CHOOSE j \in Room(A, load) : \A k \in Room(A, load) : NodeOf(j) <= NodeOf(k)

\* What planMigrations does with slot s.
Considered(A, pending, limit, acc, s) ==
    IF \/ acc.full \/ row[s].state # "OWNED" \/ pending[s] # NoHandoff
       \/ acc.load[row[s].owner] <= QuotaOf(A, row[s].owner)
    THEN acc
    ELSE IF Room(A, acc.load) = {} \/ Cardinality(acc.moves) = limit
    THEN [acc EXCEPT !.full = TRUE]
    ELSE [acc EXCEPT !.load[row[s].owner] = @ - 1, !.load[Taker(A, acc.load)] = @ + 1,
                     !.moves = @ \cup {[slot |-> s, source |-> row[s].owner,
                                        target |-> Taker(A, acc.load)]}]

-----------------------------------------------------------------------------
\* One slot after the other, in either walk w.

Claiming(M) == [what |-> "targets", members |-> M]
Relocating(A, pending, limit) ==
    [what |-> "moves", members |-> A, pending |-> pending, limit |-> limit]

Base(w) == IF w.what = "targets" THEN Kept0(w.members) ELSE Unmoved(w.members, w.pending)
Turn(w, acc, s) ==
    IF w.what = "targets" THEN Given(w.members, acc, s)
    ELSE Considered(w.members, w.pending, w.limit, acc, s)

\* The first k of the slots.
Steps(w, f, k) == f = [j \in 0..k |-> IF j = 0 THEN Base(w) ELSE Turn(w, f[j - 1], j - 1)]

LEMMA StepsExist ==
    ASSUME NEW w, NEW k \in Nat
    PROVE  \E f : Steps(w, f, k)
<1> DEFINE Missing == {j \in Nat : ~\E f : Steps(w, f, j)}
<1> SUFFICES ASSUME Missing # {} PROVE FALSE
  OBVIOUS
<1>1. PICK j \in Missing : \A l \in Missing : j <= l
  BY LeastOf
<1>2. j # 0
  <2>1. Steps(w, [l \in 0..0 |-> Base(w)], 0)
    BY DEF Steps
  <2>2. QED
    BY <1>1, <2>1
<1>3. PICK i \in Nat : j = i + 1
  <2>1. j - 1 \in Nat /\ j = (j - 1) + 1
    BY <1>2
  <2>2. QED
    BY <2>1
<1>4. PICK f : Steps(w, f, i)
  BY <1>1, <1>3
<1> DEFINE g == [l \in 0..j |-> IF l <= i THEN f[l] ELSE Turn(w, f[i], i)]
<1>5. \A l \in 0..i : f[l] = IF l = 0 THEN Base(w) ELSE Turn(w, f[l - 1], l - 1)
  BY <1>4 DEF Steps
<1>6. ASSUME NEW l \in 0..j
      PROVE  g[l] = IF l = 0 THEN Base(w) ELSE Turn(w, g[l - 1], l - 1)
  <2>1. CASE l <= i
    <3>1. l \in 0..i /\ g[l] = f[l] /\ (l # 0 => l - 1 \in 0..j /\ l - 1 <= i)
      BY <1>3, <2>1
    <3>2. l # 0 => g[l - 1] = f[l - 1]
      BY <3>1
    <3>3. QED
      BY <1>5, <3>1, <3>2
  <2>2. CASE l = i + 1
    <3>1. l - 1 = i /\ l # 0 /\ ~(l <= i) /\ i \in 0..j /\ i <= i
      BY <1>3, <2>2
    <3>2. g[i] = f[i] /\ g[l] = Turn(w, f[i], i)
      BY <3>1
    <3>3. QED
      BY <3>1, <3>2
  <2>3. QED
    BY <1>3, <2>1, <2>2
<1>7. Steps(w, g, j)
  <2>1. g = [l \in 0..j |-> g[l]]
    OBVIOUS
  <2> HIDE DEF g
  <2>2. g = [l \in 0..j |-> IF l = 0 THEN Base(w) ELSE Turn(w, g[l - 1], l - 1)]
    BY <1>6, <2>1
  <2>3. QED
    BY <2>2 DEF Steps
<1>8. QED
  BY <1>1, <1>7

LEMMA ClaimingIs ==
    ASSUME NEW M
    PROVE  /\ Base(Claiming(M)) = Kept0(M)
           /\ \A acc, s : Turn(Claiming(M), acc, s) = Given(M, acc, s)
BY DEF Base, Turn, Claiming

LEMMA TargetsAre ==
    ASSUME SlotCount \in Nat, NEW M, Nodes(M) # {}
    PROVE  \E f : Steps(Claiming(M), f, SlotCount) /\ Targets(M) = f[SlotCount].target
<1> DEFINE upTo[k \in 0..SlotCount] ==
              IF k = 0 THEN Kept0(M)
              ELSE CHOOSE r \in {Given(M, acc, k - 1) : acc \in {upTo[k - 1]}} : TRUE
<1>1. Targets(M) = upTo[SlotCount].target
  BY Zenon DEF Targets, OverSlots, Given, Kept0, Nodes
<1>2. \A x, s : (CHOOSE r \in {Given(M, acc, s) : acc \in {x}} : TRUE) = Given(M, x, s)
  <2> TAKE x, s
  <2>1. {Given(M, acc, s) : acc \in {x}} = {Given(M, x, s)}
    OBVIOUS
  <2>2. QED
    BY <2>1
<1>3. \E f : f = [k \in 0..SlotCount |->
                    IF k = 0 THEN Kept0(M)
                    ELSE CHOOSE r \in {Given(M, acc, k - 1) : acc \in {f[k - 1]}} : TRUE]
  <2>1. PICK f : Steps(Claiming(M), f, SlotCount)
    BY StepsExist
  <2>2. f = [k \in 0..SlotCount |-> IF k = 0 THEN Kept0(M) ELSE Given(M, f[k - 1], k - 1)]
    BY <2>1, ClaimingIs DEF Steps
  <2>3. f = [k \in 0..SlotCount |->
                    IF k = 0 THEN Kept0(M)
                    ELSE CHOOSE r \in {Given(M, acc, k - 1) : acc \in {f[k - 1]}} : TRUE]
    BY <1>2, <2>2
  <2>4. QED
    BY <2>3
<1>4. upTo = [k \in 0..SlotCount |->
                    IF k = 0 THEN Kept0(M)
                    ELSE CHOOSE r \in {Given(M, acc, k - 1) : acc \in {upTo[k - 1]}} : TRUE]
  BY <1>3
<1> HIDE DEF upTo
<1>5. Steps(Claiming(M), upTo, SlotCount)
  BY <1>2, <1>4, ClaimingIs DEF Steps
<1>6. QED
  BY <1>1, <1>5

LEMMA MovingIs ==
    ASSUME NEW A, NEW p, NEW limit
    PROVE  /\ Base(Relocating(A, p, limit)) = Unmoved(A, p)
           /\ \A acc, s : Turn(Relocating(A, p, limit), acc, s) = Considered(A, p, limit, acc, s)
BY DEF Base, Turn, Relocating

LEMMA PlansAre ==
    ASSUME SlotCount \in Nat, NEW M, NEW S, NEW p, NEW limit, Plans(M, S, p, limit) # {}
    PROVE  /\ Settled(M)
           /\ \E f : /\ Steps(Relocating(Admitted(M, S), p, limit), f, SlotCount)
                    /\ Plans(M, S, p, limit) = f[SlotCount].moves
<1> DEFINE A == Admitted(M, S)
           upTo[k \in 0..SlotCount] ==
              IF k = 0 THEN Unmoved(A, p)
              ELSE CHOOSE r \in {Considered(A, p, limit, acc, k - 1) : acc \in {upTo[k - 1]}} : TRUE
<1>1. Plans(M, S, p, limit) = IF ~Settled(M) \/ Cardinality(Nodes(A)) < 2 \/ limit = 0 THEN {}
                              ELSE upTo[SlotCount].moves
  BY Zenon DEF Plans, OverSlots, Considered, Unmoved, Nodes, QuotaOf, Room, Taker
<1>2. \A x, s : (CHOOSE r \in {Considered(A, p, limit, acc, s) : acc \in {x}} : TRUE)
                 = Considered(A, p, limit, x, s)
  <2> TAKE x, s
  <2>1. {Considered(A, p, limit, acc, s) : acc \in {x}} = {Considered(A, p, limit, x, s)}
    OBVIOUS
  <2>2. QED
    BY <2>1
<1>3. \E f : f = [k \in 0..SlotCount |->
                    IF k = 0 THEN Unmoved(A, p)
                    ELSE CHOOSE r \in {Considered(A, p, limit, acc, k - 1) : acc \in {f[k - 1]}} : TRUE]
  <2>1. PICK f : Steps(Relocating(A, p, limit), f, SlotCount)
    BY StepsExist
  <2>2. f = [k \in 0..SlotCount |->
                IF k = 0 THEN Unmoved(A, p) ELSE Considered(A, p, limit, f[k - 1], k - 1)]
    BY <2>1, MovingIs DEF Steps
  <2>3. f = [k \in 0..SlotCount |->
                    IF k = 0 THEN Unmoved(A, p)
                    ELSE CHOOSE r \in {Considered(A, p, limit, acc, k - 1) : acc \in {f[k - 1]}} : TRUE]
    BY <1>2, <2>2
  <2>4. QED
    BY <2>3
<1>4. upTo = [k \in 0..SlotCount |->
                    IF k = 0 THEN Unmoved(A, p)
                    ELSE CHOOSE r \in {Considered(A, p, limit, acc, k - 1) : acc \in {upTo[k - 1]}} : TRUE]
  BY <1>3
<1> HIDE DEF upTo
<1>5. Steps(Relocating(A, p, limit), upTo, SlotCount)
  BY <1>2, <1>4, MovingIs DEF Steps
<1>6. QED
  BY <1>1, <1>5

\* The slots that have a target after the first k: kept ones, and free ones before k.
Assigned(M, k) == {t \in Slot : t \in Kept(M) \/ t < k}

\* The counts are those of the targets so far, and no node that was given a slot is
\* above its quota.
WalkOK(M, acc, k) ==
    /\ acc.counts \in [Nodes(M) -> Nat]
    /\ acc.target = [s \in Slot |-> acc.target[s]]
    /\ \A n \in Nodes(M) : acc.counts[n] = Cardinality(Has(acc.target, Assigned(M, k), n))
    /\ \A s \in Kept(M) : acc.target[s] = NodeOf(row[s].owner)
    /\ \A s \in Slot \ Kept(M) : s < k
         => /\ acc.target[s] \in Nodes(M)
            /\ acc.counts[acc.target[s]] <= Quota(Nodes(M), acc.target[s])

Members(M) == M \subseteq Instance /\ M # {} /\ IsFiniteSet(Nodes(M))

LEMMA NodesAre ==
    ASSUME NEW M, Members(M)
    PROVE  Nodes(M) \subseteq Nat /\ IsFiniteSet(Nodes(M)) /\ Nodes(M) # {}
<1>1. Nodes(M) \subseteq Nat /\ Nodes(M) # {}
  BY PlacementAssumption DEF Members, Nodes, NodeOf, Instance
<1>2. QED
  BY <1>1 DEF Members

LEMMA SlotsAre ==
    /\ IsFiniteSet(Slot) /\ SlotCount \in Nat \ {0} /\ Slot \subseteq Nat
    /\ \A A, T, n : A \subseteq Slot
         => /\ IsFiniteSet(A) /\ IsFiniteSet(Has(T, A, n))
            /\ Cardinality(Has(T, A, n)) \in Nat
<1>1. SlotCount \in Nat \ {0}
  BY PlacementAssumption
<1>2. IsFiniteSet(Slot) /\ Slot \subseteq Nat
  BY <1>1, FS_Interval DEF Slot
<1>3. QED
  BY <1>1, <1>2, FS_Subset, FS_CardinalityType DEF Has

LEMMA WalkBegins ==
    ASSUME NEW M, Members(M)
    PROVE  WalkOK(M, Kept0(M), 0)
<1> DEFINE c == Kept0(M).counts
           t == Kept0(M).target
<1>1. Assigned(M, 0) = Kept(M) /\ Kept(M) \subseteq Slot
  <2>1. \A s \in Slot : ~(s < 0)
    BY SlotsAre
  <2>2. Kept(M) \subseteq Slot
    BY DEF Kept
  <2>3. QED
    BY <2>1, <2>2 DEF Assigned
<1>2. c = [n \in Nodes(M) |-> Cardinality(KeptBy(M, n))]
      /\ t = [s \in Slot |-> IF s \in Slot \ Kept(M) THEN None ELSE NodeOf(row[s].owner)]
  BY DEF Kept0
<1>3. ASSUME NEW n PROVE Has(t, Kept(M), n) = KeptBy(M, n)
  BY <1>1, <1>2 DEF Has, KeptBy
<1>4. \A n \in Nodes(M) : c[n] = Cardinality(Has(t, Kept(M), n)) /\ c[n] \in Nat
  BY <1>1, <1>2, <1>3, SlotsAre
<1>5. c \in [Nodes(M) -> Nat]
  BY <1>2, <1>4
<1>6. t = [s \in Slot |-> t[s]]
  BY <1>2
<1>7. \A s \in Slot : ~(s < 0)
  BY SlotsAre
<1>8. \A s \in Kept(M) : t[s] = NodeOf(row[s].owner)
  BY <1>1, <1>2
<1> HIDE DEF c, t
<1>9. QED
  BY <1>1, <1>4, <1>5, <1>6, <1>7, <1>8 DEF WalkOK, c, t

LEMMA WalkGoesOn ==
    ASSUME NEW M, Members(M), NEW k \in Slot, NEW acc, WalkOK(M, acc, k)
    PROVE  WalkOK(M, Given(M, acc, k), k + 1)
<1> DEFINE N == Nodes(M)
           A == Assigned(M, k)
           B == Assigned(M, k + 1)
<1>1. k \in Nat /\ A \subseteq Slot /\ B \subseteq Slot
  BY SlotsAre DEF Assigned
<1>2. B = A \cup {k}
  <2>1. \A t \in Slot : t < k + 1 <=> t < k \/ t = k
    BY <1>1, SlotsAre
  <2>2. QED
    BY <2>1 DEF Assigned
<1>3. acc.counts \in [N -> Nat] /\ acc.target = [s \in Slot |-> acc.target[s]]
  BY DEF WalkOK
<1>4. CASE k \in Kept(M)
  <2>1. Given(M, acc, k) = acc
    BY <1>4 DEF Given
  <2>2. A = B
    BY <1>2, <1>4 DEF Assigned
  <2>3. \A s \in Slot \ Kept(M) : s < k + 1 => s < k
    BY <1>1, <1>4, SlotsAre
  <2>4. QED
    BY <2>1, <2>2, <2>3 DEF WalkOK
<1>5. CASE k \notin Kept(M)
  <2> DEFINE n == Chosen(N, acc.counts)
             c == [acc.counts EXCEPT ![n] = acc.counts[n] + 1]
             t == [acc.target EXCEPT ![k] = n]
  <2>1. Given(M, acc, k) = [counts |-> c, target |-> t]
    BY <1>5 DEF Given
  <2>2. k \notin A
    BY <1>1, <1>5 DEF Assigned
  <2>3. n \in N /\ acc.counts[n] < Quota(N, n)
    <3>1. N \subseteq Nat /\ IsFiniteSet(N) /\ N # {}
      BY NodesAre
    <3>2. PICK m \in N : Cardinality(Has(acc.target, A, m)) < Quota(N, m)
      BY <1>1, <2>2, <3>1, SlotsAre, SomeoneHasRoom
    <3>3. m \in Below(N, acc.counts)
      BY <3>2 DEF Below, WalkOK
    <3>4. Below(N, acc.counts) \subseteq Nat /\ Below(N, acc.counts) # {}
      BY <3>1, <3>3 DEF Below
    <3>5. n = Min(Below(N, acc.counts))
      BY <3>4 DEF Chosen
    <3>6. n \in Below(N, acc.counts)
      BY <3>4, <3>5, MinIs
    <3>7. QED
      BY <3>6 DEF Below
  <2> HIDE DEF n
  <2>4. c[n] = acc.counts[n] + 1 /\ \A m \in N : m # n => c[m] = acc.counts[m]
    BY <1>3, <2>3
  <2>5. t[k] = n /\ \A s \in Slot : s # k => t[s] = acc.target[s]
    BY <1>3
  <2>6. c \in [N -> Nat] /\ t = [s \in Slot |-> t[s]]
    BY <1>3, <2>3
  <2> HIDE DEF c, t
  <2>7. ASSUME NEW m \in N PROVE c[m] = Cardinality(Has(t, B, m))
    <3>1. IsFiniteSet(Has(acc.target, A, m)) /\ k \notin Has(acc.target, A, m)
          /\ acc.counts[m] = Cardinality(Has(acc.target, A, m))
      BY <1>1, <2>2, SlotsAre DEF Has, WalkOK
    <3>2. CASE m = n
      <4>1. Has(t, B, m) = Has(acc.target, A, m) \cup {k}
        BY <1>1, <1>2, <2>2, <2>5, <3>2 DEF Has
      <4>2. Cardinality(Has(t, B, m)) = Cardinality(Has(acc.target, A, m)) + 1
        BY <3>1, <4>1, FS_AddElement
      <4>3. QED
        BY <2>4, <3>1, <3>2, <4>2
    <3>3. CASE m # n
      <4>1. Has(t, B, m) = Has(acc.target, A, m)
        BY <1>1, <1>2, <2>2, <2>5, <3>3 DEF Has
      <4>2. QED
        BY <2>4, <3>1, <3>3, <4>1
    <3>4. QED
      BY <3>2, <3>3
  <2>8. ASSUME NEW s \in Slot \ Kept(M), s < k + 1
        PROVE  t[s] \in N /\ c[t[s]] <= Quota(N, t[s])
    <3>1. Quota(N, n) \in Int /\ acc.counts[n] + 1 <= Quota(N, n)
      <4>1. Quota(N, n) \in Int
        BY NodesAre, QuotaType
      <4>2. QED
        BY <1>3, <2>3, <4>1
    <3>2. CASE s = k
      BY <2>3, <2>4, <2>5, <3>1, <3>2
    <3>3. CASE s # k
      <4>1. s < k /\ t[s] = acc.target[s]
        BY <1>1, <2>5, <2>8, <3>3, SlotsAre
      <4>2. t[s] \in N /\ acc.counts[t[s]] <= Quota(N, t[s])
        BY <4>1 DEF WalkOK
      <4>3. CASE t[s] = n
        BY <2>4, <3>1, <4>3, <2>3
      <4>4. CASE t[s] # n
        BY <2>4, <4>2, <4>4
      <4>5. QED
        BY <4>3, <4>4
    <3>4. QED
      BY <3>2, <3>3
  <2>9. Given(M, acc, k).counts = c /\ Given(M, acc, k).target = t
    BY <2>1
  <2>10. \A s \in Kept(M) : t[s] = NodeOf(row[s].owner)
    <3>1. \A s \in Kept(M) : s \in Slot /\ s # k
      BY <1>5 DEF Kept
    <3>2. QED
      BY <2>5, <3>1 DEF WalkOK
  <2>11. QED
    BY <2>6, <2>7, <2>8, <2>9, <2>10 DEF WalkOK
<1>6. QED
  BY <1>4, <1>5

LEMMA WalkEnds ==
    ASSUME NEW M, Members(M), NEW f, Steps(Claiming(M), f, SlotCount)
    PROVE  WalkOK(M, f[SlotCount], SlotCount)
<1> DEFINE Bad == {j \in 0..SlotCount : ~WalkOK(M, f[j], j)}
<1>1. \A j \in 0..SlotCount :
        f[j] = IF j = 0 THEN Kept0(M) ELSE Given(M, f[j - 1], j - 1)
  BY ClaimingIs DEF Steps
<1>2. SlotCount \in Nat /\ SlotCount \in 0..SlotCount
  BY SlotsAre
<1>3. ASSUME Bad # {} PROVE FALSE
  <2>1. Bad \subseteq Nat
    BY <1>2
  <2>2. PICK j \in Bad : \A l \in Bad : j <= l
    BY <1>3, <2>1, LeastOf
  <2>3. j # 0
    BY <1>1, <1>2, <2>2, WalkBegins
  <2>4. PICK i \in Slot : j = i + 1
    <3>1. j - 1 \in Slot /\ j = (j - 1) + 1
      BY <1>2, <2>3 DEF Slot
    <3>2. QED
      BY <3>1
  <2>5. i \in 0..SlotCount /\ i \notin Bad /\ j - 1 = i
    BY <1>2, <2>2, <2>4, SlotsAre DEF Slot
  <2>6. WalkOK(M, f[i], i)
    BY <2>5
  <2>7. f[j] = Given(M, f[i], i)
    BY <1>1, <2>3, <2>5
  <2>8. QED
    BY <2>2, <2>4, <2>6, <2>7, WalkGoesOn
<1>4. QED
  BY <1>2, <1>3

\* No free slot's target is above its quota, whatever the members are, and a slot that
\* is kept counts as its owner's.
LEMMA TargetsWithinQuota ==
    ASSUME NEW M, Members(M), NEW n
    PROVE  /\ \A s \in Kept(M) : Targets(M)[s] = NodeOf(row[s].owner)
           /\ \A s \in Slot \ Kept(M) : Targets(M)[s] = n
                => Cardinality(Has(Targets(M), Slot, n)) <= Quota(Nodes(M), n)
<1>1. Nodes(M) # {} /\ SlotCount \in Nat
  BY NodesAre, SlotsAre
<1>2. PICK f : Steps(Claiming(M), f, SlotCount) /\ Targets(M) = f[SlotCount].target
  BY <1>1, TargetsAre
<1>3. WalkOK(M, f[SlotCount], SlotCount)
  BY <1>2, WalkEnds
<1>4. Assigned(M, SlotCount) = Slot /\ \A s \in Slot : s < SlotCount
  BY <1>1 DEF Assigned, Slot
<1>5. \A s \in Slot \ Kept(M) :
        /\ Targets(M)[s] \in Nodes(M)
        /\ f[SlotCount].counts[Targets(M)[s]] <= Quota(Nodes(M), Targets(M)[s])
  BY <1>2, <1>3, <1>4 DEF WalkOK
<1>6. \A m \in Nodes(M) : f[SlotCount].counts[m] = Cardinality(Has(Targets(M), Slot, m))
  BY <1>2, <1>3, <1>4 DEF WalkOK
<1>7. \A s \in Kept(M) : Targets(M)[s] = NodeOf(row[s].owner)
  BY <1>2, <1>3 DEF WalkOK
<1>8. QED
  BY <1>5, <1>6, <1>7

MembersOK == live \subseteq Instance /\ IsFiniteSet(Nodes(live))

LEMMA MembersStay == MembersOK /\ [Next]_vars => MembersOK'
<1> SUFFICES ASSUME MembersOK, [Next]_vars PROVE MembersOK'
  OBVIOUS
<1>1. ASSUME NEW i \in Instance, Join(i) PROVE MembersOK'
  <2>1. live' = live \cup {i}
    BY <1>1 DEF Join
  <2>2. Nodes(live') = Nodes(live) \cup {NodeOf(i)}
    BY <2>1 DEF Nodes
  <2>3. live' \subseteq Instance
    BY <2>1 DEF MembersOK
  <2>4. IsFiniteSet(Nodes(live'))
    BY <2>2, FS_AddElement DEF MembersOK
  <2>5. QED
    BY <2>3, <2>4 DEF MembersOK, Nodes
<1>2. ASSUME live' \subseteq live PROVE MembersOK'
  <2>1. Nodes(live') \subseteq Nodes(live)
    BY <1>2 DEF Nodes
  <2>2. IsFiniteSet(Nodes(live'))
    BY <2>1, FS_Subset DEF MembersOK
  <2>3. QED
    BY <1>2, <2>2 DEF MembersOK, Nodes
<1>3. ASSUME NEW i \in Instance, Crash(i) \/ Leave(i) PROVE live' \subseteq live
  BY <1>3 DEF Crash, Leave
<1>4. ASSUME NEW i \in Instance, Settle(i) \/ Lapse(i) \/ Refresh(i) PROVE live' \subseteq live
  BY <1>4 DEF Settle, Lapse, Refresh, Plan, Claim
<1>5. CASE Coordinate
  <2>1. live' \subseteq live
    BY <1>5 DEF Coordinate, ReadMembers, Recover, ReadHandoffs, PlanMoves, Insert
  <2>2. QED
    BY <1>2, <2>1
<1>6. ASSUME NEW s \in Slot, Execute(s) PROVE live' \subseteq live
  BY <1>6 DEF Execute, Begin, Drained, Transfer, AckActive
<1>7. CASE UNCHANGED vars
  BY <1>2, <1>7 DEF vars
<1>8. QED
  BY <1>1, <1>2, <1>3, <1>4, <1>5, <1>6, <1>7 DEF Next

-----------------------------------------------------------------------------
\* What the moves of a pass add up to.

HandoffRow == [kind : {"none", "TRANSFER", "RELEASE"}, source : Instance \cup {None},
               target : Instance \cup {None},
               phase : {"none", "PLANNED", "DRAINING", "TRANSFERRED"}, ready : BOOLEAN]
OwnerRow == [owner : Instance \cup {None}, state : {"UNOWNED", "OWNED", "DRAINING"}]
Move == [slot : Slot, source : Instance, target : Instance]

\* Slots on their way, in the handoffs h, and what i then has and will have.
Moving(h, s) == h[s] # NoHandoff /\ h[s].phase # "TRANSFERRED"
Owned(rw, i) == {s \in Slot : rw[s].owner = i}
Leaving(h, i) == {s \in Slot : Moving(h, s) /\ h[s].source = i}
Coming(h, i) == {s \in Slot : Moving(h, s) /\ h[s].target = i}
LoadOf(rw, h, i) ==
    Cardinality(Owned(rw, i)) - Cardinality(Leaving(h, i)) + Cardinality(Coming(h, i))

\* What the moves P take from i and give to it.
From(P, i) == {s \in Slot : \E m \in P : m.slot = s /\ m.source = i}
To(P, i) == {s \in Slot : \E m \in P : m.slot = s /\ m.target = i}
After(rw, h, P, i) == LoadOf(rw, h, i) - Cardinality(From(P, i)) + Cardinality(To(P, i))

LEMMA Counts ==
    /\ \A A : A \subseteq Slot => IsFiniteSet(A) /\ Cardinality(A) \in Nat
    /\ \A rw, i : IsFiniteSet(Owned(rw, i)) /\ Cardinality(Owned(rw, i)) \in Nat
    /\ \A h, i : /\ IsFiniteSet(Leaving(h, i)) /\ Cardinality(Leaving(h, i)) \in Nat
                 /\ IsFiniteSet(Coming(h, i)) /\ Cardinality(Coming(h, i)) \in Nat
    /\ \A P, i : /\ IsFiniteSet(From(P, i)) /\ Cardinality(From(P, i)) \in Nat
                 /\ IsFiniteSet(To(P, i)) /\ Cardinality(To(P, i)) \in Nat
    /\ \A rw, h, i : LoadOf(rw, h, i) \in Int
<1>1. \A A : A \subseteq Slot => IsFiniteSet(A) /\ Cardinality(A) \in Nat
  BY SlotsAre, FS_Subset, FS_CardinalityType
<1>2. \A rw, i : Owned(rw, i) \subseteq Slot
  BY DEF Owned
<1>3. \A h, i : Leaving(h, i) \subseteq Slot /\ Coming(h, i) \subseteq Slot
  BY DEF Leaving, Coming
<1>4. \A P, i : From(P, i) \subseteq Slot /\ To(P, i) \subseteq Slot
  BY DEF From, To
<1>5. \A rw, h, i : LoadOf(rw, h, i) \in Int
  BY <1>1, <1>2, <1>3 DEF LoadOf
<1>6. QED
  BY <1>1, <1>2, <1>3, <1>4, <1>5

LEMMA LoadIs ==
    ASSUME NEW i, NEW p
    PROVE  Load(i, p) = LoadOf(row, p, i)
<1>1. Load(i, p) = Cardinality(Owned(row, i))
          - Cardinality({s \in {t \in Slot : Moving(p, t)} : p[s].source = i})
          + Cardinality({s \in {t \in Slot : Moving(p, t)} : p[s].target = i})
  BY Zenon DEF Load, Owned, Moving
<1>2. {s \in {t \in Slot : Moving(p, t)} : p[s].source = i} = Leaving(p, i)
  BY DEF Leaving
<1>3. {s \in {t \in Slot : Moving(p, t)} : p[s].target = i} = Coming(p, i)
  BY DEF Coming
<1>4. QED
  BY <1>1, <1>2, <1>3 DEF LoadOf

\* The first member by node id.
LEMMA FirstOf ==
    ASSUME NEW R, R \subseteq Instance, R # {}
    PROVE  \E j \in R : \A k \in R : NodeOf(j) <= NodeOf(k)
<1> DEFINE S == {NodeOf(j) : j \in R}
<1>1. \A j \in R : NodeOf(j) \in Nat
  BY PlacementAssumption DEF NodeOf, Instance
<1>2. S \subseteq Nat /\ S # {}
  BY <1>1
<1>3. PICK x \in S : \A y \in S : x <= y
  BY <1>2, LeastOf
<1>4. PICK j \in R : x = NodeOf(j)
  OBVIOUS
<1>5. \A k \in R : NodeOf(k) \in S
  OBVIOUS
<1>6. QED
  BY <1>3, <1>4, <1>5

-----------------------------------------------------------------------------
\* The walk of planMigrations over the slots.

Walked(A) ==
    /\ A \subseteq Instance /\ IsFiniteSet(Nodes(A))
    /\ row \in [Slot -> OwnerRow]
    /\ \A s \in Slot : row[s].owner \in A

MoveOK(A, p, load, k, m) ==
    /\ m \in Move /\ m.slot < k
    /\ m.source \in A /\ m.target \in A /\ m.source # m.target
    /\ row[m.slot] = [owner |-> m.source, state |-> "OWNED"]
    /\ p[m.slot] = NoHandoff
    /\ LoadOf(row, p, m.source) > QuotaOf(A, m.source)
    /\ load[m.target] <= QuotaOf(A, m.target)

MovesOK(A, p, acc, k) ==
    /\ acc = [load |-> acc.load, moves |-> acc.moves, full |-> acc.full]
    /\ acc.load \in [A -> Int]
    /\ \A m \in acc.moves : MoveOK(A, p, acc.load, k, m)
    /\ \A m, n \in acc.moves : m.slot = n.slot => m = n
    /\ \A i \in A : acc.load[i] = After(row, p, acc.moves, i)
    /\ \A i \in A : LoadOf(row, p, i) <= QuotaOf(A, i) => acc.load[i] <= QuotaOf(A, i)

LEMMA SameFields ==
    ASSUME NEW r, NEW g, NEW F, F = {"load", "moves", "full"},
           r = [x \in F |-> r[x]], g = [x \in F |-> g[x]],
           r.load = g.load, r.moves = g.moves, r.full = g.full
    PROVE  r = g
<1>1. \A x \in F : r[x] = g[x]
  OBVIOUS
<1>2. QED
  BY <1>1

LEMMA QuotaOfType ==
    ASSUME NEW A, IsFiniteSet(Nodes(A)), NEW i \in A
    PROVE  QuotaOf(A, i) \in Nat
<1>1. Nodes(A) # {}
  BY DEF Nodes
<1>2. QED
  BY <1>1, QuotaType DEF QuotaOf

LEMMA MovesBegin ==
    ASSUME NEW A, Walked(A), NEW p
    PROVE  MovesOK(A, p, Unmoved(A, p), 0)
<1> DEFINE acc == Unmoved(A, p)
<1>1. acc = [load |-> acc.load, moves |-> acc.moves, full |-> acc.full] /\ acc.moves = {}
      /\ acc.load = [i \in A |-> Load(i, p)]
  BY DEF Unmoved
<1>2. \A i \in A : acc.load[i] = LoadOf(row, p, i) /\ LoadOf(row, p, i) \in Int
  BY <1>1, LoadIs, Counts
<1>3. acc.load \in [A -> Int]
  BY <1>1, <1>2
<1>4. \A i : From({}, i) = {} /\ To({}, i) = {} /\ Cardinality({}) = 0
  BY FS_EmptySet DEF From, To
<1>5. \A i \in A : acc.load[i] = After(row, p, acc.moves, i)
  <2> HIDE DEF acc
  <2> TAKE i \in A
  <2>1. After(row, p, acc.moves, i) = LoadOf(row, p, i) - 0 + 0
    BY <1>1, <1>4 DEF After
  <2>2. QED
    BY <1>2, <2>1
<1> HIDE DEF acc
<1>6. QED
  BY <1>1, <1>2, <1>3, <1>5 DEF MovesOK, acc

LEMMA MovesGoOn ==
    ASSUME NEW A, Walked(A), NEW p, NEW limit, NEW k \in Slot, NEW acc, MovesOK(A, p, acc, k)
    PROVE  MovesOK(A, p, Considered(A, p, limit, acc, k), k + 1)
<1> DEFINE i == row[k].owner
           Idle == \/ acc.full \/ row[k].state # "OWNED" \/ p[k] # NoHandoff
                   \/ acc.load[i] <= QuotaOf(A, i)
           Stop == Room(A, acc.load) = {} \/ Cardinality(acc.moves) = limit
           j == Taker(A, acc.load)
           m0 == [slot |-> k, source |-> i, target |-> j]
<1>1. k \in Nat /\ Slot \subseteq Nat
  BY SlotsAre
<1>2. i \in A /\ A \subseteq Instance /\ row[k] = [owner |-> i, state |-> row[k].state]
  BY DEF Walked, OwnerRow
<1>3. \A x \in A : QuotaOf(A, x) \in Nat /\ acc.load[x] \in Int /\ LoadOf(row, p, x) \in Int
  BY QuotaOfType, Counts DEF Walked, MovesOK
<1>4. \A load, m : MoveOK(A, p, load, k, m) => MoveOK(A, p, load, k + 1, m)
  <2>1. \A m : m \in Move => m.slot \in Nat
    BY <1>1 DEF Move
  <2>2. \A x \in Nat : x < k => x < k + 1
    BY <1>1
  <2>3. QED
    BY <2>1, <2>2 DEF MoveOK
<1>5. CASE Idle
  <2>1. Considered(A, p, limit, acc, k) = acc
    BY <1>5 DEF Considered
  <2>2. QED
    BY <1>4, <2>1 DEF MovesOK
<1>6. CASE ~Idle /\ Stop
  <2>1. Considered(A, p, limit, acc, k) = [acc EXCEPT !.full = TRUE]
    BY <1>6 DEF Considered
  <2>2. [acc EXCEPT !.full = TRUE] = [load |-> acc.load, moves |-> acc.moves, full |-> TRUE]
    <3>1. PICK a, b, c : acc = [load |-> a, moves |-> b, full |-> c]
      BY DEF MovesOK
    <3> DEFINE r == [acc EXCEPT !.full = TRUE]
               g == [load |-> acc.load, moves |-> acc.moves, full |-> TRUE]
               F == {"load", "moves", "full"}
    <3>2. r = [x \in F |-> r[x]] /\ r.load = a /\ r.moves = b /\ r.full = TRUE
      BY <3>1
    <3>3. g = [x \in F |-> g[x]] /\ g.load = a /\ g.moves = b /\ g.full = TRUE
      BY <3>1
    <3> HIDE DEF r, g
    <3>4. r = g
      BY <3>2, <3>3, SameFields
    <3>5. QED
      BY <3>4 DEF r, g
  <2>3. QED
    BY <1>4, <2>1, <2>2 DEF MovesOK
<1>7. CASE ~Idle /\ ~Stop
  <2> DEFINE load == [acc.load EXCEPT ![i] = @ - 1, ![j] = @ + 1]
             moves == acc.moves \cup {m0}
  <2>1. Considered(A, p, limit, acc, k) = [load |-> load, moves |-> moves, full |-> acc.full]
    <3>1. Considered(A, p, limit, acc, k)
            = [acc EXCEPT !.load[i] = @ - 1, !.load[j] = @ + 1, !.moves = @ \cup {m0}]
      BY <1>7 DEF Considered
    <3>2. PICK a, b, c : acc = [load |-> a, moves |-> b, full |-> c]
      BY DEF MovesOK
    <3> HIDE DEF i, j, m0
    <3> DEFINE r == [acc EXCEPT !.load[i] = @ - 1, !.load[j] = @ + 1, !.moves = @ \cup {m0}]
               g == [load |-> load, moves |-> moves, full |-> acc.full]
               F == {"load", "moves", "full"}
    <3>3. acc.load = a /\ acc.moves = b /\ acc.full = c
      BY <3>2
    <3>4. r = [x \in F |-> r[x]]
      BY <3>2
    <3>5. r.load = load /\ r.moves = moves /\ r.full = acc.full
      <4>1. r.load = [a EXCEPT ![i] = a[i] - 1, ![j] = a[j] + 1]
        BY <3>2
      <4>2. r.moves = b \cup {m0}
        BY <3>2
      <4>3. r.full = c
        BY <3>2
      <4>4. load = [a EXCEPT ![i] = a[i] - 1, ![j] = a[j] + 1]
        BY <3>3
      <4> HIDE DEF r, load
      <4>5. QED
        BY <3>3, <4>1, <4>2, <4>3, <4>4
    <3>6. g = [x \in F |-> g[x]] /\ g.load = load /\ g.moves = moves /\ g.full = acc.full
      OBVIOUS
    <3> HIDE DEF r, g
    <3>7. r = g
      BY <3>4, <3>5, <3>6, SameFields
    <3>8. QED
      BY <3>1, <3>7 DEF r, g
  <2>2. j \in A /\ acc.load[j] < QuotaOf(A, j)
    <3>1. Room(A, acc.load) \subseteq Instance /\ Room(A, acc.load) # {}
      BY <1>2, <1>7 DEF Room
    <3>2. j \in Room(A, acc.load)
      BY <3>1, FirstOf DEF Taker
    <3>3. QED
      BY <3>2 DEF Room
  <2> HIDE DEF j, i
  <2>3. acc.load[i] > QuotaOf(A, i) /\ row[k].state = "OWNED" /\ p[k] = NoHandoff
    BY <1>2, <1>3, <1>7
  <2>4. i # j
    BY <1>2, <1>3, <2>2, <2>3
  <2>5. LoadOf(row, p, i) > QuotaOf(A, i)
    <3>1. ~(LoadOf(row, p, i) <= QuotaOf(A, i))
      BY <1>2, <1>3, <2>3 DEF MovesOK
    <3>2. QED
      BY <1>2, <1>3, <3>1
  <2>6. /\ load \in [A -> Int] /\ load[i] = acc.load[i] - 1 /\ load[j] = acc.load[j] + 1
        /\ \A x \in A : x # i /\ x # j => load[x] = acc.load[x]
    BY <1>2, <2>2, <2>4 DEF MovesOK
  <2> HIDE DEF load
  <2>7. \A x \in A : acc.load[x] <= QuotaOf(A, x) => load[x] <= QuotaOf(A, x)
    <3> SUFFICES ASSUME NEW x \in A, acc.load[x] <= QuotaOf(A, x)
                 PROVE  load[x] <= QuotaOf(A, x)
      OBVIOUS
    <3>1. x # i
      BY <1>2, <1>3, <2>3
    <3>2. CASE x = j
      BY <1>3, <2>2, <2>6, <3>2
    <3>3. CASE x # j
      BY <2>6, <3>1, <3>3
    <3>4. QED
      BY <3>2, <3>3
  <2>8. ASSUME NEW m \in moves PROVE MoveOK(A, p, load, k + 1, m)
    <3>1. CASE m \in acc.moves
      <4>1. MoveOK(A, p, acc.load, k + 1, m)
        BY <1>4, <3>1 DEF MovesOK
      <4>2. m.target \in A /\ load[m.target] <= QuotaOf(A, m.target)
        BY <2>7, <4>1 DEF MoveOK
      <4>3. QED
        BY <4>1, <4>2 DEF MoveOK
    <3>2. CASE m = m0
      <4>1. m.slot = k /\ m.source = i /\ m.target = j /\ m \in Move
        BY <1>2, <2>2, <3>2 DEF Move
      <4>2. load[j] <= QuotaOf(A, j) /\ k < k + 1
        BY <1>1, <1>3, <2>2, <2>6
      <4>3. row[k] = [owner |-> i, state |-> "OWNED"]
        BY <1>2, <2>3
      <4>4. QED
        BY <1>2, <2>2, <2>3, <2>4, <2>5, <4>1, <4>2, <4>3 DEF MoveOK
    <3>3. QED
      BY <3>1, <3>2
  <2>9. \A m \in acc.moves : m.slot # k /\ m.slot \in Slot
    <3>1. \A m \in acc.moves : m.slot < k /\ m.slot \in Slot
      BY DEF MovesOK, MoveOK, Move
    <3>2. ~(k < k)
      BY <1>1
    <3>3. QED
      BY <3>1, <3>2
  <2>10. \A m, n \in moves : m.slot = n.slot => m = n
    BY <2>9 DEF MovesOK
  <2> DEFINE q == acc.moves
  <2>0. \A m : m \in moves <=> m \in q \/ m = m0
    OBVIOUS
  <2>01. m0.slot = k /\ m0.source = i /\ m0.target = j
    OBVIOUS
  <2> HIDE DEF m0, moves
  <2>11. From(moves, i) = From(q, i) \cup {k} /\ k \notin From(q, i)
         /\ \A x : x # i => From(moves, x) = From(q, x)
    <3>1. ASSUME NEW x, NEW s \in Slot
          PROVE  s \in From(moves, x) <=> s \in From(q, x) \/ (s = k /\ x = i)
      BY <2>0, <2>01 DEF From
    <3>2. \A x : From(moves, x) \subseteq Slot /\ From(q, x) \subseteq Slot /\ k \notin From(q, x)
      BY <2>9 DEF From
    <3>3. QED
      BY <3>1, <3>2
  <2>12. To(moves, j) = To(q, j) \cup {k} /\ k \notin To(q, j)
         /\ \A x : x # j => To(moves, x) = To(q, x)
    <3>1. ASSUME NEW x, NEW s \in Slot
          PROVE  s \in To(moves, x) <=> s \in To(q, x) \/ (s = k /\ x = j)
      BY <2>0, <2>01 DEF To
    <3>2. \A x : To(moves, x) \subseteq Slot /\ To(q, x) \subseteq Slot /\ k \notin To(q, x)
      BY <2>9 DEF To
    <3>3. QED
      BY <3>1, <3>2
  <2>13. Cardinality(From(moves, i)) = Cardinality(From(q, i)) + 1
         /\ Cardinality(To(moves, j)) = Cardinality(To(q, j)) + 1
    BY <2>11, <2>12, Counts, FS_AddElement
  <2>14. ASSUME NEW x \in A PROVE load[x] = After(row, p, moves, x)
    <3>1. acc.load[x] = LoadOf(row, p, x) - Cardinality(From(acc.moves, x))
                          + Cardinality(To(acc.moves, x))
      BY DEF MovesOK, After
    <3>2. PICK a \in Nat : a = Cardinality(From(acc.moves, x))
      BY Counts
    <3>3. PICK b \in Nat : b = Cardinality(To(acc.moves, x))
      BY Counts
    <3>4. PICK c \in Int : c = LoadOf(row, p, x)
      BY Counts
    <3>5. CASE x = i
      BY <2>4, <2>6, <2>12, <2>13, <3>1, <3>2, <3>3, <3>4, <3>5 DEF After
    <3>6. CASE x = j
      BY <2>4, <2>6, <2>11, <2>13, <3>1, <3>2, <3>3, <3>4, <3>6 DEF After
    <3>7. CASE x # i /\ x # j
      BY <2>6, <2>11, <2>12, <3>1, <3>7 DEF After
    <3>8. QED
      BY <3>5, <3>6, <3>7
  <2>15. \A x \in A : LoadOf(row, p, x) <= QuotaOf(A, x) => load[x] <= QuotaOf(A, x)
    BY <2>7 DEF MovesOK
  <2> DEFINE acc2 == [load |-> load, moves |-> moves, full |-> acc.full]
  <2>16. acc2.load = load /\ acc2.moves = moves
         /\ acc2 = [load |-> acc2.load, moves |-> acc2.moves, full |-> acc2.full]
    OBVIOUS
  <2> HIDE DEF acc2
  <2>17. MovesOK(A, p, acc2, k + 1)
    BY <2>6, <2>8, <2>10, <2>14, <2>15, <2>16 DEF MovesOK
  <2>18. QED
    BY <2>1, <2>17 DEF acc2
<1>8. QED
  BY <1>5, <1>6, <1>7

LEMMA MovesEnd ==
    ASSUME NEW A, Walked(A), NEW p, NEW limit,
           NEW f, Steps(Relocating(A, p, limit), f, SlotCount)
    PROVE  MovesOK(A, p, f[SlotCount], SlotCount)
<1> DEFINE Bad == {j \in 0..SlotCount : ~MovesOK(A, p, f[j], j)}
<1>1. \A j \in 0..SlotCount :
        f[j] = IF j = 0 THEN Unmoved(A, p) ELSE Considered(A, p, limit, f[j - 1], j - 1)
  BY MovingIs DEF Steps
<1>2. SlotCount \in Nat /\ SlotCount \in 0..SlotCount
  BY SlotsAre
<1>3. ASSUME Bad # {} PROVE FALSE
  <2>1. Bad \subseteq Nat
    BY <1>2
  <2>2. PICK j \in Bad : \A l \in Bad : j <= l
    BY <1>3, <2>1, LeastOf
  <2>3. j # 0
    BY <1>1, <1>2, <2>2, MovesBegin
  <2>4. PICK i \in Slot : j = i + 1
    <3>1. j - 1 \in Slot /\ j = (j - 1) + 1
      BY <1>2, <2>3 DEF Slot
    <3>2. QED
      BY <3>1
  <2>5. i \in 0..SlotCount /\ i \notin Bad /\ j - 1 = i
    BY <1>2, <2>2, <2>4, SlotsAre DEF Slot
  <2>6. MovesOK(A, p, f[i], i)
    BY <2>5
  <2>7. f[j] = Considered(A, p, limit, f[i], i)
    BY <1>1, <2>3, <2>5
  <2>8. QED
    BY <2>2, <2>4, <2>6, <2>7, MovesGoOn
<1>4. QED
  BY <1>2, <1>3

\* What holds of the moves P of a pass by members A, for owners rw and handoffs h.
PlanFacts(A, rw, h, P) ==
    /\ \A m \in P : /\ m \in Move /\ m.source \in A /\ m.target \in A /\ m.source # m.target
                    /\ rw[m.slot] = [owner |-> m.source, state |-> "OWNED"]
                    /\ h[m.slot] = NoHandoff
                    /\ LoadOf(rw, h, m.source) > QuotaOf(A, m.source)
                    /\ After(rw, h, P, m.target) <= QuotaOf(A, m.target)
    /\ \A m, n \in P : m.slot = n.slot => m = n
    /\ \A i \in A : LoadOf(rw, h, i) <= QuotaOf(A, i) => After(rw, h, P, i) <= QuotaOf(A, i)

\* Every pass of planMigrations returns such moves, whatever it has read.
LEMMA PlansAreOK ==
    ASSUME row \in [Slot -> OwnerRow], NEW M, M \subseteq Instance, IsFiniteSet(Nodes(M)),
           NEW S, NEW p, NEW limit, Plans(M, S, p, limit) # {}
    PROVE  PlanFacts(Admitted(M, S), row, p, Plans(M, S, p, limit))
<1> DEFINE A == Admitted(M, S)
           P == Plans(M, S, p, limit)
<1>1. SlotCount \in Nat
  BY SlotsAre
<1>2. Settled(M) /\ \E f : Steps(Relocating(A, p, limit), f, SlotCount) /\ P = f[SlotCount].moves
  BY <1>1, PlansAre
<1>3. PICK f : Steps(Relocating(A, p, limit), f, SlotCount) /\ P = f[SlotCount].moves
  BY <1>2
<1>4. Walked(A)
  <2>1. A \subseteq M
    BY DEF Admitted
  <2>2. Nodes(A) \subseteq Nodes(M)
    BY <2>1 DEF Nodes
  <2>3. IsFiniteSet(Nodes(A))
    BY <2>2, FS_Subset
  <2>4. \A s \in Slot : row[s].owner \in A
    BY <1>2 DEF Settled, Admitted
  <2>5. QED
    BY <2>1, <2>3, <2>4 DEF Walked
<1>5. MovesOK(A, p, f[SlotCount], SlotCount)
  BY <1>3, <1>4, MovesEnd
<1> HIDE DEF A, P
<1>6. PlanFacts(A, row, p, P)
  BY <1>3, <1>5 DEF MovesOK, MoveOK, PlanFacts
<1>7. QED
  BY <1>6 DEF A, P

-----------------------------------------------------------------------------
\* What a step does to the loads.

\* h says of the slots on their way what p said, and has no handoff that p had not.
SameView(p, h) == \A s \in Slot :
    /\ p[s] = NoHandoff => h[s] = NoHandoff
    /\ Moving(p, s) <=> Moving(h, s)
    /\ Moving(p, s) => p[s].source = h[s].source /\ p[s].target = h[s].target

SameOwners(rw, rw2) == \A s \in Slot : rw2[s].owner = rw[s].owner

LEMMA ViewsCompose ==
    ASSUME NEW p, NEW h, NEW h2, SameView(p, h), SameView(h, h2)
    PROVE  SameView(p, h2)
  BY DEF SameView

LEMMA SameLoads ==
    ASSUME NEW rw, NEW rw2, NEW h, NEW h2, SameOwners(rw, rw2), SameView(h, h2), NEW i
    PROVE  LoadOf(rw2, h2, i) = LoadOf(rw, h, i)
<1>1. Owned(rw2, i) = Owned(rw, i)
  BY DEF Owned, SameOwners
<1>2. Leaving(h2, i) = Leaving(h, i)
  <2>1. \A s \in Slot : s \in Leaving(h2, i) <=> s \in Leaving(h, i)
    BY DEF Leaving, SameView
  <2>2. Leaving(h2, i) \subseteq Slot /\ Leaving(h, i) \subseteq Slot
    BY DEF Leaving
  <2>3. QED
    BY <2>1, <2>2
<1>3. Coming(h2, i) = Coming(h, i)
  <2>1. \A s \in Slot : s \in Coming(h2, i) <=> s \in Coming(h, i)
    BY DEF Coming, SameView
  <2>2. Coming(h2, i) \subseteq Slot /\ Coming(h, i) \subseteq Slot
    BY DEF Coming
  <2>3. QED
    BY <2>1, <2>2
<1>4. QED
  BY <1>1, <1>2, <1>3 DEF LoadOf

\* A transfer of slot s.
Transferred(rw, h, rw2, h2, s) ==
    /\ Moving(h, s) /\ ~Moving(h2, s)
    /\ rw[s].owner = h[s].source /\ rw2[s].owner = h[s].target
    /\ h[s].source # h[s].target
    /\ \A t \in Slot : t # s => rw2[t] = rw[t] /\ h2[t] = h[t]

LEMMA OneLess ==
    ASSUME NEW S, S \subseteq Slot, NEW T, NEW s \in S, T = S \ {s}
    PROVE  Cardinality(S) = Cardinality(T) + 1
<1>1. IsFiniteSet(T) /\ s \notin T /\ S = T \cup {s}
  BY Counts
<1>2. QED
  BY <1>1, FS_AddElement

LEMMA TransferLoads ==
    ASSUME NEW s \in Slot, NEW rw, NEW rw2, NEW h, NEW h2, Transferred(rw, h, rw2, h2, s), NEW i
    PROVE  LoadOf(rw2, h2, i) = LoadOf(rw, h, i)
<1> DEFINE src == h[s].source
           tgt == h[s].target
<1>1. \A t \in Slot : t # s => (Moving(h2, t) <=> Moving(h, t)) /\ h2[t] = h[t] /\ rw2[t] = rw[t]
  BY DEF Transferred, Moving
<1>2. Moving(h, s) /\ ~Moving(h2, s) /\ rw[s].owner = src /\ rw2[s].owner = tgt /\ src # tgt
  BY DEF Transferred
<1>3. Leaving(h2, i) = Leaving(h, i) \ {s} /\ Coming(h2, i) = Coming(h, i) \ {s}
  <2>1. \A t \in Slot : t \in Leaving(h2, i) <=> t \in Leaving(h, i) /\ t # s
    BY <1>1, <1>2 DEF Leaving
  <2>2. \A t \in Slot : t \in Coming(h2, i) <=> t \in Coming(h, i) /\ t # s
    BY <1>1, <1>2 DEF Coming
  <2>3. /\ Leaving(h2, i) \subseteq Slot /\ Leaving(h, i) \subseteq Slot
        /\ Coming(h2, i) \subseteq Slot /\ Coming(h, i) \subseteq Slot
    BY DEF Leaving, Coming
  <2>4. QED
    BY <2>1, <2>2, <2>3
<1>4. Owned(rw, i) \ {s} = Owned(rw2, i) \ {s}
  BY <1>1 DEF Owned
<1>5. /\ s \in Leaving(h, i) <=> i = src
      /\ s \in Coming(h, i) <=> i = tgt
      /\ s \in Owned(rw, i) <=> i = src
      /\ s \in Owned(rw2, i) <=> i = tgt
  BY <1>2 DEF Leaving, Coming, Owned
<1> HIDE DEF src, tgt
<1>6. /\ Owned(rw, i) \subseteq Slot /\ Owned(rw2, i) \subseteq Slot
      /\ Leaving(h, i) \subseteq Slot /\ Coming(h, i) \subseteq Slot
      /\ Cardinality(Owned(rw, i)) \in Nat /\ Cardinality(Owned(rw2, i)) \in Nat
      /\ Cardinality(Leaving(h, i)) \in Nat /\ Cardinality(Leaving(h2, i)) \in Nat
      /\ Cardinality(Coming(h, i)) \in Nat /\ Cardinality(Coming(h2, i)) \in Nat
  BY Counts DEF Owned, Leaving, Coming
<1>7. CASE i = src
  <2>1. Cardinality(Leaving(h, i)) = Cardinality(Leaving(h2, i)) + 1
    BY <1>3, <1>5, <1>6, <1>7, OneLess
  <2>2. Coming(h2, i) = Coming(h, i) /\ Owned(rw2, i) = Owned(rw, i) \ {s}
    BY <1>2, <1>3, <1>4, <1>5, <1>7
  <2>3. Cardinality(Owned(rw, i)) = Cardinality(Owned(rw2, i)) + 1
    BY <1>5, <1>6, <1>7, <2>2, OneLess
  <2>4. QED
    BY <1>6, <2>1, <2>2, <2>3 DEF LoadOf
<1>8. CASE i = tgt
  <2>1. Cardinality(Coming(h, i)) = Cardinality(Coming(h2, i)) + 1
    BY <1>3, <1>5, <1>6, <1>8, OneLess
  <2>2. Leaving(h2, i) = Leaving(h, i) /\ Owned(rw, i) = Owned(rw2, i) \ {s}
    BY <1>2, <1>3, <1>4, <1>5, <1>8
  <2>3. Cardinality(Owned(rw2, i)) = Cardinality(Owned(rw, i)) + 1
    BY <1>5, <1>6, <1>8, <2>2, OneLess
  <2>4. QED
    BY <1>6, <2>1, <2>2, <2>3 DEF LoadOf
<1>9. CASE i # src /\ i # tgt
  <2>1. Leaving(h2, i) = Leaving(h, i) /\ Coming(h2, i) = Coming(h, i)
        /\ Owned(rw2, i) = Owned(rw, i)
    BY <1>3, <1>4, <1>5, <1>9
  <2>2. QED
    BY <2>1 DEF LoadOf
<1>10. QED
  BY <1>7, <1>8, <1>9

LEMMA Joined ==
    ASSUME NEW S, NEW T, IsFiniteSet(S), IsFiniteSet(T), S \cap T = {}
    PROVE  Cardinality(S \cup T) = Cardinality(S) + Cardinality(T)
<1>1. Cardinality(S \cup T) = Cardinality(S) + Cardinality(T) - Cardinality(S \cap T)
  BY FS_Union
<1>2. Cardinality(S \cap T) = 0 /\ Cardinality(S) \in Nat /\ Cardinality(T) \in Nat
  BY FS_EmptySet, FS_CardinalityType
<1>3. QED
  BY <1>1, <1>2

\* The insertion of the moves P.
Inserted(h, h2, P) ==
    /\ \A m \in P : m.slot \in Slot /\ ~Moving(h, m.slot) /\ Moving(h2, m.slot)
                    /\ h2[m.slot].source = m.source /\ h2[m.slot].target = m.target
    /\ \A m, n \in P : m.slot = n.slot => m = n
    /\ \A s \in Slot : (\A m \in P : m.slot # s) => h2[s] = h[s]

LEMMA InsertLoads ==
    ASSUME NEW rw, NEW h, NEW h2, NEW P, Inserted(h, h2, P), NEW i
    PROVE  LoadOf(rw, h2, i) = After(rw, h, P, i)
<1>1. ASSUME NEW s \in Slot
      PROVE  s \in Leaving(h2, i) <=> s \in Leaving(h, i) \/ s \in From(P, i)
  <2>1. CASE \E m \in P : m.slot = s
    BY <2>1 DEF Inserted, Leaving, From
  <2>2. CASE \A m \in P : m.slot # s
    BY <2>2 DEF Inserted, Leaving, From, Moving
  <2>3. QED
    BY <2>1, <2>2
<1>2. ASSUME NEW s \in Slot
      PROVE  s \in Coming(h2, i) <=> s \in Coming(h, i) \/ s \in To(P, i)
  <2>1. CASE \E m \in P : m.slot = s
    BY <2>1 DEF Inserted, Coming, To
  <2>2. CASE \A m \in P : m.slot # s
    BY <2>2 DEF Inserted, Coming, To, Moving
  <2>3. QED
    BY <2>1, <2>2
<1>3. Leaving(h, i) \cap From(P, i) = {} /\ Coming(h, i) \cap To(P, i) = {}
  BY DEF Inserted, Leaving, From, Coming, To
<1>4. /\ Leaving(h2, i) = Leaving(h, i) \cup From(P, i)
      /\ Coming(h2, i) = Coming(h, i) \cup To(P, i)
  <2>1. /\ Leaving(h2, i) \subseteq Slot /\ Leaving(h, i) \subseteq Slot
        /\ Coming(h2, i) \subseteq Slot /\ Coming(h, i) \subseteq Slot
        /\ From(P, i) \subseteq Slot /\ To(P, i) \subseteq Slot
    BY DEF Leaving, Coming, From, To
  <2>2. QED
    BY <1>1, <1>2, <2>1
<1>5. /\ IsFiniteSet(Leaving(h, i)) /\ IsFiniteSet(Coming(h, i))
      /\ IsFiniteSet(From(P, i)) /\ IsFiniteSet(To(P, i))
  BY Counts
<1>6. Cardinality(Leaving(h2, i)) = Cardinality(Leaving(h, i)) + Cardinality(From(P, i))
  BY <1>3, <1>4, <1>5, Joined
<1>7. Cardinality(Coming(h2, i)) = Cardinality(Coming(h, i)) + Cardinality(To(P, i))
  BY <1>3, <1>4, <1>5, Joined
<1>8. QED
  <2>1. PICK a \in Nat : a = Cardinality(Leaving(h, i))
    BY Counts
  <2>2. PICK b \in Nat : b = Cardinality(Coming(h, i))
    BY Counts
  <2>3. PICK c \in Nat : c = Cardinality(From(P, i))
    BY Counts
  <2>4. PICK d \in Nat : d = Cardinality(To(P, i))
    BY Counts
  <2>5. PICK o \in Nat : o = Cardinality(Owned(rw, i))
    BY Counts
  <2>6. LoadOf(rw, h2, i) = o - (a + c) + (b + d)
    BY <1>6, <1>7, <2>1, <2>2, <2>3, <2>4, <2>5 DEF LoadOf
  <2>7. After(rw, h, P, i) = (o - a + b) - c + d
    BY <2>1, <2>2, <2>3, <2>4, <2>5 DEF After, LoadOf
  <2>8. QED
    BY <2>6, <2>7

\* A step that changes no load and plans nothing leaves the plans what they are.
LEMMA PlansKeep ==
    ASSUME NEW A, NEW P, NEW rw, NEW h, NEW rw2, NEW h2, PlanFacts(A, rw, h, P),
           \A i : LoadOf(rw2, h2, i) = LoadOf(rw, h, i),
           \A s \in Slot : h[s] = NoHandoff => h2[s] = NoHandoff /\ rw2[s] = rw[s]
    PROVE  PlanFacts(A, rw2, h2, P)
<1>1. \A i : After(rw2, h2, P, i) = After(rw, h, P, i)
  BY DEF After
<1>2. \A m \in P : m.slot \in Slot
  BY DEF PlanFacts, Move
<1>3. QED
  BY <1>1, <1>2 DEF PlanFacts

-----------------------------------------------------------------------------
\* Rows, handoffs and the coordinator's pass.

RowsOK == row \in [Slot -> OwnerRow] /\ handoff \in [Slot -> HandoffRow]

\* While a handoff is not transferred, its source has the slot and is not its target.
SourcesOwn ==
    \A s \in Slot :
        handoff[s].kind = "TRANSFER" /\ handoff[s].phase \in {"PLANNED", "DRAINING"}
            => row[s].owner = handoff[s].source /\ handoff[s].source # handoff[s].target

CoordOK ==
    /\ coord.at \in {"recover", "read", "plan"}
        => coord.members \subseteq Instance /\ IsFiniteSet(Nodes(coord.members))
    /\ coord.at = "recover" => {"at", "members", "settled"} \subseteq DOMAIN coord
    /\ coord.at = "plan" => {"at", "members", "settled", "pending"} \subseteq DOMAIN coord
    /\ coord.at = "insert" => \A m \in coord.plans : m \in Move /\ m.source # m.target

FleetOK == RowsOK /\ SourcesOwn /\ CoordOK /\ MembersOK /\ moved \subseteq Slot

RowsStill == UNCHANGED <<row, handoff>>

LEMMA RowsStay ==
    ASSUME FleetOK, RowsStill
    PROVE  RowsOK' /\ SourcesOwn'
  BY DEF FleetOK, RowsOK, SourcesOwn, RowsStill

LEMMA LeaveRows ==
    ASSUME FleetOK, NEW i \in Instance, Leave(i)
    PROVE  RowsOK' /\ SourcesOwn'
<1> DEFINE S == {s \in Slot : row[s].owner = i /\ handoff[s] = NoHandoff}
           r == [NoHandoff EXCEPT !.kind = "RELEASE", !.source = i, !.phase = "DRAINING"]
<1>1. /\ row' = [s \in Slot |-> IF s \in S THEN [row[s] EXCEPT !.state = "DRAINING"] ELSE row[s]]
      /\ handoff' = [s \in Slot |-> IF s \in S THEN r ELSE handoff[s]]
  BY DEF Leave
<1>2. r \in HandoffRow /\ r.kind = "RELEASE"
  BY DEF NoHandoff, HandoffRow
<1> HIDE DEF S, r
<1>3. \A s \in Slot : row[s] \in OwnerRow /\ handoff[s] \in HandoffRow
  BY DEF FleetOK, RowsOK
<1>4. \A s \in Slot : [row[s] EXCEPT !.state = "DRAINING"] \in OwnerRow
  BY <1>3 DEF OwnerRow
<1>5. \A s \in Slot : row'[s] \in OwnerRow /\ handoff'[s] \in HandoffRow
  BY <1>1, <1>2, <1>3, <1>4
<1>6. RowsOK'
  BY <1>1, <1>5 DEF RowsOK
<1>7. ASSUME NEW s \in Slot, handoff'[s].kind = "TRANSFER",
             handoff'[s].phase \in {"PLANNED", "DRAINING"}
      PROVE  row'[s].owner = handoff'[s].source /\ handoff'[s].source # handoff'[s].target
  <2>1. s \notin S
    BY <1>1, <1>2, <1>7
  <2>2. row'[s] = row[s] /\ handoff'[s] = handoff[s]
    BY <1>1, <2>1
  <2>3. QED
    BY <1>7, <2>2 DEF FleetOK, SourcesOwn
<1>8. QED
  BY <1>6, <1>7 DEF SourcesOwn

LEMMA ClaimRows ==
    ASSUME FleetOK, NEW i \in Instance, Claim(i)
    PROVE  RowsOK' /\ SourcesOwn'
<1> DEFINE S == {s \in pass[i] : Eligible(s)}
           o == [owner |-> i, state |-> "OWNED"]
<1>1. /\ row' = [s \in Slot |-> IF s \in S THEN o ELSE row[s]]
      /\ handoff' = [s \in Slot |-> IF s \in S THEN NoHandoff ELSE handoff[s]]
  BY DEF Claim
<1>2. o \in OwnerRow /\ NoHandoff \in HandoffRow /\ NoHandoff.kind = "none"
  BY DEF NoHandoff, HandoffRow, OwnerRow
<1> HIDE DEF S, o
<1>3. \A s \in Slot : row[s] \in OwnerRow /\ handoff[s] \in HandoffRow
  BY DEF FleetOK, RowsOK
<1>4. RowsOK'
  BY <1>1, <1>2, <1>3 DEF RowsOK
<1>5. \A s \in Slot : handoff'[s].kind = "TRANSFER"
                        => row'[s] = row[s] /\ handoff'[s] = handoff[s]
  BY <1>1, <1>2
<1>6. QED
  BY <1>4, <1>5 DEF FleetOK, SourcesOwn

LEMMA RecoverRows ==
    ASSUME FleetOK, Recover
    PROVE  RowsOK' /\ SourcesOwn'
<1> DEFINE M == coord.members
<1>0. PICK freed : /\ handoff' = [s \in Slot |-> IF s \in freed THEN NoHandoff
                                                ELSE Recovered(s, M)]
                   /\ row' = [s \in Slot |-> IF s \in freed THEN Unowned ELSE row[s]]
  BY DEF Recover
<1>1. /\ handoff' = [s \in Slot |-> IF s \in freed THEN NoHandoff ELSE Recovered(s, M)]
      /\ row' = [s \in Slot |-> IF s \in freed THEN Unowned ELSE row[s]]
      /\ M \subseteq Instance
  BY <1>0 DEF Recover, FleetOK, CoordOK
<1> HIDE DEF M
<1>2. /\ Unowned \in OwnerRow /\ NoHandoff \in HandoffRow /\ NoHandoff.kind = "none"
  BY DEF NoHandoff, HandoffRow, OwnerRow, Unowned
<1>3. \A s \in Slot : row[s] \in OwnerRow /\ handoff[s] \in HandoffRow
  BY DEF FleetOK, RowsOK
<1>4. ASSUME NEW s \in Slot
      PROVE  LET g == Recovered(s, M) h == handoff[s] IN
             /\ g \in HandoffRow
             /\ g.kind = "TRANSFER" /\ g.phase \in {"PLANNED", "DRAINING"}
                  => /\ h.kind = "TRANSFER" /\ h.phase \in {"PLANNED", "DRAINING"}
                     /\ g.source = h.source
                     /\ (g.target = h.target \/ g.target # h.source)
  <2> DEFINE h == handoff[s]
             others == {i \in M : i # h.source /\ i \in live}
             t == CHOOSE i \in others : \A j \in others : NodeOf(i) <= NodeOf(j)
  <2>1. \/ Recovered(s, M) = h
        \/ Recovered(s, M) = NoHandoff
        \/ Recovered(s, M) = [h EXCEPT !.kind = "RELEASE", !.target = None]
        \/ others # {} /\ h.phase # "PLANNED" /\ h.phase # "TRANSFERRED"
           /\ Recovered(s, M) = [h EXCEPT !.ready = FALSE, !.target = t]
    BY DEF Recovered
  <2>2. others # {} => t \in Instance /\ t # h.source
    <3> SUFFICES ASSUME others # {} PROVE t \in Instance /\ t # h.source
      OBVIOUS
    <3>1. others \subseteq Instance
      BY <1>1
    <3>2. t \in others
      BY <3>1, FirstOf
    <3>3. QED
      BY <3>1, <3>2
  <2> HIDE DEF others, t
  <2>3. h \in HandoffRow
    BY <1>3
  <2>4. [h EXCEPT !.kind = "RELEASE", !.target = None] \in HandoffRow
        /\ [h EXCEPT !.kind = "RELEASE", !.target = None].kind = "RELEASE"
    BY <2>3 DEF HandoffRow
  <2>5. t \in Instance => /\ [h EXCEPT !.ready = FALSE, !.target = t] \in HandoffRow
                          /\ [h EXCEPT !.ready = FALSE, !.target = t].target = t
                          /\ [h EXCEPT !.ready = FALSE, !.target = t].source = h.source
                          /\ [h EXCEPT !.ready = FALSE, !.target = t].kind = h.kind
                          /\ [h EXCEPT !.ready = FALSE, !.target = t].phase = h.phase
    BY <2>3 DEF HandoffRow
  <2> HIDE DEF h
  <2> DEFINE g == Recovered(s, M)
  <2> HIDE DEF g
  <2>6. CASE g = h
    BY <2>3, <2>6 DEF h, g
  <2>7. CASE g = NoHandoff
    BY <1>2, <2>7 DEF h, g
  <2>8. CASE g = [h EXCEPT !.kind = "RELEASE", !.target = None]
    BY <2>4, <2>8 DEF h, g
  <2>9. CASE others # {} /\ g = [h EXCEPT !.ready = FALSE, !.target = t]
    BY <2>2, <2>5, <2>9 DEF h, g
  <2>10. QED
    BY <2>1, <2>6, <2>7, <2>8, <2>9 DEF g
<1>5. RowsOK'
  BY <1>1, <1>2, <1>3, <1>4 DEF RowsOK
<1>6. ASSUME NEW s \in Slot, handoff'[s].kind = "TRANSFER",
             handoff'[s].phase \in {"PLANNED", "DRAINING"}
      PROVE  row'[s].owner = handoff'[s].source /\ handoff'[s].source # handoff'[s].target
  <2>1. s \notin freed
    BY <1>1, <1>2, <1>6
  <2>2. row'[s] = row[s] /\ handoff'[s] = Recovered(s, M)
    BY <1>1, <2>1
  <2>3. /\ handoff[s].kind = "TRANSFER" /\ handoff[s].phase \in {"PLANNED", "DRAINING"}
        /\ handoff'[s].source = handoff[s].source
        /\ (handoff'[s].target = handoff[s].target \/ handoff'[s].target # handoff[s].source)
    BY <1>4, <1>6, <2>2
  <2>4. QED
    BY <2>2, <2>3 DEF FleetOK, SourcesOwn
<1>7. QED
  BY <1>5, <1>6 DEF SourcesOwn

Fresh(p) == [kind |-> "TRANSFER", source |-> p.source, target |-> p.target,
             phase |-> "PLANNED", ready |-> FALSE]

\* What Insert does with each slot.
LEMMA InsertIs ==
    ASSUME Insert, NEW s \in Slot
    PROVE  \/ handoff'[s] = handoff[s]
           \/ \E p \in coord.plans : /\ p.slot = s /\ handoff[s] = NoHandoff
                                     /\ row[s] = [owner |-> p.source, state |-> "OWNED"]
                                     /\ handoff'[s] = Fresh(p)
<1> DEFINE admitted == {p \in coord.plans :
                        /\ row[p.slot] = [owner |-> p.source, state |-> "OWNED"]
                        /\ {p.source, p.target} \subseteq live
                        /\ handoff[p.slot] = NoHandoff}
           plan(t) == CHOOSE p \in admitted : p.slot = t
           S == IF Count(handoff) + Cardinality(coord.plans) > MaxPlanned THEN {}
                ELSE {p.slot : p \in admitted}
<1>1. handoff' = [t \in Slot |-> IF t \in S THEN Fresh(plan(t)) ELSE handoff[t]]
  BY DEF Insert, Fresh
<1>2. CASE s \in S
  <2>1. plan(s) \in admitted /\ plan(s).slot = s
    BY <1>2
  <2> HIDE DEF S, plan
  <2>2. QED
    BY <1>1, <1>2, <2>1
<1>3. CASE s \notin S
  <2> HIDE DEF S, plan
  <2>1. QED
    BY <1>1, <1>3
<1>4. QED
  BY <1>2, <1>3

LEMMA InsertRows ==
    ASSUME FleetOK, Insert
    PROVE  RowsOK' /\ SourcesOwn'
<1>1. row' = row /\ coord.at = "insert" /\ handoff' = [s \in Slot |-> handoff'[s]]
  BY DEF Insert
<1>2. \A p \in coord.plans : p \in Move /\ p.source # p.target
  BY <1>1 DEF FleetOK, CoordOK
<1>3. \A p \in coord.plans : Fresh(p) \in HandoffRow /\ Fresh(p).source = p.source
                             /\ Fresh(p).target = p.target
  BY <1>2 DEF Fresh, HandoffRow, Move
<1>4. ASSUME NEW s \in Slot
      PROVE  /\ handoff'[s] \in HandoffRow
             /\ handoff'[s].kind = "TRANSFER" /\ handoff'[s].phase \in {"PLANNED", "DRAINING"}
                  => row[s].owner = handoff'[s].source /\ handoff'[s].source # handoff'[s].target
  <2>1. CASE handoff'[s] = handoff[s]
    BY <2>1 DEF FleetOK, RowsOK, SourcesOwn
  <2>2. CASE \E p \in coord.plans : /\ row[s] = [owner |-> p.source, state |-> "OWNED"]
                                    /\ handoff'[s] = Fresh(p)
    BY <1>2, <1>3, <2>2
  <2>3. QED
    BY <2>1, <2>2, InsertIs
<1>5. RowsOK'
  BY <1>1, <1>4 DEF RowsOK, FleetOK
<1>6. QED
  BY <1>1, <1>4, <1>5 DEF SourcesOwn

LEMMA ExecuteRows ==
    ASSUME FleetOK, NEW s \in Slot, Execute(s)
    PROVE  RowsOK' /\ SourcesOwn'
<1>1. \A t \in Slot : row[t] \in OwnerRow /\ handoff[t] \in HandoffRow
  BY DEF FleetOK, RowsOK
<1>2. /\ row = [t \in Slot |-> row[t]] /\ handoff = [t \in Slot |-> handoff[t]]
  BY DEF FleetOK, RowsOK
<1> SUFFICES /\ row' = [t \in Slot |-> row'[t]] /\ handoff' = [t \in Slot |-> handoff'[t]]
             /\ \A t \in Slot : t # s => row'[t] = row[t] /\ handoff'[t] = handoff[t]
             /\ row'[s] \in OwnerRow /\ handoff'[s] \in HandoffRow
             /\ handoff'[s].kind = "TRANSFER" /\ handoff'[s].phase \in {"PLANNED", "DRAINING"}
                  => row'[s].owner = handoff'[s].source /\ handoff'[s].source # handoff'[s].target
  <2>1. \A t \in Slot : row'[t] \in OwnerRow /\ handoff'[t] \in HandoffRow
    BY <1>1
  <2>2. QED
    BY <2>1 DEF RowsOK, SourcesOwn, FleetOK
<1>3. CASE Begin(s)
  <2>1. row' = [row EXCEPT ![s].state = "DRAINING"]
        /\ handoff' = [handoff EXCEPT ![s].phase = "DRAINING"] /\ handoff[s].phase = "PLANNED"
    BY <1>3 DEF Begin
  <2>2. row'[s] = [row[s] EXCEPT !.state = "DRAINING"]
        /\ handoff'[s] = [handoff[s] EXCEPT !.phase = "DRAINING"]
    BY <1>2, <2>1
  <2>3. row'[s] \in OwnerRow /\ row'[s].owner = row[s].owner
    BY <1>1, <2>2 DEF OwnerRow
  <2>4. /\ handoff'[s] \in HandoffRow /\ handoff'[s].source = handoff[s].source
        /\ handoff'[s].target = handoff[s].target /\ handoff'[s].kind = handoff[s].kind
    BY <1>1, <2>2 DEF HandoffRow
  <2>5. QED
    BY <1>2, <2>1, <2>3, <2>4 DEF FleetOK, SourcesOwn
<1>4. CASE Drained(s)
  <2>1. row' = row /\ handoff' = [handoff EXCEPT ![s].ready = TRUE]
    BY <1>4 DEF Drained
  <2>2. handoff'[s] = [handoff[s] EXCEPT !.ready = TRUE]
    BY <1>2, <2>1
  <2>3. /\ handoff'[s] \in HandoffRow /\ handoff'[s].source = handoff[s].source
        /\ handoff'[s].target = handoff[s].target /\ handoff'[s].kind = handoff[s].kind
        /\ handoff'[s].phase = handoff[s].phase
    BY <1>1, <2>2 DEF HandoffRow
  <2>4. QED
    BY <1>1, <1>2, <2>1, <2>3 DEF FleetOK, SourcesOwn
<1>5. CASE Transfer(s)
  <2>1. row' = [row EXCEPT ![s] = [owner |-> handoff[s].target, state |-> "OWNED"]]
        /\ handoff' = [handoff EXCEPT ![s].phase = "TRANSFERRED"]
    BY <1>5 DEF Transfer
  <2>2. row'[s] = [owner |-> handoff[s].target, state |-> "OWNED"]
        /\ handoff'[s] = [handoff[s] EXCEPT !.phase = "TRANSFERRED"]
    BY <1>2, <2>1
  <2>3. row'[s] \in OwnerRow
    BY <1>1, <2>2 DEF OwnerRow, HandoffRow
  <2>4. /\ handoff'[s] \in HandoffRow /\ handoff'[s].phase = "TRANSFERRED"
    BY <1>1, <2>2 DEF HandoffRow
  <2>5. QED
    BY <1>2, <2>1, <2>3, <2>4
<1>6. CASE AckActive(s)
  <2>1. row' = row /\ handoff' = [handoff EXCEPT ![s] = NoHandoff]
    BY <1>6 DEF AckActive
  <2>2. NoHandoff \in HandoffRow /\ NoHandoff.kind = "none"
    BY DEF NoHandoff, HandoffRow
  <2>3. QED
    BY <1>1, <1>2, <2>1, <2>2
<1>7. QED
  BY <1>3, <1>4, <1>5, <1>6 DEF Execute

LEMMA RowsAreOK == FleetOK /\ [Next]_vars => RowsOK' /\ SourcesOwn'
<1> SUFFICES ASSUME FleetOK, [Next]_vars PROVE RowsOK' /\ SourcesOwn'
  OBVIOUS
<1>1. ASSUME NEW i \in Instance, Join(i) \/ Settle(i) \/ Crash(i) \/ Lapse(i) \/ Plan(i)
      PROVE  RowsStill
  BY <1>1 DEF Join, Settle, Crash, Lapse, Plan, RowsStill
<1>2. ASSUME ReadMembers \/ ReadHandoffs \/ PlanMoves PROVE RowsStill
  BY <1>2 DEF ReadMembers, ReadHandoffs, PlanMoves, RowsStill
<1>3. CASE UNCHANGED vars
  BY <1>3, RowsStay DEF vars, RowsStill
<1>4. QED
  BY <1>1, <1>2, <1>3, RowsStay, LeaveRows, ClaimRows, RecoverRows, InsertRows, ExecuteRows
     DEF Next, Refresh, Coordinate

\* How the coordinator's pass goes on.
LEMMA CoordIsOK == FleetOK /\ [Next]_vars => CoordOK'
<1> SUFFICES ASSUME FleetOK, [Next]_vars PROVE CoordOK'
  OBVIOUS
<1>1. CASE coord' = coord
  BY <1>1 DEF FleetOK, CoordOK, Nodes
<1>2. ASSUME NEW i \in Instance,
             Join(i) \/ Settle(i) \/ Crash(i) \/ Leave(i) \/ Lapse(i) \/ Refresh(i)
      PROVE  coord' = coord
  BY <1>2 DEF Join, Settle, Crash, Leave, Lapse, Refresh, Plan, Claim
<1>3. ASSUME NEW s \in Slot, Begin(s) \/ Drained(s) \/ AckActive(s) PROVE coord' = coord
  BY <1>3 DEF Begin, Drained, AckActive
<1>4. ASSUME NEW s \in Slot, Transfer(s), coord' # coord PROVE CoordOK'
  <2>1. coord' = [coord EXCEPT !.pending = handoff'] /\ coord.at = "plan"
    BY <1>4 DEF Transfer
  <2>2. {"at", "members", "settled", "pending"} \subseteq DOMAIN coord
    BY <2>1 DEF FleetOK, CoordOK
  <2>3. coord'.at = "plan" /\ coord'.members = coord.members /\ DOMAIN coord' = DOMAIN coord
    BY <2>1, <2>2
  <2>4. QED
    BY <2>1, <2>2, <2>3 DEF FleetOK, CoordOK, Nodes
<1>5. CASE ReadMembers
  <2>1. coord' = [at |-> "recover", members |-> live, settled |-> stable]
    BY <1>5 DEF ReadMembers
  <2>2. coord'.at = "recover" /\ coord'.members = live
        /\ {"at", "members", "settled"} \subseteq DOMAIN coord'
    BY <2>1
  <2>3. QED
    BY <2>2 DEF FleetOK, MembersOK, CoordOK, Nodes
<1>6. CASE Recover
  <2>1. coord' = [coord EXCEPT !.at = "read"] /\ coord.at = "recover"
    BY <1>6 DEF Recover
  <2>2. {"at", "members", "settled"} \subseteq DOMAIN coord
    BY <2>1 DEF FleetOK, CoordOK
  <2>3. coord'.at = "read" /\ coord'.members = coord.members
    BY <2>1, <2>2
  <2>4. QED
    BY <2>1, <2>3 DEF FleetOK, CoordOK, Nodes
<1>7. CASE ReadHandoffs
  <2>1. CASE coord' = [at |-> "idle"]
    BY <2>1 DEF CoordOK
  <2>2. CASE coord' = [at |-> "plan", members |-> coord.members, settled |-> coord.settled,
                       pending |-> handoff]
    <3>1. coord'.at = "plan" /\ coord'.members = coord.members
          /\ {"at", "members", "settled", "pending"} \subseteq DOMAIN coord'
      BY <2>2
    <3>2. coord.at = "read"
      BY <1>7 DEF ReadHandoffs
    <3>3. QED
      BY <3>1, <3>2 DEF FleetOK, CoordOK, Nodes
  <2>3. QED
    BY <1>7, <2>1, <2>2 DEF ReadHandoffs
<1>8. CASE PlanMoves
  <2> DEFINE limit == Min({BatchSlots, MaxPlanned - Count(coord.pending)})
             plans == Plans(coord.members, coord.settled, coord.pending, limit)
  <2>1. coord' = (IF plans = {} THEN [at |-> "idle"] ELSE [at |-> "insert", plans |-> plans])
        /\ coord.at = "plan"
    BY <1>8 DEF PlanMoves
  <2>2. plans # {} => \A m \in plans : m \in Move /\ m.source # m.target
    <3>1. coord.members \subseteq Instance /\ IsFiniteSet(Nodes(coord.members))
      BY <2>1 DEF FleetOK, CoordOK
    <3> HIDE DEF limit
    <3>2. plans # {} => PlanFacts(Admitted(coord.members, coord.settled), row, coord.pending, plans)
      BY <3>1, PlansAreOK DEF FleetOK, RowsOK
    <3> HIDE DEF plans
    <3>3. QED
      BY <3>2 DEF PlanFacts
  <2> HIDE DEF plans
  <2>3. CASE plans = {}
    BY <2>1, <2>3 DEF CoordOK
  <2>4. CASE plans # {}
    <3>1. coord'.at = "insert" /\ coord'.plans = plans
      BY <2>1, <2>4
    <3>2. QED
      BY <2>2, <2>4, <3>1 DEF CoordOK
  <2>5. QED
    BY <2>3, <2>4
<1>9. CASE Insert
  <2>1. coord' = [at |-> "idle"]
    BY <1>9 DEF Insert
  <2>2. QED
    BY <2>1 DEF CoordOK
<1>10. CASE UNCHANGED vars
  BY <1>1, <1>10 DEF vars
<1>11. QED
  BY <1>1, <1>2, <1>3, <1>4, <1>5, <1>6, <1>7, <1>8, <1>9, <1>10
     DEF Next, Coordinate, Execute

LEMMA MovedAreSlots == FleetOK /\ [Next]_vars => (moved \subseteq Slot)'
<1> SUFFICES ASSUME FleetOK, [Next]_vars PROVE moved' \subseteq Slot
  OBVIOUS
<1>1. CASE moved' = moved \/ moved' = {}
  BY <1>1 DEF FleetOK
<1>2. ASSUME NEW i \in Instance,
             Join(i) \/ Settle(i) \/ Crash(i) \/ Leave(i) \/ Lapse(i) \/ Refresh(i)
      PROVE  moved' = moved \/ moved' = {}
  BY <1>2 DEF Join, Settle, Crash, Leave, Lapse, Refresh, Plan, Claim, Change, Calm, Disturbed
<1>3. ASSUME NEW s \in Slot, Execute(s) PROVE moved' = moved \/ moved' = {}
  BY <1>3 DEF Execute, Begin, Drained, Transfer, AckActive, Calm, Disturbed
<1>4. CASE ReadMembers \/ Recover \/ ReadHandoffs \/ PlanMoves
  BY <1>1, <1>4 DEF ReadMembers, Recover, ReadHandoffs, PlanMoves, Calm, Disturbed
<1>5. CASE Insert
  <2> DEFINE admitted == {p \in coord.plans :
                        /\ row[p.slot] = [owner |-> p.source, state |-> "OWNED"]
                        /\ {p.source, p.target} \subseteq live
                        /\ handoff[p.slot] = NoHandoff}
             S == IF Count(handoff) + Cardinality(coord.plans) > MaxPlanned THEN {}
                  ELSE {p.slot : p \in admitted}
  <2>1. coord.at = "insert" /\ (moved' = moved \cup S \/ moved' = moved)
    BY <1>5 DEF Insert
  <2>2. \A p \in coord.plans : p.slot \in Slot
    BY <2>1 DEF FleetOK, CoordOK, Move
  <2>3. S \subseteq Slot
    BY <2>2
  <2> HIDE DEF S
  <2>4. QED
    BY <2>1, <2>3 DEF FleetOK
<1>6. CASE UNCHANGED vars
  BY <1>1, <1>6 DEF vars
<1>7. QED
  BY <1>1, <1>2, <1>3, <1>4, <1>5, <1>6 DEF Next, Coordinate

LEMMA FleetIsOK == FleetOK /\ [Next]_vars => FleetOK'
  BY RowsAreOK, CoordIsOK, MembersStay, MovedAreSlots DEF FleetOK

LEMMA FleetBegins == Init => FleetOK
<1> SUFFICES ASSUME Init PROVE FleetOK
  OBVIOUS
<1>1. Unowned \in OwnerRow /\ NoHandoff \in HandoffRow /\ NoHandoff.kind = "none"
  BY DEF Unowned, OwnerRow, NoHandoff, HandoffRow
<1>2. RowsOK /\ SourcesOwn
  BY <1>1 DEF Init, RowsOK, SourcesOwn
<1>3. coord.at = "idle"
  BY DEF Init
<1>4. CoordOK
  BY <1>3 DEF CoordOK
<1>5. MembersOK /\ moved \subseteq Slot
  BY FS_EmptySet DEF Init, MembersOK, Nodes
<1>6. QED
  BY <1>2, <1>4, <1>5 DEF FleetOK

-----------------------------------------------------------------------------
\* Claims.

\* Fewer parts are larger parts, or leave more over.
LEMMA FewerShareMore ==
    ASSUME NEW b \in Nat, NEW c \in Nat, NEW q \in Nat, NEW r \in Nat, NEW p \in Nat,
           NEW t \in Nat, c <= b, t < c, b * q + r = c * p + t
    PROVE  q <= p /\ (q = p => r <= t)
<1>1. PICK d \in Nat : b = c + d
  <2>1. b - c \in Nat /\ b = c + (b - c)
    OBVIOUS
  <2>2. QED
    BY <2>1
<1>2. b * q = c * q + d * q /\ d * q \in Nat /\ c * q \in Nat
  BY <1>1
<1>3. CASE p < q
  <2>1. PICK e \in Nat : q = p + 1 + e
    <3>1. q - p - 1 \in Nat /\ q = p + 1 + (q - p - 1)
      BY <1>3
    <3>2. QED
      BY <3>1
  <2>2. c * q = c * p + c + c * e /\ c * e \in Nat /\ c * p \in Nat
    BY <2>1
  <2>3. QED
    BY <1>2, <2>2
<1>4. CASE q = p
  BY <1>2, <1>4
<1>5. QED
  BY <1>3, <1>4

\* A node's quota grows when others go.
LEMMA QuotaGrows ==
    ASSUME NEW N, N \subseteq Nat, IsFiniteSet(N), NEW P, P \subseteq N, NEW n \in P
    PROVE  /\ Quota(N, n) \in Nat /\ Quota(P, n) \in Nat
           /\ Quota(N, n) <= Quota(P, n)
<1>1. IsFiniteSet(P) /\ Before(N, n) \subseteq N /\ Before(P, n) \subseteq Before(N, n)
  BY FS_Subset DEF Before
<1>2. IsFiniteSet(Before(N, n)) /\ IsFiniteSet(Before(P, n))
  BY <1>1, FS_Subset
<1>3. PICK b \in Nat, c \in Nat, i \in Nat, j \in Nat :
         /\ b = Cardinality(N) /\ c = Cardinality(P)
         /\ i = Cardinality(Before(N, n)) /\ j = Cardinality(Before(P, n))
  BY <1>1, <1>2, FS_CardinalityType
<1>4. 0 < c /\ c <= b /\ j <= i
  <2>1. c # 0
    BY <1>1, <1>3, FS_EmptySet
  <2>2. c <= b
    BY <1>1, <1>3, FS_Subset
  <2>3. j <= i
    BY <1>1, <1>2, <1>3, FS_Subset
  <2>4. QED
    BY <2>1, <2>2, <2>3
<1>5. SlotCount \in Nat /\ 0 < b
  BY <1>4, PlacementAssumption
<1>6. PICK q \in Nat, r \in Nat, p \in Nat, t \in Nat :
         /\ q = SlotCount \div b /\ r = SlotCount % b /\ SlotCount = b * q + r
         /\ p = SlotCount \div c /\ t = SlotCount % c /\ SlotCount = c * p + t /\ t < c
  <2>1. /\ SlotCount \div b \in Nat /\ SlotCount % b \in Nat
        /\ SlotCount = b * (SlotCount \div b) + (SlotCount % b)
    BY <1>5, DivisionIs
  <2>2. /\ SlotCount \div c \in Nat /\ SlotCount % c \in Nat /\ SlotCount % c < c
        /\ SlotCount = c * (SlotCount \div c) + (SlotCount % c)
    BY <1>4, <1>5, DivisionIs
  <2>3. QED
    BY <2>1, <2>2
<1>7. q <= p /\ (q = p => r <= t)
  <2>1. b * q + r = c * p + t /\ c <= b /\ t < c
    BY <1>4, <1>6
  <2>2. QED
    BY <2>1, FewerShareMore
<1>8. Quota(N, n) = q + (IF i < r THEN 1 ELSE 0)
  BY <1>3, <1>6, QuotaIs
<1>9. Quota(P, n) = p + (IF j < t THEN 1 ELSE 0)
  BY <1>3, <1>6, QuotaIs
<1>10. QED
  BY <1>4, <1>7, <1>8, <1>9

OneEach == \A i, j \in live : NodeOf(i) = NodeOf(j) => i = j

\* A handoff that was not begun leaves its slot owned, and a release is a drain.
PhasesOK ==
    \A s \in Slot :
        /\ handoff[s] # NoHandoff => handoff[s].phase # "none"
        /\ handoff[s].kind = "RELEASE" => handoff[s].phase = "DRAINING"
        /\ handoff[s].phase = "PLANNED" => handoff[s].kind = "TRANSFER" /\ row[s].state = "OWNED"

MembershipOK ==
    /\ pass \in [Instance -> SUBSET Slot]
    /\ informed \subseteq live
    /\ live \cap lapsed = {}
    /\ OneEach

\* What i has and what it is about to claim is within its quota.
Fits(i) ==
    Cardinality(KeptBy(live, NodeOf(i)) \cup pass[i]) <= Quota(Nodes(live), NodeOf(i))

PlansFit == \A i \in informed : Fits(i)

\* The step adds no slot to what node n has.
Spares(n) == \A s \in Slot : s \in KeptBy(live, n)' => s \in KeptBy(live, n)

LEMMA PhasesAreOK == FleetOK /\ PhasesOK /\ [Next]_vars => PhasesOK'
<1> SUFFICES ASSUME FleetOK, PhasesOK, [Next]_vars PROVE PhasesOK'
  OBVIOUS
<1>1. /\ NoHandoff \in HandoffRow /\ NoHandoff.kind = "none" /\ NoHandoff.phase = "none"
  BY DEF NoHandoff, HandoffRow
<1>2. /\ \A s \in Slot : row[s] \in OwnerRow /\ handoff[s] \in HandoffRow
      /\ row = [s \in Slot |-> row[s]] /\ handoff = [s \in Slot |-> handoff[s]]
  BY DEF FleetOK, RowsOK
<1>3. CASE RowsStill
  BY <1>3 DEF RowsStill, PhasesOK
<1>4. ASSUME NEW i \in Instance, Leave(i) PROVE PhasesOK'
  <2> DEFINE S == {s \in Slot : row[s].owner = i /\ handoff[s] = NoHandoff}
             r == [NoHandoff EXCEPT !.kind = "RELEASE", !.source = i, !.phase = "DRAINING"]
  <2>1. \A s \in Slot : IF s \in S THEN handoff'[s] = r
                        ELSE handoff'[s] = handoff[s] /\ row'[s] = row[s]
    BY <1>4 DEF Leave
  <2>2. r.kind = "RELEASE" /\ r.phase = "DRAINING"
    BY DEF NoHandoff
  <2> HIDE DEF S, r
  <2>3. QED
    BY <2>1, <2>2 DEF PhasesOK
<1>5. ASSUME NEW i \in Instance, Claim(i) PROVE PhasesOK'
  <2>1. \A s \in Slot : \/ handoff'[s] = NoHandoff
                        \/ handoff'[s] = handoff[s] /\ row'[s] = row[s]
    BY <1>5 DEF Claim
  <2>2. QED
    BY <1>1, <2>1 DEF PhasesOK
<1>6. CASE Recover
  <2>1. PICK freed : /\ handoff' = [s \in Slot |-> IF s \in freed THEN NoHandoff
                                                   ELSE Recovered(s, coord.members)]
                     /\ row' = [s \in Slot |-> IF s \in freed THEN Unowned ELSE row[s]]
    BY <1>6 DEF Recover
  <2> SUFFICES ASSUME NEW s \in Slot
               PROVE  \/ handoff'[s] = NoHandoff
                      \/ handoff'[s] = handoff[s] /\ row'[s] = row[s]
                      \/ handoff'[s].phase = "DRAINING"
    BY <1>1 DEF PhasesOK
  <2> DEFINE h == handoff[s]
             others == {i \in coord.members : i # h.source /\ i \in live}
             t == CHOOSE i \in others : \A j \in others : NodeOf(i) <= NodeOf(j)
             release == [h EXCEPT !.kind = "RELEASE", !.target = None]
             retargeted == [h EXCEPT !.ready = FALSE, !.target = t]
  <2>2. CASE s \notin freed
    <3>1. row'[s] = row[s] /\ handoff'[s] = Recovered(s, coord.members)
      BY <2>1, <2>2
    <3>2. \/ Recovered(s, coord.members) = h
          \/ Recovered(s, coord.members) = NoHandoff
          \/ /\ h # NoHandoff /\ h.phase # "PLANNED" /\ h.phase # "TRANSFERRED"
             /\ \/ Recovered(s, coord.members) = release
                \/ Recovered(s, coord.members) = retargeted
      BY DEF Recovered
    <3> HIDE DEF t
    <3>3. release.phase = h.phase /\ retargeted.phase = h.phase
      BY <1>2 DEF HandoffRow
    <3>4. h \in HandoffRow /\ (h # NoHandoff => h.phase # "none")
      BY <1>2 DEF PhasesOK
    <3> HIDE DEF h, release, retargeted
    <3>5. h # NoHandoff /\ h.phase # "PLANNED" /\ h.phase # "TRANSFERRED" => h.phase = "DRAINING"
      BY <3>4 DEF HandoffRow
    <3>6. QED
      BY <3>1, <3>2, <3>3, <3>5 DEF h
  <2>3. CASE s \in freed
    BY <2>1, <2>3
  <2>4. QED
    BY <2>2, <2>3
<1>7. CASE Insert
  <2>1. row' = row
    BY <1>7 DEF Insert
  <2>2. ASSUME NEW s \in Slot
        PROVE  \/ handoff'[s] = handoff[s] /\ row'[s] = row[s]
               \/ /\ handoff'[s].kind = "TRANSFER" /\ handoff'[s].phase = "PLANNED"
                  /\ row'[s].state = "OWNED"
    <3>1. CASE handoff'[s] = handoff[s]
      BY <2>1, <3>1
    <3>2. CASE \E p \in coord.plans : /\ row[s] = [owner |-> p.source, state |-> "OWNED"]
                                      /\ handoff'[s] = Fresh(p)
      BY <2>1, <3>2 DEF Fresh
    <3>3. QED
      BY <1>7, <3>1, <3>2, InsertIs
  <2>3. QED
    BY <2>2 DEF PhasesOK
<1>8. ASSUME NEW s \in Slot, Execute(s) PROVE PhasesOK'
  <2>1. \A t \in Slot : t # s => row'[t] = row[t] /\ handoff'[t] = handoff[t]
    BY <1>2, <1>8 DEF Execute, Begin, Drained, Transfer, AckActive
  <2>2. /\ handoff'[s] # NoHandoff => handoff'[s].phase # "none"
        /\ handoff'[s].kind = "RELEASE" => handoff'[s].phase = "DRAINING"
        /\ handoff'[s].phase # "PLANNED"
    <3>1. CASE Begin(s)
      <4>1. handoff'[s] = [handoff[s] EXCEPT !.phase = "DRAINING"]
        BY <1>2, <3>1 DEF Begin
      <4>2. QED
        BY <1>2, <4>1 DEF HandoffRow
    <3>2. CASE Drained(s)
      <4>1. handoff'[s] = [handoff[s] EXCEPT !.ready = TRUE] /\ handoff[s].phase = "DRAINING"
        BY <1>2, <3>2 DEF Drained
      <4>2. QED
        BY <1>2, <4>1 DEF HandoffRow
    <3>3. CASE Transfer(s)
      <4>1. handoff'[s] = [handoff[s] EXCEPT !.phase = "TRANSFERRED"]
            /\ handoff[s].kind = "TRANSFER"
        BY <1>2, <3>3 DEF Transfer
      <4>2. handoff'[s].phase = "TRANSFERRED" /\ handoff'[s].kind = "TRANSFER"
        BY <1>2, <4>1 DEF HandoffRow
      <4>3. QED
        BY <4>2
    <3>4. CASE AckActive(s)
      <4>1. handoff'[s] = NoHandoff
        BY <1>2, <3>4 DEF AckActive
      <4>2. QED
        BY <1>1, <4>1
    <3>5. QED
      BY <1>8, <3>1, <3>2, <3>3, <3>4 DEF Execute
  <2>3. QED
    BY <2>1, <2>2 DEF PhasesOK
<1>9. ASSUME NEW i \in Instance, Join(i) \/ Settle(i) \/ Crash(i) \/ Lapse(i) \/ Plan(i)
      PROVE  RowsStill
  BY <1>9 DEF Join, Settle, Crash, Lapse, Plan, RowsStill
<1>10. ASSUME ReadMembers \/ ReadHandoffs \/ PlanMoves PROVE RowsStill
  BY <1>10 DEF ReadMembers, ReadHandoffs, PlanMoves, RowsStill
<1>11. CASE UNCHANGED vars
  BY <1>3, <1>11 DEF vars, RowsStill
<1>12. QED
  BY <1>3, <1>4, <1>5, <1>6, <1>7, <1>8, <1>9, <1>10, <1>11 DEF Next, Refresh, Coordinate

LEMMA MembershipIsOK == MembersOK /\ MembershipOK /\ [Next]_vars => MembershipOK'
<1> SUFFICES ASSUME MembersOK, MembershipOK, [Next]_vars PROVE MembershipOK'
  OBVIOUS
<1>1. live \subseteq Instance /\ pass \in [Instance -> SUBSET Slot] /\ informed \subseteq live
      /\ live \cap lapsed = {} /\ OneEach
  BY DEF MembersOK, MembershipOK
<1>2. CASE UNCHANGED <<pass, live, lapsed>> /\ informed' \subseteq informed
  BY <1>1, <1>2 DEF MembershipOK, OneEach
<1>3. ASSUME NEW i \in Instance, Join(i) PROVE MembershipOK'
  <2>1. /\ live' = live \cup {i} /\ informed' = {} /\ UNCHANGED <<pass, lapsed>> /\ i \notin lapsed
        /\ \A j \in Instance : NodeOf(j) = NodeOf(i) => j \notin live
    BY <1>3 DEF Join
  <2>2. OneEach'
    BY <1>1, <2>1 DEF OneEach
  <2>3. QED
    BY <1>1, <2>1, <2>2 DEF MembershipOK
<1>4. ASSUME NEW i \in Instance, Crash(i) \/ Leave(i) PROVE MembershipOK'
  <2>1. /\ live' = live \ {i} /\ informed' = informed \ {i} /\ UNCHANGED lapsed
        /\ pass' = [pass EXCEPT ![i] = {}]
    BY <1>4 DEF Crash, Leave
  <2>2. pass' \in [Instance -> SUBSET Slot] /\ OneEach'
    BY <1>1, <2>1 DEF OneEach
  <2>3. QED
    BY <1>1, <2>1, <2>2 DEF MembershipOK
<1>5. ASSUME NEW i \in Instance, Lapse(i) PROVE MembershipOK'
  <2>1. i \notin live /\ lapsed' = lapsed \cup {i} /\ UNCHANGED <<live, pass, informed>>
    BY <1>5 DEF Lapse
  <2>2. QED
    BY <1>1, <2>1 DEF MembershipOK, OneEach
<1>6. ASSUME NEW i \in Instance, Plan(i) \/ Claim(i) PROVE MembershipOK'
  <2>1. /\ \E S \in SUBSET Slot : pass' = [pass EXCEPT ![i] = S]
        /\ i \in live /\ informed' \subseteq informed \cup {i} /\ UNCHANGED <<live, lapsed>>
    <3>1. CASE Claim(i)
      BY <3>1 DEF Claim
    <3>2. CASE Plan(i)
      <4> DEFINE S == {s \in Slot : /\ Targets(live)[s] = NodeOf(i)
                                    /\ row[s].state = "DRAINING" => ReleaseReady(s)
                                    /\ ~Held(i, s)}
      <4>1. S \in SUBSET Slot
        OBVIOUS
      <4>2. pass' = [pass EXCEPT ![i] = S] /\ i \in live /\ UNCHANGED <<live, lapsed>>
            /\ informed' \subseteq informed \cup {i}
        BY <3>2 DEF Plan
      <4> HIDE DEF S
      <4>3. QED
        BY <4>1, <4>2
    <3>3. QED
      BY <1>6, <3>1, <3>2
  <2>2. pass' \in [Instance -> SUBSET Slot]
    BY <1>1, <2>1
  <2>3. QED
    BY <1>1, <2>1, <2>2 DEF MembershipOK, OneEach
<1>7. ASSUME NEW i \in Instance, Settle(i) PROVE UNCHANGED <<pass, live, lapsed, informed>>
  BY <1>7 DEF Settle
<1>8. ASSUME Coordinate PROVE UNCHANGED <<pass, live, lapsed, informed>>
  BY <1>8 DEF Coordinate, ReadMembers, Recover, ReadHandoffs, PlanMoves, Insert
<1>9. ASSUME NEW s \in Slot, Execute(s)
      PROVE  UNCHANGED <<pass, live, lapsed>> /\ informed' \subseteq informed
  BY <1>9 DEF Execute, Begin, Drained, Transfer, AckActive
<1>10. CASE UNCHANGED vars
  BY <1>2, <1>10 DEF vars
<1>11. QED
  BY <1>2, <1>3, <1>4, <1>5, <1>6, <1>7, <1>8, <1>9, <1>10 DEF Next, Refresh

\* Nodes may go and what a node has may shrink: its plan still fits.
LEMMA FitStays ==
    ASSUME FleetOK, MembershipOK, NEW i \in live, Fits(i), live' \subseteq live, i \in live',
           pass'[i] = pass[i], Spares(NodeOf(i))
    PROVE  Fits(i)'
<1> DEFINE n == NodeOf(i)
           A == KeptBy(live, n) \cup pass[i]
           B == KeptBy(live, n)' \cup pass'[i]
<1>1. i \in Instance /\ pass[i] \subseteq Slot
  BY DEF FleetOK, MembersOK, MembershipOK
<1>2. A \subseteq Slot
  BY <1>1 DEF KeptBy, Kept
<1>3. B \subseteq A
  <2>1. KeptBy(live, n)' \subseteq Slot
    BY DEF KeptBy, Kept
  <2>2. QED
    BY <2>1 DEF Spares
<1> HIDE DEF A, B
<1>4. IsFiniteSet(A) /\ Cardinality(A) \in Nat /\ Cardinality(B) \in Nat
      /\ Cardinality(B) <= Cardinality(A)
  BY <1>2, <1>3, SlotsAre, FS_Subset, FS_CardinalityType
<1>5. Nodes(live') \subseteq Nodes(live) /\ n \in Nodes(live') /\ Nodes(live) \subseteq Nat
  BY PlacementAssumption DEF Nodes, FleetOK, MembersOK, Instance, NodeOf
<1>6. IsFiniteSet(Nodes(live))
  BY DEF FleetOK, MembersOK
<1> HIDE DEF n
<1>7. /\ Quota(Nodes(live), n) \in Nat /\ Quota(Nodes(live'), n) \in Nat
      /\ Quota(Nodes(live), n) <= Quota(Nodes(live'), n)
  BY <1>5, <1>6, QuotaGrows
<1>8. Cardinality(A) <= Quota(Nodes(live), n)
  BY DEF Fits, A, n
<1>9. Cardinality(B) <= Quota(Nodes(live'), n)
  BY <1>4, <1>7, <1>8
<1>10. QED
  BY <1>9 DEF Fits, B, n, Nodes

\* A plan that gives a node a free slot leaves it within its quota.
LEMMA PlanFits ==
    ASSUME FleetOK, MembershipOK, NEW i \in Instance, Plan(i), pass'[i] # {}
    PROVE  Fits(i)'
<1> DEFINE n == NodeOf(i)
           T == Targets(live)
           K == KeptBy(live, n)
<1>1. i \in live /\ UNCHANGED <<row, handoff, live, lapsed>>
      /\ pass'[i] = {s \in Slot : /\ T[s] = n
                                  /\ row[s].state = "DRAINING" => ReleaseReady(s)
                                  /\ ~Held(i, s)}
  BY DEF Plan, MembershipOK
<1>2. Members(live)
  BY <1>1 DEF FleetOK, MembersOK, Members, Nodes
<1> HIDE DEF T
<1>3. \A s \in Kept(live) : T[s] = NodeOf(row[s].owner)
  BY <1>2, TargetsWithinQuota DEF T
<1>4. \A s \in Slot \ Kept(live) : T[s] = n
          => Cardinality(Has(T, Slot, n)) <= Quota(Nodes(live), n)
  BY <1>2, TargetsWithinQuota DEF T
<1>5. PICK s \in Slot : s \in pass'[i]
  BY <1>1
<1>6. s \notin Kept(live)
  <2> SUFFICES ASSUME s \in Kept(live) PROVE FALSE
    OBVIOUS
  <2>1. NodeOf(row[s].owner) = n /\ T[s] = n
    BY <1>1, <1>3, <1>5
  <2>2. ~(row[s].state = "DRAINING" /\ ~ReleaseReady(s))
    BY <1>1, <1>5
  <2>3. Healthy(s, live)
    BY <2>2 DEF Kept
  <2>4. row[s].owner = i /\ row[s].state = "OWNED"
    BY <1>1, <2>1, <2>3 DEF Healthy, MembershipOK, OneEach
  <2>5. row[s] = [owner |-> i, state |-> "OWNED"]
    BY <2>4 DEF FleetOK, RowsOK, OwnerRow
  <2>6. QED
    BY <1>1, <1>5, <2>5 DEF Held
<1>7. Cardinality(Has(T, Slot, n)) <= Quota(Nodes(live), n)
  BY <1>1, <1>4, <1>5, <1>6
<1>8. K \cup pass'[i] \subseteq Has(T, Slot, n) /\ Has(T, Slot, n) \subseteq Slot
  BY <1>1, <1>3 DEF KeptBy, Kept, Has
<1>9. KeptBy(live, n)' = K
  BY <1>1 DEF KeptBy, Kept, Healthy, ReleaseReady
<1> HIDE DEF K, n
<1>10. /\ Cardinality(K \cup pass'[i]) \in Nat /\ Cardinality(Has(T, Slot, n)) \in Nat
       /\ Cardinality(K \cup pass'[i]) <= Cardinality(Has(T, Slot, n))
  BY <1>8, SlotsAre, FS_Subset, FS_CardinalityType
<1>11. Quota(Nodes(live), n) \in Nat
  BY <1>2, NodesAre, QuotaType
<1>12. Cardinality(K \cup pass'[i]) <= Quota(Nodes(live), n)
  BY <1>7, <1>10, <1>11
<1>13. Nodes(live)' = Nodes(live)
  BY <1>1 DEF Nodes
<1>14. QED
  BY <1>1, <1>9, <1>12, <1>13 DEF Fits, n, Nodes

\* No step but a claim, a transfer to the node and a plan of it gives a node anything.
LEMMA StepsSpare ==
    ASSUME FleetOK, PhasesOK, MembershipOK, Next, NEW i \in informed, i \in informed'
    PROVE  Spares(NodeOf(i)) \/ Plan(i)
<1> DEFINE n == NodeOf(i)
<1>1. /\ \A s \in Slot : row[s] \in OwnerRow /\ handoff[s] \in HandoffRow
      /\ row = [s \in Slot |-> row[s]] /\ handoff = [s \in Slot |-> handoff[s]]
      /\ NoHandoff.kind = "none" /\ NoHandoff \in HandoffRow
  BY DEF FleetOK, RowsOK, NoHandoff, HandoffRow
<1>2. i \in live /\ \A j \in live : NodeOf(j) = n => j = i
  BY DEF MembershipOK, OneEach
<1> HIDE DEF n
<1>3. ASSUME UNCHANGED <<row, handoff>>, live' \subseteq live, lapsed \subseteq lapsed'
      PROVE  Spares(n)
  BY <1>3 DEF Spares, KeptBy, Kept, Healthy, ReleaseReady
<1>4. ASSUME NEW j \in Instance,
             Join(j) \/ Settle(j) \/ Crash(j) \/ Leave(j) \/ Lapse(j) \/ Refresh(j)
      PROVE  Spares(n) \/ Plan(i)
  <2>1. CASE Join(j)
    BY <2>1 DEF Join
  <2>2. CASE Settle(j) \/ Crash(j) \/ Lapse(j)
    <3>1. UNCHANGED <<row, handoff>> /\ live' \subseteq live /\ lapsed \subseteq lapsed'
      BY <2>2 DEF Settle, Crash, Lapse
    <3>2. QED
      BY <1>3, <3>1
  <2>3. CASE Leave(j)
    <3> DEFINE S == {s \in Slot : row[s].owner = j /\ handoff[s] = NoHandoff}
               r == [NoHandoff EXCEPT !.kind = "RELEASE", !.source = j, !.phase = "DRAINING"]
    <3>1. /\ j \in live /\ j # i /\ live' = live \ {j} /\ lapsed' = lapsed
          /\ \A s \in Slot : IF s \in S THEN row'[s] = [row[s] EXCEPT !.state = "DRAINING"]
                             ELSE handoff'[s] = handoff[s] /\ row'[s] = row[s]
      BY <2>3 DEF Leave
    <3>2. NodeOf(j) # n
      BY <1>2, <3>1
    <3>3. ASSUME NEW s \in S PROVE row'[s].owner = j
      BY <1>1, <3>1 DEF OwnerRow
    <3>4. \A s \in Slot : s \notin S => row'[s] = row[s] /\ handoff'[s] = handoff[s]
      BY <3>1
    <3> HIDE DEF S, r
    <3>5. QED
      BY <3>1, <3>2, <3>3, <3>4 DEF Spares, KeptBy, Kept, Healthy, ReleaseReady
  <2>4. CASE Plan(j)
    <3>1. UNCHANGED <<row, handoff, live, lapsed>>
      BY <2>4 DEF Plan
    <3>2. QED
      BY <1>3, <3>1
  <2>5. CASE Claim(j)
    <3> DEFINE S == {s \in pass[j] : Eligible(s)}
    <3>1. /\ j \in live /\ j # i /\ live' = live /\ lapsed' = lapsed
          /\ \A s \in Slot : IF s \in S THEN row'[s] = [owner |-> j, state |-> "OWNED"]
                             ELSE handoff'[s] = handoff[s] /\ row'[s] = row[s]
      BY <2>5 DEF Claim
    <3>2. NodeOf(j) # n
      BY <1>2, <3>1
    <3> HIDE DEF S
    <3>3. QED
      BY <3>1, <3>2 DEF Spares, KeptBy, Kept, Healthy, ReleaseReady
  <2>6. QED
    BY <1>4, <2>1, <2>2, <2>3, <2>4, <2>5 DEF Refresh
<1>5. ASSUME ReadMembers \/ ReadHandoffs \/ PlanMoves PROVE Spares(n)
  <2>1. UNCHANGED <<row, handoff, live, lapsed>>
    BY <1>5 DEF ReadMembers, ReadHandoffs, PlanMoves
  <2>2. QED
    BY <1>3, <2>1
<1>6. ASSUME Recover PROVE Spares(n)
  <2>1. PICK freed : /\ handoff' = [s \in Slot |-> IF s \in freed THEN NoHandoff
                                                   ELSE Recovered(s, coord.members)]
                     /\ row' = [s \in Slot |-> IF s \in freed THEN Unowned ELSE row[s]]
                     /\ live' = live /\ lapsed' = lapsed
    BY <1>6 DEF Recover
  <2>2. ASSUME NEW s \in Slot, s \in freed PROVE row'[s].state = "UNOWNED"
    BY <2>1, <2>2 DEF Unowned
  <2>3. ASSUME NEW s \in Slot, s \notin freed
        PROVE  row'[s] = row[s] /\ (ReleaseReady(s) => handoff'[s] = handoff[s])
    <3>1. ReleaseReady(s) => handoff[s].phase = "DRAINING" /\ handoff[s].kind = "RELEASE"
      BY DEF PhasesOK, ReleaseReady
    <3>2. ReleaseReady(s) => Recovered(s, coord.members) = handoff[s]
      BY <3>1 DEF Recovered
    <3>3. QED
      BY <2>1, <2>3, <3>2
  <2>4. QED
    BY <2>1, <2>2, <2>3 DEF Spares, KeptBy, Kept, Healthy, ReleaseReady
<1>7. ASSUME Insert PROVE Spares(n)
  <2>1. UNCHANGED <<row, live, lapsed>>
    BY <1>7 DEF Insert
  <2>2. ASSUME NEW s \in Slot PROVE ReleaseReady(s) => handoff'[s] = handoff[s]
    <3>1. handoff'[s] = handoff[s] \/ handoff[s] = NoHandoff
      BY <1>7, InsertIs
    <3>2. QED
      BY <1>1, <3>1 DEF ReleaseReady
  <2>3. QED
    BY <2>1, <2>2 DEF Spares, KeptBy, Kept, Healthy, ReleaseReady
<1>8. ASSUME NEW s \in Slot, Execute(s) PROVE Spares(n)
  <2>1. /\ live' = live /\ lapsed' = lapsed
        /\ \A t \in Slot : t # s => row'[t] = row[t] /\ handoff'[t] = handoff[t]
    BY <1>1, <1>8 DEF Execute, Begin, Drained, Transfer, AckActive
  <2>2. s \in KeptBy(live, n)' => s \in KeptBy(live, n)
    <3>1. CASE Begin(s)
      <4>1. /\ row'[s] = [row[s] EXCEPT !.state = "DRAINING"]
            /\ handoff[s].phase = "PLANNED" /\ handoff[s].source \in live
        BY <1>1, <3>1 DEF Begin
      <4>2. row'[s].owner = row[s].owner
        BY <1>1, <4>1 DEF OwnerRow
      <4>3. row[s].state = "OWNED" /\ row[s].owner = handoff[s].source
        BY <4>1 DEF PhasesOK, FleetOK, SourcesOwn
      <4>4. Healthy(s, live)
        BY <4>1, <4>3 DEF Healthy, MembershipOK
      <4>5. QED
        BY <4>2, <4>4 DEF KeptBy, Kept
    <3>2. CASE Drained(s)
      <4>1. row' = row /\ handoff'[s] = [handoff[s] EXCEPT !.ready = TRUE]
        BY <1>1, <3>2 DEF Drained
      <4>2. ReleaseReady(s) => ReleaseReady(s)'
        BY <1>1, <4>1 DEF ReleaseReady, HandoffRow
      <4>3. QED
        BY <2>1, <4>1, <4>2 DEF KeptBy, Kept, Healthy
    <3>3. CASE Transfer(s)
      <4>1. /\ row'[s] = [owner |-> handoff[s].target, state |-> "OWNED"]
            /\ handoff[s].target \in live /\ informed' = informed \ {handoff[s].target}
        BY <1>1, <3>3 DEF Transfer
      <4>2. NodeOf(row'[s].owner) # n
        BY <1>2, <4>1
      <4>3. QED
        BY <4>2 DEF KeptBy
    <3>4. CASE AckActive(s)
      <4>1. row' = row /\ handoff[s].phase = "TRANSFERRED"
        BY <3>4 DEF AckActive
      <4>2. ~ReleaseReady(s)
        BY <4>1 DEF PhasesOK, ReleaseReady
      <4>3. QED
        BY <2>1, <4>1, <4>2 DEF KeptBy, Kept, Healthy
    <3>5. QED
      BY <1>8, <3>1, <3>2, <3>3, <3>4 DEF Execute
  <2>3. ASSUME NEW t \in Slot, t # s, t \in KeptBy(live, n)' PROVE t \in KeptBy(live, n)
    BY <2>1, <2>3 DEF KeptBy, Kept, Healthy, ReleaseReady
  <2>4. QED
    BY <2>2, <2>3 DEF Spares
<1>9. QED
  BY <1>4, <1>5, <1>6, <1>7, <1>8 DEF Next, Coordinate, n

\* Which plan an instance has, and when it is informed.
LEMMA PassesAre ==
    ASSUME MembershipOK, Next, NEW i \in Instance, i \in informed'
    PROVE  \/ Plan(i) /\ pass'[i] # {}
           \/ i \in informed /\ pass'[i] = pass[i] /\ live' \subseteq live /\ i \in live'
<1>1. pass = [j \in Instance |-> pass[j]] /\ informed \subseteq live
  BY DEF MembershipOK
<1>2. ASSUME NEW j \in Instance, Join(j) PROVE FALSE
  BY <1>2 DEF Join
<1>3. ASSUME NEW j \in Instance, Crash(j) \/ Leave(j) \/ Claim(j)
      PROVE  i # j /\ i \in informed /\ pass'[i] = pass[i] /\ live' \subseteq live /\ i \in live'
  BY <1>1, <1>3 DEF Crash, Leave, Claim
<1>4. ASSUME NEW j \in Instance, Settle(j) \/ Lapse(j)
      PROVE  i \in informed /\ pass' = pass /\ live' = live
  BY <1>4 DEF Settle, Lapse
<1>5. ASSUME NEW j \in Instance, Plan(j), ~(Plan(i) /\ pass'[i] # {})
      PROVE  i \in informed /\ pass'[i] = pass[i] /\ live' = live
  <2>1. /\ live' = live /\ pass[j] = {} /\ \A k \in Instance : k # j => pass'[k] = pass[k]
        /\ i # j => i \in informed
        /\ pass'[j] = {} => i \in informed
    BY <1>1, <1>5 DEF Plan
  <2>2. QED
    BY <1>5, <2>1
<1>6. ASSUME Coordinate PROVE i \in informed /\ pass' = pass /\ live' = live
  BY <1>6 DEF Coordinate, ReadMembers, Recover, ReadHandoffs, PlanMoves, Insert
<1>7. ASSUME NEW s \in Slot, Execute(s) PROVE i \in informed /\ pass' = pass /\ live' = live
  BY <1>7 DEF Execute, Begin, Drained, Transfer, AckActive
<1>8. QED
  BY <1>1, <1>2, <1>3, <1>4, <1>5, <1>6, <1>7 DEF Next, Refresh

LEMMA PlansStayFit ==
    ASSUME FleetOK, PhasesOK, MembershipOK, PlansFit, [Next]_vars
    PROVE  PlansFit'
<1>1. CASE UNCHANGED vars
  BY <1>1 DEF vars, PlansFit, Fits, KeptBy, Kept, Healthy, ReleaseReady, Nodes
<1>2. ASSUME Next, NEW i \in informed' PROVE Fits(i)'
  <2>1. MembershipOK' /\ MembersOK'
    BY MembershipIsOK, MembersStay DEF FleetOK
  <2>2. i \in Instance
    BY <1>2, <2>1 DEF MembershipOK, MembersOK
  <2>3. CASE Plan(i) /\ pass'[i] # {}
    BY <2>2, <2>3, PlanFits
  <2>4. CASE ~(Plan(i) /\ pass'[i] # {})
    <3>1. i \in informed /\ pass'[i] = pass[i] /\ live' \subseteq live /\ i \in live'
      BY <1>2, <2>2, <2>4, PassesAre
    <3>2. i \in live /\ Fits(i)
      BY <3>1 DEF MembershipOK, PlansFit
    <3>3. CASE Spares(NodeOf(i))
      BY <3>1, <3>2, <3>3, FitStays
    <3>4. CASE Plan(i)
      <4>1. UNCHANGED <<row, handoff, live, lapsed>>
        BY <3>4 DEF Plan
      <4>2. Spares(NodeOf(i))
        BY <4>1 DEF Spares, KeptBy, Kept, Healthy, ReleaseReady
      <4>3. QED
        BY <3>3, <4>2
    <3>5. QED
      BY <1>2, <3>1, <3>3, <3>4, StepsSpare
  <2>5. QED
    BY <2>3, <2>4
<1>3. QED
  BY <1>1, <1>2 DEF PlansFit

\* A claim takes nothing that the plan did not give.
LEMMA ClaimFits ==
    ASSUME FleetOK, MembershipOK, PlansFit, NEW i \in informed, Claim(i)
    PROVE  Cardinality(KeptBy(live, NodeOf(i))') <= Quota(Nodes(live), NodeOf(i))
<1> DEFINE n == NodeOf(i)
           A == KeptBy(live, n) \cup pass[i]
           B == KeptBy(live, n)'
           S == {s \in pass[i] : Eligible(s)}
<1>1. i \in live /\ i \in Instance /\ pass[i] \subseteq Slot
  BY DEF FleetOK, MembersOK, MembershipOK
<1>2. A \subseteq Slot /\ B \subseteq Slot
  BY <1>1 DEF KeptBy, Kept
<1>3. /\ live' = live /\ lapsed' = lapsed
      /\ \A s \in Slot : s \notin pass[i] => handoff'[s] = handoff[s] /\ row'[s] = row[s]
  BY DEF Claim
<1>4. B \subseteq A
  BY <1>3 DEF KeptBy, Kept, Healthy, ReleaseReady
<1> HIDE DEF A, B
<1>5. Cardinality(A) \in Nat /\ Cardinality(B) \in Nat /\ Cardinality(B) <= Cardinality(A)
  BY <1>2, <1>4, SlotsAre, FS_Subset, FS_CardinalityType
<1>6. Members(live)
  BY <1>1 DEF FleetOK, MembersOK, Members
<1>7. Quota(Nodes(live), n) \in Nat
  BY <1>6, NodesAre, QuotaType
<1>8. Cardinality(A) <= Quota(Nodes(live), n)
  BY DEF PlansFit, Fits, A
<1>9. QED
  BY <1>5, <1>7, <1>8 DEF B

\* For any fleet, a claim leaves its node within its quota, however many slots were
\* claimed, moved and recovered and whoever crashed or left since the plan
\* (planTargetsFromSegments, NodeManager.Refresh), unless another node joined or a slot
\* was transferred to this one.  What a node has and is about to claim fits its quota
\* when it plans, because the quotas add up to the slots; then only its own claims give
\* it slots, and its quota grows as nodes go.
THEOREM ClaimsFitQuotas == Spec => ClaimsWithinQuota
<1> DEFINE Inv == FleetOK /\ PhasesOK /\ MembershipOK /\ PlansFit
           Fitting == \A i \in informed : Claim(i) /\ row' # row =>
                        Cardinality(KeptBy(live, NodeOf(i))') <= Quota({NodeOf(j) : j \in live}, NodeOf(i))
<1>1. Init => Inv
  <2> SUFFICES ASSUME Init PROVE PhasesOK /\ MembershipOK /\ PlansFit
    BY FleetBegins
  <2>1. NoHandoff.kind = "none" /\ NoHandoff.phase = "none"
    BY DEF NoHandoff
  <2>2. PhasesOK
    BY <2>1 DEF Init, PhasesOK
  <2>3. QED
    BY <2>2 DEF Init, MembershipOK, OneEach, PlansFit
<1>2. Inv /\ [Next]_vars => Inv'
  BY FleetIsOK, PhasesAreOK, MembershipIsOK, PlansStayFit DEF FleetOK
<1>3. Inv /\ [Next]_vars => [Fitting]_vars
  BY ClaimFits DEF Nodes
<1>4. QED
  BY <1>1, <1>2, <1>3, PTL DEF Spec, ClaimsWithinQuota

-----------------------------------------------------------------------------
\* Quiet stretches.

\* Who has slot s, or will have it.
Dest(rw, h, s) == IF Moving(h, s) THEN h[s].target ELSE rw[s].owner

\* The slots of S are, or will be, with members of A within their quotas.
Settling(A, rw, h, S) ==
    \A s \in S : /\ Dest(rw, h, s) \in A
                 /\ LoadOf(rw, h, Dest(rw, h, s)) <= QuotaOf(A, Dest(rw, h, s))

QuietOK ==
    /\ live \subseteq stable
    /\ coord.at \in {"recover", "read", "plan"}
        => coord.members = live /\ live \subseteq coord.settled
    /\ coord.at = "plan" => SameView(coord.pending, handoff)
    /\ coord.at = "insert" => /\ PlanFacts(live, row, handoff, coord.plans)
                              /\ \A m \in coord.plans : m.slot \notin moved
    /\ Settling(live, row, handoff, moved)

Stretch == IF quiet THEN QuietOK ELSE moved = {}

\* What a handoff under way does to rows and handoffs, and to nothing else.
Advances ==
    /\ \A i : LoadOf(row', handoff', i) = LoadOf(row, handoff, i)
    /\ \A s \in Slot : Dest(row', handoff', s) = Dest(row, handoff, s)
    /\ \A s \in Slot : handoff[s] = NoHandoff => handoff'[s] = NoHandoff /\ row'[s] = row[s]

LEMMA SameAdvances ==
    ASSUME SameOwners(row, row'), SameView(handoff, handoff'),
           \A s \in Slot : handoff[s] = NoHandoff => row'[s] = row[s]
    PROVE  Advances
<1>1. \A i : LoadOf(row', handoff', i) = LoadOf(row, handoff, i)
  BY SameLoads
<1>2. \A s \in Slot : Dest(row', handoff', s) = Dest(row, handoff, s)
  BY DEF Dest, SameOwners, SameView
<1>3. QED
  BY <1>1, <1>2 DEF Advances, SameView

\* Begin, Drained and AckActive change no view of the slots on their way.
LEMMA StepsAdvance ==
    ASSUME FleetOK, NEW s \in Slot, Begin(s) \/ Drained(s) \/ AckActive(s)
    PROVE  Advances /\ SameView(handoff, handoff')
<1>1. /\ row = [t \in Slot |-> row[t]] /\ handoff = [t \in Slot |-> handoff[t]]
      /\ row[s] \in OwnerRow /\ handoff[s] \in HandoffRow
  BY DEF FleetOK, RowsOK
<1>2. NoHandoff.phase = "none"
  BY DEF NoHandoff
<1> SUFFICES /\ \A t \in Slot : t # s => row'[t] = row[t] /\ handoff'[t] = handoff[t]
             /\ row'[s].owner = row[s].owner
             /\ handoff[s] # NoHandoff
             /\ Moving(handoff, s) <=> Moving(handoff', s)
             /\ Moving(handoff, s) => /\ handoff'[s].source = handoff[s].source
                                      /\ handoff'[s].target = handoff[s].target
  <2>1. SameOwners(row, row')
    BY DEF SameOwners
  <2>2. SameView(handoff, handoff')
    BY DEF SameView, Moving
  <2>3. QED
    BY <2>1, <2>2, SameAdvances
<1>3. CASE Begin(s)
  <2>1. row' = [row EXCEPT ![s].state = "DRAINING"]
        /\ handoff' = [handoff EXCEPT ![s].phase = "DRAINING"] /\ handoff[s].phase = "PLANNED"
    BY <1>3 DEF Begin
  <2>2. row'[s] = [row[s] EXCEPT !.state = "DRAINING"]
        /\ handoff'[s] = [handoff[s] EXCEPT !.phase = "DRAINING"]
    BY <1>1, <2>1
  <2>3. row'[s].owner = row[s].owner
    BY <1>1, <2>2 DEF OwnerRow
  <2>4. /\ handoff'[s].source = handoff[s].source /\ handoff'[s].target = handoff[s].target
        /\ handoff'[s].phase = "DRAINING"
    BY <1>1, <2>2 DEF HandoffRow
  <2>5. QED
    BY <1>1, <1>2, <2>1, <2>3, <2>4 DEF Moving
<1>4. CASE Drained(s)
  <2>1. row' = row /\ handoff' = [handoff EXCEPT ![s].ready = TRUE] /\ handoff[s].phase = "DRAINING"
    BY <1>4 DEF Drained
  <2>2. handoff'[s] = [handoff[s] EXCEPT !.ready = TRUE]
    BY <1>1, <2>1
  <2>3. /\ handoff'[s].source = handoff[s].source /\ handoff'[s].target = handoff[s].target
        /\ handoff'[s].phase = handoff[s].phase
    BY <1>1, <2>2 DEF HandoffRow
  <2>4. QED
    BY <1>1, <1>2, <2>1, <2>3 DEF Moving
<1>5. CASE AckActive(s)
  <2>1. row' = row /\ handoff' = [handoff EXCEPT ![s] = NoHandoff] /\ handoff[s].phase = "TRANSFERRED"
    BY <1>5 DEF AckActive
  <2>2. QED
    BY <1>1, <1>2, <2>1 DEF Moving
<1>6. QED
  BY <1>3, <1>4, <1>5

LEMMA TransferAdvances ==
    ASSUME FleetOK, NEW s \in Slot, Transfer(s)
    PROVE  Advances
<1>1. /\ row = [t \in Slot |-> row[t]] /\ handoff = [t \in Slot |-> handoff[t]]
      /\ row[s] \in OwnerRow /\ handoff[s] \in HandoffRow
  BY DEF FleetOK, RowsOK
<1>2. NoHandoff.phase = "none"
  BY DEF NoHandoff
<1>3. /\ row' = [row EXCEPT ![s] = [owner |-> handoff[s].target, state |-> "OWNED"]]
      /\ handoff' = [handoff EXCEPT ![s].phase = "TRANSFERRED"]
      /\ handoff[s].kind = "TRANSFER" /\ handoff[s].phase = "DRAINING"
  BY DEF Transfer
<1>4. /\ row'[s].owner = handoff[s].target
      /\ handoff'[s] = [handoff[s] EXCEPT !.phase = "TRANSFERRED"]
  BY <1>1, <1>3
<1>5. handoff'[s].phase = "TRANSFERRED"
  BY <1>1, <1>4 DEF HandoffRow
<1>6. row[s].owner = handoff[s].source /\ handoff[s].source # handoff[s].target
  BY <1>3 DEF FleetOK, SourcesOwn
<1>7. Moving(handoff, s) /\ ~Moving(handoff', s) /\ handoff[s] # NoHandoff
  BY <1>2, <1>3, <1>5 DEF Moving
<1>8. \A t \in Slot : t # s => row'[t] = row[t] /\ handoff'[t] = handoff[t]
  BY <1>1, <1>3
<1>9. Transferred(row, handoff, row', handoff', s)
  BY <1>4, <1>6, <1>7, <1>8 DEF Transferred
<1>10. \A i : LoadOf(row', handoff', i) = LoadOf(row, handoff, i)
  BY <1>9, TransferLoads
<1>11. \A t \in Slot : Dest(row', handoff', t) = Dest(row, handoff, t)
  BY <1>4, <1>7, <1>8 DEF Dest, Moving
<1>12. QED
  BY <1>7, <1>8, <1>10, <1>11 DEF Advances

\* Handoffs that advance keep what a quiet stretch promises.
LEMMA AdvancesKeep ==
    ASSUME FleetOK, QuietOK, Advances, UNCHANGED <<live, stable, moved, coord>>,
           coord.at # "plan" \/ SameView(handoff, handoff')
    PROVE  QuietOK'
<1>1. coord.at = "plan" => SameView(coord.pending, handoff')
  BY ViewsCompose DEF QuietOK
<1>2. coord.at = "insert" => PlanFacts(live, row', handoff', coord.plans)
  BY PlansKeep DEF QuietOK, Advances
<1>3. Settling(live, row', handoff', moved)
  BY DEF QuietOK, Settling, Advances, FleetOK
<1>4. /\ SameView(coord.pending, handoff)' <=> SameView(coord.pending, handoff')
      /\ PlanFacts(live, row, handoff, coord.plans)' <=> PlanFacts(live, row', handoff', coord.plans)
      /\ Settling(live, row, handoff, moved)' <=> Settling(live, row', handoff', moved)
  OBVIOUS
<1>5. QED
  BY <1>1, <1>2, <1>3, <1>4 DEF QuietOK

LEMMA QuietPlans ==
    ASSUME FleetOK, QuietOK, PlanMoves
    PROVE  QuietOK'
<1> DEFINE limit == Min({BatchSlots, MaxPlanned - Count(coord.pending)})
           P == Plans(coord.members, coord.settled, coord.pending, limit)
           p == coord.pending
           A == Admitted(coord.members, coord.settled)
<1>1. /\ coord' = (IF P = {} THEN [at |-> "idle"] ELSE [at |-> "insert", plans |-> P])
      /\ coord.at = "plan"
      /\ UNCHANGED <<row, handoff, live, stable, moved>>
  BY DEF PlanMoves, Calm
<1>2. Settling(live, row, handoff, moved)' /\ (live \subseteq stable)'
  BY <1>1 DEF QuietOK, Settling, Dest, LoadOf, QuotaOf, Nodes
<1>3. CASE P = {}
  <2>1. coord'.at = "idle"
    BY <1>1, <1>3
  <2>2. QED
    BY <1>2, <2>1 DEF QuietOK
<1>4. CASE P # {}
  <2>1. coord.members = live /\ live \subseteq coord.settled /\ SameView(p, handoff)
    BY <1>1 DEF QuietOK
  <2>2. A = live
    BY <2>1 DEF Admitted
  <2>3. live \subseteq Instance /\ IsFiniteSet(Nodes(live))
    BY DEF FleetOK, MembersOK
  <2> HIDE DEF limit
  <2>4. PlanFacts(A, row, p, P)
    BY <1>4, <2>1, <2>3, PlansAreOK DEF FleetOK, RowsOK
  <2> HIDE DEF A, P
  <2>5. PlanFacts(live, row, p, P)
    BY <2>2, <2>4
  <2>6. \A i : LoadOf(row, handoff, i) = LoadOf(row, p, i)
    BY <2>1, SameLoads DEF SameOwners
  <2>7. PlanFacts(live, row, handoff, P)
    BY <2>1, <2>5, <2>6, PlansKeep DEF SameView
  <2>8. \A m \in P : m.slot \notin moved
    <3> SUFFICES ASSUME NEW m \in P, m.slot \in moved PROVE FALSE
      OBVIOUS
    <3>1. /\ row[m.slot] = [owner |-> m.source, state |-> "OWNED"]
          /\ handoff[m.slot] = NoHandoff /\ m.source \in live
          /\ LoadOf(row, handoff, m.source) > QuotaOf(live, m.source)
      BY <2>7 DEF PlanFacts
    <3>2. Dest(row, handoff, m.slot) = m.source
      BY <3>1 DEF Dest, Moving
    <3>3. LoadOf(row, handoff, m.source) <= QuotaOf(live, m.source)
      BY <3>2 DEF QuietOK, Settling
    <3>4. LoadOf(row, handoff, m.source) \in Int /\ QuotaOf(live, m.source) \in Nat
      BY <2>3, <3>1, Counts, QuotaOfType
    <3>5. QED
      BY <3>1, <3>3, <3>4
  <2>9. coord'.at = "insert" /\ coord'.plans = P
    BY <1>1, <1>4
  <2>10. PlanFacts(live, row, handoff, coord.plans)'
    <3>1. PlanFacts(live', row', handoff', coord'.plans)
      BY <1>1, <2>7, <2>9
    <3>2. QED
      BY <3>1
  <2>11. \A m \in coord'.plans : m.slot \notin moved'
    BY <1>1, <2>8, <2>9
  <2>12. QED
    BY <1>2, <2>9, <2>10, <2>11 DEF QuietOK
<1>5. QED
  BY <1>3, <1>4

\* In a quiet stretch, an insertion takes all the moves or none.
LEMMA QuietInsertIs ==
    ASSUME FleetOK, QuietOK, quiet, Insert
    PROVE  \/ handoff' = handoff /\ moved' = moved
           \/ /\ Inserted(handoff, handoff', coord.plans)
              /\ moved' = moved \cup {p.slot : p \in coord.plans}
<1> DEFINE admitted == {p \in coord.plans :
                        /\ row[p.slot] = [owner |-> p.source, state |-> "OWNED"]
                        /\ {p.source, p.target} \subseteq live
                        /\ handoff[p.slot] = NoHandoff}
           plan(t) == CHOOSE p \in admitted : p.slot = t
           S == IF Count(handoff) + Cardinality(coord.plans) > MaxPlanned THEN {}
                ELSE {p.slot : p \in admitted}
<1>1. /\ handoff' = [t \in Slot |-> IF t \in S THEN Fresh(plan(t)) ELSE handoff[t]]
      /\ moved' = moved \cup S
      /\ coord.at = "insert"
  BY DEF Insert, Fresh
<1>2. PlanFacts(live, row, handoff, coord.plans)
  BY <1>1 DEF QuietOK
<1>3. admitted = coord.plans
  BY <1>2 DEF PlanFacts
<1>4. handoff = [t \in Slot |-> handoff[t]]
  BY DEF FleetOK, RowsOK
<1>5. CASE S = {}
  <2> HIDE DEF S, plan
  <2>1. QED
    BY <1>1, <1>4, <1>5
<1>6. CASE S # {}
  <2>1. S = {p.slot : p \in coord.plans}
    BY <1>3, <1>6
  <2>2. \A m, n \in coord.plans : m.slot = n.slot => m = n
    BY <1>2 DEF PlanFacts
  <2>3. \A m \in coord.plans : plan(m.slot) = m
    BY <1>3, <2>2
  <2> HIDE DEF S, plan
  <2>4. NoHandoff.phase = "none"
    BY DEF NoHandoff
  <2>5. \A m \in coord.plans : /\ m.slot \in Slot /\ ~Moving(handoff, m.slot)
                               /\ handoff'[m.slot] = Fresh(m)
    <3> TAKE m \in coord.plans
    <3>1. m.slot \in Slot /\ handoff[m.slot] = NoHandoff /\ m.slot \in S
      BY <1>2, <2>1 DEF PlanFacts, Move
    <3>2. QED
      BY <1>1, <2>3, <3>1 DEF Moving
  <2>6. \A m : /\ Fresh(m).source = m.source /\ Fresh(m).target = m.target
               /\ Fresh(m).phase = "PLANNED"
    BY DEF Fresh
  <2>7. \A s \in Slot : (\A m \in coord.plans : m.slot # s) => handoff'[s] = handoff[s]
    BY <1>1, <2>1
  <2>8. Inserted(handoff, handoff', coord.plans)
    BY <2>2, <2>4, <2>5, <2>6, <2>7 DEF Inserted, Moving
  <2>9. QED
    BY <1>1, <2>1, <2>8
<1>7. QED
  BY <1>5, <1>6

LEMMA QuietInserts ==
    ASSUME FleetOK, QuietOK, quiet, Insert
    PROVE  /\ QuietOK'
           /\ \A s \in moved : handoff'[s] = handoff[s]
<1>1. UNCHANGED <<row, live, stable>> /\ coord' = [at |-> "idle"] /\ coord.at = "insert"
  BY DEF Insert
<1>2. coord'.at = "idle"
  BY <1>1
<1>3. Settling(live, row, handoff', moved') /\ \A s \in moved : handoff'[s] = handoff[s]
  <2>1. CASE handoff' = handoff /\ moved' = moved
    BY <2>1 DEF QuietOK
  <2>2. CASE /\ Inserted(handoff, handoff', coord.plans)
             /\ moved' = moved \cup {p.slot : p \in coord.plans}
    <3> DEFINE P == coord.plans
    <3>1. PlanFacts(live, row, handoff, P) /\ \A m \in P : m.slot \notin moved
      BY <1>1 DEF QuietOK
    <3>2. \A i : LoadOf(row, handoff', i) = After(row, handoff, P, i)
      BY <2>2, InsertLoads
    <3>3. ASSUME NEW s \in moved
          PROVE  /\ handoff'[s] = handoff[s]
                 /\ Dest(row, handoff', s) \in live
                 /\ LoadOf(row, handoff', Dest(row, handoff', s))
                      <= QuotaOf(live, Dest(row, handoff', s))
      <4>1. s \in Slot /\ \A m \in P : m.slot # s
        BY <3>1 DEF FleetOK
      <4>2. handoff'[s] = handoff[s]
        BY <2>2, <4>1 DEF Inserted
      <4>3. Dest(row, handoff', s) = Dest(row, handoff, s)
        BY <4>2 DEF Dest, Moving
      <4>4. /\ Dest(row, handoff, s) \in live
            /\ LoadOf(row, handoff, Dest(row, handoff, s)) <= QuotaOf(live, Dest(row, handoff, s))
        BY DEF QuietOK, Settling
      <4>5. After(row, handoff, P, Dest(row, handoff, s)) <= QuotaOf(live, Dest(row, handoff, s))
        BY <3>1, <4>4 DEF PlanFacts
      <4>6. QED
        BY <3>2, <4>2, <4>3, <4>4, <4>5
    <3>4. ASSUME NEW m \in P
          PROVE  /\ Dest(row, handoff', m.slot) \in live
                 /\ LoadOf(row, handoff', Dest(row, handoff', m.slot))
                      <= QuotaOf(live, Dest(row, handoff', m.slot))
      <4>1. Dest(row, handoff', m.slot) = m.target
        BY <2>2 DEF Inserted, Dest
      <4>2. m.target \in live /\ After(row, handoff, P, m.target) <= QuotaOf(live, m.target)
        BY <3>1 DEF PlanFacts
      <4>3. QED
        BY <3>2, <4>1, <4>2
    <3>5. QED
      BY <2>2, <3>3, <3>4 DEF Settling
  <2>3. QED
    BY <2>1, <2>2, QuietInsertIs
<1>4. Settling(live, row, handoff, moved)'
  <2>1. Settling(live', row', handoff', moved')
    BY <1>1, <1>3
  <2>2. QED
    BY <2>1
<1>5. (live \subseteq stable)'
  BY <1>1 DEF QuietOK
<1>6. QED
  BY <1>2, <1>3, <1>4, <1>5 DEF QuietOK

-----------------------------------------------------------------------------
\* Every step.

\* What a step that leaves rows, handoffs, members and the pass alone keeps.
LEMMA QuietStays ==
    ASSUME Stretch, UNCHANGED <<row, handoff, live, coord, quiet, moved>>,
           stable \subseteq stable'
    PROVE  Stretch'
<1>1. CASE ~quiet
  BY <1>1 DEF Stretch
<1>2. CASE quiet
  <2>1. QuietOK
    BY <1>2 DEF Stretch
  <2>2. (live \subseteq stable)'
    BY <2>1 DEF QuietOK
  <2>3. /\ SameView(coord.pending, handoff)' <=> SameView(coord.pending, handoff)
        /\ PlanFacts(live, row, handoff, coord.plans)' <=> PlanFacts(live, row, handoff, coord.plans)
        /\ Settling(live, row, handoff, moved)' <=> Settling(live, row, handoff, moved)
    <3>1. /\ SameView(coord'.pending, handoff') <=> SameView(coord.pending, handoff)
          /\ PlanFacts(live', row', handoff', coord'.plans)
                <=> PlanFacts(live, row, handoff, coord.plans)
          /\ Settling(live', row', handoff', moved') <=> Settling(live, row, handoff, moved)
      OBVIOUS
    <3>2. QED
      BY <3>1
  <2>4. QED
    BY <1>2, <2>1, <2>2, <2>3 DEF QuietOK, Stretch
<1>3. QED
  BY <1>1, <1>2

\* A step that is no handoff's and no pass's ends the stretch, or keeps it.
LEMMA OthersKeep ==
    ASSUME FleetOK, Stretch, NEW i \in Instance,
           Join(i) \/ Settle(i) \/ Crash(i) \/ Leave(i) \/ Lapse(i) \/ Refresh(i)
    PROVE  Stretch'
<1>1. CASE Disturbed
  BY <1>1 DEF Disturbed, Stretch
<1>2. CASE Join(i) \/ Crash(i) \/ Leave(i)
  BY <1>1, <1>2 DEF Join, Crash, Leave, Change
<1>3. CASE Settle(i) \/ Lapse(i) \/ Plan(i)
  BY <1>3, QuietStays DEF Settle, Lapse, Plan, Calm
<1>4. CASE Claim(i)
  <2> DEFINE S == {s \in pass[i] : Eligible(s)}
  <2>1. CASE S = {}
    <3>1. /\ row' = [s \in Slot |-> row[s]] /\ handoff' = [s \in Slot |-> handoff[s]]
          /\ UNCHANGED <<live, stable, coord, quiet, moved>>
      BY <1>4, <2>1 DEF Claim
    <3>2. row' = row /\ handoff' = handoff
      BY <3>1 DEF FleetOK, RowsOK
    <3>3. QED
      BY <3>1, <3>2, QuietStays
  <2>2. CASE S # {}
    BY <1>1, <1>4, <2>2 DEF Claim
  <2>3. QED
    BY <2>1, <2>2
<1>5. QED
  BY <1>2, <1>3, <1>4 DEF Refresh

LEMMA ReadsKeep ==
    ASSUME FleetOK, Stretch, ReadMembers \/ ReadHandoffs
    PROVE  Stretch'
<1>1. UNCHANGED <<row, handoff, live, stable, moved>>
  BY DEF ReadMembers, ReadHandoffs, Calm
<1>2. Settling(live, row, handoff, moved)' <=> Settling(live, row, handoff, moved)
  <2>1. Settling(live', row', handoff', moved') <=> Settling(live, row, handoff, moved)
    BY <1>1
  <2>2. QED
    BY <2>1
<1>3. ~quiet => moved = {} /\ Settling(live, row, handoff, moved)
  BY DEF Stretch, Settling
<1>4. quiet => QuietOK
  BY DEF Stretch
<1>5. CASE ReadMembers
  <2>1. coord' = [at |-> "recover", members |-> live, settled |-> stable]
        /\ quiet' = (live \subseteq stable)
    BY <1>5 DEF ReadMembers
  <2>2. coord'.at = "recover" /\ coord'.members = live /\ coord'.settled = stable
    BY <2>1
  <2>3. CASE live \subseteq stable
    <3>1. Settling(live, row, handoff, moved)
      BY <1>3, <1>4 DEF QuietOK
    <3>2. QuietOK'
      BY <1>1, <1>2, <2>2, <2>3, <3>1 DEF QuietOK
    <3>3. QED
      BY <2>1, <2>3, <3>2 DEF Stretch
  <2>4. CASE ~(live \subseteq stable)
    BY <1>1, <1>3, <1>4, <2>1, <2>4 DEF QuietOK, Stretch
  <2>5. QED
    BY <2>3, <2>4
<1>6. CASE ReadHandoffs
  <2>1. quiet' = quiet
    BY <1>6 DEF ReadHandoffs, Calm
  <2>2. CASE ~quiet
    BY <1>1, <1>3, <2>1, <2>2 DEF Stretch
  <2>3. CASE quiet
    <3>1. coord.at = "read" /\ coord.members = live /\ live \subseteq coord.settled
      BY <1>4, <1>6, <2>3 DEF ReadHandoffs, QuietOK
    <3>2. CASE coord' = [at |-> "idle"]
      <4>1. coord'.at = "idle"
        BY <3>2
      <4>2. QuietOK'
        BY <1>1, <1>2, <1>4, <2>3, <4>1 DEF QuietOK
      <4>3. QED
        BY <2>1, <2>3, <4>2 DEF Stretch
    <3>3. CASE coord' = [at |-> "plan", members |-> coord.members, settled |-> coord.settled,
                         pending |-> handoff]
      <4>1. coord'.at = "plan" /\ coord'.members = live /\ coord'.settled = coord.settled
            /\ coord'.pending = handoff
        BY <3>1, <3>3
      <4>2. SameView(handoff, handoff)
        BY DEF SameView
      <4>3. SameView(coord.pending, handoff)'
        BY <1>1, <4>1, <4>2 DEF SameView, Moving
      <4>4. QuietOK'
        BY <1>1, <1>2, <1>4, <2>3, <3>1, <4>1, <4>3 DEF QuietOK
      <4>5. QED
        BY <2>1, <2>3, <4>4 DEF Stretch
    <3>4. QED
      BY <1>6, <3>2, <3>3 DEF ReadHandoffs
  <2>4. QED
    BY <2>2, <2>3
<1>7. QED
  BY <1>5, <1>6

LEMMA RecoverKeeps ==
    ASSUME FleetOK, Stretch, Recover
    PROVE  Stretch'
<1>1. CASE Disturbed
  BY <1>1 DEF Disturbed, Stretch
<1>2. CASE UNCHANGED <<row, handoff, quiet, moved>>
  <2>1. coord' = [coord EXCEPT !.at = "read"] /\ coord.at = "recover" /\ UNCHANGED <<live, stable>>
    BY DEF Recover
  <2>2. {"at", "members", "settled"} \subseteq DOMAIN coord
    BY <2>1 DEF FleetOK, CoordOK
  <2>3. coord'.at = "read" /\ coord'.members = coord.members /\ coord'.settled = coord.settled
    BY <2>1, <2>2
  <2>4. Settling(live', row', handoff', moved') <=> Settling(live, row, handoff, moved)
    BY <1>2, <2>1
  <2>5. CASE quiet
    <3>1. QuietOK
      BY <2>5 DEF Stretch
    <3>2. QuietOK'
      BY <2>1, <2>3, <2>4, <3>1 DEF QuietOK
    <3>3. QED
      BY <1>2, <2>5, <3>2 DEF Stretch
  <2>6. CASE ~quiet
    BY <1>2, <2>6 DEF Stretch
  <2>7. QED
    BY <2>5, <2>6
<1>3. QED
  BY <1>1, <1>2 DEF Recover

LEMMA ExecuteKeeps ==
    ASSUME FleetOK, Stretch, NEW s \in Slot, Execute(s)
    PROVE  Stretch'
<1>1. CASE Disturbed
  BY <1>1 DEF Disturbed, Stretch
<1>2. CASE ~quiet /\ UNCHANGED <<quiet, moved>>
  BY <1>2 DEF Stretch
<1>3. CASE Begin(s) \/ Drained(s) \/ AckActive(s)
  <2>1. UNCHANGED <<live, stable, moved, coord, quiet>>
    BY <1>3 DEF Begin, Drained, AckActive, Calm
  <2>2. Advances /\ SameView(handoff, handoff')
    BY <1>3, StepsAdvance
  <2>3. quiet => QuietOK'
    BY <2>1, <2>2, AdvancesKeep DEF Stretch
  <2>4. QED
    BY <1>2, <2>1, <2>3 DEF Stretch
<1>4. CASE Transfer(s) /\ coord.at = "plan"
  BY <1>1, <1>4 DEF Transfer
<1>5. CASE Transfer(s) /\ coord.at # "plan"
  <2>1. UNCHANGED <<live, stable, moved, coord, quiet>>
    BY <1>5 DEF Transfer
  <2>2. Advances
    BY <1>5, TransferAdvances
  <2>3. quiet => QuietOK'
    BY <1>5, <2>1, <2>2, AdvancesKeep DEF Stretch
  <2>4. QED
    BY <1>2, <2>1, <2>3 DEF Stretch
<1>6. QED
  BY <1>3, <1>4, <1>5 DEF Execute

LEMMA StretchKeeps == FleetOK /\ Stretch /\ [Next]_vars => Stretch'
<1> SUFFICES ASSUME FleetOK, Stretch, [Next]_vars PROVE Stretch'
  OBVIOUS
<1>1. CASE PlanMoves
  <2>1. UNCHANGED <<quiet, moved>>
    BY <1>1 DEF PlanMoves, Calm
  <2>2. quiet => QuietOK'
    BY <1>1, QuietPlans DEF Stretch
  <2>3. QED
    BY <2>1, <2>2 DEF Stretch
<1>2. CASE Insert
  <2>1. quiet' = quiet /\ (~quiet => moved' = moved)
    BY <1>2 DEF Insert
  <2>2. quiet => QuietOK'
    BY <1>2, QuietInserts DEF Stretch
  <2>3. QED
    BY <2>1, <2>2 DEF Stretch
<1>3. CASE UNCHANGED vars
  BY <1>3, QuietStays DEF vars
<1>4. QED
  BY <1>1, <1>2, <1>3, OthersKeep, ReadsKeep, RecoverKeeps, ExecuteKeeps DEF Next, Coordinate

\* The only steps that give a slot without a handoff one are a process's withdrawal,
\* which ends the stretch, and an insertion.
LEMMA NothingMovesTwice ==
    ASSUME FleetOK, Stretch, Next, NEW s \in moved \cap moved', handoff[s] = NoHandoff
    PROVE  handoff'[s] = NoHandoff
<1>1. s \in Slot /\ quiet /\ QuietOK
  BY DEF FleetOK, Stretch
<1>2. handoff = [t \in Slot |-> handoff[t]] /\ NoHandoff.phase = "none" /\ NoHandoff.kind = "none"
  BY DEF FleetOK, RowsOK, NoHandoff
<1>3. ASSUME NEW i \in Instance, Leave(i) PROVE FALSE
  BY <1>3 DEF Leave, Change, Disturbed
<1>4. ASSUME NEW i \in Instance, Join(i) \/ Settle(i) \/ Crash(i) \/ Lapse(i) \/ Plan(i)
      PROVE  handoff' = handoff
  BY <1>4 DEF Join, Settle, Crash, Lapse, Plan
<1>5. ASSUME NEW i \in Instance, Claim(i) PROVE handoff'[s] = NoHandoff
  BY <1>1, <1>5 DEF Claim
<1>6. CASE ReadMembers \/ ReadHandoffs \/ PlanMoves
  BY <1>6 DEF ReadMembers, ReadHandoffs, PlanMoves
<1>7. CASE Recover
  BY <1>1, <1>7 DEF Recover, Recovered
<1>8. CASE Insert
  BY <1>1, <1>8, QuietInserts
<1>9. ASSUME NEW t \in Slot, Execute(t) PROVE handoff'[s] = NoHandoff
  <2>1. t # s => handoff'[s] = handoff[s]
    BY <1>1, <1>2, <1>9 DEF Execute, Begin, Drained, Transfer, AckActive
  <2>2. t = s => FALSE
    BY <1>2, <1>9 DEF Execute, Begin, Drained, Transfer, AckActive
  <2>3. QED
    BY <2>1, <2>2
<1>10. QED
  BY <1>3, <1>4, <1>5, <1>6, <1>7, <1>8, <1>9 DEF Next, Refresh, Coordinate

\* No slot moves twice, however many passes plan on however old a view of the handoffs
\* (planMigrations): while every member is stable and nothing but migrations changes the
\* fleet, a slot that was planned to move is not planned again when it has arrived.
THEOREM SlotsMoveOnce == Spec => NoThrash
<1> DEFINE Inv == FleetOK /\ Stretch
<1>1. Init => Inv
  BY FleetBegins DEF Init, Stretch
<1>2. Inv /\ [Next]_vars => Inv'
  BY FleetIsOK, StretchKeeps
<1>3. Inv /\ [Next]_vars
        => [\A s \in moved \cap moved' : handoff[s] = NoHandoff => handoff'[s] = NoHandoff]_vars
  BY NothingMovesTwice DEF vars
<1>4. QED
  BY <1>1, <1>2, <1>3, PTL DEF Spec, NoThrash
=============================================================================
