-------------------------- MODULE TableWalkProofs --------------------------
(***************************************************************************)
(* Theorems about TableWalk: what the walks read is in the tables, is all  *)
(* of them when complete and the first rows of each column otherwise, and  *)
(* is charged once; no request is in vain; and together the walks do no    *)
(* more than BudgetedWalks allows.                                         *)
(***************************************************************************)
EXTENDS TableWalk, FiniteSetTheorems, WellFoundedInduction, TLAPS

-----------------------------------------------------------------------------
(* Numbers.                                                                *)

LEMMA Least ==
  ASSUME NEW S \in SUBSET Nat, S # {}
  PROVE  \E m \in S : \A j \in S : m <= j
<1> DEFINE R == OpToRel(<, Nat)
<1>1. IsWellFoundedOn(R, Nat)
  BY NatLessThanWellFounded
<1>2. \A x, y \in Nat : x < y => <<x, y>> \in R
  BY DEF OpToRel
<1> HIDE DEF R
<1>3. \E x \in S : \A y \in S : ~(<<y, x>> \in R)
  BY <1>1, WFMin
<1>4. \A x, y \in S : ~(x < y) => y <= x
  OBVIOUS
<1> QED BY <1>2, <1>3, <1>4

\* The element of a finite set with the fewest above it has none above it.
LEMMA MaxOfFinite ==
  ASSUME NEW S \in SUBSET Nat, IsFiniteSet(S), S # {}
  PROVE  Max(S) \in S /\ \A j \in S : j <= Max(S)
<1> DEFINE Above(x) == {y \in S : x < y}
           counts == {Cardinality(Above(x)) : x \in S}
<1>1. \A x \in S : IsFiniteSet(Above(x)) /\ Cardinality(Above(x)) \in Nat
  <2> TAKE x \in S
  <2>1. Above(x) \in SUBSET S
    OBVIOUS
  <2> HIDE DEF Above
  <2> QED BY <2>1, FS_Subset, FS_CardinalityType
<1>2. PICK m \in S : \A x \in S : Cardinality(Above(m)) <= Cardinality(Above(x))
  <2>1. counts \in SUBSET Nat /\ counts # {}
    <3> HIDE DEF Above
    <3> QED BY <1>1
  <2> HIDE DEF Above
  <2>2. PICK k \in counts : \A j \in counts : k <= j
    <3> HIDE DEF counts
    <3> QED BY <2>1, Least
  <2>3. PICK x \in S : k = Cardinality(Above(x))
    OBVIOUS
  <2> QED BY <2>2, <2>3
<1>3. \A x \in S : x <= m
  <2> SUFFICES ASSUME NEW x \in S, m < x PROVE FALSE
    OBVIOUS
  <2>0. x \in Nat /\ m \in Nat /\ ~(x < x) /\ \A y \in S : x < y => m < y
    OBVIOUS
  <2>1. Above(x) \in SUBSET Above(m) /\ x \in Above(m) /\ x \notin Above(x)
    BY <2>0
  <2>2. Above(x) # Above(m)
    BY <2>1
  <2> HIDE DEF Above
  <2>3. Cardinality(Above(x)) <= Cardinality(Above(m)) /\ Cardinality(Above(x)) # Cardinality(Above(m))
    BY <1>1, <2>1, <2>2, FS_Subset
  <2> QED BY <1>1, <1>2, <2>3
<1>4. \A j \in S : m >= j
  BY <1>3
<1> HIDE DEF Above, counts
<1>5. Max(S) \in S /\ \A j \in S : Max(S) >= j
  BY <1>4 DEF Max
<1> QED BY <1>5

LEMMA TimesMonotone ==
  ASSUME NEW a \in Nat, NEW b \in Nat, NEW l \in Nat, a <= b
  PROVE  a * l <= b * l
<1>1. PICK d \in Nat : b = a + d
  <2>1. b - a \in Nat /\ b = a + (b - a)
    OBVIOUS
  <2> QED BY <2>1
<1>2. (a + d) * l = a * l + d * l
  OBVIOUS
<1>3. d * l \in Nat /\ a * l \in Nat
  OBVIOUS
<1> QED BY <1>1, <1>2, <1>3

\* Of r rows of l var-binds, the k-th var-bind of a row stands for itself.
LEMMA OneVarBind ==
  ASSUME NEW l \in Nat, NEW a \in Nat, NEW b \in Nat, NEW j \in 1..l, NEW k \in 1..l,
         a * l + j = b * l + k
  PROVE  a = b /\ j = k
<1>1. \A x, y \in Nat : x + 1 <= y => x * l + l <= y * l
  <2> TAKE x, y \in Nat
  <2> HAVE x + 1 <= y
  <2>1. (x + 1) * l <= y * l
    BY TimesMonotone
  <2>2. (x + 1) * l = x * l + l
    OBVIOUS
  <2> QED BY <2>1, <2>2
<1>2. PICK p \in Nat, q \in Nat : p = a * l /\ q = b * l
  OBVIOUS
<1>3. ~(a + 1 <= b)
  BY <1>1, <1>2
<1>4. ~(b + 1 <= a)
  BY <1>1, <1>2
<1>5. a = b
  BY <1>3, <1>4
<1> QED BY <1>2, <1>5

-----------------------------------------------------------------------------
(* Rows of a column, in order.                                             *)

Column(c) == table[c] \in SUBSET (Nat \ {0}) /\ IsFiniteSet(table[c])

LEMMA ColumnsAreFinite ==
  ASSUME table \in Tables
  PROVE  \A c \in Cols : Column(c)
BY TableAssumption DEF Column, Cols

\* Of two rows after i, the later one has the higher rank.
LEMMA RanksGrow ==
  ASSUME NEW c, Column(c), NEW i \in Nat, NEW j \in table[c], i < j
  PROVE  /\ Rank(c, i, j) \in Nat \ {0}
         /\ \A h \in table[c] : i < h /\ h < j => Rank(c, i, h) < Rank(c, i, j)
         /\ \A h \in table[c] : i < h /\ h <= j => Rank(c, i, h) <= Rank(c, i, j)
<1> DEFINE upto(x) == {h \in table[c] : i < h /\ h <= x}
<1>1. table[c] \in SUBSET Nat /\ j \in Nat
  BY DEF Column
<1>2. \A x : upto(x) \in SUBSET table[c] /\ Rank(c, i, x) = Cardinality(upto(x))
  BY DEF Rank
<1>3. j \in upto(j) /\ \A h \in table[c] : h < j => j \notin upto(h)
  BY <1>1
<1>4. \A h \in table[c] : h < j => upto(h) \in SUBSET upto(j)
  <2> TAKE h \in table[c]
  <2> HAVE h < j
  <2>1. \A x \in table[c] : x <= h => x <= j
    BY <1>1
  <2> QED BY <2>1
<1>5. ASSUME NEW x PROVE IsFiniteSet(upto(x)) /\ Cardinality(upto(x)) \in Nat
  <2> HIDE DEF upto
  <2> QED BY <1>2, FS_Subset, FS_CardinalityType DEF Column
<1> HIDE DEF upto
<1>6. Rank(c, i, j) # 0
  BY <1>2, <1>3, <1>5, FS_EmptySet
<1>7. ASSUME NEW h \in table[c], h < j PROVE Rank(c, i, h) < Rank(c, i, j)
  <2>1. upto(h) \in SUBSET upto(j) /\ upto(h) # upto(j)
    BY <1>3, <1>4, <1>7
  <2>2. Cardinality(upto(h)) <= Cardinality(upto(j)) /\ Cardinality(upto(h)) # Cardinality(upto(j))
    BY <1>5, <2>1, FS_Subset
  <2> QED BY <1>2, <1>5, <2>2
<1>8. \A h \in table[c] : Rank(c, i, h) \in Nat /\ h \in Nat
  BY <1>1, <1>2, <1>5
<1>9. \A h \in table[c] : h <= j => h < j \/ h = j
  BY <1>1
<1> QED BY <1>2, <1>5, <1>6, <1>7, <1>8, <1>9

\* Every rank up to that of a row is the rank of a row.
LEMMA RanksHaveNoGap ==
  ASSUME NEW c, Column(c), NEW i \in Nat, NEW r \in Nat \ {0},
         \A j \in table[c] : i < j => Rank(c, i, j) # r,
         NEW j \in table[c], i < j
  PROVE  Rank(c, i, j) < r
<1> SUFFICES ASSUME ~(Rank(c, i, j) < r) PROVE FALSE
  OBVIOUS
<1> DEFINE over == {h \in table[c] : i < h /\ r < Rank(c, i, h)}
           upto(x) == {h \in table[c] : i < h /\ h <= x}
<1>1. table[c] \in SUBSET Nat
  BY DEF Column
<1>2. \A h \in table[c] : i < h => Rank(c, i, h) \in Nat
  BY RanksGrow
<1>3. j \in over /\ over \in SUBSET Nat
  BY <1>1, <1>2
<1>4. PICK m \in over : \A h \in over : m <= h
  <2> HIDE DEF over
  <2> QED BY <1>3, Least
<1>5. m \in table[c] /\ i < m /\ r < Rank(c, i, m) /\ m \in Nat
  BY <1>1, <1>4
<1>6. upto(m) \in SUBSET table[c] /\ m \in upto(m) /\ Rank(c, i, m) = Cardinality(upto(m))
  BY <1>5 DEF Rank
<1>7. IsFiniteSet(upto(m))
  <2> HIDE DEF upto
  <2> QED BY <1>6, FS_Subset DEF Column
<1>8. IsFiniteSet(upto(m) \ {m}) /\ Cardinality(upto(m) \ {m}) = Rank(c, i, m) - 1
  <2> HIDE DEF upto, over
  <2> QED BY <1>6, <1>7, FS_RemoveElement
<1>9. upto(m) \ {m} # {}
  <2> HIDE DEF upto, over
  <2>1. Rank(c, i, m) - 1 # 0
    BY <1>2, <1>5
  <2> QED BY <1>8, <2>1, FS_EmptySet
<1> DEFINE before == upto(m) \ {m}
<1>10. before \in SUBSET Nat
  BY <1>1
<1>11. Max(before) \in before /\ \A h \in before : h <= Max(before)
  <2> HIDE DEF before
  <2> QED BY <1>8, <1>9, <1>10, MaxOfFinite DEF before
<1>12. PICK p \in before : \A h \in before : h <= p
  <2> HIDE DEF before
  <2> QED BY <1>11
<1>13. p \in table[c] /\ i < p /\ p < m /\ p \in Nat
  BY <1>1, <1>5, <1>12
<1>14. upto(p) = before
  <2>1. \A h \in table[c] : h <= p => h <= m /\ h # m
    BY <1>1, <1>13
  <2>2. \A h \in before : h \in table[c] /\ i < h /\ h <= p
    BY <1>12
  <2> QED BY <2>1, <2>2
<1>15. Rank(c, i, p) = Rank(c, i, m) - 1
  BY <1>8, <1>14 DEF Rank
<1>16. Rank(c, i, p) # r
  BY <1>13
<1>17. r < Rank(c, i, p)
  BY <1>2, <1>5, <1>13, <1>15, <1>16
<1>18. p \in over
  BY <1>13, <1>17
<1> QED BY <1>4, <1>5, <1>13, <1>18

\* What comes r-th after row i of an agent that goes on from there.
LEMMA NthHasRank ==
  ASSUME NEW c, Column(c), NEW i \in Nat, NEW r \in Nat,
         ~(agent = "stuck" /\ i > 0), Nth(c, i, r) # 0
  PROVE  LET j == Nth(c, i, r) IN j \in table[c] /\ i < j /\ Rank(c, i, j) = r
<1>1. \E j \in table[c] : j > i /\ Rank(c, i, j) = r
  BY DEF Nth
<1>2. Nth(c, i, r) = CHOOSE j \in table[c] : j > i /\ Rank(c, i, j) = r
  BY <1>1 DEF Nth
<1>3. Nth(c, i, r) \in table[c] /\ Nth(c, i, r) > i /\ Rank(c, i, Nth(c, i, r)) = r
  BY <1>1, <1>2
<1>4. Nth(c, i, r) \in Nat
  BY <1>3 DEF Column
<1> QED BY <1>3, <1>4

LEMMA EveryRowIsItsNth ==
  ASSUME NEW c, Column(c), NEW i \in Nat, NEW j \in table[c], i < j,
         ~(agent = "stuck" /\ i > 0)
  PROVE  Nth(c, i, Rank(c, i, j)) = j
<1> DEFINE r == Rank(c, i, j)
<1>1. j \in Nat /\ j > i /\ r \in Nat
  BY RanksGrow DEF Column
<1>2. \A h \in table[c] : h > i /\ Rank(c, i, h) = r => h = j
  <2> TAKE h \in table[c]
  <2> HAVE h > i /\ Rank(c, i, h) = r
  <2>1. h \in Nat /\ i < h
    BY DEF Column
  <2>2. ~(h < j)
    BY <1>1, <2>1, RanksGrow
  <2>3. ~(j < h)
    BY <1>1, <2>1, RanksGrow
  <2> QED BY <1>1, <2>1, <2>2, <2>3
<1>3. \E h \in table[c] : h > i /\ Rank(c, i, h) = r
  BY <1>1
<1> QED BY <1>1, <1>2, <1>3 DEF Nth

LEMMA NthIsNatural ==
  ASSUME NEW c, Column(c), NEW i \in Nat, NEW r
  PROVE  Nth(c, i, r) \in Nat
<1>1. CASE agent = "stuck" /\ i > 0
  BY <1>1 DEF Nth
<1>2. CASE ~(agent = "stuck" /\ i > 0) /\ \E j \in table[c] : j > i /\ Rank(c, i, j) = r
  <2>1. (CHOOSE j \in table[c] : j > i /\ Rank(c, i, j) = r) \in table[c]
    BY <1>2
  <2> QED BY <1>2, <2>1 DEF Nth, Column
<1>3. CASE ~(agent = "stuck" /\ i > 0) /\ ~\E j \in table[c] : j > i /\ Rank(c, i, j) = r
  BY <1>3 DEF Nth
<1> QED BY <1>1, <1>2, <1>3

-----------------------------------------------------------------------------
(* The var-binds of an answer.                                             *)

LEMMA PlacesDiffer ==
  /\ IsFiniteSet(Cols)
  /\ \A c \in Cols : Place(c) \in Nat
  /\ \A c, d \in Cols : Place(c) = Place(d) => c = d
<1>1. DOMAIN Columns = 1..Len(Columns) /\ Len(Columns) \in Nat
  BY TableAssumption
<1>2. \A c \in Cols : Place(c) \in DOMAIN Columns /\ Columns[Place(c)] = c
  BY DEF Cols, Range, Place
<1>3. \A c \in Cols : Place(c) \in Nat
  BY <1>1, <1>2
<1>4. \A c, d \in Cols : Place(c) = Place(d) => c = d
  BY <1>2
<1>5. IsFiniteSet(Cols)
  <2>1. Columns \in Surjection(DOMAIN Columns, Cols)
    BY TableAssumption DEF Surjection, Cols, Range
  <2>2. IsFiniteSet(1..Len(Columns))
    BY <1>1, FS_Interval
  <2> QED BY <1>1, <2>1, <2>2, FS_Surjection
<1> QED BY <1>3, <1>4, <1>5

\* The columns asked for stand side by side.
LEMMA SlotsDiffer ==
  ASSUME NEW w, active[w] \in SUBSET Cols
  PROVE  /\ IsFiniteSet(active[w]) /\ Cardinality(active[w]) \in Nat
         /\ \A c \in active[w] : Slot(w, c) \in 1..Cardinality(active[w])
         /\ \A c, d \in active[w] : Slot(w, c) = Slot(w, d) => c = d
<1> DEFINE upto(c) == {d \in active[w] : Place(d) <= Place(c)}
<1>1. IsFiniteSet(active[w]) /\ Cardinality(active[w]) \in Nat
  BY PlacesDiffer, FS_Subset, FS_CardinalityType
<1>2. \A c : upto(c) \in SUBSET active[w] /\ Slot(w, c) = Cardinality(upto(c))
  BY DEF Slot
<1>3. \A c \in active[w] : Place(c) \in Nat
  BY PlacesDiffer
<1>4. \A c \in active[w] : c \in upto(c)
  BY <1>3
<1>5. \A c, d \in active[w] : Place(c) < Place(d) => upto(c) \in SUBSET upto(d) /\ d \notin upto(c)
  BY <1>3
<1> HIDE DEF upto
<1>6. \A c : IsFiniteSet(upto(c)) /\ Slot(w, c) \in Nat
  BY <1>1, <1>2, FS_Subset, FS_CardinalityType
<1>7. ASSUME NEW c \in active[w] PROVE Slot(w, c) \in 1..Cardinality(active[w])
  <2>1. Slot(w, c) # 0
    BY <1>2, <1>4, <1>6, FS_EmptySet
  <2>2. Slot(w, c) <= Cardinality(active[w])
    BY <1>1, <1>2, FS_Subset
  <2> QED BY <1>1, <1>6, <2>1, <2>2
<1>8. ASSUME NEW c \in active[w], NEW d \in active[w], Place(c) < Place(d)
      PROVE  Slot(w, c) # Slot(w, d)
  <2>1. upto(c) \in SUBSET upto(d) /\ upto(c) # upto(d)
    BY <1>4, <1>5, <1>8
  <2> QED BY <1>2, <1>6, <2>1, FS_Subset
<1>9. ASSUME NEW c \in active[w], NEW d \in active[w], Slot(w, c) = Slot(w, d)
      PROVE  c = d
  <2>1. ~(Place(c) < Place(d)) /\ ~(Place(d) < Place(c))
    BY <1>8, <1>9
  <2>2. Place(c) = Place(d)
    BY <1>3, <2>1
  <2> QED BY <2>2, PlacesDiffer
<1> QED BY <1>1, <1>7, <1>9

LEMMA DealtAreTheFirst ==
  ASSUME NEW w, active[w] \in SUBSET Cols, NEW c \in active[w], NEW n \in Nat,
         NEW r \in Dealt(w, c, n), NEW q \in 1..r
  PROVE  q \in Dealt(w, c, n)
<1> DEFINE l == Cardinality(active[w])
<1>1. l \in Nat /\ Slot(w, c) \in 1..l
  BY SlotsDiffer
<1>2. r \in 1..n /\ (r - 1) * l + Slot(w, c) <= n
  BY DEF Dealt
<1>3. q \in 1..n /\ q - 1 \in Nat /\ r - 1 \in Nat /\ q - 1 <= r - 1
  BY <1>2
<1> HIDE DEF l
<1>4. (q - 1) * l <= (r - 1) * l
  BY <1>1, <1>3, TimesMonotone
<1>5. PICK a \in Nat, b \in Nat, k \in Nat : a = (q - 1) * l /\ b = (r - 1) * l /\ k = Slot(w, c)
  <2>1. \A x \in Nat : x * l \in Nat
    BY <1>1
  <2>2. (q - 1) * l \in Nat /\ (r - 1) * l \in Nat /\ Slot(w, c) \in Nat
    BY <1>1, <1>3, <2>1
  <2> QED BY <2>2
<1>6. (q - 1) * l + Slot(w, c) <= n
  <2>1. a <= b /\ b + k <= n
    BY <1>2, <1>4, <1>5
  <2>2. a + k <= n
    BY <2>1
  <2> QED BY <1>5, <2>2
<1> QED BY <1>3, <1>6 DEF Dealt, l

LEMMA TakenAreTheFirst ==
  ASSUME NEW w, active[w] \in SUBSET Cols, NEW c \in active[w], NEW n \in Nat,
         NEW r \in Taken(w, c, n), NEW q \in 1..r
  PROVE  q \in Taken(w, c, n)
<1>1. r \in Dealt(w, c, n) /\ Advances(w, c, r)
  BY DEF Taken
<1>2. r \in Nat
  BY <1>1 DEF Dealt
<1>3. Advances(w, c, q)
  BY <1>1, <1>2 DEF Advances
<1>4. q \in Dealt(w, c, n)
  BY <1>1, DealtAreTheFirst
<1> QED BY <1>3, <1>4 DEF Taken

LEMMA OfferedIsNatural ==
  ASSUME NEW w, NEW c, Column(c), last[w][c] \in Nat, NEW r
  PROVE  Offered(w, c, r) \in Nat
<1>1. CASE r = 0
  BY <1>1 DEF Offered
<1>2. CASE r # 0
  BY <1>2, NthIsNatural DEF Offered
<1> QED BY <1>1, <1>2

\* A row that is taken is one of the table; and the agent is not stuck.
LEMMA TakenIsARow ==
  ASSUME NEW w, NEW c, Column(c), last[w][c] \in Nat, NEW n \in Nat,
         NEW r \in Taken(w, c, n)
  PROVE  /\ ~(agent = "stuck" /\ last[w][c] > 0)
         /\ Offered(w, c, r) \in table[c]
         /\ last[w][c] < Offered(w, c, r)
         /\ Rank(c, last[w][c], Offered(w, c, r)) = r
<1>1. r \in Nat \ {0} /\ Advances(w, c, r)
  BY DEF Taken, Dealt
<1>2. Offered(w, c, 1) > last[w][c]
  <2>1. 1 \in 1..r /\ 1 - 1 = 0
    BY <1>1
  <2>2. Offered(w, c, 1) > Offered(w, c, 1 - 1)
    BY <1>1, <2>1 DEF Advances
  <2> QED BY <2>1, <2>2 DEF Offered
<1>3. ~(agent = "stuck" /\ last[w][c] > 0)
  <2> SUFFICES ASSUME agent = "stuck", last[w][c] > 0 PROVE FALSE
    OBVIOUS
  <2>1. Offered(w, c, 1) = last[w][c]
    BY DEF Offered, Nth
  <2> QED BY <1>2, <2>1
<1>4. Offered(w, c, r) # 0
  <2>1. Offered(w, c, r) > Offered(w, c, r - 1)
    BY <1>1 DEF Advances
  <2>2. Offered(w, c, r - 1) \in Nat /\ Offered(w, c, r) \in Nat
    BY OfferedIsNatural
  <2> QED BY <2>1, <2>2
<1>5. Offered(w, c, r) = Nth(c, last[w][c], r)
  BY <1>1 DEF Offered
<1> QED BY <1>1, <1>3, <1>4, <1>5, NthHasRank

\* The next var-bind brings one more cell at the most.
LEMMA OneVarBindMore ==
  ASSUME NEW w, active[w] \in SUBSET Cols, NEW m \in Nat
  PROVE  \E x : CellsAfter(w, m + 1) \subseteq CellsAfter(w, m) \cup {x}
<1> DEFINE l == Cardinality(active[w])
           new(c) == Dealt(w, c, m + 1) \ Dealt(w, c, m)
<1>1. l \in Nat /\ \A c \in active[w] : Slot(w, c) \in 1..l
  BY SlotsDiffer
<1>2. ASSUME NEW c \in active[w], NEW r \in new(c)
      PROVE  r - 1 \in Nat /\ (r - 1) * l + Slot(w, c) = m + 1
  <2>1. r \in 1..(m + 1) /\ (r - 1) * l + Slot(w, c) <= m + 1
    BY DEF Dealt
  <2>2. r - 1 \in Nat
    BY <2>1
  <2> HIDE DEF l
  <2>3. PICK a \in Nat, k \in Nat : a = (r - 1) * l /\ k = Slot(w, c) /\ 1 <= k
    BY <1>1, <2>2
  <2>4. ~(r \in 1..m /\ a + k <= m)
    BY <2>3 DEF Dealt, l
  <2>5. r <= m \/ r = m + 1
    BY <2>1
  <2>6. CASE r <= m
    BY <2>1, <2>2, <2>3, <2>4, <2>6
  <2>7. CASE r = m + 1
    <3>1. 1 * m <= l * m
      <4>1. 1 <= l
        BY <1>1
      <4> QED BY <1>1, <4>1, TimesMonotone
    <3>2. l * m = m * l /\ 1 * m = m /\ r - 1 = m
      BY <1>1, <2>7
    <3>3. m <= a
      BY <2>3, <3>1, <3>2
    <3> QED BY <2>1, <2>2, <2>3, <3>3
  <2> QED BY <2>5, <2>6, <2>7
<1>3. ASSUME NEW c \in active[w], NEW r \in new(c), NEW d \in active[w], NEW q \in new(d)
      PROVE  c = d /\ r = q
  <2>1. r - 1 \in Nat /\ q - 1 \in Nat /\ (r - 1) * l + Slot(w, c) = (q - 1) * l + Slot(w, d)
    BY <1>2
  <2>2. r \in Nat /\ q \in Nat
    BY DEF Dealt
  <2> HIDE DEF l, new
  <2>3. PICK a \in Nat, b \in Nat : a = r - 1 /\ b = q - 1
    BY <2>1
  <2>4. PICK j \in 1..l, k \in 1..l : j = Slot(w, c) /\ k = Slot(w, d)
    BY <1>1
  <2>5. a * l + j = b * l + k
    BY <2>1, <2>3, <2>4
  <2>6. a = b /\ j = k
    BY <1>1, <2>5, OneVarBind
  <2>7. r = q
    BY <2>2, <2>3, <2>6
  <2> QED BY <2>4, <2>6, <2>7, SlotsDiffer
<1> DEFINE y == CHOOSE y : \E c \in active[w] : \E r \in new(c) : y = <<Offered(w, c, r), c>>
<1>4. ASSUME NEW c \in active[w], NEW r \in Taken(w, c, m + 1)
      PROVE  r \in Taken(w, c, m) \/ <<Offered(w, c, r), c>> = y
  <2>1. CASE r \in Dealt(w, c, m)
    BY <2>1 DEF Taken
  <2>2. CASE r \notin Dealt(w, c, m)
    <3>1. r \in new(c)
      BY <2>2 DEF Taken
    <3> HIDE DEF new
    <3>2. \A d \in active[w] : \A q \in new(d) : <<Offered(w, d, q), d>> = <<Offered(w, c, r), c>>
      BY <1>3, <3>1
    <3>3. \E d \in active[w] : \E q \in new(d) : y = <<Offered(w, d, q), d>>
      BY <3>1
    <3> QED BY <3>2, <3>3
  <2> QED BY <2>1, <2>2
<1> HIDE DEF y, new
<1>5. CellsAfter(w, m + 1) \subseteq CellsAfter(w, m) \cup {y}
  BY <1>4 DEF CellsAfter
<1> QED BY <1>5

-----------------------------------------------------------------------------
(* What an answer adds.                                                    *)

\* What is read is in the tables.
FromTheTables == \A w \in Walks : cells[w] \subseteq TheTable

\* No cell is beyond the last row taken of its column.
BehindLast == \A w \in Walks : \A c \in Cols : \A j \in table[c] :
  <<j, c>> \in cells[w] => j <= last[w][c]

\* Nothing has been passed over: of an open column nothing up to the last row
\* taken, of the others nothing at all.
NothingPassedOver == \A w \in Walks : ended[w] = "open" /\ whole[w] =>
  \A c \in Cols : \A j \in table[c] : (c \in active[w] => j <= last[w][c]) => <<j, c>> \in cells[w]

OkIsWhole == \A w \in Walks : ended[w] = "ok" => TheTable \subseteq cells[w]

ReadInv == TypeOK /\ FromTheTables /\ BehindLast /\ NothingPassedOver /\ OkIsWhole

LEMMA TypesOfAWalk ==
  ASSUME TypeOK, NEW w \in Walks
  PROVE  /\ active[w] \in SUBSET Cols
         /\ \A c \in Cols : Column(c) /\ last[w][c] \in Nat
BY ColumnsAreFinite DEF TypeOK

LEMMA AnswerIsFromTheTables ==
  ASSUME TypeOK, FromTheTables, NEW w \in Walks, NEW n \in Nat
  PROVE  CellsAfter(w, n) \subseteq TheTable
<1>1. ASSUME NEW c \in active[w], NEW r \in Taken(w, c, n)
      PROVE  <<Offered(w, c, r), c>> \in TheTable
  <2>1. c \in Cols /\ Column(c) /\ last[w][c] \in Nat
    BY TypesOfAWalk
  <2>2. Offered(w, c, r) \in table[c]
    BY <2>1, TakenIsARow
  <2> QED BY <2>1, <2>2 DEF TheTable
<1> QED BY <1>1 DEF CellsAfter, FromTheTables

LEMMA RowsAreFinite ==
  ASSUME TypeOK, NEW A, A \subseteq TheTable
  PROVE  IsFiniteSet(RowsOf(A)) /\ Cardinality(RowsOf(A)) \in Nat
<1> DEFINE col == [c \in Cols |-> table[c]]
           all == {col[c] : c \in Cols}
<1>1. col \in Surjection(Cols, all)
  BY DEF Surjection
<1>2. IsFiniteSet(all)
  <2> HIDE DEF col, all
  <2> QED BY <1>1, PlacesDiffer, FS_Surjection
<1>3. \A T \in all : IsFiniteSet(T)
  BY ColumnsAreFinite DEF TypeOK, Column
<1>4. IsFiniteSet(UNION all)
  <2> HIDE DEF all
  <2> QED BY <1>2, <1>3, FS_UNION
<1>5. RowsOf(A) \in SUBSET UNION all
  <2>1. ASSUME NEW cell \in A PROVE cell[1] \in UNION all
    <3>1. PICK c \in Cols : cell \in table[c] \X {c}
      BY DEF TheTable
    <3>2. cell[1] \in col[c] /\ col[c] \in all
      BY <3>1
    <3> QED BY <3>2
  <2> HIDE DEF all
  <2> QED BY <2>1 DEF RowsOf
<1> HIDE DEF all
<1> QED BY <1>4, <1>5, FS_Subset, FS_CardinalityType

\* What is charged for an answer is what it adds to the rows.
LEMMA ChargeIsWhatIsAdded ==
  ASSUME TypeOK, FromTheTables, NEW w \in Walks, NEW n \in Nat
  PROVE  /\ Charge(w, n) \in Nat
         /\ w \in capped =>
              Cardinality(RowsOf(CellsAfter(w, n))) = Cardinality(RowsOf(cells[w])) + Charge(w, n)
<1> DEFINE old == RowsOf(cells[w])
           rows == RowsOf(CellsAfter(w, n))
<1>1. old \subseteq rows
  BY DEF RowsOf, CellsAfter
<1>2. IsFiniteSet(rows) /\ Cardinality(rows) \in Nat
  BY AnswerIsFromTheTables, RowsAreFinite
<1>3. IsFiniteSet(old) /\ Cardinality(old) \in Nat
  BY RowsAreFinite DEF FromTheTables
<1>4. w \in capped => Charge(w, n) = Cardinality(rows \ old)
  BY DEF Charge
<1>5. w \notin capped => Charge(w, n) = 0
  BY DEF Charge
<1> HIDE DEF old, rows
<1>6. Cardinality(rows \ old) = Cardinality(rows) - Cardinality(rows \cap old)
  BY <1>2, FS_Difference
<1>7. rows \cap old = old
  BY <1>1
<1>8. IsFiniteSet(rows \ old) /\ Cardinality(rows \ old) \in Nat
  BY <1>2, FS_Difference, FS_CardinalityType
<1>9. Cardinality(rows) = Cardinality(old) + Cardinality(rows \ old)
  <2>1. Cardinality(rows \ old) = Cardinality(rows) - Cardinality(old)
    BY <1>6, <1>7
  <2>2. \A a, b, c \in Nat : a = b - c => b = c + a
    OBVIOUS
  <2> QED BY <1>2, <1>3, <1>8, <2>1, <2>2
<1> QED BY <1>4, <1>5, <1>8, <1>9 DEF rows, old

\* A var-bind costs one row at the most.
LEMMA ChargeGrowsByOne ==
  ASSUME TypeOK, FromTheTables, NEW w \in Walks, NEW m \in Nat
  PROVE  Charge(w, m + 1) <= Charge(w, m) + 1
<1> DEFINE new(n) == RowsOf(CellsAfter(w, n)) \ RowsOf(cells[w])
<1>1. \A n \in Nat : IsFiniteSet(new(n))
  <2> TAKE n \in Nat
  <2>1. IsFiniteSet(RowsOf(CellsAfter(w, n)))
    BY AnswerIsFromTheTables, RowsAreFinite
  <2> QED BY <2>1, FS_Difference
<1>2. PICK x : CellsAfter(w, m + 1) \subseteq CellsAfter(w, m) \cup {x}
  BY OneVarBindMore, TypesOfAWalk
<1>3. new(m + 1) \in SUBSET (new(m) \cup {x[1]})
  BY <1>2 DEF RowsOf
<1>4. w \in capped => Charge(w, m) = Cardinality(new(m)) /\ Charge(w, m + 1) = Cardinality(new(m + 1))
  BY DEF Charge
<1>5. w \notin capped => Charge(w, m) = 0 /\ Charge(w, m + 1) = 0
  BY DEF Charge
<1>6. m \in Nat /\ m + 1 \in Nat
  OBVIOUS
<1> HIDE DEF new
<1>7. IsFiniteSet(new(m) \cup {x[1]}) /\ Cardinality(new(m) \cup {x[1]}) <= Cardinality(new(m)) + 1
      /\ Cardinality(new(m) \cup {x[1]}) \in Nat
  <2>1. IsFiniteSet(new(m)) /\ Cardinality(new(m)) \in Nat
    BY <1>1, FS_CardinalityType
  <2>2. /\ IsFiniteSet(new(m) \cup {x[1]})
        /\ Cardinality(new(m) \cup {x[1]}) =
             IF x[1] \in new(m) THEN Cardinality(new(m)) ELSE Cardinality(new(m)) + 1
    BY <2>1, FS_AddElement
  <2> QED BY <2>1, <2>2
<1>8. Cardinality(new(m + 1)) <= Cardinality(new(m) \cup {x[1]})
  BY <1>3, <1>7, FS_Subset
<1>9. Cardinality(new(m)) \in Nat /\ Cardinality(new(m + 1)) \in Nat
  BY <1>1, <1>6, FS_CardinalityType
<1> QED BY <1>4, <1>5, <1>7, <1>8, <1>9

LEMMA WhereCellsComeFrom ==
  ASSUME NEW w, NEW n, NEW c, NEW j, <<j, c>> \in CellsAfter(w, n), <<j, c>> \notin cells[w]
  PROVE  c \in active[w] /\ \E r \in Taken(w, c, n) : j = Offered(w, c, r)
BY DEF CellsAfter

LEMMA LastAfterIsTheLast ==
  ASSUME TypeOK, NEW w \in Walks, NEW n \in Nat, NEW c \in Cols
  PROVE  LET l == LastAfter(w, c, n)
         IN  /\ l \in Nat /\ last[w][c] <= l
             /\ l # last[w][c] => l \in table[c] /\ <<l, c>> \in CellsAfter(w, n)
             /\ \A j \in table[c] : <<j, c>> \in CellsAfter(w, n) => j <= l
<1> DEFINE read == {j \in table[c] : <<j, c>> \in CellsAfter(w, n)}
           S == read \cup {last[w][c]}
<1>1. Column(c) /\ last[w][c] \in Nat /\ read \in SUBSET table[c]
  BY TypesOfAWalk
<1>2. S \in SUBSET Nat /\ S # {}
  BY <1>1 DEF Column
<1>3. LastAfter(w, c, n) = Max(S)
  <2>1. {last[w][c]} \cup read = S
    OBVIOUS
  <2> QED BY <2>1 DEF LastAfter
<1>4. IsFiniteSet(S)
  <2> HIDE DEF read
  <2>1. IsFiniteSet(read)
    BY <1>1, FS_Subset DEF Column
  <2> QED BY <2>1, FS_AddElement
<1>5. Max(S) \in S /\ \A j \in S : j <= Max(S)
  <2> HIDE DEF S
  <2> QED BY <1>2, <1>4, MaxOfFinite
<1> QED BY <1>2, <1>3, <1>5

\* An answer passes no row over on the way to the last row it brings.
LEMMA NothingBeforeTheLast ==
  ASSUME TypeOK, BehindLast, NEW w \in Walks, NEW n \in Nat, NEW c \in Cols,
         \A h \in table[c] : h <= last[w][c] => <<h, c>> \in cells[w],
         NEW j \in table[c], j <= LastAfter(w, c, n)
  PROVE  <<j, c>> \in CellsAfter(w, n)
<1> DEFINE i == last[w][c]
           l == LastAfter(w, c, n)
<1>1. Column(c) /\ i \in Nat /\ active[w] \in SUBSET Cols
  BY TypesOfAWalk
<1>2. j \in Nat
  BY <1>1 DEF Column
<1>3. CASE j <= i
  BY <1>3 DEF CellsAfter
<1>4. CASE i < j
  <2>1. l \in Nat /\ (l # i => l \in table[c] /\ <<l, c>> \in CellsAfter(w, n))
    BY LastAfterIsTheLast
  <2>2. i < l
    BY <1>1, <1>2, <1>4, <2>1
  <2>3. l \in table[c] /\ <<l, c>> \in CellsAfter(w, n) /\ ~(l <= i)
    BY <1>1, <2>1, <2>2
  <2>4. <<l, c>> \notin cells[w]
    BY <2>3 DEF BehindLast
  <2>5. c \in active[w] /\ \E r \in Taken(w, c, n) : l = Offered(w, c, r)
    BY <2>3, <2>4, WhereCellsComeFrom
  <2>6. PICK r \in Taken(w, c, n) : l = Offered(w, c, r)
    BY <2>5
  <2>7. Rank(c, i, l) = r /\ ~(agent = "stuck" /\ i > 0)
    BY <1>1, <2>6, TakenIsARow
  <2> DEFINE q == Rank(c, i, j)
  <2>8. q \in Nat \ {0} /\ q <= r /\ r \in Nat
    <3>1. q \in Nat \ {0}
      BY <1>1, <1>4, RanksGrow
    <3>2. q <= Rank(c, i, l) /\ Rank(c, i, l) \in Nat
      BY <1>1, <1>4, <2>2, <2>3, RanksGrow
    <3> QED BY <2>7, <3>1, <3>2
  <2>9. q \in Taken(w, c, n)
    <3>1. q \in 1..r
      BY <2>8
    <3> QED BY <1>1, <2>5, <3>1, TakenAreTheFirst
  <2>10. Offered(w, c, q) = j
    BY <1>1, <1>4, <2>7, <2>8, EveryRowIsItsNth DEF Offered
  <2> QED BY <2>5, <2>9, <2>10 DEF CellsAfter
<1> QED BY <1>1, <1>2, <1>3, <1>4

\* A column that an answer ends, and that does not repeat itself, has no row
\* that was not brought.
LEMMA NothingAfterTheEnd ==
  ASSUME ReadInv, NEW w \in Walks, ended[w] = "open", whole[w], NEW n \in Nat,
         NEW c \in active[w], Closes(w, c, n), ~Repeats(w, c, n), NEW j \in table[c]
  PROVE  <<j, c>> \in CellsAfter(w, n)
<1> DEFINE i == last[w][c]
           over == Dealt(w, c, n) \ Taken(w, c, n)
<1>1. c \in Cols /\ Column(c) /\ i \in Nat /\ active[w] \in SUBSET Cols
  BY TypesOfAWalk DEF ReadInv
<1>2. j \in Nat
  BY <1>1 DEF Column
<1>3. CASE j <= i
  BY <1>1, <1>3 DEF ReadInv, NothingPassedOver, CellsAfter
<1>4. CASE i < j
  <2>1. over # {} /\ over \in SUBSET Nat
    BY DEF Closes, Taken, Dealt
  <2>2. PICK r \in over : \A q \in over : r <= q
    <3> HIDE DEF over
    <3> QED BY <2>1, Least
  <2>3. r \in Dealt(w, c, n) /\ r \notin Taken(w, c, n) /\ r \in Nat \ {0}
    BY DEF Dealt
  <2>4. \A q \in 1..(r - 1) : q \in Taken(w, c, n)
    <3> TAKE q \in 1..(r - 1)
    <3>1. q \in 1..r /\ ~(r <= q)
      BY <2>3
    <3>2. q \in Dealt(w, c, n)
      BY <1>1, <2>3, <3>1, DealtAreTheFirst
    <3> QED BY <2>2, <3>1, <3>2
  <2>5. r - 1 \in Taken(w, c, n) \cup {0}
    <3>1. r - 1 = 0 \/ r - 1 \in 1..(r - 1)
      BY <2>3
    <3> QED BY <2>4, <3>1
  <2>6. Offered(w, c, r) = 0
    BY <2>3, <2>5 DEF Repeats
  <2>7. Nth(c, i, r) = 0
    BY <2>3, <2>6 DEF Offered
  <2>8. ~(agent = "stuck" /\ i > 0)
    BY <1>1, <2>7 DEF Nth
  <2>9. \A h \in table[c] : i < h => Rank(c, i, h) # r
    <3> SUFFICES ASSUME NEW h \in table[c], i < h, Rank(c, i, h) = r PROVE FALSE
      OBVIOUS
    <3>1. Nth(c, i, r) = h
      BY <1>1, <2>8, EveryRowIsItsNth
    <3>2. h # 0
      BY <1>1 DEF Column
    <3> QED BY <2>7, <3>1, <3>2
  <2> DEFINE q == Rank(c, i, j)
  <2>10. q < r
    BY <1>1, <1>4, <2>3, <2>9, RanksHaveNoGap
  <2>11. q \in Nat \ {0}
    BY <1>1, <1>4, RanksGrow
  <2>12. q \in Taken(w, c, n)
    <3>1. q \in 1..(r - 1)
      BY <2>3, <2>10, <2>11
    <3> QED BY <2>4, <3>1
  <2>13. Offered(w, c, q) = j
    BY <1>1, <1>4, <2>8, <2>11, EveryRowIsItsNth DEF Offered
  <2> QED BY <2>12, <2>13 DEF CellsAfter
<1> QED BY <1>1, <1>2, <1>3, <1>4

-----------------------------------------------------------------------------
(* The invariant.                                                          *)

LEMMA InitIsRead == Init => ReadInv
<1> SUFFICES ASSUME Init PROVE ReadInv
  OBVIOUS
<1>1. TypeOK
  <2>1. BudgetTypeOK
    <3>1. time \in 0..Budget /\ rowsLeft \in 0..RowCap
      BY BudgetAssumption DEF Init, BudgetInit
    <3>2. truncated \in BOOLEAN
      BY DEF Init, BudgetInit
    <3> QED BY <3>1, <3>2 DEF BudgetTypeOK
  <2>2. perReq \in [Walks -> 1..MaxRep] /\ attempt \in [Walks -> 0..Retries]
    BY TableAssumption DEF Init
  <2>3. last \in [Walks -> [Cols -> Nat]]
    BY DEF Init
  <2>4. active \in [Walks -> SUBSET Cols] /\ cells \in [Walks -> SUBSET (Nat \X Cols)]
    BY DEF Init
  <2>5. whole \in [Walks -> BOOLEAN] /\ ended \in [Walks -> Outcomes \cup {"open"}]
    BY DEF Init
  <2> QED BY <2>1, <2>2, <2>3, <2>4, <2>5 DEF Init, TypeOK
<1>2. FromTheTables /\ BehindLast
  BY DEF Init, FromTheTables, BehindLast
<1>3. NothingPassedOver
  <2> SUFFICES ASSUME NEW w \in Walks, NEW c \in Cols, NEW j \in table[c], j <= 0 PROVE FALSE
    BY DEF Init, NothingPassedOver
  <2>1. Column(c)
    BY ColumnsAreFinite DEF Init
  <2> QED BY <2>1 DEF Column
<1>4. OkIsWhole
  BY DEF Init, OkIsWhole
<1> QED BY <1>1, <1>2, <1>3, <1>4 DEF ReadInv

\* What Keep does to the walk, and to the budget.
LEMMA KeepsAnAnswer ==
  ASSUME ReadInv, NEW w \in Walks, NEW n \in Nat, ~OverCap(w, n), Keep(w, n)
  PROVE  /\ last' \in [Walks -> [Cols -> Nat]] /\ cells' \in [Walks -> SUBSET (Nat \X Cols)]
         /\ rowsLeft' \in 0..RowCap
         /\ cells'[w] = CellsAfter(w, n) /\ CellsAfter(w, n) \subseteq TheTable
         /\ \A c \in Cols : last'[w][c] = LastAfter(w, c, n)
         /\ \A v \in Walks \ {w} : cells'[v] = cells[v] /\ last'[v] = last[v]
<1>1. TypeOK /\ FromTheTables
  BY DEF ReadInv
<1>2. CellsAfter(w, n) \subseteq TheTable
  BY <1>1, AnswerIsFromTheTables
<1>3. TheTable \subseteq Nat \X Cols
  BY <1>1, ColumnsAreFinite DEF TheTable, TypeOK, Column
<1>4. [c \in Cols |-> LastAfter(w, c, n)] \in [Cols -> Nat]
  BY <1>1, LastAfterIsTheLast
<1>5. last' = [last EXCEPT ![w] = [c \in Cols |-> LastAfter(w, c, n)]]
  BY DEF Keep
<1>6. cells' = [cells EXCEPT ![w] = CellsAfter(w, n)] /\ rowsLeft' = rowsLeft - Charge(w, n)
  BY DEF Keep
<1>7. Charge(w, n) \in Nat /\ Charge(w, n) <= rowsLeft /\ rowsLeft \in 0..RowCap /\ RowCap \in Nat
  <2>1. Charge(w, n) \in Nat /\ rowsLeft \in 0..RowCap /\ RowCap \in Nat
    BY <1>1, ChargeIsWhatIsAdded, BudgetAssumption DEF TypeOK, BudgetTypeOK
  <2> QED BY <2>1 DEF OverCap
<1>8. rowsLeft' \in 0..RowCap
  BY <1>6, <1>7
<1>9. last \in [Walks -> [Cols -> Nat]] /\ cells \in [Walks -> SUBSET (Nat \X Cols)]
  BY <1>1 DEF TypeOK
<1>10. last' \in [Walks -> [Cols -> Nat]] /\ cells' \in [Walks -> SUBSET (Nat \X Cols)]
  BY <1>2, <1>3, <1>4, <1>5, <1>6, <1>9
<1> QED BY <1>2, <1>5, <1>6, <1>8, <1>9, <1>10

\* How a walk goes on: with fewer columns, or to its end.
LEMMA GoesOn ==
  ASSUME TypeOK, NEW w \in Walks, ended[w] = "open",
         NEW cs \in SUBSET Cols, NEW complete \in BOOLEAN, GoOn(w, cs, complete)
  PROVE  /\ active' \in [Walks -> SUBSET Cols] /\ whole' \in [Walks -> BOOLEAN]
         /\ attempt' \in [Walks -> 0..Retries]
         /\ ended' \in [Walks -> Outcomes \cup {"open"}] /\ truncated' \in BOOLEAN
         /\ active'[w] = cs /\ whole'[w] = complete
         /\ ended'[w] = "ok" => complete /\ cs = {}
         /\ \A v \in Walks \ {w} : /\ active'[v] = active[v] /\ whole'[v] = whole[v]
                                   /\ ended'[v] = ended[v]
<1>1. active' = [active EXCEPT ![w] = cs] /\ whole' = [whole EXCEPT ![w] = complete]
      /\ attempt' = [attempt EXCEPT ![w] = 0]
  BY DEF GoOn
<1>2. active \in [Walks -> SUBSET Cols] /\ whole \in [Walks -> BOOLEAN]
      /\ attempt \in [Walks -> 0..Retries] /\ ended \in [Walks -> Outcomes \cup {"open"}]
      /\ truncated \in BOOLEAN /\ 0 \in 0..Retries
  BY TableAssumption DEF TypeOK, BudgetTypeOK
<1>3. CASE cs = {}
  <2>1. PICK o \in {"ok", "error"} : (o = "ok" <=> complete) /\ Finish(w, o)
    BY <1>3 DEF GoOn
  <2>2. ended' = [ended EXCEPT ![w] = o] /\ truncated' = (truncated \/ o \in Cuts)
    BY <2>1 DEF Finish
  <2>3. truncated' \in BOOLEAN
    BY <2>2
  <2> QED BY <1>1, <1>2, <1>3, <2>1, <2>2, <2>3 DEF Outcomes
<1>4. CASE cs # {}
  <2>1. ended' = ended /\ truncated' = truncated
    BY <1>4 DEF GoOn
  <2> QED BY <1>1, <1>2, <2>1
<1> QED BY <1>3, <1>4

LEMMA EndsAs ==
  ASSUME TypeOK, NEW w \in Walks, NEW o \in Outcomes, Finish(w, o)
  PROVE  /\ ended' \in [Walks -> Outcomes \cup {"open"}] /\ truncated' \in BOOLEAN
         /\ ended'[w] = o /\ \A v \in Walks \ {w} : ended'[v] = ended[v]
<1>1. truncated' \in BOOLEAN
  BY DEF Finish
<1> QED BY <1>1 DEF TypeOK, Finish

Elsewhere(w) ==
  \A v \in Walks \ {w} : /\ ended'[v] = ended[v] /\ whole'[v] = whole[v]
                         /\ active'[v] = active[v] /\ last'[v] = last[v] /\ cells'[v] = cells[v]

\* Walks share a budget and nothing of what they read.
LEMMA OnlyItsOwn ==
  ASSUME ReadInv, TypeOK', NEW w \in Walks, Elsewhere(w), table' = table,
         cells'[w] \subseteq TheTable,
         \A c \in Cols : \A j \in table[c] : <<j, c>> \in cells'[w] => j <= last'[w][c],
         ended'[w] = "open" /\ whole'[w] =>
           \A c \in Cols : \A j \in table[c] :
             (c \in active'[w] => j <= last'[w][c]) => <<j, c>> \in cells'[w],
         ended'[w] = "ok" => TheTable \subseteq cells'[w]
  PROVE  ReadInv'
<1>1. TheTable' = TheTable
  BY DEF TheTable
<1>2. FromTheTables'
  BY <1>1 DEF ReadInv, FromTheTables, Elsewhere
<1>3. BehindLast'
  BY DEF ReadInv, BehindLast, Elsewhere
<1>4. NothingPassedOver'
  BY DEF ReadInv, NothingPassedOver, Elsewhere
<1>5. OkIsWhole'
  BY <1>1 DEF ReadInv, OkIsWhole, Elsewhere
<1> QED BY <1>2, <1>3, <1>4, <1>5 DEF ReadInv

\* The budget and the columns read, when an answer is kept whole.
LEMMA AnswerKeepsInv ==
  ASSUME ReadInv, NEW w \in Walks, NEW n \in Nat, Answered(w, n), ~OverCap(w, n)
  PROVE  ReadInv'
<1> DEFINE cs == {c \in active[w] : ~Closes(w, c, n)}
           complete == whole[w] /\ \A c \in active[w] : ~Repeats(w, c, n)
<1>1. TypeOK /\ ended[w] = "open"
  BY DEF ReadInv, Answered, Running
<1>2. Keep(w, n) /\ GoOn(w, cs, complete) /\ UNCHANGED <<time, table, agent, capped, perReq>>
  BY DEF Answered
<1>3. active[w] \in SUBSET Cols /\ whole[w] \in BOOLEAN
  BY <1>1 DEF TypeOK
<1>4. cs \in SUBSET Cols /\ cs \subseteq active[w] /\ complete \in BOOLEAN
  BY <1>3
<1> HIDE DEF cs, complete
<1>5. /\ active' \in [Walks -> SUBSET Cols] /\ whole' \in [Walks -> BOOLEAN]
      /\ attempt' \in [Walks -> 0..Retries]
      /\ ended' \in [Walks -> Outcomes \cup {"open"}] /\ truncated' \in BOOLEAN
      /\ active'[w] = cs /\ whole'[w] = complete
      /\ ended'[w] = "ok" => complete /\ cs = {}
      /\ \A v \in Walks \ {w} : active'[v] = active[v] /\ whole'[v] = whole[v] /\ ended'[v] = ended[v]
  BY <1>1, <1>2, <1>4, GoesOn
<1>6. /\ last' \in [Walks -> [Cols -> Nat]] /\ cells' \in [Walks -> SUBSET (Nat \X Cols)]
      /\ rowsLeft' \in 0..RowCap
      /\ cells'[w] = CellsAfter(w, n) /\ CellsAfter(w, n) \subseteq TheTable
      /\ \A c \in Cols : last'[w][c] = LastAfter(w, c, n)
      /\ \A v \in Walks \ {w} : cells'[v] = cells[v] /\ last'[v] = last[v]
  BY <1>2, KeepsAnAnswer
<1>7. TypeOK'
  BY <1>1, <1>2, <1>5, <1>6 DEF TypeOK, BudgetTypeOK
<1>8. Elsewhere(w)
  BY <1>5, <1>6 DEF Elsewhere
<1>9. \A c \in Cols : \A j \in table[c] : <<j, c>> \in cells'[w] => j <= last'[w][c]
  BY <1>1, <1>6, LastAfterIsTheLast
<1>10. ASSUME complete, NEW c \in Cols, NEW j \in table[c], c \in cs => j <= last'[w][c]
       PROVE  <<j, c>> \in cells'[w]
  <2>1. whole[w] /\ \A d \in active[w] : ~Repeats(w, d, n)
    BY <1>10 DEF complete
  <2>2. CASE c \notin active[w]
    BY <1>1, <1>6, <2>1, <2>2 DEF ReadInv, NothingPassedOver, CellsAfter
  <2>3. CASE c \in cs
    <3>1. \A h \in table[c] : h <= last[w][c] => <<h, c>> \in cells[w]
      BY <1>1, <2>1 DEF ReadInv, NothingPassedOver
    <3>2. j <= LastAfter(w, c, n)
      BY <1>6, <1>10, <2>3
    <3> QED BY <1>1, <1>6, <3>1, <3>2, NothingBeforeTheLast DEF ReadInv
  <2>4. CASE c \in active[w] /\ c \notin cs
    <3>1. Closes(w, c, n)
      BY <2>4 DEF cs
    <3> QED BY <1>1, <1>6, <2>1, <2>4, <3>1, NothingAfterTheEnd
  <2> QED BY <2>2, <2>3, <2>4
<1>11. ended'[w] = "ok" => TheTable \subseteq cells'[w]
  <2> HAVE ended'[w] = "ok"
  <2>1. complete /\ cs = {}
    BY <1>5
  <2>2. \A c \in Cols : \A j \in table[c] : <<j, c>> \in cells'[w]
    BY <1>10, <2>1
  <2> QED BY <2>2 DEF TheTable
<1>12. ended'[w] = "open" /\ whole'[w] =>
         \A c \in Cols : \A j \in table[c] :
           (c \in active'[w] => j <= last'[w][c]) => <<j, c>> \in cells'[w]
  BY <1>5, <1>10
<1>13. table' = table /\ cells'[w] \subseteq TheTable
  BY <1>2, <1>6
<1> QED BY <1>7, <1>8, <1>9, <1>11, <1>12, <1>13, OnlyItsOwn

\* When one row too many would come, what was there before it stays.
LEMMA CutKeepsInv ==
  ASSUME ReadInv, NEW w \in Walks, NEW n \in Nat, Answered(w, n), OverCap(w, n)
  PROVE  ReadInv'
<1>1. TypeOK
  BY DEF ReadInv
<1>2. PICK m \in Nat : ~OverCap(w, m) /\ Keep(w, m)
  <2>1. PICK m \in 0..(n - 1) : ~OverCap(w, m) /\ Keep(w, m)
    BY DEF Answered
  <2>2. m \in Nat
    OBVIOUS
  <2> QED BY <2>1, <2>2
<1>3. Finish(w, "rows") /\ UNCHANGED <<time, table, agent, capped, perReq, active, whole, attempt>>
  BY DEF Answered
<1>4. /\ last' \in [Walks -> [Cols -> Nat]] /\ cells' \in [Walks -> SUBSET (Nat \X Cols)]
      /\ rowsLeft' \in 0..RowCap
      /\ cells'[w] = CellsAfter(w, m) /\ CellsAfter(w, m) \subseteq TheTable
      /\ \A c \in Cols : last'[w][c] = LastAfter(w, c, m)
      /\ \A v \in Walks \ {w} : cells'[v] = cells[v] /\ last'[v] = last[v]
  BY <1>2, KeepsAnAnswer
<1>5. /\ ended' \in [Walks -> Outcomes \cup {"open"}] /\ truncated' \in BOOLEAN
      /\ ended'[w] = "rows" /\ \A v \in Walks \ {w} : ended'[v] = ended[v]
  <2>1. "rows" \in Outcomes
    BY DEF Outcomes
  <2> QED BY <1>1, <1>3, <2>1, EndsAs
<1>6. TypeOK'
  BY <1>1, <1>3, <1>4, <1>5 DEF TypeOK, BudgetTypeOK
<1>7. Elsewhere(w)
  BY <1>3, <1>4, <1>5 DEF Elsewhere
<1>8. \A c \in Cols : \A j \in table[c] : <<j, c>> \in cells'[w] => j <= last'[w][c]
  <2> SUFFICES ASSUME NEW c \in Cols PROVE \A j \in table[c] : <<j, c>> \in cells'[w] => j <= last'[w][c]
    OBVIOUS
  <2>1. \A j \in table[c] : <<j, c>> \in CellsAfter(w, m) => j <= LastAfter(w, c, m)
    BY <1>1, LastAfterIsTheLast
  <2> QED BY <1>4, <2>1
<1>9. table' = table /\ cells'[w] \subseteq TheTable /\ ended'[w] # "open" /\ ended'[w] # "ok"
  BY <1>3, <1>4, <1>5
<1> QED BY <1>6, <1>7, <1>8, <1>9, OnlyItsOwn

LEMMA NoSuchNameKeepsInv ==
  ASSUME ReadInv, NEW w \in Walks, NEW c \in Cols, NoSuchName(w, c)
  PROVE  ReadInv'
<1> DEFINE cs == active[w] \ {c}
<1>1. TypeOK /\ ended[w] = "open" /\ PastTheMib(c, last[w][c]) /\ c \in active[w]
  BY DEF ReadInv, NoSuchName, Running
<1>2. GoOn(w, cs, whole[w]) /\ UNCHANGED <<time, rowsLeft, table, agent, capped, last, cells, perReq>>
  BY DEF NoSuchName
<1>3. cs \in SUBSET Cols /\ whole[w] \in BOOLEAN
  BY <1>1 DEF TypeOK
<1> HIDE DEF cs
<1>4. /\ active' \in [Walks -> SUBSET Cols] /\ whole' \in [Walks -> BOOLEAN]
      /\ attempt' \in [Walks -> 0..Retries]
      /\ ended' \in [Walks -> Outcomes \cup {"open"}] /\ truncated' \in BOOLEAN
      /\ active'[w] = cs /\ whole'[w] = whole[w]
      /\ ended'[w] = "ok" => whole[w] /\ cs = {}
      /\ \A v \in Walks \ {w} : active'[v] = active[v] /\ whole'[v] = whole[v] /\ ended'[v] = ended[v]
  BY <1>1, <1>2, <1>3, GoesOn
<1>5. TypeOK'
  BY <1>1, <1>2, <1>4 DEF TypeOK, BudgetTypeOK
<1>6. Elsewhere(w)
  BY <1>2, <1>4 DEF Elsewhere
<1>7. \A j \in table[c] : j <= last[w][c]
  <2>1. Column(c) /\ last[w][c] \in Nat /\ c \in Nat
    BY <1>1, TypesOfAWalk, TableAssumption DEF Cols, Range
  <2>2. \A j \in table[c] : c < c \/ (c = c /\ j <= last[w][c])
    BY <1>1 DEF PastTheMib
  <2>3. ~(c < c)
    BY <2>1
  <2> QED BY <2>2, <2>3
<1>8. ASSUME whole[w], NEW d \in Cols, NEW j \in table[d], d \in cs => j <= last[w][d]
      PROVE  <<j, d>> \in cells[w]
  <2>1. d \in active[w] => j <= last[w][d]
    BY <1>7, <1>8 DEF cs
  <2> QED BY <1>1, <1>8, <2>1 DEF ReadInv, NothingPassedOver
<1>9. ended'[w] = "ok" => TheTable \subseteq cells'[w]
  <2> HAVE ended'[w] = "ok"
  <2>1. \A d \in Cols : \A j \in table[d] : <<j, d>> \in cells[w]
    BY <1>4, <1>8
  <2> QED BY <1>2, <2>1 DEF TheTable
<1>10. ended'[w] = "open" /\ whole'[w] =>
         \A d \in Cols : \A j \in table[d] :
           (d \in active'[w] => j <= last'[w][d]) => <<j, d>> \in cells'[w]
  BY <1>2, <1>4, <1>8
<1>11. \A d \in Cols : \A j \in table[d] : <<j, d>> \in cells'[w] => j <= last'[w][d]
  BY <1>2 DEF ReadInv, BehindLast
<1>12. table' = table /\ cells'[w] \subseteq TheTable
  BY <1>2 DEF ReadInv, FromTheTables
<1> QED BY <1>5, <1>6, <1>9, <1>10, <1>11, <1>12, OnlyItsOwn

LEMMA HalvingIsTyped == \A n \in 1..MaxRep : n > 1 => Halved(n) \in 1..MaxRep
<1>1. MaxRep \in Nat
  BY TableAssumption
<1>2. \A n \in Nat : n > 1 => n \div 2 \in Nat /\ n \div 2 <= n
  OBVIOUS
<1> TAKE n \in 1..MaxRep
<1> HAVE n > 1
<1>3. n \in Nat /\ n \div 2 \in Nat /\ n \div 2 <= n /\ n <= MaxRep
  BY <1>1, <1>2
<1>4. CASE n \div 2 > 1
  BY <1>1, <1>3, <1>4 DEF Halved
<1>5. CASE ~(n \div 2 > 1)
  BY <1>1, <1>5 DEF Halved
<1> QED BY <1>4, <1>5

\* A step that moves nothing and ends a walk at most, not as "ok".
LEMMA NothingRead ==
  ASSUME ReadInv, TypeOK', table' = table, UNCHANGED <<last, active, cells, whole>>,
         \A w \in Walks : ended'[w] \in {"open", "ok"} => ended'[w] = ended[w]
  PROVE  ReadInv'
<1>1. TheTable' = TheTable
  BY DEF TheTable
<1>2. FromTheTables'
  BY <1>1 DEF ReadInv, FromTheTables
<1>3. BehindLast'
  BY DEF ReadInv, BehindLast
<1>4. NothingPassedOver'
  BY DEF ReadInv, NothingPassedOver
<1>5. OkIsWhole'
  BY <1>1 DEF ReadInv, OkIsWhole
<1> QED BY <1>2, <1>3, <1>4, <1>5 DEF ReadInv

LEMMA OneWalkKeepsInv ==
  ASSUME ReadInv, NEW w \in Walks, Steps(w)
  PROVE  ReadInv'
<1>1. TypeOK
  BY DEF ReadInv
<1>2. \A o \in Outcomes : Finish(w, o) =>
        /\ ended' \in [Walks -> Outcomes \cup {"open"}] /\ truncated' \in BOOLEAN
        /\ ended'[w] = o /\ \A v \in Walks \ {w} : ended'[v] = ended[v]
  BY <1>1, EndsAs
<1>3. ASSUME NEW n \in 1..(MaxRep * Len(Columns)), Answered(w, n) PROVE ReadInv'
  <2>1. n \in Nat
    OBVIOUS
  <2> QED BY <1>3, <2>1, AnswerKeepsInv, CutKeepsInv
<1>4. ASSUME NEW c \in Cols, NoSuchName(w, c) PROVE ReadInv'
  BY <1>4, NoSuchNameKeepsInv
<1>5. CASE TooBig(w)
  <2>1. UNCHANGED <<budget, table, agent, capped, position>>
    BY <1>5 DEF TooBig
  <2>2. perReq' \in [Walks -> 1..MaxRep]
    <3>1. perReq[w] \in 1..MaxRep /\ perReq[w] > 1 /\ perReq' = [perReq EXCEPT ![w] = Halved(@)]
      BY <1>1, <1>5 DEF TypeOK, TooBig
    <3>2. Halved(perReq[w]) \in 1..MaxRep
      BY <3>1, HalvingIsTyped
    <3> QED BY <1>1, <3>1, <3>2 DEF TypeOK
  <2>3. attempt' \in [Walks -> 0..Retries]
    <3>1. attempt' = [attempt EXCEPT ![w] = 0] /\ 0 \in 0..Retries
      BY <1>5, TableAssumption DEF TooBig
    <3> QED BY <1>1, <3>1 DEF TypeOK
  <2>4. TypeOK'
    BY <1>1, <2>1, <2>2, <2>3 DEF TypeOK, BudgetTypeOK, budget, position
  <2> QED BY <2>1, <2>4, NothingRead DEF position
<1>6. CASE Lost(w)
  <2>1. UNCHANGED <<time, rowsLeft, table, agent, capped, last, active, cells, whole, perReq>>
    BY <1>6 DEF Lost
  <2>2. CASE attempt[w] < Retries
    <3>1. attempt' = [attempt EXCEPT ![w] = @ + 1] /\ UNCHANGED <<truncated, ended>>
      BY <1>6, <2>2 DEF Lost
    <3>2. attempt[w] + 1 \in 0..Retries
      <4>1. attempt[w] \in 0..Retries /\ Retries \in Nat
        BY <1>1, TableAssumption DEF TypeOK
      <4> QED BY <2>2, <4>1
    <3>3. attempt' \in [Walks -> 0..Retries]
      BY <1>1, <3>1, <3>2 DEF TypeOK
    <3>4. TypeOK'
      BY <1>1, <2>1, <3>1, <3>3 DEF TypeOK, BudgetTypeOK
    <3> QED BY <2>1, <3>1, <3>4, NothingRead
  <2>3. CASE ~(attempt[w] < Retries)
    <3>1. Finish(w, "timeout") /\ UNCHANGED attempt /\ "timeout" \in Outcomes
      BY <1>6, <2>3 DEF Lost, Outcomes
    <3>2. TypeOK'
      BY <1>1, <1>2, <2>1, <3>1 DEF TypeOK, BudgetTypeOK
    <3>3. \A v \in Walks : ended'[v] = ended[v] \/ ended'[v] = "timeout"
      BY <1>2, <3>1
    <3> QED BY <2>1, <3>2, <3>3, NothingRead
  <2> QED BY <2>2, <2>3
<1>7. ASSUME NEW o \in {"error", "time"}, Finish(w, o),
             UNCHANGED <<time, rowsLeft, table, agent, capped, last, active, cells, whole, perReq, attempt>>
      PROVE  ReadInv'
  <2>1. o \in Outcomes
    BY DEF Outcomes
  <2>2. TypeOK'
    BY <1>1, <1>2, <1>7, <2>1 DEF TypeOK, BudgetTypeOK
  <2>3. \A v \in Walks : ended'[v] = ended[v] \/ ended'[v] = o
    BY <1>2, <1>7, <2>1
  <2> QED BY <1>7, <2>2, <2>3, NothingRead
<1>8. CASE Refused(w)
  BY <1>7, <1>8 DEF Refused
<1>9. CASE OutOfTime(w)
  BY <1>7, <1>9 DEF OutOfTime
<1> QED BY <1>3, <1>4, <1>5, <1>6, <1>8, <1>9 DEF Steps

LEMMA StepIsRead == ReadInv /\ [Next]_vars => ReadInv'
<1> SUFFICES ASSUME ReadInv, [Next]_vars PROVE ReadInv'
  OBVIOUS
<1>1. TypeOK
  BY DEF ReadInv
<1>2. CASE UNCHANGED vars
  <2>1. TypeOK'
    BY <1>1, <1>2 DEF TypeOK, BudgetTypeOK, vars, budget, position
  <2> QED BY <1>2, <2>1, NothingRead DEF vars, position
<1>3. ASSUME NEW w \in Walks, Steps(w) PROVE ReadInv'
  BY <1>3, OneWalkKeepsInv
<1>4. CASE Elapse
  <2>1. time' \in 0..Budget
    BY <1>1, <1>4, BudgetAssumption DEF Elapse, Tick, TypeOK, BudgetTypeOK
  <2>2. UNCHANGED <<rowsLeft, truncated, table, agent, capped, position, perReq, attempt>>
    BY <1>4 DEF Elapse, Tick
  <2>3. TypeOK'
    BY <1>1, <2>1, <2>2 DEF TypeOK, BudgetTypeOK, position
  <2> QED BY <2>2, <2>3, NothingRead DEF position
<1>5. CASE Done
  BY <1>2, <1>5 DEF Done
<1> QED BY <1>2, <1>3, <1>4, <1>5 DEF Next

LEMMA AlwaysRead == Spec => []ReadInv
BY InitIsRead, StepIsRead, PTL DEF Spec

\* Every variable of the walks keeps its type and its bounds: no more rows per
\* request than asked for, no more tries than allowed, a row allowance that
\* never falls below zero (690-799).
THEOREM WalkTypeCorrect == Spec => []TypeOK
<1>1. ReadInv => TypeOK
  BY DEF ReadInv
<1> QED BY <1>1, AlwaysRead, PTL

\* For every table, however many columns and walks, whatever the agent answers:
\* what is read is the table's, and a walk that calls itself complete has every
\* row of every column (690-799).
THEOREM CompleteIsTheTable == Spec => []RowsAreTheTables
<1>1. ReadInv => RowsAreTheTables
  <2> SUFFICES ASSUME ReadInv PROVE RowsAreTheTables
    OBVIOUS
  <2>1. \A w \in Walks : cells[w] \subseteq TheTable
    BY DEF ReadInv, FromTheTables
  <2>2. \A w \in Walks : ended[w] = "ok" => TheTable \subseteq cells[w]
    BY DEF ReadInv, OkIsWhole
  <2> QED BY <2>1, <2>2 DEF RowsAreTheTables
<1> QED BY <1>1, AlwaysRead, PTL

-----------------------------------------------------------------------------
(* The first rows of each column.                                          *)

\* Up to the last row taken of a column, all of it has been read.
UpToTheLast == \A w \in Walks : \A c \in Cols : \A j \in table[c] :
  j <= last[w][c] => <<j, c>> \in cells[w]

\* Of an answer as many var-binds are kept as the cap allows.
LEMMA AnswerKeepsSome ==
  ASSUME NEW w, NEW n \in 1..(MaxRep * Len(Columns)), Answered(w, n)
  PROVE  \E m \in Nat : ~OverCap(w, m) /\ Keep(w, m)
<1>1. n \in Nat
  OBVIOUS
<1>2. CASE OverCap(w, n)
  <2>1. PICK m \in 0..(n - 1) : ~OverCap(w, m) /\ Keep(w, m)
    BY <1>2 DEF Answered
  <2>2. m \in Nat
    OBVIOUS
  <2> QED BY <2>1, <2>2
<1>3. CASE ~OverCap(w, n)
  BY <1>1, <1>3 DEF Answered
<1> QED BY <1>2, <1>3

LEMMA KeepsUpToTheLast ==
  ASSUME ReadInv, UpToTheLast, NEW w \in Walks, NEW n \in Nat, ~OverCap(w, n), Keep(w, n),
         table' = table
  PROVE  UpToTheLast'
<1>1. /\ cells'[w] = CellsAfter(w, n)
      /\ \A c \in Cols : last'[w][c] = LastAfter(w, c, n)
      /\ \A v \in Walks \ {w} : cells'[v] = cells[v] /\ last'[v] = last[v]
  BY KeepsAnAnswer
<1>2. ASSUME NEW c \in Cols, NEW j \in table[c], j <= LastAfter(w, c, n)
      PROVE  <<j, c>> \in CellsAfter(w, n)
  <2>1. \A h \in table[c] : h <= last[w][c] => <<h, c>> \in cells[w]
    BY DEF UpToTheLast
  <2> QED BY <1>2, <2>1, NothingBeforeTheLast DEF ReadInv
<1>3. \A c \in Cols : \A j \in table[c] : j <= last'[w][c] => <<j, c>> \in cells'[w]
  BY <1>1, <1>2
<1>4. \A v \in Walks \ {w} : \A c \in Cols : \A j \in table[c] :
        j <= last'[v][c] => <<j, c>> \in cells'[v]
  BY <1>1 DEF UpToTheLast
<1> QED BY <1>3, <1>4 DEF UpToTheLast

LEMMA StepKeepsUpToTheLast ==
  ASSUME ReadInv, UpToTheLast, [Next]_vars
  PROVE  UpToTheLast'
<1>1. CASE UNCHANGED <<table, last, cells>>
  BY <1>1 DEF UpToTheLast
<1>2. ASSUME NEW w \in Walks, NEW n \in 1..(MaxRep * Len(Columns)), Answered(w, n)
      PROVE  UpToTheLast'
  <2>1. PICK m \in Nat : ~OverCap(w, m) /\ Keep(w, m)
    BY <1>2, AnswerKeepsSome
  <2>2. table' = table
    BY <1>2 DEF Answered
  <2> QED BY <2>1, <2>2, KeepsUpToTheLast
<1>3. ASSUME NEW w \in Walks, NEW c \in Cols, NoSuchName(w, c) PROVE UpToTheLast'
  BY <1>1, <1>3 DEF NoSuchName
<1>4. ASSUME NEW w \in Walks, TooBig(w) \/ Lost(w) \/ Refused(w) \/ OutOfTime(w) PROVE UpToTheLast'
  BY <1>1, <1>4 DEF TooBig, Lost, Refused, OutOfTime, position
<1>5. CASE Elapse \/ Done \/ UNCHANGED vars
  BY <1>1, <1>5 DEF Elapse, Done, vars, position
<1> QED BY <1>2, <1>3, <1>4, <1>5 DEF Next, Steps

\* For every table and every agent, however a walk ended: of each column it has
\* the first rows, which is what SnmpFetch takes a walk to bring (768-799).
THEOREM FirstRowsAreRead == Spec => []FirstRowsOfEach
<1>1. Init => UpToTheLast
  <2> SUFFICES ASSUME Init, NEW w \in Walks, NEW c \in Cols, NEW j \in table[c], j <= last[w][c]
               PROVE  FALSE
    BY DEF UpToTheLast
  <2>1. Column(c) /\ last[w][c] = 0
    BY ColumnsAreFinite DEF Init
  <2> QED BY <2>1 DEF Column
<1>2. ReadInv /\ UpToTheLast /\ [Next]_vars => UpToTheLast'
  BY StepKeepsUpToTheLast
<1>3. ReadInv /\ UpToTheLast => FirstRowsOfEach
  <2> SUFFICES ASSUME ReadInv, UpToTheLast, NEW w \in Walks, NEW c \in Cols,
                      NEW j \in table[c], NEW k \in table[c], j < k, <<k, c>> \in cells[w]
               PROVE  <<j, c>> \in cells[w]
    BY DEF FirstRowsOfEach
  <2>1. k <= last[w][c]
    BY DEF ReadInv, BehindLast
  <2>2. j \in Nat /\ k \in Nat /\ last[w][c] \in Nat
    BY TypesOfAWalk DEF ReadInv, Column
  <2>3. j <= last[w][c]
    BY <2>1, <2>2
  <2> QED BY <2>3 DEF UpToTheLast
<1> QED BY <1>1, <1>2, <1>3, AlwaysRead, PTL DEF Spec

-----------------------------------------------------------------------------
(* Every row is charged once.                                              *)

LEMMA Paired ==
  ASSUME NEW w, NEW S, IsFiniteSet(S)
  PROVE  IsFiniteSet({w} \X S) /\ Cardinality({w} \X S) = Cardinality(S)
<1> DEFINE f == [x \in S |-> <<w, x>>]
           T == {w} \X S
<1>0. f \in [S -> T] /\ DOMAIN f = S
  OBVIOUS
<1>1. f \in Surjection(S, T)
  <2>1. ASSUME NEW t \in T PROVE \E x \in S : f[x] = t
    <3>1. PICK x \in S : t = <<w, x>>
      OBVIOUS
    <3> QED BY <3>1
  <2> HIDE DEF f, T
  <2> QED BY <1>0, <2>1 DEF Surjection
<1>2. f \in Injection(S, T)
  <2>1. \A x, y \in S : f[x] = f[y] => x = y
    OBVIOUS
  <2> HIDE DEF f, T
  <2>2. IsInjective(f)
    BY <1>0, <2>1 DEF IsInjective
  <2> QED BY <1>0, <2>2 DEF Injection
<1> HIDE DEF f, T
<1>3. IsFiniteSet(T) /\ Cardinality(T) = Cardinality(S)
  BY <1>1, <1>2, FS_Surjection
<1> QED BY <1>3 DEF T

LEMMA Apart ==
  ASSUME NEW S, NEW T, IsFiniteSet(S), IsFiniteSet(T), S \cap T = {}
  PROVE  IsFiniteSet(S \cup T) /\ Cardinality(S \cup T) = Cardinality(S) + Cardinality(T)
<1>1. Cardinality(S) \in Nat /\ Cardinality(T) \in Nat
  BY FS_CardinalityType
<1>2. IsFiniteSet(S \cup T) /\ Cardinality(S \cup T) = Cardinality(S) + Cardinality(T) - Cardinality({})
  BY FS_Union
<1>3. Cardinality({}) = 0
  BY FS_EmptySet
<1> QED BY <1>1, <1>2, <1>3

ChargedOnce == IsFiniteSet(Charged) /\ RowsAreChargedOnce

\* The new rows of an answer are new to what is charged, and are all of it.
LEMMA KeepChargesOnce ==
  ASSUME ReadInv, ChargedOnce, NEW w \in Walks, NEW n \in Nat, ~OverCap(w, n), Keep(w, n),
         capped' = capped
  PROVE  ChargedOnce'
<1> DEFINE new == RowsOf(CellsAfter(w, n)) \ RowsOf(cells[w])
<1>1. TypeOK /\ FromTheTables
  BY DEF ReadInv
<1>2. /\ cells'[w] = CellsAfter(w, n)
      /\ \A v \in Walks \ {w} : cells'[v] = cells[v]
      /\ rowsLeft' = rowsLeft - Charge(w, n)
  BY KeepsAnAnswer DEF Keep
<1>3. Charge(w, n) \in Nat /\ rowsLeft \in Nat /\ RowCap \in Nat
  BY <1>1, ChargeIsWhatIsAdded, BudgetAssumption DEF TypeOK, BudgetTypeOK
<1>4. capped \subseteq Walks
  BY <1>1, TableAssumption DEF TypeOK
<1>5. RowsOf(cells[w]) \subseteq RowsOf(CellsAfter(w, n))
  BY DEF CellsAfter, RowsOf
<1>6. Charged' = UNION {{v} \X RowsOf(cells'[v]) : v \in capped}
  BY DEF Charged, RowsOf
<1>7. CASE w \notin capped
  <2>1. Charged' = Charged
    <3>1. \A v \in capped : cells'[v] = cells[v]
      BY <1>2, <1>4, <1>7
    <3> QED BY <1>6, <3>1 DEF Charged
  <2>2. rowsLeft' = rowsLeft
    BY <1>2, <1>3, <1>7 DEF Charge
  <2> QED BY <2>1, <2>2 DEF ChargedOnce, RowsAreChargedOnce
<1>8. CASE w \in capped
  <2>1. Charge(w, n) = Cardinality(new)
    BY <1>8 DEF Charge
  <2>2. IsFiniteSet(new)
    <3>1. IsFiniteSet(RowsOf(CellsAfter(w, n)))
      BY <1>1, AnswerIsFromTheTables, RowsAreFinite
    <3> QED BY <3>1, FS_Difference
  <2>3. Charged' = Charged \cup ({w} \X new)
    <3>1. ASSUME NEW v \in capped, NEW j
          PROVE  j \in RowsOf(cells'[v]) <=> j \in RowsOf(cells[v]) \/ (v = w /\ j \in new)
      <4>1. CASE v = w
        BY <1>2, <1>5, <4>1
      <4>2. CASE v # w
        <5>1. cells'[v] = cells[v]
          BY <1>2, <1>4, <4>2
        <5> QED BY <4>2, <5>1
      <4> QED BY <4>1, <4>2
    <3> HIDE DEF new
    <3>2. ASSUME NEW x PROVE x \in Charged' <=> x \in Charged \cup ({w} \X new)
      <4>1. x \in Charged' <=> \E v \in capped : x \in {v} \X RowsOf(cells'[v])
        BY <1>6
      <4>2. x \in Charged <=> \E v \in capped : x \in {v} \X RowsOf(cells[v])
        BY DEF Charged
      <4>3. \A v \in capped : x \in {v} \X RowsOf(cells'[v]) <=>
              x \in {v} \X RowsOf(cells[v]) \/ (v = w /\ x \in {w} \X new)
        BY <3>1
      <4> QED BY <1>8, <4>1, <4>2, <4>3
    <3> QED BY <3>2
  <2>4. Charged \cap ({w} \X new) = {}
    <3>1. ASSUME NEW x \in Charged, x \in {w} \X new PROVE FALSE
      <4>1. PICK v \in capped : x \in {v} \X RowsOf(cells[v])
        BY DEF Charged
      <4> QED BY <3>1, <4>1
    <3> QED BY <3>1
  <2> HIDE DEF new
  <2>5. IsFiniteSet({w} \X new) /\ Cardinality({w} \X new) = Cardinality(new)
    BY <2>2, Paired
  <2>6. IsFiniteSet(Charged) /\ Cardinality(Charged) = RowCap - rowsLeft
    BY DEF ChargedOnce, RowsAreChargedOnce
  <2>7. IsFiniteSet(Charged') /\ Cardinality(Charged') = Cardinality(Charged) + Charge(w, n)
    <3> DEFINE S == Charged
               T == {w} \X new
    <3>1. IsFiniteSet(S) /\ IsFiniteSet(T) /\ S \cap T = {} /\ Charged' = S \cup T
          /\ Cardinality(T) = Charge(w, n)
      BY <2>1, <2>3, <2>4, <2>5, <2>6
    <3> HIDE DEF S, T
    <3>2. IsFiniteSet(S \cup T) /\ Cardinality(S \cup T) = Cardinality(S) + Cardinality(T)
      BY <3>1, Apart
    <3>3. IsFiniteSet(Charged') /\ Cardinality(Charged') = Cardinality(S) + Charge(w, n)
      BY <3>1, <3>2
    <3> QED BY <3>3 DEF S
  <2>8. Cardinality(Charged') = RowCap - rowsLeft'
    <3>1. Cardinality(Charged') = (RowCap - rowsLeft) + Charge(w, n)
      BY <2>6, <2>7
    <3>2. \A a, b, c \in Nat : (a - b) + c = a - (b - c)
      OBVIOUS
    <3> QED BY <1>2, <1>3, <3>1, <3>2
  <2> QED BY <2>7, <2>8 DEF ChargedOnce, RowsAreChargedOnce
<1> QED BY <1>7, <1>8

LEMMA StepChargesOnce ==
  ASSUME ReadInv, ChargedOnce, [Next]_vars
  PROVE  ChargedOnce'
<1>1. ASSUME UNCHANGED <<rowsLeft, capped, cells>> PROVE ChargedOnce'
  <2>1. Charged' = Charged
    BY <1>1 DEF Charged, RowsOf
  <2> QED BY <1>1, <2>1 DEF ChargedOnce, RowsAreChargedOnce
<1>2. ASSUME NEW w \in Walks, NEW n \in 1..(MaxRep * Len(Columns)), Answered(w, n)
      PROVE  ChargedOnce'
  <2>1. PICK m \in Nat : ~OverCap(w, m) /\ Keep(w, m)
    BY <1>2, AnswerKeepsSome
  <2>2. capped' = capped
    BY <1>2 DEF Answered
  <2> QED BY <2>1, <2>2, KeepChargesOnce
<1>3. ASSUME NEW w \in Walks, NEW c \in Cols, NoSuchName(w, c) PROVE ChargedOnce'
  BY <1>1, <1>3 DEF NoSuchName
<1>4. ASSUME NEW w \in Walks, TooBig(w) \/ Lost(w) \/ Refused(w) \/ OutOfTime(w) PROVE ChargedOnce'
  BY <1>1, <1>4 DEF TooBig, Lost, Refused, OutOfTime, position, budget
<1>5. CASE Elapse \/ Done \/ UNCHANGED vars
  BY <1>1, <1>5 DEF Elapse, Tick, Done, vars, position, budget
<1> QED BY <1>2, <1>3, <1>4, <1>5 DEF Next, Steps

\* However many walks charge one allowance between their requests, each row is
\* charged once, and what they keep together is within the cap (790-796).
THEOREM CapIsShared == Spec => []RowsAreChargedOnce
<1>1. Init => ChargedOnce
  <2> SUFFICES ASSUME Init PROVE ChargedOnce
    OBVIOUS
  <2>1. capped \subseteq Walks
    BY TableAssumption DEF Init
  <2>2. \A w \in capped : RowsOf(cells[w]) = {}
    BY <2>1 DEF Init, RowsOf
  <2>3. Charged = {}
    BY <2>2 DEF Charged
  <2>4. RowCap - rowsLeft = 0
    BY BudgetAssumption DEF Init, BudgetInit
  <2> QED BY <2>3, <2>4, FS_EmptySet DEF ChargedOnce, RowsAreChargedOnce
<1>2. ReadInv /\ ChargedOnce /\ [Next]_vars => ChargedOnce'
  BY StepChargesOnce
<1>3. ChargedOnce => RowsAreChargedOnce
  BY DEF ChargedOnce
<1> QED BY <1>1, <1>2, <1>3, AlwaysRead, PTL DEF Spec

-----------------------------------------------------------------------------
(* No request is in vain.                                                  *)

StillAsking == \A w \in Walks : ended[w] = "open" => active[w] # {}

\* Every answer has something for the first of the columns asked for.
LEMMA FirstIsServed ==
  ASSUME NEW w, active[w] \in SUBSET Cols, active[w] # {}, NEW n \in Nat \ {0}
  PROVE  \E c \in active[w] : 1 \in Dealt(w, c, n)
<1> DEFINE places == {Place(c) : c \in active[w]}
<1>1. places \in SUBSET Nat /\ places # {}
  BY PlacesDiffer
<1>2. PICK p \in places : \A q \in places : p <= q
  <2> HIDE DEF places
  <2> QED BY <1>1, Least
<1>3. PICK c \in active[w] : p = Place(c)
  OBVIOUS
<1>4. \A d \in active[w] : Place(c) <= Place(d)
  BY <1>2, <1>3
<1>5. \A d \in active[w] : Place(d) <= Place(c) <=> d = c
  <2> TAKE d \in active[w]
  <2>1. Place(d) \in Nat /\ Place(c) \in Nat /\ (Place(d) = Place(c) => d = c)
    BY PlacesDiffer
  <2> QED BY <1>4, <2>1
<1>6. {d \in active[w] : Place(d) <= Place(c)} = {c}
  BY <1>5
<1>7. Slot(w, c) = 1
  BY <1>6, FS_Singleton DEF Slot
<1>8. (1 - 1) * Cardinality(active[w]) + Slot(w, c) = 1
  <2>1. Cardinality(active[w]) \in Nat
    BY SlotsDiffer
  <2>2. \A l \in Nat : (1 - 1) * l + 1 = 1
    OBVIOUS
  <2> QED BY <1>7, <2>1, <2>2
<1>9. 1 \in 1..n /\ 1 <= n
  OBVIOUS
<1>10. 1 \in Dealt(w, c, n)
  BY <1>8, <1>9 DEF Dealt
<1> QED BY <1>10

\* What it has is a row further on, or the end of the column.
LEMMA AnswerGoesFurther ==
  ASSUME ReadInv, StillAsking, NEW w \in Walks, NEW n \in Nat \ {0}, Answered(w, n)
  PROVE  Further(w)
<1>1. TypeOK /\ ended[w] = "open" /\ active[w] \in SUBSET Cols /\ active[w] # {}
  BY TypesOfAWalk DEF ReadInv, StillAsking, Answered, Running
<1>2. CASE OverCap(w, n)
  <2>1. Finish(w, "rows") /\ "rows" \in Outcomes
    BY <1>2 DEF Answered, Outcomes
  <2>2. ended'[w] = "rows"
    BY <1>1, <2>1, EndsAs
  <2> QED BY <2>2 DEF Further
<1>3. CASE ~OverCap(w, n)
  <2> DEFINE cs == {c \in active[w] : ~Closes(w, c, n)}
  <2>1. Keep(w, n) /\ active' = [active EXCEPT ![w] = cs]
    BY <1>3 DEF Answered, GoOn
  <2>2. active'[w] = cs /\ cs \subseteq active[w]
    BY <1>1, <2>1 DEF TypeOK
  <2>3. cells'[w] = CellsAfter(w, n) /\ cells[w] \subseteq CellsAfter(w, n)
    BY <1>3, <2>1, KeepsAnAnswer DEF CellsAfter
  <2>4. PICK c \in active[w] : 1 \in Dealt(w, c, n)
    BY <1>1, FirstIsServed
  <2>5. CASE 1 \in Taken(w, c, n)
    <3>1. c \in Cols /\ Column(c) /\ last[w][c] \in Nat
      BY <1>1, TypesOfAWalk
    <3>2. Offered(w, c, 1) \in table[c] /\ last[w][c] < Offered(w, c, 1)
      BY <2>5, <3>1, TakenIsARow
    <3>3. ~(Offered(w, c, 1) <= last[w][c])
      BY <3>1, <3>2 DEF Column
    <3>4. <<Offered(w, c, 1), c>> \notin cells[w]
      BY <3>1, <3>2, <3>3 DEF ReadInv, BehindLast
    <3>5. <<Offered(w, c, 1), c>> \in CellsAfter(w, n)
      BY <2>5 DEF CellsAfter
    <3> QED BY <2>2, <2>3, <3>4, <3>5 DEF Further
  <2>6. CASE 1 \notin Taken(w, c, n)
    <3>1. c \notin cs
      BY <2>4, <2>6 DEF Closes
    <3> HIDE DEF cs
    <3> QED BY <2>2, <2>3, <3>1 DEF Further
  <2> QED BY <2>5, <2>6
<1> QED BY <1>2, <1>3

LEMMA HalvingLowers == \A n \in 1..MaxRep : n > 1 => Halved(n) < n
<1>1. MaxRep \in Nat
  BY TableAssumption
<1>2. \A n \in Nat : n > 1 => n \div 2 \in Nat /\ n \div 2 < n
  OBVIOUS
<1> TAKE n \in 1..MaxRep
<1> HAVE n > 1
<1>3. n \in Nat /\ n \div 2 \in Nat /\ n \div 2 < n
  BY <1>1, <1>2
<1> QED BY <1>3 DEF Halved

\* Nothing that an agent can answer, and nothing it can fail to answer, leaves
\* the walk where it was.
LEMMA EveryStepGoesFurther ==
  ASSUME ReadInv, StillAsking, NEW w \in Walks, Steps(w)
  PROVE  Further(w)
<1>1. TypeOK
  BY DEF ReadInv
<1>2. ASSUME NEW n \in 1..(MaxRep * Len(Columns)), Answered(w, n) PROVE Further(w)
  <2>1. n \in Nat \ {0}
    OBVIOUS
  <2> QED BY <1>2, <2>1, AnswerGoesFurther
<1>3. ASSUME NEW c \in Cols, NoSuchName(w, c) PROVE Further(w)
  <2>1. active' = [active EXCEPT ![w] = active[w] \ {c}] /\ c \in active[w] /\ cells' = cells
    BY <1>3 DEF NoSuchName, GoOn
  <2>2. active'[w] = active[w] \ {c}
    BY <1>1, <2>1 DEF TypeOK
  <2> QED BY <2>1, <2>2 DEF Further
<1>4. CASE TooBig(w)
  <2>1. perReq[w] \in 1..MaxRep /\ perReq[w] > 1 /\ perReq'[w] = Halved(perReq[w])
    BY <1>1, <1>4 DEF TypeOK, TooBig
  <2>2. perReq'[w] < perReq[w]
    BY <2>1, HalvingLowers
  <2> QED BY <1>4, <2>2 DEF TooBig, position, Further
<1>5. ASSUME NEW o \in Outcomes, Finish(w, o) PROVE Further(w)
  <2>1. ended'[w] = o /\ o # "open"
    BY <1>1, <1>5, EndsAs DEF Outcomes
  <2> QED BY <2>1 DEF Further
<1>6. CASE Lost(w)
  <2>1. CASE attempt[w] < Retries
    <3>1. attempt'[w] = attempt[w] + 1 /\ attempt[w] \in Nat
      BY <1>1, <1>6, <2>1, TableAssumption DEF TypeOK, Lost
    <3>2. attempt'[w] > attempt[w]
      BY <3>1
    <3> QED BY <1>6, <3>2 DEF Lost, Further
  <2>2. CASE ~(attempt[w] < Retries)
    <3>1. Finish(w, "timeout") /\ "timeout" \in Outcomes
      BY <1>6, <2>2 DEF Lost, Outcomes
    <3> QED BY <1>5, <3>1
  <2> QED BY <2>1, <2>2
<1>7. CASE Refused(w)
  <2>1. Finish(w, "error") /\ "error" \in Outcomes
    BY <1>7 DEF Refused, Outcomes
  <2> QED BY <1>5, <2>1
<1>8. CASE OutOfTime(w)
  <2>1. Finish(w, "time") /\ "time" \in Outcomes
    BY <1>8 DEF OutOfTime, Outcomes
  <2> QED BY <1>5, <2>1
<1> QED BY <1>2, <1>3, <1>4, <1>6, <1>7, <1>8 DEF Steps

\* A step of one walk is none of another's.
LEMMA OthersStay ==
  ASSUME TypeOK, NEW w \in Walks, Steps(w)
  PROVE  \A v \in Walks \ {w} : Own(v)' = Own(v)
<1> SUFFICES ASSUME NEW v \in Walks \ {w}
             PROVE  /\ last'[v] = last[v] /\ active'[v] = active[v] /\ cells'[v] = cells[v]
                    /\ whole'[v] = whole[v] /\ perReq'[v] = perReq[v]
                    /\ attempt'[v] = attempt[v] /\ ended'[v] = ended[v]
  BY DEF Own
<1>1. \A o : Finish(w, o) => ended'[v] = ended[v]
  BY DEF TypeOK, Finish
<1>2. \A cs, complete : GoOn(w, cs, complete) =>
        /\ active'[v] = active[v] /\ whole'[v] = whole[v]
        /\ attempt'[v] = attempt[v] /\ ended'[v] = ended[v]
  BY <1>1 DEF TypeOK, GoOn
<1>3. \A n : Keep(w, n) => cells'[v] = cells[v] /\ last'[v] = last[v]
  BY DEF TypeOK, Keep
<1>4. ASSUME NEW n \in 1..(MaxRep * Len(Columns)), Answered(w, n)
      PROVE  /\ last'[v] = last[v] /\ active'[v] = active[v] /\ cells'[v] = cells[v]
             /\ whole'[v] = whole[v] /\ perReq'[v] = perReq[v]
             /\ attempt'[v] = attempt[v] /\ ended'[v] = ended[v]
  <2>1. perReq' = perReq
    BY <1>4 DEF Answered
  <2>2. CASE OverCap(w, n)
    BY <1>1, <1>3, <1>4, <2>1, <2>2 DEF Answered
  <2>3. CASE ~OverCap(w, n)
    BY <1>2, <1>3, <1>4, <2>1, <2>3 DEF Answered
  <2> QED BY <2>2, <2>3
<1>5. CASE \E c \in Cols : NoSuchName(w, c)
  BY <1>2, <1>5 DEF NoSuchName
<1>6. CASE TooBig(w)
  BY <1>6 DEF TypeOK, TooBig, position
<1>7. CASE Lost(w)
  BY <1>1, <1>7 DEF TypeOK, Lost
<1>8. CASE Refused(w) \/ OutOfTime(w)
  BY <1>1, <1>8 DEF Refused, OutOfTime
<1> QED BY <1>4, <1>5, <1>6, <1>7, <1>8 DEF Steps

\* A walk that goes on has a column to ask for.
LEMMA StepStillAsks ==
  ASSUME ReadInv, StillAsking, [Next]_vars
  PROVE  StillAsking'
<1>1. TypeOK
  BY DEF ReadInv
<1>2. CASE UNCHANGED <<active, ended>>
  BY <1>2 DEF StillAsking
<1>3. ASSUME NEW w \in Walks, Steps(w) PROVE StillAsking'
  <2>1. \A v \in Walks \ {w} : active'[v] = active[v] /\ ended'[v] = ended[v]
    BY <1>1, <1>3, OthersStay DEF Own
  <2> SUFFICES ended'[w] = "open" => active'[w] # {}
    BY <2>1 DEF StillAsking
  <2>2. \A o \in Outcomes : Finish(w, o) => ended'[w] # "open"
    BY <1>1, EndsAs DEF Outcomes
  <2>3. "ok" \in Outcomes /\ "error" \in Outcomes /\ "rows" \in Outcomes /\ "time" \in Outcomes
        /\ "timeout" \in Outcomes
    BY DEF Outcomes
  <2>4. ASSUME NEW cs, NEW complete, GoOn(w, cs, complete) PROVE ended'[w] = "open" => active'[w] # {}
    <3>1. active'[w] = cs
      BY <1>1, <2>4 DEF TypeOK, GoOn
    <3>2. CASE cs = {}
      BY <2>2, <2>3, <2>4, <3>2 DEF GoOn
    <3> QED BY <3>1, <3>2
  <2>5. active' = active /\ ended' = ended => (ended'[w] = "open" => active'[w] # {})
    BY DEF StillAsking
  <2>6. ASSUME NEW n \in 1..(MaxRep * Len(Columns)), Answered(w, n)
        PROVE  ended'[w] = "open" => active'[w] # {}
    BY <2>2, <2>3, <2>4, <2>6 DEF Answered
  <2>7. ASSUME NEW c \in Cols, NoSuchName(w, c) PROVE ended'[w] = "open" => active'[w] # {}
    BY <2>4, <2>7 DEF NoSuchName
  <2>8. CASE TooBig(w)
    BY <2>5, <2>8 DEF TooBig, position
  <2>9. CASE Lost(w)
    BY <2>2, <2>3, <2>5, <2>9 DEF Lost
  <2>10. CASE Refused(w) \/ OutOfTime(w)
    BY <2>2, <2>3, <2>10 DEF Refused, OutOfTime
  <2> QED BY <1>3, <2>6, <2>7, <2>8, <2>9, <2>10 DEF Steps
<1>4. CASE Elapse
  BY <1>2, <1>4 DEF Elapse, position
<1> QED BY <1>2, <1>3, <1>4 DEF Next, Done, vars, position

\* Whatever tables there are and whatever the agents answer, a request closes a
\* column, brings a cell, lowers the rows asked for or uses up a try: the walks
\* need no deadline to end (745-799).
THEOREM NoRequestIsInVain == Spec => NothingInVain
<1>1. Init => StillAsking
  <2>1. Cols # {}
    <3>1. 1 \in DOMAIN Columns
      BY TableAssumption
    <3> QED BY <3>1 DEF Cols, Range
  <2> QED BY <2>1 DEF Init, StillAsking
<1>2. ReadInv /\ StillAsking /\ [Next]_vars => StillAsking'
  BY StepStillAsks
<1>3. ReadInv /\ StillAsking /\ [Next]_vars =>
        [\A w \in Walks : Own(w)' # Own(w) => Further(w)]_vars
  <2> SUFFICES ASSUME ReadInv, StillAsking, Next, NEW w \in Walks, Own(w)' # Own(w)
               PROVE  Further(w)
    OBVIOUS
  <2>1. CASE Elapse \/ Done
    BY <2>1 DEF Elapse, Done, vars, position, Own
  <2>2. ASSUME NEW v \in Walks, Steps(v) PROVE Further(w)
    <3>1. v = w
      BY <2>2, OthersStay DEF ReadInv
    <3> QED BY <2>2, <3>1, EveryStepGoesFurther
  <2> QED BY <2>1, <2>2 DEF Next
<1> QED BY <1>1, <1>2, <1>3, AlwaysRead, PTL DEF Spec, NothingInVain

-----------------------------------------------------------------------------
(* Step by step, the walks are those of BudgetedWalks.                     *)

LEMMA KeptIsNatural ==
  ASSUME ReadInv
  PROVE  \A w \in Walks : Kept[w] \in Nat
<1> TAKE w \in Walks
<1>1. Cardinality(RowsOf(cells[w])) \in Nat
  BY RowsAreFinite DEF ReadInv, FromTheTables
<1> QED BY <1>1 DEF Kept

\* What an answer charges is what the walk has kept more than before.
LEMMA KeptGrows ==
  ASSUME ReadInv, NEW w \in Walks, NEW n \in Nat, ~OverCap(w, n), Keep(w, n),
         capped' = capped
  PROVE  /\ Charge(w, n) \in 0..RowCap
         /\ Abstract!TakesRows(Charge(w, n))
         /\ Kept' = [Kept EXCEPT ![w] = @ + Charge(w, n)]
<1>1. TypeOK /\ FromTheTables
  BY DEF ReadInv
<1>2. Charge(w, n) \in Nat /\ rowsLeft \in 0..RowCap /\ RowCap \in Nat
  BY <1>1, ChargeIsWhatIsAdded, BudgetAssumption DEF TypeOK, BudgetTypeOK
<1>3. Charge(w, n) <= rowsLeft
  BY <1>2 DEF OverCap
<1>4. Abstract!TakesRows(Charge(w, n))
  BY <1>3 DEF Keep, Abstract!TakesRows
<1>5. cells' = [cells EXCEPT ![w] = CellsAfter(w, n)] /\ cells \in [Walks -> SUBSET (Nat \X Cols)]
  BY <1>1 DEF Keep, TypeOK
<1>6. Kept' = [v \in Walks |-> IF v \in capped THEN Cardinality(RowsOf(cells'[v])) ELSE 0]
  BY DEF Kept, RowsOf
<1>7. \A v \in Walks \ {w} : cells'[v] = cells[v]
  BY <1>5
<1>8. cells'[w] = CellsAfter(w, n)
  BY <1>5
<1>9. w \in capped => Kept'[w] = Kept[w] + Charge(w, n)
  BY <1>1, <1>6, <1>8, ChargeIsWhatIsAdded DEF Kept
<1>10. w \notin capped => Kept'[w] = 0 /\ Kept[w] = 0 /\ Charge(w, n) = 0
  BY <1>6 DEF Kept, Charge
<1>11. Kept'[w] = Kept[w] + Charge(w, n)
  BY <1>9, <1>10
<1>12. \A v \in Walks \ {w} : Kept'[v] = Kept[v]
  BY <1>6, <1>7 DEF Kept
<1>13. Kept' = [v \in Walks |-> Kept'[v]] /\ Kept = [v \in Walks |-> Kept[v]]
  BY <1>6 DEF Kept
<1>14. Kept' = [Kept EXCEPT ![w] = @ + Charge(w, n)]
  BY <1>11, <1>12, <1>13
<1>15. Charge(w, n) \in 0..RowCap
  BY <1>2, <1>3
<1> QED BY <1>4, <1>14, <1>15

\* A walk that ends without new rows.
LEMMA EndsEmptyHanded ==
  ASSUME ReadInv, NEW w \in Walks, ended[w] = "open", NEW o \in Outcomes \ {"rows"},
         o = "time" <=> time = 0, Finish(w, o),
         UNCHANGED <<time, rowsLeft, capped, cells>>
  PROVE  Abstract!WalksNext
<1>1. Kept' = Kept
  BY DEF Kept, RowsOf
<1>2. Kept[w] \in Nat
  BY KeptIsNatural
<1>3. Kept = [v \in Walks |-> Kept[v]]
  BY DEF Kept
<1>4. Kept' = [Kept EXCEPT ![w] = @ + 0]
  <2>1. Kept[w] + 0 = Kept[w]
    BY <1>2
  <2> QED BY <1>1, <1>3, <2>1
<1>5. rowsLeft \in Nat /\ 0 \in 0..RowCap
  BY BudgetAssumption DEF ReadInv, TypeOK, BudgetTypeOK
<1>6. Abstract!TakesRows(0)
  BY <1>5 DEF Abstract!TakesRows
<1>7. ended' = [ended EXCEPT ![w] = o] /\ truncated' = (truncated \/ o \in Cuts)
  BY DEF Finish
<1>8. Abstract!WalkEnds(o, 0)
  BY <1>6, <1>7 DEF Abstract!WalkEnds, Abstract!Cuts, Cuts
<1>9. Abstract!Ends(w, o, 0)
  BY <1>4, <1>7, <1>8 DEF Abstract!Ends, Abstract!Open
<1>10. o \in Abstract!Outcomes
  BY DEF Abstract!Outcomes, Outcomes
<1> QED BY <1>5, <1>9, <1>10 DEF Abstract!WalksNext

\* An answer that is kept whole: rows, or rows and the end.
LEMMA AnswerSimulates ==
  ASSUME ReadInv, NEW w \in Walks, NEW n \in Nat, Answered(w, n), ~OverCap(w, n)
  PROVE  Abstract!WalksNext
<1> DEFINE k == Charge(w, n)
<1>1. ended[w] = "open" /\ time > 0 /\ time \in Nat
  BY DEF Answered, Running, ReadInv, TypeOK, BudgetTypeOK
<1>2. Keep(w, n) /\ UNCHANGED <<time, capped>>
  BY DEF Answered
<1>3. k \in 0..RowCap /\ Abstract!TakesRows(k) /\ Kept' = [Kept EXCEPT ![w] = @ + k]
  BY <1>2, KeptGrows
<1>4. PICK cs, complete : GoOn(w, cs, complete)
  BY DEF Answered
<1>5. CASE cs = {}
  <2>1. PICK o \in {"ok", "error"} : Finish(w, o)
    BY <1>4, <1>5 DEF GoOn
  <2>2. ended' = [ended EXCEPT ![w] = o] /\ truncated' = (truncated \/ o \in Cuts)
    BY <2>1 DEF Finish
  <2>3. ~(time = 0)
    BY <1>1
  <2>4. Abstract!WalkEnds(o, k)
    BY <1>2, <1>3, <2>2, <2>3 DEF Abstract!WalkEnds, Abstract!Cuts, Cuts
  <2>5. Abstract!Ends(w, o, k) /\ o \in Abstract!Outcomes
    BY <1>1, <1>3, <2>2, <2>4 DEF Abstract!Ends, Abstract!Open, Abstract!Outcomes
  <2> QED BY <1>3, <2>5 DEF Abstract!WalksNext
<1>6. CASE cs # {}
  <2>1. UNCHANGED <<ended, truncated>>
    BY <1>4, <1>6 DEF GoOn
  <2>2. Abstract!Brings(w, k)
    BY <1>1, <1>2, <1>3, <2>1 DEF Abstract!Brings, Abstract!Open, Abstract!RowsArrive
  <2> QED BY <1>3, <2>2 DEF Abstract!WalksNext
<1> QED BY <1>5, <1>6

\* The cut comes when the allowance is used up, and not before: a var-bind
\* brings one row at the most.
LEMMA CutSimulates ==
  ASSUME ReadInv, NEW w \in Walks, NEW n \in Nat, Answered(w, n), OverCap(w, n)
  PROVE  Abstract!WalksNext
<1>1. ended[w] = "open" /\ time > 0 /\ time \in Nat /\ rowsLeft \in Nat
  BY BudgetAssumption DEF Answered, Running, ReadInv, TypeOK, BudgetTypeOK
<1>2. PICK m \in Nat : ~OverCap(w, m) /\ OverCap(w, m + 1) /\ Keep(w, m)
  <2>1. PICK m \in 0..(n - 1) : ~OverCap(w, m) /\ OverCap(w, m + 1) /\ Keep(w, m)
    BY DEF Answered
  <2>2. m \in Nat
    OBVIOUS
  <2> QED BY <2>1, <2>2
<1>3. Finish(w, "rows") /\ UNCHANGED <<time, capped>>
  BY DEF Answered
<1>4. Charge(w, m) \in 0..RowCap /\ Abstract!TakesRows(Charge(w, m))
      /\ Kept' = [Kept EXCEPT ![w] = @ + Charge(w, m)]
  BY <1>2, <1>3, KeptGrows
<1>5. rowsLeft' = 0
  <2>1. Charge(w, m + 1) <= Charge(w, m) + 1
    BY ChargeGrowsByOne DEF ReadInv
  <2>2. Charge(w, m) \in Nat /\ Charge(w, m + 1) \in Nat
    BY ChargeIsWhatIsAdded DEF ReadInv
  <2>3. Charge(w, m) <= rowsLeft /\ rowsLeft < Charge(w, m + 1)
    BY <1>1, <1>2, <2>2 DEF OverCap
  <2>4. Charge(w, m) = rowsLeft
    BY <1>1, <2>1, <2>2, <2>3
  <2> QED BY <1>1, <1>2, <2>4 DEF Keep
<1>6. ended' = [ended EXCEPT ![w] = "rows"] /\ truncated' = (truncated \/ "rows" \in Cuts)
  BY <1>3 DEF Finish
<1>7. ~(time = 0)
  BY <1>1
<1>8. Abstract!WalkEnds("rows", Charge(w, m))
  BY <1>3, <1>4, <1>5, <1>6, <1>7 DEF Abstract!WalkEnds, Abstract!Cuts, Cuts
<1>9. Abstract!Ends(w, "rows", Charge(w, m)) /\ "rows" \in Abstract!Outcomes
  BY <1>1, <1>4, <1>6, <1>8 DEF Abstract!Ends, Abstract!Open, Abstract!Outcomes
<1> QED BY <1>4, <1>9 DEF Abstract!WalksNext

LEMMA WalkSimulates ==
  ASSUME ReadInv, NEW w \in Walks, Steps(w)
  PROVE  [Abstract!WalksNext]_(Abstract!walkVars)
<1>1. time \in Nat
  BY DEF ReadInv, TypeOK, BudgetTypeOK
<1>2. ASSUME NEW n \in 1..(MaxRep * Len(Columns)), Answered(w, n) PROVE Abstract!WalksNext
  <2>1. n \in Nat
    OBVIOUS
  <2> QED BY <1>2, <2>1, AnswerSimulates, CutSimulates
<1>3. ASSUME UNCHANGED <<budget, ended, capped, cells>> PROVE UNCHANGED Abstract!walkVars
  <2>1. Kept' = Kept
    BY <1>3 DEF Kept, RowsOf
  <2> QED BY <1>3, <2>1 DEF Abstract!walkVars, Abstract!budget, budget
<1>4. ASSUME NEW c \in Cols, NoSuchName(w, c) PROVE [Abstract!WalksNext]_(Abstract!walkVars)
  <2>1. ended[w] = "open" /\ ~(time = 0) /\ UNCHANGED <<time, rowsLeft, capped, cells>>
    BY <1>1, <1>4 DEF NoSuchName, Running
  <2>2. GoOn(w, active[w] \ {c}, whole[w])
    BY <1>4 DEF NoSuchName
  <2>3. CASE active[w] \ {c} = {}
    <3>1. PICK o \in {"ok", "error"} : Finish(w, o)
      BY <2>2, <2>3 DEF GoOn
    <3>2. o \in Outcomes \ {"rows"} /\ o # "time"
      BY DEF Outcomes
    <3> QED BY <2>1, <3>1, <3>2, EndsEmptyHanded
  <2>4. CASE active[w] \ {c} # {}
    BY <1>3, <2>1, <2>2, <2>4 DEF GoOn, budget
  <2> QED BY <2>3, <2>4
<1>5. CASE TooBig(w)
  BY <1>3, <1>5 DEF TooBig, position, budget
<1>6. ASSUME NEW o \in {"timeout", "error"}, Finish(w, o), Running(w),
             UNCHANGED <<time, rowsLeft, capped, cells>>
      PROVE  Abstract!WalksNext
  <2>1. ended[w] = "open" /\ ~(time = 0)
    BY <1>1, <1>6 DEF Running
  <2>2. o \in Outcomes \ {"rows"} /\ o # "time"
    BY DEF Outcomes
  <2> QED BY <1>6, <2>1, <2>2, EndsEmptyHanded
<1>7. CASE Lost(w)
  <2>1. CASE attempt[w] < Retries
    BY <1>3, <1>7, <2>1 DEF Lost, budget
  <2>2. CASE ~(attempt[w] < Retries)
    BY <1>6, <1>7, <2>2 DEF Lost
  <2> QED BY <2>1, <2>2
<1>8. CASE Refused(w)
  BY <1>6, <1>8 DEF Refused
<1>9. CASE OutOfTime(w)
  <2>1. ended[w] = "open" /\ time = 0 /\ Finish(w, "time") /\ UNCHANGED <<time, rowsLeft, capped, cells>>
    BY <1>9 DEF OutOfTime
  <2>2. "time" \in Outcomes \ {"rows"}
    BY DEF Outcomes
  <2> QED BY <2>1, <2>2, EndsEmptyHanded
<1> QED BY <1>2, <1>4, <1>5, <1>7, <1>8, <1>9 DEF Steps

\* For every number of walks, columns and rows: interleaved at their requests,
\* the walks share the budget as BudgetedWalks says (717-720, 791-794).  It is
\* what MacTableRead takes a walk to be.
THEOREM WalksShareTheBudget == Spec => ImplementsBudgetedWalks
<1>1. Init => Abstract!WalksInit
  <2> SUFFICES ASSUME Init PROVE Abstract!WalksInit
    OBVIOUS
  <2>1. RowsOf({}) = {}
    BY DEF RowsOf
  <2>2. \A w \in Walks : Cardinality(RowsOf(cells[w])) = 0
    BY <2>1, FS_EmptySet DEF Init
  <2>3. Kept = [w \in Walks |-> 0]
    BY <2>2 DEF Kept
  <2> QED BY <2>3 DEF Init, BudgetInit, Abstract!WalksInit, Abstract!BudgetInit
<1>2. ReadInv /\ [Next]_vars => [Abstract!WalksNext]_(Abstract!walkVars)
  <2> SUFFICES ASSUME ReadInv, [Next]_vars PROVE [Abstract!WalksNext]_(Abstract!walkVars)
    OBVIOUS
  <2>1. ASSUME UNCHANGED vars PROVE UNCHANGED Abstract!walkVars
    <3>1. Kept' = Kept
      BY <2>1 DEF Kept, RowsOf, vars, position
    <3> QED BY <2>1, <3>1 DEF Abstract!walkVars, Abstract!budget, vars, position, budget
  <2>2. CASE Elapse
    <3>1. Kept' = Kept
      BY <2>2 DEF Elapse, Kept, RowsOf, position
    <3>2. Abstract!WalksNext
      BY <2>2, <3>1 DEF Elapse, Tick, position, Abstract!Tick, Abstract!WalksNext
    <3> QED BY <3>2
  <2>3. CASE Done
    BY <2>1, <2>3 DEF Done
  <2> QED BY <2>1, <2>2, <2>3, WalkSimulates DEF Next
<1> QED BY <1>1, <1>2, AlwaysRead, PTL DEF Spec, ImplementsBudgetedWalks, Abstract!WalksSpec
=============================================================================
