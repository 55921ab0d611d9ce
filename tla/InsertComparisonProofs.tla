----------------------- MODULE InsertComparisonProofs -----------------------
(***************************************************************************)
(* Proofs about SFV1, and about the insert-only comparison it takes part   *)
(* in, for every size, hash function and trace.                            *)
(***************************************************************************)
EXTENDS InsertComparison, CountersProofs

-----------------------------------------------------------------------------
(* Layout *)

(* The counters of a key are counters of the arrays.                       *)
LEMMA Layout ==
    /\ Rows # {}
    /\ \A x \in Keys, d \in Rows : Col(x, d) \in Cols /\ LCol(x, d) \in LCols
<1> USE SizesAssumption
<1>1. 0 \in Rows
  BY DEF Rows
<1>2. ASSUME NEW x \in Keys, NEW d \in Rows
      PROVE  Col(x, d) \in Cols /\ LCol(x, d) \in LCols
  <2>1. Hash[x][d] \in Nat /\ HashL[x][d] \in Nat
    BY HashAssumption
  <2>2. /\ Hash[x][d] % WR \in 0 .. (WR - 1)
        /\ HashL[x][d] % WL \in 0 .. (WL - 1)
    BY <2>1
  <2>3. QED BY <2>2 DEF Col, LCol, Cols, LCols
<1>3. QED BY <1>1, <1>2

(* The smallest of a key's counters: one of them, and below all of them.   *)
LEMMA FatLeast ==
    ASSUME NEW f \in [Rows -> [Cols -> 0..MaxC]], NEW x \in Keys
    PROVE  /\ MinOf(FatCounters(f, x)) \in 0..MaxC
           /\ \E d \in Rows : MinOf(FatCounters(f, x)) = f[d][Col(x, d)]
           /\ \A d \in Rows : MinOf(FatCounters(f, x)) <= f[d][Col(x, d)]
<1> USE SizesAssumption
<1>1. \A d \in Rows : f[d][Col(x, d)] \in 0..MaxC
  BY Layout
<1>2. /\ DOMAIN FatCounters(f, x) = Rows
      /\ \A d \in Rows : FatCounters(f, x)[d] = f[d][Col(x, d)]
  BY DEF FatCounters
<1>3. \A d \in Rows : FatCounters(f, x)[d] \in Nat
  BY <1>1, <1>2
<1>4. QED BY <1>1, <1>2, <1>3, Layout, MinOfLeast

(* A fat array that has nowhere fallen estimates no key lower.             *)
LEMMA FatRises ==
    ASSUME NEW f \in [Rows -> [Cols -> 0..MaxC]], NEW g \in [Rows -> [Cols -> 0..MaxC]],
           \A d \in Rows, c \in Cols : g[d][c] >= f[d][c], NEW x \in Keys
    PROVE  MinOf(FatCounters(f, x)) <= MinOf(FatCounters(g, x))
<1> USE SizesAssumption
<1>1. PICK d \in Rows : MinOf(FatCounters(g, x)) = g[d][Col(x, d)]
  BY FatLeast
<1>2. MinOf(FatCounters(f, x)) <= f[d][Col(x, d)] /\ MinOf(FatCounters(f, x)) \in 0..MaxC
  BY FatLeast
<1>3. f[d][Col(x, d)] \in 0..MaxC /\ g[d][Col(x, d)] \in 0..MaxC /\ g[d][Col(x, d)] >= f[d][Col(x, d)]
  BY Layout
<1>4. QED BY <1>1, <1>2, <1>3

LEMMA SlimLeast ==
    ASSUME NEW s \in [Rows -> [LCols -> 0..MaxC]], NEW x \in Keys
    PROVE  /\ MinOf(SlimCounters(s, x)) \in 0..MaxC
           /\ \E d \in Rows : MinOf(SlimCounters(s, x)) = s[d][LCol(x, d)]
           /\ \A d \in Rows : MinOf(SlimCounters(s, x)) <= s[d][LCol(x, d)]
<1> USE SizesAssumption
<1>1. \A d \in Rows : s[d][LCol(x, d)] \in 0..MaxC
  BY Layout
<1>2. /\ DOMAIN SlimCounters(s, x) = Rows
      /\ \A d \in Rows : SlimCounters(s, x)[d] = s[d][LCol(x, d)]
  BY DEF SlimCounters
<1>3. \A d \in Rows : SlimCounters(s, x)[d] \in Nat
  BY <1>1, <1>2
<1>4. QED BY <1>1, <1>2, <1>3, Layout, MinOfLeast

-----------------------------------------------------------------------------
(* One insertion *)

(* inc_r() raises the counters of x by delta, up to the limit.             *)
LEMMA IncRStep ==
    ASSUME TypeOK, NEW x \in Keys, NEW delta \in 0..MaxC
    PROVE  /\ IncR(x, delta) \in [Rows -> [Cols -> 0..MaxC]]
           /\ \A d \in Rows, c \in Cols :
                 IncR(x, delta)[d][c] =
                    IF c = Col(x, d) THEN Lesser(fat[d][c] + delta, MaxC) ELSE fat[d][c]
           /\ \A d \in Rows, c \in Cols : IncR(x, delta)[d][c] >= fat[d][c]
<1> USE SizesAssumption
<1>1. ASSUME NEW d \in Rows, NEW c \in Cols
      PROVE  /\ IncR(x, delta)[d][c] = IF c = Col(x, d) THEN Lesser(fat[d][c] + delta, MaxC)
                                       ELSE fat[d][c]
             /\ IncR(x, delta)[d][c] \in 0..MaxC
             /\ IncR(x, delta)[d][c] >= fat[d][c]
  <2>1. fat[d] \in [Cols -> 0..MaxC] /\ fat[d][c] \in 0..MaxC
    BY DEF TypeOK
  <2>2. IncR(x, delta)[d][c] = IF c = Col(x, d) THEN SatAdd(fat[d][c], delta, MaxC)
                               ELSE fat[d][c]
    BY <2>1 DEF IncR
  <2>3. /\ SatAdd(fat[d][c], delta, MaxC) \in 0..MaxC
        /\ SatAdd(fat[d][c], delta, MaxC) >= fat[d][c]
        /\ SatAdd(fat[d][c], delta, MaxC) = Lesser(fat[d][c] + delta, MaxC)
    BY <2>1, SatAddBounds
  <2>4. QED BY <2>1, <2>2, <2>3
<1>2. IncR(x, delta) \in [Rows -> [Cols -> 0..MaxC]]
  <2>1. \A d \in Rows : fat[d] \in [Cols -> 0..MaxC]
    BY DEF TypeOK
  <2>2. /\ DOMAIN IncR(x, delta) = Rows
        /\ \A d \in Rows : DOMAIN IncR(x, delta)[d] = Cols
    BY <2>1 DEF IncR
  <2>3. \A d \in Rows : IncR(x, delta)[d] = [fat[d] EXCEPT ![Col(x, d)] = SatAdd(@, delta, MaxC)]
    BY DEF IncR
  <2>4. \A d \in Rows : IncR(x, delta)[d] \in [Cols -> 0..MaxC]
    BY <1>1, <2>1, <2>3
  <2>5. IncR(x, delta) = [d \in Rows |-> IncR(x, delta)[d]]
    BY DEF IncR
  <2>6. QED BY <2>4, <2>5
<1>3. QED BY <1>1, <1>2

(* What inc_l() does, given the array f of inc_r(): it raises the counters *)
(* of x, and these only, to a goal that neither exceeds the estimate of f  *)
(* nor its own estimate by more than delta.  A count n that the slim array *)
(* covered, and that f covers with delta more, is covered with delta more. *)
LEMMA IncLStep ==
    ASSUME TypeOK, NEW x \in Keys, NEW delta \in 0..MaxC,
           NEW f \in [Rows -> [Cols -> 0..MaxC]]
    PROVE  /\ IncL(f, x, delta) \in [Rows -> [LCols -> 0..MaxC]]
           /\ \A d \in Rows, w \in LCols :
                 \/ IncL(f, x, delta)[d][w] = slim[d][w]
                 \/ /\ w = LCol(x, d)
                    /\ IncL(f, x, delta)[d][w] > slim[d][w]
                    /\ IncL(f, x, delta)[d][w] <= MinOf(FatCounters(f, x))
                    /\ IncL(f, x, delta)[d][w] <= MinOf(SlimCounters(slim, x)) + delta
           /\ \A n \in Nat :
                 /\ \A d \in Rows : f[d][Col(x, d)] >= Lesser(n + delta, MaxC)
                 /\ \A d \in Rows : slim[d][LCol(x, d)] >= Lesser(n, MaxC)
                 => \A d \in Rows : IncL(f, x, delta)[d][LCol(x, d)] >= Lesser(n + delta, MaxC)
<1> DEFINE minr == MinOf(FatCounters(f, x))
           minl == MinOf(SlimCounters(slim, x))
           goal == IF minr - delta <= minl THEN minr ELSE minl + delta
           s    == IncL(f, x, delta)
<1> USE SizesAssumption
<1>1. /\ minr \in 0..MaxC
      /\ \E d \in Rows : minr = f[d][Col(x, d)]
  BY FatLeast
<1>2. /\ minl \in 0..MaxC
      /\ \E d \in Rows : minl = slim[d][LCol(x, d)]
      /\ \A d \in Rows : minl <= slim[d][LCol(x, d)]
  BY SlimLeast DEF TypeOK
<1>3. s = IF minl >= minr THEN slim ELSE Raised(x, goal)
  BY DEF IncL
<1>4. \A d \in Rows : slim[d] \in [LCols -> 0..MaxC]
  BY DEF TypeOK
<1>5. \A d \in Rows : LCol(x, d) \in LCols
  BY Layout
<1> HIDE DEF minr, minl, s
<1>6. goal \in 0..MaxC /\ goal <= minr /\ goal <= minl + delta
  BY <1>1, <1>2
<1>7. ASSUME NEW d \in Rows, NEW w \in LCols
      PROVE  s[d][w] = IF minl < minr /\ w = LCol(x, d) /\ slim[d][w] < goal THEN goal
                       ELSE slim[d][w]
  BY <1>1, <1>2, <1>3, <1>4, <1>7 DEF Raised
<1> HIDE DEF goal
<1>8. s \in [Rows -> [LCols -> 0..MaxC]]
  <2>1. CASE minl >= minr
    BY <1>3, <2>1 DEF TypeOK
  <2>2. CASE ~(minl >= minr)
    <3>1. s = Raised(x, goal)
      BY <1>3, <2>2
    <3>2. \A d \in Rows :
             [slim[d] EXCEPT ![LCol(x, d)] = IF @ < goal THEN goal ELSE @] \in [LCols -> 0..MaxC]
      BY <1>4, <1>6
    <3>3. QED BY <3>1, <3>2 DEF Raised
  <2>3. QED BY <2>1, <2>2
<1>9. ASSUME NEW n \in Nat,
             \A d \in Rows : f[d][Col(x, d)] >= Lesser(n + delta, MaxC),
             \A d \in Rows : slim[d][LCol(x, d)] >= Lesser(n, MaxC),
             NEW d \in Rows
      PROVE  s[d][LCol(x, d)] >= Lesser(n + delta, MaxC)
  <2>1. minr >= Lesser(n + delta, MaxC) /\ minl >= Lesser(n, MaxC)
    BY <1>1, <1>2, <1>9
  <2>2. Lesser(n + delta, MaxC) <= Lesser(n, MaxC) + delta
    BY DEF Lesser
  <2>3. goal >= Lesser(n + delta, MaxC)
    BY <1>1, <1>2, <2>1, <2>2 DEF goal, Lesser
  <2>4. slim[d][LCol(x, d)] \in 0..MaxC /\ minl <= slim[d][LCol(x, d)]
    BY <1>2, <1>4, <1>5
  <2>5. Lesser(n + delta, MaxC) \in Nat
    BY DEF Lesser
  <2>6. s[d][LCol(x, d)] = IF minl < minr /\ slim[d][LCol(x, d)] < goal THEN goal
                           ELSE slim[d][LCol(x, d)]
    BY <1>5, <1>7
  <2>7. QED BY <1>1, <1>2, <1>6, <2>1, <2>3, <2>4, <2>5, <2>6
<1>10. ASSUME NEW d \in Rows, NEW w \in LCols
       PROVE  \/ s[d][w] = slim[d][w]
              \/ /\ w = LCol(x, d) /\ s[d][w] > slim[d][w]
                 /\ s[d][w] <= minr /\ s[d][w] <= minl + delta
  <2>1. slim[d][w] \in 0..MaxC
    BY <1>4
  <2>2. QED BY <1>6, <1>7, <2>1
<1>11. QED BY <1>8, <1>9, <1>10 DEF s, minr, minl

-----------------------------------------------------------------------------
(* SFV1 *)

(* The inductive invariant: either array covers the count of every key, in *)
(* every row, and the slim array is backed by the fat one.  SlimBackedByFat*)
(* alone would be inductive; OneSided is not without the fat array, since  *)
(* the goal of inc_l() comes from there.                                   *)
FatCovers  == \A x \in Keys, d \in Rows : fat[d][Col(x, d)] >= Lesser(count[x], MaxC)
SlimCovers == \A x \in Keys, d \in Rows : slim[d][LCol(x, d)] >= Lesser(count[x], MaxC)
IInv == TypeOK /\ FatCovers /\ SlimCovers /\ SlimBackedByFat

LEMMA InitCovers == Init => IInv
<1> SUFFICES ASSUME Init PROVE IInv
  OBVIOUS
<1> USE SizesAssumption
<1>1. TypeOK
  BY DEF Init, TypeOK
<1>2. /\ \A d \in Rows, c \in Cols : fat[d][c] = 0
      /\ \A d \in Rows, w \in LCols : slim[d][w] = 0
      /\ \A x \in Keys : count[x] = 0
  BY DEF Init
<1>3. FatCovers /\ SlimCovers
  BY <1>2, Layout DEF FatCovers, SlimCovers, Lesser
<1>4. SlimBackedByFat
  BY <1>2 DEF SlimBackedByFat
<1>5. QED BY <1>1, <1>3, <1>4 DEF IInv

LEMMA IncCovers ==
    ASSUME IInv, NEW x \in Keys, NEW delta \in Deltas, Inc(x, delta)
    PROVE  IInv'
<1> USE SizesAssumption
<1>1. delta \in 0..MaxC /\ TypeOK
  BY DeltaAssumption DEF IInv
<1>2. fat' = IncR(x, delta) /\ slim' = IncL(fat', x, delta)
  BY DEF Inc
<1>3. /\ count \in [Keys -> Nat] /\ count' \in [Keys -> Nat]
      /\ \A y \in Keys : count'[y] = IF y = x THEN count[x] + delta ELSE count[y]
  BY <1>1 DEF Inc, TypeOK
<1>4. /\ fat' \in [Rows -> [Cols -> 0..MaxC]]
      /\ \A d \in Rows, c \in Cols :
            fat'[d][c] = IF c = Col(x, d) THEN Lesser(fat[d][c] + delta, MaxC) ELSE fat[d][c]
      /\ \A d \in Rows, c \in Cols : fat'[d][c] >= fat[d][c]
  BY <1>1, <1>2, IncRStep
<1>5. /\ slim' \in [Rows -> [LCols -> 0..MaxC]]
      /\ \A d \in Rows, w \in LCols :
            \/ slim'[d][w] = slim[d][w]
            \/ /\ w = LCol(x, d) /\ slim'[d][w] > slim[d][w]
               /\ slim'[d][w] <= MinOf(FatCounters(fat', x))
      /\ \A n \in Nat :
            /\ \A d \in Rows : fat'[d][Col(x, d)] >= Lesser(n + delta, MaxC)
            /\ \A d \in Rows : slim[d][LCol(x, d)] >= Lesser(n, MaxC)
            => \A d \in Rows : slim'[d][LCol(x, d)] >= Lesser(n + delta, MaxC)
  <2> DEFINE f == IncR(x, delta)
             s == IncL(f, x, delta)
  <2>1. f \in [Rows -> [Cols -> 0..MaxC]] /\ fat' = f /\ slim' = s
    BY <1>1, <1>2, IncRStep
  <2> HIDE DEF f
  <2>2. s \in [Rows -> [LCols -> 0..MaxC]]
    BY <1>1, <2>1, IncLStep
  <2>3. \A d \in Rows, w \in LCols :
           \/ s[d][w] = slim[d][w]
           \/ /\ w = LCol(x, d) /\ s[d][w] > slim[d][w]
              /\ s[d][w] <= MinOf(FatCounters(f, x))
    BY <1>1, <2>1, IncLStep
  <2>4. \A n \in Nat :
           /\ \A d \in Rows : f[d][Col(x, d)] >= Lesser(n + delta, MaxC)
           /\ \A d \in Rows : slim[d][LCol(x, d)] >= Lesser(n, MaxC)
           => \A d \in Rows : s[d][LCol(x, d)] >= Lesser(n + delta, MaxC)
    BY <1>1, <2>1, IncLStep
  <2> HIDE DEF s
  <2>5. QED BY <2>1, <2>2, <2>3, <2>4
<1>6. /\ \A d \in Rows, c \in Cols : fat[d][c] \in 0..MaxC /\ fat'[d][c] \in 0..MaxC
      /\ \A d \in Rows, w \in LCols : slim[d][w] \in 0..MaxC /\ slim'[d][w] \in 0..MaxC
  BY <1>1, <1>4, <1>5 DEF TypeOK
<1>7. \A y \in Keys, d \in Rows : Col(y, d) \in Cols /\ LCol(y, d) \in LCols
  BY Layout
<1>8. TypeOK'
  BY <1>3, <1>4, <1>5 DEF TypeOK
<1>9. \A d \in Rows : fat'[d][Col(x, d)] >= Lesser(count[x] + delta, MaxC)
  <2> TAKE d \in Rows
  <2>1. fat[d][Col(x, d)] >= Lesser(count[x], MaxC) /\ Col(x, d) \in Cols
    BY <1>7 DEF IInv, FatCovers
  <2>2. fat'[d][Col(x, d)] = Lesser(fat[d][Col(x, d)] + delta, MaxC)
    BY <1>4, <2>1
  <2>3. fat[d][Col(x, d)] \in 0..MaxC /\ count[x] \in Nat
    BY <1>3, <1>6, <2>1
  <2>4. QED BY <1>1, <2>1, <2>2, <2>3 DEF Lesser
<1>10. FatCovers'
  <2> SUFFICES ASSUME NEW y \in Keys, NEW d \in Rows
               PROVE  fat'[d][Col(y, d)] >= Lesser(count'[y], MaxC)
    BY DEF FatCovers, Col
  <2>1. CASE y = x
    BY <1>3, <1>9, <2>1
  <2>2. CASE y # x
    <3>1. count'[y] = count[y] /\ count[y] \in Nat
      BY <1>3, <2>2
    <3>2. fat[d][Col(y, d)] >= Lesser(count[y], MaxC) /\ Lesser(count[y], MaxC) \in Nat
      BY <3>1 DEF IInv, FatCovers, Lesser
    <3>3. /\ fat'[d][Col(y, d)] >= fat[d][Col(y, d)]
          /\ fat[d][Col(y, d)] \in 0..MaxC /\ fat'[d][Col(y, d)] \in 0..MaxC
      BY <1>4, <1>6, <1>7
    <3>4. QED BY <3>1, <3>2, <3>3
  <2>3. QED BY <2>1, <2>2
<1>11. SlimCovers'
  <2> SUFFICES ASSUME NEW y \in Keys, NEW d \in Rows
               PROVE  slim'[d][LCol(y, d)] >= Lesser(count'[y], MaxC)
    BY DEF SlimCovers, LCol
  <2>1. CASE y = x
    <3>1. \A r \in Rows : slim[r][LCol(x, r)] >= Lesser(count[x], MaxC)
      BY DEF IInv, SlimCovers
    <3>2. count[x] \in Nat /\ count'[x] = count[x] + delta
      BY <1>3
    <3>3. slim'[d][LCol(x, d)] >= Lesser(count[x] + delta, MaxC)
      BY <1>5, <1>9, <3>1, <3>2
    <3>4. QED BY <2>1, <3>2, <3>3
  <2>2. CASE y # x
    <3>1. count'[y] = count[y] /\ count[y] \in Nat
      BY <1>3, <2>2
    <3>2. slim[d][LCol(y, d)] >= Lesser(count[y], MaxC) /\ Lesser(count[y], MaxC) \in Nat
      BY <3>1 DEF IInv, SlimCovers, Lesser
    <3>3. /\ slim'[d][LCol(y, d)] >= slim[d][LCol(y, d)]
          /\ slim[d][LCol(y, d)] \in 0..MaxC /\ slim'[d][LCol(y, d)] \in 0..MaxC
      BY <1>5, <1>6, <1>7
    <3>4. QED BY <3>1, <3>2, <3>3
  <2>3. QED BY <2>1, <2>2
<1>12. SlimBackedByFat'
  <2> SUFFICES ASSUME NEW d \in Rows, NEW w \in LCols, slim'[d][w] > 0
               PROVE  \E y \in Keys : /\ LCol(y, d) = w
                                      /\ slim'[d][w] <= MinOf(FatCounters(fat', y))
    BY DEF SlimBackedByFat, LCol, FatCounters, Col
  <2>1. CASE slim'[d][w] = slim[d][w]
    <3>1. PICK y \in Keys : LCol(y, d) = w /\ slim[d][w] <= MinOf(FatCounters(fat, y))
      BY <2>1 DEF IInv, SlimBackedByFat
    <3>2. MinOf(FatCounters(fat, y)) <= MinOf(FatCounters(fat', y))
      BY <1>1, <1>4, FatRises DEF TypeOK
    <3>3. MinOf(FatCounters(fat, y)) \in 0..MaxC /\ MinOf(FatCounters(fat', y)) \in 0..MaxC
      BY <1>1, <1>4, FatLeast DEF TypeOK
    <3>4. slim[d][w] <= MinOf(FatCounters(fat', y))
      BY <1>6, <3>1, <3>2, <3>3
    <3>5. QED BY <2>1, <3>1, <3>4
  <2>2. CASE slim'[d][w] # slim[d][w]
    <3>1. LCol(x, d) = w /\ slim'[d][w] <= MinOf(FatCounters(fat', x))
      BY <1>5, <2>2
    <3>2. QED BY <3>1
  <2>3. QED BY <2>1, <2>2
<1>13. QED BY <1>8, <1>10, <1>11, <1>12 DEF IInv

LEMMA NextCovers == IInv /\ [Next]_vars => IInv'
<1> SUFFICES ASSUME IInv, [Next]_vars PROVE IInv'
  OBVIOUS
<1>1. CASE Next
  BY <1>1, IncCovers DEF Next
<1>2. CASE UNCHANGED vars
  BY <1>2 DEF vars, IInv, TypeOK, FatCovers, SlimCovers, SlimBackedByFat, FatCounters, Col, LCol
<1>3. QED BY <1>1, <1>2

(* The counters stay within their type.                                    *)
THEOREM TypeCorrect == Spec => []TypeOK
<1>1. IInv => TypeOK
  BY DEF IInv
<1>2. QED BY InitCovers, NextCovers, <1>1, PTL DEF Spec

(* No answer is below the count of its key, whichever way inc_l() went.    *)
THEOREM AnswersCover == Spec => []OneSided
<1>1. IInv => OneSided
  <2> SUFFICES ASSUME IInv, NEW x \in Keys PROVE Query(x) >= Lesser(count[x], MaxC)
    BY DEF OneSided
  <2>1. \E d \in Rows : MinOf(SlimCounters(slim, x)) = slim[d][LCol(x, d)]
    BY SlimLeast DEF IInv, TypeOK
  <2>2. QED BY <2>1 DEF IInv, SlimCovers, Query
<1>2. QED BY InitCovers, NextCovers, <1>1, PTL DEF Spec

(* Every slim counter is backed by the fat estimate of a key it serves.    *)
THEOREM SlimBacked == Spec => []SlimBackedByFat
<1>1. IInv => SlimBackedByFat
  BY DEF IInv
<1>2. QED BY InitCovers, NextCovers, <1>1, PTL DEF Spec

-----------------------------------------------------------------------------
(* SFV1 implements FrequencyEstimator *)

(* The empty sketch answers zero.                                          *)
LEMMA InitRefines == Init => Estimator!Init
<1> SUFFICES ASSUME Init PROVE Estimator!Init
  OBVIOUS
<1>1. TypeOK
  BY InitCovers DEF IInv
<1>2. ASSUME NEW x \in Keys PROVE Query(x) = 0
  <2>1. \E d \in Rows : Query(x) = slim[d][LCol(x, d)]
    BY <1>1, SlimLeast DEF TypeOK, Query
  <2>2. QED BY <2>1, Layout DEF Init
<1>3. QED BY <1>2 DEF Init, Estimator!Init

(* An insertion is an addition to the estimator: no answer falls, none     *)
(* rises by more than delta, and the answers cover the new counts.         *)
LEMMA IncRefines ==
    ASSUME IInv, IInv', NEW x \in Keys, NEW delta \in Deltas, Inc(x, delta)
    PROVE  Estimator!Add(x, delta)
<1> USE SizesAssumption
<1>1. /\ delta \in 0..MaxC /\ TypeOK
      /\ slim \in [Rows -> [LCols -> 0..MaxC]] /\ slim' \in [Rows -> [LCols -> 0..MaxC]]
  BY DeltaAssumption DEF IInv, TypeOK
<1>2. \A d \in Rows, w \in LCols :
         \/ slim'[d][w] = slim[d][w]
         \/ /\ w = LCol(x, d) /\ slim'[d][w] > slim[d][w]
            /\ slim'[d][w] <= MinOf(SlimCounters(slim, x)) + delta
  <2>1. fat' = IncR(x, delta) /\ slim' = IncL(fat', x, delta)
    BY DEF Inc
  <2>2. IncR(x, delta) \in [Rows -> [Cols -> 0..MaxC]]
    BY <1>1, IncRStep
  <2>3. \A d \in Rows, w \in LCols :
           \/ IncL(IncR(x, delta), x, delta)[d][w] = slim[d][w]
           \/ /\ w = LCol(x, d)
              /\ IncL(IncR(x, delta), x, delta)[d][w] > slim[d][w]
              /\ IncL(IncR(x, delta), x, delta)[d][w] <= MinOf(SlimCounters(slim, x)) + delta
    BY <1>1, <2>2, IncLStep
  <2>4. QED BY <2>1, <2>3
<1>3. \A d \in Rows, w \in LCols : slim[d][w] <= slim'[d][w] /\ slim'[d][w] <= slim[d][w] + delta
  <2> TAKE d \in Rows, w \in LCols
  <2>1. slim[d][w] \in 0..MaxC /\ slim'[d][w] \in 0..MaxC
    BY <1>1
  <2>2. MinOf(SlimCounters(slim, x)) \in 0..MaxC /\ MinOf(SlimCounters(slim, x)) <= slim[d][LCol(x, d)]
    BY <1>1, SlimLeast
  <2>3. QED BY <1>1, <1>2, <2>1, <2>2
<1>4. ASSUME NEW y \in Keys
      PROVE  /\ Query(y) \in 0..MaxC /\ Query(y)' \in 0..MaxC
             /\ Query(y) <= Query(y)' /\ Query(y)' <= Query(y) + delta
  <2>1. \A d \in Rows : /\ LCol(y, d) \in LCols
                        /\ slim[d][LCol(y, d)] \in Nat /\ slim'[d][LCol(y, d)] \in Nat
    BY <1>1, Layout
  <2>2. /\ SlimCounters(slim, y) \in [Rows -> Nat] /\ SlimCounters(slim', y) \in [Rows -> Nat]
        /\ \A d \in Rows : /\ SlimCounters(slim, y)[d] = slim[d][LCol(y, d)]
                           /\ SlimCounters(slim', y)[d] = slim'[d][LCol(y, d)]
    BY <2>1 DEF SlimCounters
  <2>3. /\ MinOf(SlimCounters(slim, y)) <= MinOf(SlimCounters(slim', y))
        /\ MinOf(SlimCounters(slim', y)) <= MinOf(SlimCounters(slim, y)) + delta
    <3>1. /\ Rows # {} /\ delta \in Nat
          /\ \A d \in Rows : /\ SlimCounters(slim, y)[d] <= SlimCounters(slim', y)[d]
                             /\ SlimCounters(slim', y)[d] <= SlimCounters(slim, y)[d] + delta
      BY <1>1, <1>3, <2>1, <2>2, Layout
    <3>2. QED BY <2>2, <3>1, MinOfMoves
  <2>4. Query(y)' = MinOf(SlimCounters(slim', y))
    BY DEF Query, SlimCounters, LCol
  <2>5. QED BY <1>1, <2>3, <2>4, SlimLeast DEF Query
<1>5. \A y \in Keys : Query(y)' >= Lesser(count'[y], MaxC)
  <2> TAKE y \in Keys
  <2>1. \E d \in Rows : MinOf(SlimCounters(slim', y)) = slim'[d][LCol(y, d)]
    BY <1>1, SlimLeast
  <2>2. \A d \in Rows : slim'[d][LCol(y, d)] >= Lesser(count'[y], MaxC)
    BY DEF IInv, SlimCovers, LCol
  <2>3. QED BY <2>1, <2>2 DEF Query, SlimCounters, LCol
<1>6. count' = [count EXCEPT ![x] = @ + delta]
  BY DEF Inc
<1>7. [y \in Keys |-> Query(y)]' = [y \in Keys |-> Query(y)']
  OBVIOUS
<1>8. QED BY <1>4, <1>5, <1>6, <1>7 DEF Estimator!Add, Estimator!Covered, Estimator!Lesser, Lesser

(* SF_V1 implements the frequency estimator: the slim array, two levels    *)
(* away from the trace, moves no answer by more than a request's delta.    *)
THEOREM Implementation == Spec => ImplementsEstimator
<1>1. IInv /\ IInv' /\ [Next]_vars => [Estimator!Next]_Estimator!vars
  <2> SUFFICES ASSUME IInv, IInv', [Next]_vars PROVE [Estimator!Next]_Estimator!vars
    OBVIOUS
  <2>1. CASE Next
    BY <2>1, IncRefines DEF Next, Estimator!Next
  <2>2. CASE UNCHANGED vars
    BY <2>2 DEF vars, Estimator!vars, Query, SlimCounters, LCol
  <2>3. QED BY <2>1, <2>2
<1>2. QED BY InitCovers, NextCovers, InitRefines, <1>1, PTL DEF Spec, ImplementsEstimator, Estimator!Spec

-----------------------------------------------------------------------------
(* The comparison *)

(* The comparison runs the SF_V1 sketch itself: what is proved of it holds *)
(* next to the others.                                                     *)
THEOREM CompareRunsSFV1 == CompareSpec => Spec
<1>1. CompareInit => Init
  BY DEF CompareInit
<1>2. [CompareNext]_allVars => [Next]_vars
  BY DEF CompareNext, InsertEverywhere, Next, allVars
<1>3. QED BY <1>1, <1>2, PTL DEF CompareSpec, Spec

Tables == [Rows -> [LCols -> 0..MaxC]]

(* The instances have the rows, columns and arithmetic of SFV1.            *)
LEMMA SameLayout ==
    /\ CM!Rows = Rows /\ CU!Rows = Rows /\ CML!Rows = Rows
    /\ CM!Cols = LCols /\ CU!Cols = LCols /\ CML!Cols = LCols
    /\ \A x, i : CM!Pos(x, i) = LCol(x, i) /\ CU!Pos(x, i) = LCol(x, i) /\ CML!Pos(x, i) = LCol(x, i)
    /\ \A n, delta : CM!SatAdd(n, delta, MaxC) = SatAdd(n, delta, MaxC)
    /\ \A n, delta : CU!SatAdd(n, delta, MaxC) = SatAdd(n, delta, MaxC)
    /\ \A f : CU!MinOf(f) = MinOf(f) /\ CML!MinOf(f) = MinOf(f)
<1>1. \A f : CU!MinOf(f) = MinOf(f) /\ CML!MinOf(f) = MinOf(f)
  BY DEF CU!MinOf, CML!MinOf, MinOf, CU!Min, CML!Min, Min
<1>2. QED BY <1>1 DEF CM!Rows, CU!Rows, CML!Rows, Rows, CM!Cols, CU!Cols, CML!Cols, LCols,
                      CM!Pos, CU!Pos, CML!Pos, LCol, CM!SatAdd, CU!SatAdd, SatAdd

(* A table whose counters of x have been replaced is a table.              *)
Replaced(t, x, v) == [i \in Rows |-> [t[i] EXCEPT ![LCol(x, i)] = v[i]]]

LEMMA TableStep ==
    ASSUME NEW t \in Tables, NEW x \in Keys, NEW v \in [Rows -> 0..MaxC]
    PROVE  /\ Replaced(t, x, v) \in Tables
           /\ \A d \in Rows, w \in LCols :
                 Replaced(t, x, v)[d][w] = IF w = LCol(x, d) THEN v[d] ELSE t[d][w]
<1>1. \A d \in Rows : t[d] \in [LCols -> 0..MaxC] /\ LCol(x, d) \in LCols /\ v[d] \in 0..MaxC
  BY Layout DEF Tables
<1>2. \A d \in Rows : [t[d] EXCEPT ![LCol(x, d)] = v[d]] \in [LCols -> 0..MaxC]
  BY <1>1
<1>3. Replaced(t, x, v) \in Tables
  BY <1>2 DEF Tables, Replaced
<1>4. ASSUME NEW d \in Rows, NEW w \in LCols
      PROVE  Replaced(t, x, v)[d][w] = IF w = LCol(x, d) THEN v[d] ELSE t[d][w]
  <2>1. Replaced(t, x, v)[d] = [t[d] EXCEPT ![LCol(x, d)] = v[d]]
    BY DEF Replaced
  <2>2. QED BY <1>1, <2>1
<1>5. QED BY <1>3, <1>4

(* Count-Min adds to each of the key's counters.                           *)
LEMMA CMStep ==
    ASSUME cm \in Tables, NEW x \in Keys, NEW delta \in 0..MaxC, CM!Insert(x, delta)
    PROVE  /\ cm' \in Tables
           /\ \A d \in Rows, w \in LCols :
                 cm'[d][w] = IF w = LCol(x, d) THEN Lesser(cm[d][w] + delta, MaxC) ELSE cm[d][w]
<1> USE SizesAssumption
<1> DEFINE v == [i \in Rows |-> SatAdd(cm[i][LCol(x, i)], delta, MaxC)]
<1>1. \A d \in Rows : LCol(x, d) \in LCols /\ cm[d][LCol(x, d)] \in 0..MaxC
  BY Layout DEF Tables
<1>2. \A d \in Rows : /\ v[d] \in 0..MaxC
                      /\ v[d] = Lesser(cm[d][LCol(x, d)] + delta, MaxC)
  BY <1>1, SatAddBounds
<1>3. cm' = Replaced(cm, x, v)
  BY SameLayout DEF CM!Insert, Replaced
<1>4. v \in [Rows -> 0..MaxC]
  BY <1>2
<1> HIDE DEF v
<1>5. QED BY <1>2, <1>3, <1>4, TableStep

(* Conservative update raises the key's counters to m, the smallest of     *)
(* what adding to each of them would give.                                 *)
LEMMA CUStep ==
    ASSUME cu \in Tables, NEW x \in Keys, NEW delta \in 0..MaxC, CU!Insert(x, delta)
    PROVE  /\ cu' \in Tables
           /\ \E m \in 0..MaxC :
                 /\ \E d \in Rows : m = Lesser(cu[d][LCol(x, d)] + delta, MaxC)
                 /\ \A d \in Rows : m <= Lesser(cu[d][LCol(x, d)] + delta, MaxC)
                 /\ \A d \in Rows, w \in LCols :
                       cu'[d][w] = IF w = LCol(x, d) /\ m > cu[d][w] THEN m ELSE cu[d][w]
<1> USE SizesAssumption
<1> DEFINE sums == [i \in Rows |-> SatAdd(cu[i][LCol(x, i)], delta, MaxC)]
           m == MinOf(sums)
           v == [i \in Rows |-> IF m > cu[i][LCol(x, i)] THEN m ELSE cu[i][LCol(x, i)]]
<1>1. \A d \in Rows : LCol(x, d) \in LCols /\ cu[d][LCol(x, d)] \in 0..MaxC
  BY Layout DEF Tables
<1>2. \A d \in Rows : /\ sums[d] \in 0..MaxC
                      /\ sums[d] = Lesser(cu[d][LCol(x, d)] + delta, MaxC)
  BY <1>1, SatAddBounds
<1>3. CU!Auxis(x) = [i \in Rows |-> cu[i][LCol(x, i)]]
  BY SameLayout DEF CU!Auxis
<1>4. [i \in CU!Rows |-> CU!SatAdd(CU!Auxis(x)[i], delta, MaxC)] = sums
  BY <1>3, SameLayout
<1>5. cu' = Replaced(cu, x, v)
  BY <1>4, SameLayout DEF CU!Insert, Replaced
<1>6. DOMAIN sums = Rows
  OBVIOUS
<1> HIDE DEF sums
<1>7. /\ \E d \in Rows : m = sums[d]
      /\ \A d \in Rows : m <= sums[d]
  BY <1>2, <1>6, Layout, MinOfLeast
<1>8. m \in 0..MaxC
  BY <1>2, <1>7
<1> HIDE DEF m
<1>9. v \in [Rows -> 0..MaxC] /\ \A d \in Rows :
         v[d] = IF m > cu[d][LCol(x, d)] THEN m ELSE cu[d][LCol(x, d)]
  BY <1>1, <1>8
<1> HIDE DEF v
<1>10. /\ cu' \in Tables
       /\ \A d \in Rows, w \in LCols : cu'[d][w] = IF w = LCol(x, d) THEN v[d] ELSE cu[d][w]
  BY <1>5, <1>9, TableStep
<1>11. \A d \in Rows, w \in LCols :
          cu'[d][w] = IF w = LCol(x, d) /\ m > cu[d][w] THEN m ELSE cu[d][w]
  BY <1>9, <1>10
<1>12. QED BY <1>2, <1>7, <1>8, <1>10, <1>11

(* A logarithmic counter ends wherever the random decisions leave it: the  *)
(* key's counters are raised to some g between the smallest of them, c,    *)
(* and c + delta, which does not exceed the limit unless it is c.          *)
LEMMA CMLStep ==
    ASSUME cml \in Tables, NEW x \in Keys, NEW delta \in 0..MaxC, CML!Insert(x, delta)
    PROVE  /\ cml' \in Tables
           /\ \E c \in 0..MaxC, g \in 0..MaxC :
                 /\ \A d \in Rows : c <= cml[d][LCol(x, d)]
                 /\ g <= c + delta
                 /\ \A d \in Rows, w \in LCols :
                       cml'[d][w] = IF w = LCol(x, d) /\ cml[d][w] < g THEN g ELSE cml[d][w]
<1> USE SizesAssumption
<1> DEFINE own == [i \in Rows |-> cml[i][LCol(x, i)]]
           c == MinOf(own)
<1>1. \A d \in Rows : LCol(x, d) \in LCols /\ cml[d][LCol(x, d)] \in 0..MaxC
  BY Layout DEF Tables
<1>2. CML!LogCounter(x) = c
  BY SameLayout DEF CML!LogCounter
<1>3. DOMAIN own = Rows /\ \A d \in Rows : own[d] = cml[d][LCol(x, d)] /\ own[d] \in 0..MaxC
  BY <1>1
<1> HIDE DEF own
<1>4. /\ \E d \in Rows : c = own[d]
      /\ \A d \in Rows : c <= own[d]
  BY <1>3, Layout, MinOfLeast
<1>5. c \in 0..MaxC /\ \A d \in Rows : c <= cml[d][LCol(x, d)]
  BY <1>3, <1>4
<1> HIDE DEF c
<1>6. PICK g \in CML!Reachable(c, delta) :
         cml' = [i \in Rows |-> [cml[i] EXCEPT ![LCol(x, i)] = IF @ < g THEN g ELSE @]]
  BY <1>2, SameLayout DEF CML!Insert
<1>7. g \in 0..MaxC /\ g <= c + delta
  BY <1>5, <1>6, CapAssumption DEF CML!Reachable
<1> DEFINE v == [i \in Rows |-> IF cml[i][LCol(x, i)] < g THEN g ELSE cml[i][LCol(x, i)]]
<1>8. cml' = Replaced(cml, x, v)
  BY <1>6 DEF Replaced
<1>9. v \in [Rows -> 0..MaxC] /\ \A d \in Rows :
         v[d] = IF cml[d][LCol(x, d)] < g THEN g ELSE cml[d][LCol(x, d)]
  BY <1>1, <1>7
<1> HIDE DEF v
<1>10. /\ cml' \in Tables
       /\ \A d \in Rows, w \in LCols : cml'[d][w] = IF w = LCol(x, d) THEN v[d] ELSE cml[d][w]
  BY <1>8, <1>9, TableStep
<1>11. \A d \in Rows, w \in LCols :
          cml'[d][w] = IF w = LCol(x, d) /\ cml[d][w] < g THEN g ELSE cml[d][w]
  BY <1>9, <1>10
<1>12. QED BY <1>5, <1>7, <1>10, <1>11

(* The order needs nothing but the types to be kept by an insertion.       *)
CInv == TypeOK /\ cm \in Tables /\ cu \in Tables /\ cml \in Tables /\ CountersOrdered

LEMMA InitOrdered == CompareInit => CInv
<1> SUFFICES ASSUME CompareInit PROVE CInv
  OBVIOUS
<1> USE SizesAssumption
<1> DEFINE zero == [d \in Rows |-> [w \in LCols |-> 0]]
<1>1. slim = zero /\ cm = zero /\ cu = zero /\ cml = zero
  BY SameLayout DEF CompareInit, Init, CM!Init, CU!Init, CML!Init
<1>2. zero \in Tables
  BY DEF Tables
<1>3. CountersOrdered
  BY <1>1 DEF CountersOrdered, Within
<1>4. TypeOK
  BY InitCovers DEF CompareInit, IInv
<1>5. QED BY <1>1, <1>2, <1>3, <1>4 DEF CInv

LEMMA InsertOrdered ==
    ASSUME CInv, TypeOK', NEW x \in Keys, NEW delta \in Deltas, InsertEverywhere(x, delta)
    PROVE  CInv'
<1> USE SizesAssumption
<1>1. delta \in 0..MaxC
  BY DeltaAssumption
<1>2. /\ cm' \in Tables
      /\ \A d \in Rows, w \in LCols :
            cm'[d][w] = IF w = LCol(x, d) THEN Lesser(cm[d][w] + delta, MaxC) ELSE cm[d][w]
  BY <1>1, CMStep DEF CInv, InsertEverywhere
<1>3. cu' \in Tables
  BY <1>1, CUStep DEF CInv, InsertEverywhere
<1>4. PICK m \in 0..MaxC :
         /\ \E d \in Rows : m = Lesser(cu[d][LCol(x, d)] + delta, MaxC)
         /\ \A d \in Rows : m <= Lesser(cu[d][LCol(x, d)] + delta, MaxC)
         /\ \A d \in Rows, w \in LCols :
               cu'[d][w] = IF w = LCol(x, d) /\ m > cu[d][w] THEN m ELSE cu[d][w]
  BY <1>1, CUStep DEF CInv, InsertEverywhere
<1>5. cml' \in Tables
  BY <1>1, CMLStep DEF CInv, InsertEverywhere
<1>6. PICK c \in 0..MaxC, g \in 0..MaxC :
         /\ \A d \in Rows : c <= cml[d][LCol(x, d)]
         /\ g <= c + delta
         /\ \A d \in Rows, w \in LCols :
               cml'[d][w] = IF w = LCol(x, d) /\ cml[d][w] < g THEN g ELSE cml[d][w]
  BY <1>1, CMLStep DEF CInv, InsertEverywhere
<1> DEFINE minl == MinOf(SlimCounters(slim, x))
<1>7. /\ \A d \in Rows, w \in LCols :
            \/ slim'[d][w] = slim[d][w]
            \/ w = LCol(x, d) /\ slim'[d][w] <= minl + delta
      /\ minl \in 0..MaxC /\ \A d \in Rows : minl <= slim[d][LCol(x, d)]
  <2>1. fat' = IncR(x, delta) /\ slim' = IncL(fat', x, delta) /\ TypeOK
    BY DEF InsertEverywhere, Inc, CInv
  <2>2. IncR(x, delta) \in [Rows -> [Cols -> 0..MaxC]]
    BY <1>1, <2>1, IncRStep
  <2>3. \A d \in Rows, w \in LCols :
           \/ IncL(IncR(x, delta), x, delta)[d][w] = slim[d][w]
           \/ /\ w = LCol(x, d)
              /\ IncL(IncR(x, delta), x, delta)[d][w] <= minl + delta
    BY <1>1, <2>1, <2>2, IncLStep
  <2>4. QED BY <2>1, <2>3, SlimLeast DEF TypeOK
<1> HIDE DEF minl
<1>8. \A d \in Rows, w \in LCols :
         /\ slim[d][w] \in 0..MaxC /\ slim'[d][w] \in 0..MaxC
         /\ cm[d][w] \in 0..MaxC /\ cu[d][w] \in 0..MaxC /\ cml[d][w] \in 0..MaxC
         /\ slim[d][w] <= cu[d][w] /\ cml[d][w] <= cu[d][w] /\ cu[d][w] <= cm[d][w]
  BY DEF CInv, TypeOK, Tables, CountersOrdered, Within
<1>9. \A d \in Rows : LCol(x, d) \in LCols
  BY Layout
<1>10. PICK r \in Rows : m = Lesser(cu[r][LCol(x, r)] + delta, MaxC)
  BY <1>4
<1>11. Lesser(minl + delta, MaxC) <= m
  <2>1. minl <= slim[r][LCol(x, r)] /\ slim[r][LCol(x, r)] <= cu[r][LCol(x, r)]
    BY <1>7, <1>8, <1>9
  <2>2. slim[r][LCol(x, r)] \in 0..MaxC /\ cu[r][LCol(x, r)] \in 0..MaxC
    BY <1>8, <1>9
  <2>3. QED BY <1>1, <1>7, <1>10, <2>1, <2>2 DEF Lesser
<1>12. g <= m
  <2>1. c <= cml[r][LCol(x, r)] /\ cml[r][LCol(x, r)] <= cu[r][LCol(x, r)]
    BY <1>6, <1>8, <1>9
  <2>2. cml[r][LCol(x, r)] \in 0..MaxC /\ cu[r][LCol(x, r)] \in 0..MaxC
    BY <1>8, <1>9
  <2>3. QED BY <1>1, <1>6, <1>10, <2>1, <2>2 DEF Lesser
<1>13. ASSUME NEW d \in Rows, NEW w \in LCols
       PROVE  slim'[d][w] <= cu'[d][w] /\ cml'[d][w] <= cu'[d][w] /\ cu'[d][w] <= cm'[d][w]
  <2>1. /\ slim[d][w] \in 0..MaxC /\ slim'[d][w] \in 0..MaxC
        /\ cm[d][w] \in 0..MaxC /\ cu[d][w] \in 0..MaxC /\ cml[d][w] \in 0..MaxC
        /\ slim[d][w] <= cu[d][w] /\ cml[d][w] <= cu[d][w] /\ cu[d][w] <= cm[d][w]
    BY <1>8
  <2>2. cu'[d][w] = IF w = LCol(x, d) /\ m > cu[d][w] THEN m ELSE cu[d][w]
    BY <1>4
  <2>3. slim'[d][w] <= cu'[d][w]
    <3>1. \/ slim'[d][w] = slim[d][w]
          \/ w = LCol(x, d) /\ slim'[d][w] <= minl + delta
      BY <1>7
    <3>2. QED BY <1>1, <1>7, <1>11, <2>1, <2>2, <3>1 DEF Lesser
  <2>4. cml'[d][w] <= cu'[d][w]
    <3>1. cml'[d][w] = IF w = LCol(x, d) /\ cml[d][w] < g THEN g ELSE cml[d][w]
      BY <1>6
    <3>2. QED BY <1>12, <2>1, <2>2, <3>1
  <2>5. cu'[d][w] <= cm'[d][w]
    <3>1. cm'[d][w] = IF w = LCol(x, d) THEN Lesser(cm[d][w] + delta, MaxC) ELSE cm[d][w]
      BY <1>2
    <3>2. w = LCol(x, d) => m <= Lesser(cu[d][w] + delta, MaxC)
      BY <1>4
    <3>3. QED BY <1>1, <2>1, <2>2, <3>1, <3>2 DEF Lesser
  <2>6. QED BY <2>3, <2>4, <2>5
<1>14. CountersOrdered'
  BY <1>13 DEF CountersOrdered, Within
<1>15. QED BY <1>2, <1>3, <1>5, <1>14 DEF CInv, Tables

LEMMA InvariantOrdered == CompareSpec => []CInv
<1>1. CInv /\ TypeOK' /\ [CompareNext]_allVars => CInv'
  <2> SUFFICES ASSUME CInv, TypeOK', [CompareNext]_allVars PROVE CInv'
    OBVIOUS
  <2>1. CASE CompareNext
    BY <2>1, InsertOrdered DEF CompareNext
  <2>2. CASE UNCHANGED allVars
    BY <2>2 DEF allVars, vars, CInv, TypeOK, Tables, CountersOrdered, Within
  <2>3. QED BY <2>1, <2>2
<1>2. CompareSpec => []TypeOK
  BY CompareRunsSFV1, TypeCorrect, PTL
<1>3. QED BY InitOrdered, <1>1, <1>2, PTL DEF CompareSpec

(* The same trace orders the four structures counter by counter, whatever  *)
(* the sizes, the hash functions, the limit and the random decisions.      *)
THEOREM Ordered == CompareSpec => []CountersOrdered
<1>1. CInv => CountersOrdered
  BY DEF CInv
<1>2. QED BY InvariantOrdered, <1>1, PTL

(* The answers for every key, in order: the true count, cut at MaxC, the   *)
(* SF_V1 sketch, conservative update, Count-Min.  The first is the closest *)
(* of the three, and none of them is below the count.                      *)
AnswersOrdered ==
    \A x \in Keys : /\ Lesser(count[x], MaxC) <= Query(x)
                    /\ Query(x) <= CU!QueryPoint(x)
                    /\ CU!QueryPoint(x) <= CM!QueryPoint(x)

(* The smallest of a row is no larger than that of a row above it.         *)
LEMMA LeastOrdered ==
    ASSUME NEW t \in Tables, NEW u \in Tables, Within(t, u), NEW x \in Keys
    PROVE  MinOf([i \in Rows |-> t[i][LCol(x, i)]]) <= MinOf([i \in Rows |-> u[i][LCol(x, i)]])
<1> DEFINE f == [i \in Rows |-> t[i][LCol(x, i)]]
           g == [i \in Rows |-> u[i][LCol(x, i)]]
<1> USE SizesAssumption
<1>1. \A d \in Rows : /\ t[d][LCol(x, d)] \in 0..MaxC /\ u[d][LCol(x, d)] \in 0..MaxC
                      /\ t[d][LCol(x, d)] <= u[d][LCol(x, d)]
  BY Layout DEF Tables, Within
<1>2. /\ DOMAIN f = Rows /\ DOMAIN g = Rows
      /\ \A d \in Rows : f[d] \in Nat /\ g[d] \in Nat /\ f[d] <= g[d]
  BY <1>1
<1> HIDE DEF f, g
<1>3. PICK d \in Rows : MinOf(g) = g[d]
  BY <1>2, Layout, MinOfLeast
<1>4. MinOf(f) <= f[d] /\ MinOf(f) \in Nat
  BY <1>2, Layout, MinOfLeast
<1>5. MinOf(f) <= MinOf(g)
  BY <1>2, <1>3, <1>4
<1>6. QED BY <1>5 DEF f, g

(* The SF_V1 sketch is never less accurate than a sketch of the size of    *)
(* its slim array, and never below the count.                              *)
THEOREM AnswersInOrder == CompareSpec => []AnswersOrdered
<1>1. IInv /\ CInv => AnswersOrdered
  <2> SUFFICES ASSUME IInv, CInv, NEW x \in Keys
               PROVE  /\ Lesser(count[x], MaxC) <= Query(x)
                      /\ Query(x) <= CU!QueryPoint(x)
                      /\ CU!QueryPoint(x) <= CM!QueryPoint(x)
    BY DEF AnswersOrdered
  <2>1. slim \in Tables /\ cu \in Tables /\ cm \in Tables
    BY DEF CInv, TypeOK, Tables
  <2>2. Within(slim, cu) /\ Within(cu, cm)
    BY DEF CInv, CountersOrdered
  <2>3. /\ Query(x) = MinOf([i \in Rows |-> slim[i][LCol(x, i)]])
        /\ CU!QueryPoint(x) = MinOf([i \in Rows |-> cu[i][LCol(x, i)]])
        /\ CM!QueryPoint(x) = MinOf([i \in Rows |-> cm[i][LCol(x, i)]])
    <3>1. CM!MinOf([i \in Rows |-> cm[i][LCol(x, i)]]) = MinOf([i \in Rows |-> cm[i][LCol(x, i)]])
      BY DEF CM!MinOf, MinOf, CM!Min, Min
    <3>2. QED BY <3>1, SameLayout
              DEF Query, SlimCounters, CU!QueryPoint, CU!Auxis, CM!QueryPoint
  <2>4. Lesser(count[x], MaxC) <= Query(x)
    <3>1. \E d \in Rows : Query(x) = slim[d][LCol(x, d)]
      BY SlimLeast DEF IInv, TypeOK, Query
    <3>2. PICK d \in Rows : Query(x) = slim[d][LCol(x, d)]
      BY <3>1
    <3>3. slim[d][LCol(x, d)] >= Lesser(count[x], MaxC)
      BY DEF IInv, SlimCovers
    <3>4. slim[d][LCol(x, d)] \in 0..MaxC /\ count[x] \in Nat
      BY Layout DEF IInv, TypeOK
    <3>5. QED BY <3>2, <3>3, <3>4, SizesAssumption DEF Lesser
  <2>5. QED BY <2>1, <2>2, <2>3, <2>4, LeastOrdered
<1>2. CompareSpec => []IInv
  BY InitCovers, NextCovers, CompareRunsSFV1, PTL DEF Spec
<1>3. CompareSpec => []CInv
  BY InvariantOrdered
<1>4. QED BY <1>1, <1>2, <1>3, PTL
=============================================================================
