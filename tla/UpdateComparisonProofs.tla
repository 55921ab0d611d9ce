----------------------- MODULE UpdateComparisonProofs -----------------------
(***************************************************************************)
(* Theorems about SFV2, with and without SF_SET_MAX_COUNTERS_ARRAY, and    *)
(* about UpdateComparison: SF_V2 against Count-Min, and the counters of    *)
(* the Count sketch, over any trace of insertions and deletions.           *)
(***************************************************************************)
EXTENDS UpdateComparison, CountersProofs

-----------------------------------------------------------------------------
(* SFV2                                                                    *)

(* A key's column and bucket exist, the column lies in the bucket, and the *)
(* slots of a bucket are columns of that bucket.                           *)
LEMMA Layout ==
    /\ WR \in Nat \ {0}
    /\ \A x \in Keys, d \in Rows :
          /\ Col(x, d) \in Cols
          /\ BucketOf(x, d) \in Buckets
          /\ Col(x, d) % K \in 0 .. (K - 1)
          /\ Col(x, d) = BucketOf(x, d) * K + (Col(x, d) % K)
    /\ \A w \in Buckets, i \in 0 .. (K - 1) : w * K + i \in Cols
<1> USE SizesAssumption
<1>1. WR \in Nat \ {0}
  BY DEF WR
<1>2. \A h \in Nat : h % WR \in Cols
  BY <1>1 DEF Cols
<1>3. \A x \in Keys, d \in Rows : Col(x, d) \in Cols
  BY <1>2, HashAssumption DEF Col
<1>4. ASSUME NEW c \in Cols
      PROVE  /\ c \div K \in Buckets
             /\ c % K \in 0 .. (K - 1)
             /\ c = (c \div K) * K + (c % K)
  <2>1. c \in 0 .. (K * WL - 1)
    BY DEF Cols, WR
  <2>2. QED BY <2>1, SlotOfColumn DEF Buckets
<1>5. ASSUME NEW w \in Buckets, NEW i \in 0 .. (K - 1) PROVE w * K + i \in Cols
  <2>1. w \in Nat /\ w + 1 <= WL
    BY DEF Buckets
  <2>2. (w + 1) * K <= WL * K
    BY <2>1
  <2>3. (w + 1) * K = w * K + K /\ w * K \in Nat
    BY <2>1
  <2>4. QED BY <2>1, <2>2, <2>3 DEF Cols, WR
<1>6. QED BY <1>1, <1>3, <1>4, <1>5 DEF BucketOf

(* Two different buckets have no column in common.                         *)
LEMMA BucketsDisjoint ==
    \A v, w \in Buckets, i, j \in 0 .. (K - 1) : v * K + i = w * K + j => v = w
<1> SUFFICES ASSUME NEW v \in Buckets, NEW w \in Buckets,
                    NEW i \in 0 .. (K - 1), NEW j \in 0 .. (K - 1), v < w
             PROVE  v * K + i < w * K + j
  BY SizesAssumption DEF Buckets
<1>1. v \in Nat /\ w \in Nat /\ K \in Nat \ {0}
  BY SizesAssumption DEF Buckets
<1>2. (v + 1) * K <= w * K
  BY <1>1
<1>3. (v + 1) * K = v * K + K /\ v * K \in Nat /\ w * K \in Nat
  BY <1>1
<1>4. QED BY <1>1, <1>2, <1>3

(* Rows and the columns of a bucket are not empty, so every query and      *)
(* every bucket maximum is taken over something.                           *)
LEMMA NonEmpty == 0 \in Rows /\ 0 \in 0 .. (K - 1)
BY SizesAssumption DEF Rows

(* The answer of a row of counters is one of them and bounds them all.     *)
LEMMA QueryValue ==
    ASSUME NEW f \in [Rows -> 0..MaxC]
    PROVE  /\ MinOf(f) \in 0..MaxC
           /\ \E d \in Rows : MinOf(f) = f[d]
           /\ \A d \in Rows : MinOf(f) <= f[d]
<1>1. DOMAIN f = Rows /\ Rows # {} /\ \A d \in DOMAIN f : f[d] \in Nat
  BY NonEmpty
<1>2. /\ \E d \in DOMAIN f : MinOf(f) = f[d]
      /\ \A d \in DOMAIN f : MinOf(f) <= f[d]
  BY <1>1, MinOfLeast
<1>3. QED BY <1>1, <1>2

(* The maximum of a bucket of a fat row is one of its counters and bounds  *)
(* them all.                                                               *)
LEMMA BucketMax ==
    \A r \in [Cols -> 0..MaxC], w \in Buckets :
       /\ MaxOf(BucketRow(r, w)) \in 0..MaxC
       /\ \E i \in 0 .. (K - 1) : MaxOf(BucketRow(r, w)) = r[w * K + i]
       /\ \A i \in 0 .. (K - 1) : r[w * K + i] <= MaxOf(BucketRow(r, w))
<1> SUFFICES ASSUME NEW r \in [Cols -> 0..MaxC], NEW w \in Buckets
             PROVE  /\ MaxOf(BucketRow(r, w)) \in 0..MaxC
                    /\ \E i \in 0 .. (K - 1) : MaxOf(BucketRow(r, w)) = r[w * K + i]
                    /\ \A i \in 0 .. (K - 1) : r[w * K + i] <= MaxOf(BucketRow(r, w))
  OBVIOUS
<1> DEFINE f == BucketRow(r, w)
<1>1. /\ DOMAIN f = 0 .. (K - 1)
      /\ \A i \in DOMAIN f : f[i] = r[w * K + i] /\ f[i] \in 0..MaxC
  BY Layout DEF BucketRow
<1>2. DOMAIN f # {}
  BY <1>1, NonEmpty
<1>3. MaxC \in Nat
  BY SizesAssumption
<1> HIDE DEF f
<1>4. /\ \E i \in DOMAIN f : MaxOf(f) = f[i]
      /\ \A i \in DOMAIN f : f[i] <= MaxOf(f)
      /\ MaxOf(f) \in 0..MaxC
  BY <1>1, <1>2, <1>3, MaxOfGreatest
<1>5. QED BY <1>1, <1>4 DEF f

(* A key's counter is within the maximum of its bucket.                    *)
LEMMA OwnWithinBucket ==
    \A r \in [Cols -> 0..MaxC], x \in Keys, d \in Rows :
       r[Col(x, d)] <= MaxOf(BucketRow(r, BucketOf(x, d)))
<1> SUFFICES ASSUME NEW r \in [Cols -> 0..MaxC], NEW x \in Keys, NEW d \in Rows
             PROVE  r[Col(x, d)] <= MaxOf(BucketRow(r, BucketOf(x, d)))
  OBVIOUS
<1> DEFINE i == Col(x, d) % K
           w == BucketOf(x, d)
<1>1. i \in 0 .. (K - 1) /\ w \in Buckets /\ Col(x, d) = w * K + i
  BY Layout
<1> HIDE DEF i, w
<1>2. r[w * K + i] <= MaxOf(BucketRow(r, w))
  BY <1>1, BucketMax
<1>3. QED BY <1>1, <1>2 DEF w

(* When no counter of a row grows by more than delta, neither does any of  *)
(* its bucket maxima.                                                      *)
LEMMA BucketMaxGrows ==
    \A r, q \in [Cols -> 0..MaxC], w \in Buckets, delta \in Nat :
       (\A c \in Cols : r[c] <= q[c] + delta) =>
          MaxOf(BucketRow(r, w)) <= MaxOf(BucketRow(q, w)) + delta
<1> SUFFICES ASSUME NEW r \in [Cols -> 0..MaxC], NEW q \in [Cols -> 0..MaxC],
                    NEW w \in Buckets, NEW delta \in Nat,
                    \A c \in Cols : r[c] <= q[c] + delta
             PROVE  MaxOf(BucketRow(r, w)) <= MaxOf(BucketRow(q, w)) + delta
  OBVIOUS
<1>1. PICK i \in 0 .. (K - 1) : MaxOf(BucketRow(r, w)) = r[w * K + i]
  BY BucketMax
<1>2. w * K + i \in Cols
  BY Layout
<1>3. q[w * K + i] <= MaxOf(BucketRow(q, w)) /\ MaxOf(BucketRow(q, w)) \in 0..MaxC
  BY BucketMax
<1>4. r[w * K + i] <= q[w * K + i] + delta
  BY <1>2
<1>5. r[w * K + i] \in 0..MaxC /\ q[w * K + i] \in 0..MaxC
  BY <1>2
<1>6. QED BY <1>1, <1>3, <1>4, <1>5, SizesAssumption

(* A row that changes in x's column only changes in x's bucket only.       *)
LEMMA OtherBuckets ==
    \A r, q \in [Cols -> 0..MaxC], x \in Keys, d \in Rows, w \in Buckets :
       (w # BucketOf(x, d) /\ \A c \in Cols : c # Col(x, d) => r[c] = q[c])
          => MaxOf(BucketRow(r, w)) = MaxOf(BucketRow(q, w))
<1> SUFFICES ASSUME NEW r \in [Cols -> 0..MaxC], NEW q \in [Cols -> 0..MaxC],
                    NEW x \in Keys, NEW d \in Rows, NEW w \in Buckets,
                    w # BucketOf(x, d), \A c \in Cols : c # Col(x, d) => r[c] = q[c]
             PROVE  MaxOf(BucketRow(r, w)) = MaxOf(BucketRow(q, w))
  OBVIOUS
<1>1. ASSUME NEW i \in 0 .. (K - 1) PROVE r[w * K + i] = q[w * K + i]
  <2>1. w * K + i \in Cols
    BY Layout
  <2>2. w * K + i # Col(x, d)
    <3> DEFINE j == Col(x, d) % K
               v == BucketOf(x, d)
    <3>1. j \in 0 .. (K - 1) /\ v \in Buckets /\ Col(x, d) = v * K + j
      BY Layout
    <3>2. v # w
      OBVIOUS
    <3> HIDE DEF j, v
    <3>3. QED BY <3>1, <3>2, BucketsDisjoint
  <2>3. QED BY <2>1, <2>2
<1>2. BucketRow(r, w) = BucketRow(q, w)
  BY <1>1 DEF BucketRow
<1>3. QED BY <1>2

-----------------------------------------------------------------------------
(* What one update does *)

(* inc_r() adds delta to x's counter in each row, up to MaxC.              *)
LEMMA IncRStep ==
    ASSUME TypeOK, NEW x \in Keys, NEW delta \in Deltas
    PROVE  /\ IncR(x, delta) \in [Rows -> [Cols -> 0..MaxC]]
           /\ \A d \in Rows, c \in Cols :
                 IncR(x, delta)[d][c] =
                    IF c = Col(x, d) THEN Lesser(fat[d][c] + delta, MaxC) ELSE fat[d][c]
<1> USE SizesAssumption
<1> DEFINE f == IncR(x, delta)
<1>1. f = [d \in Rows |-> [fat[d] EXCEPT ![Col(x, d)] = SatAdd(@, delta, MaxC)]]
  BY DEF IncR
<1>2. delta \in 0..MaxC
  BY DeltaAssumption
<1>3. \A d \in Rows : Col(x, d) \in Cols /\ fat[d] \in [Cols -> 0..MaxC]
  BY Layout DEF TypeOK
<1>4. \A d \in Rows, c \in Cols : /\ SatAdd(fat[d][c], delta, MaxC) \in 0..MaxC
                                  /\ SatAdd(fat[d][c], delta, MaxC) = Lesser(fat[d][c] + delta, MaxC)
  BY <1>2, <1>3, SatAddBounds
<1> HIDE DEF f
<1>5. \A d \in Rows, c \in Cols :
          f[d][c] = IF c = Col(x, d) THEN SatAdd(fat[d][c], delta, MaxC) ELSE fat[d][c]
  BY <1>1, <1>3
<1>6. \A d \in Rows : f[d] \in [Cols -> 0..MaxC]
  BY <1>1, <1>3, <1>4
<1>7. f \in [Rows -> [Cols -> 0..MaxC]]
  BY <1>1, <1>6
<1>8. QED BY <1>4, <1>5, <1>7 DEF f

(* dec_r() takes delta from x's counter in each row, down to zero.         *)
LEMMA DecRStep ==
    ASSUME TypeOK, NEW x \in Keys, NEW delta \in Deltas
    PROVE  /\ DecR(x, delta) \in [Rows -> [Cols -> 0..MaxC]]
           /\ \A d \in Rows, c \in Cols :
                 DecR(x, delta)[d][c] =
                    IF c = Col(x, d) THEN FloorSub(fat[d][c], delta) ELSE fat[d][c]
<1> USE SizesAssumption
<1> DEFINE f == DecR(x, delta)
<1>1. f = [d \in Rows |-> [fat[d] EXCEPT ![Col(x, d)] = FloorSub(@, delta)]]
  BY DEF DecR
<1>2. delta \in Nat
  BY DeltaAssumption
<1>3. \A d \in Rows : Col(x, d) \in Cols /\ fat[d] \in [Cols -> 0..MaxC]
  BY Layout DEF TypeOK
<1>4. \A d \in Rows, c \in Cols : FloorSub(fat[d][c], delta) \in 0..MaxC
  BY <1>2, <1>3, FloorSubBounds
<1> HIDE DEF f
<1>5. \A d \in Rows, c \in Cols :
          f[d][c] = IF c = Col(x, d) THEN FloorSub(fat[d][c], delta) ELSE fat[d][c]
  BY <1>1, <1>3
<1>6. \A d \in Rows : f[d] \in [Cols -> 0..MaxC]
  BY <1>1, <1>3, <1>4
<1>7. f \in [Rows -> [Cols -> 0..MaxC]]
  BY <1>1, <1>6
<1>8. QED BY <1>5, <1>7 DEF f

(* The targets of an insertion, and the slim array raised to them.         *)
LEMMA AuxCType ==
    \A f \in [Rows -> [Cols -> 0..MaxC]], x \in Keys :
       /\ AuxC(f, x) \in [Rows -> 0..MaxC]
       /\ \A d \in Rows : AuxC(f, x)[d] = MaxOf(BucketRow(f[d], BucketOf(x, d)))
<1> SUFFICES ASSUME NEW f \in [Rows -> [Cols -> 0..MaxC]], NEW x \in Keys
             PROVE  /\ AuxC(f, x) \in [Rows -> 0..MaxC]
                    /\ \A d \in Rows : AuxC(f, x)[d] = MaxOf(BucketRow(f[d], BucketOf(x, d)))
  OBVIOUS
<1>1. ASSUME NEW d \in Rows PROVE MaxOf(BucketRow(f[d], BucketOf(x, d))) \in 0..MaxC
  <2>1. f[d] \in [Cols -> 0..MaxC] /\ BucketOf(x, d) \in Buckets
    BY Layout
  <2>2. QED BY <2>1, BucketMax
<1>2. QED BY <1>1 DEF AuxC

LEMMA RaisedStep ==
    ASSUME TypeOK, NEW x \in Keys, NEW target \in [Rows -> 0..MaxC]
    PROVE  /\ Raised(x, target) \in [Rows -> [Buckets -> 0..MaxC]]
           /\ \A d \in Rows, w \in Buckets :
                 Raised(x, target)[d][w] =
                    IF w = BucketOf(x, d) /\ slim[d][w] < target[d]
                    THEN target[d] ELSE slim[d][w]
<1> DEFINE s == Raised(x, target)
<1>1. s = [d \in Rows |-> [slim[d] EXCEPT ![BucketOf(x, d)] =
                              IF @ < target[d] THEN target[d] ELSE @]]
  BY DEF Raised
<1>2. \A d \in Rows : BucketOf(x, d) \in Buckets /\ slim[d] \in [Buckets -> 0..MaxC]
  BY Layout DEF TypeOK
<1> HIDE DEF s
<1>3. \A d \in Rows, w \in Buckets :
         s[d][w] = IF w = BucketOf(x, d) /\ slim[d][w] < target[d]
                   THEN target[d] ELSE slim[d][w]
  BY <1>1, <1>2
<1>4. \A d \in Rows : s[d] \in [Buckets -> 0..MaxC]
  BY <1>1, <1>2
<1>5. s \in [Rows -> [Buckets -> 0..MaxC]]
  BY <1>1, <1>4
<1>6. QED BY <1>3, <1>5 DEF s

(* What inc_l() does to the slim array once inc_r() has left the fat array *)
(* f: x's slim counters only, upwards only, never beyond the largest fat   *)
(* counter of the bucket; and if they covered a count n of x before, and   *)
(* f covers n + delta, they cover n + delta after.                         *)
SlimRises(f, x, delta, s) ==
    /\ s \in [Rows -> [Buckets -> 0..MaxC]]
    /\ \A d \in Rows, w \in Buckets :
          /\ s[d][w] >= slim[d][w]
          /\ w # BucketOf(x, d) => s[d][w] = slim[d][w]
          /\ s[d][w] = slim[d][w] \/ s[d][w] <= MaxOf(BucketRow(f[d], w))
    /\ \A n \in Nat :
          (\A d \in Rows : /\ slim[d][BucketOf(x, d)] >= Lesser(n, MaxC)
                           /\ f[d][Col(x, d)] >= Lesser(n + delta, MaxC))
          => \A d \in Rows : s[d][BucketOf(x, d)] >= Lesser(n + delta, MaxC)

(* With MAX_COUNTERS_ARRAY.                                                *)
LEMMA RaisedRises ==
    ASSUME TypeOK, NEW x \in Keys, NEW delta \in Nat,
           NEW f \in [Rows -> [Cols -> 0..MaxC]]
    PROVE  SlimRises(f, x, delta, Raised(x, AuxC(f, x)))
<1> DEFINE s == Raised(x, AuxC(f, x))
<1>1. /\ AuxC(f, x) \in [Rows -> 0..MaxC]
      /\ \A d \in Rows : AuxC(f, x)[d] = MaxOf(BucketRow(f[d], BucketOf(x, d)))
  BY AuxCType
<1>2. /\ s \in [Rows -> [Buckets -> 0..MaxC]]
      /\ \A d \in Rows, w \in Buckets :
            s[d][w] = IF w = BucketOf(x, d) /\ slim[d][w] < AuxC(f, x)[d]
                      THEN AuxC(f, x)[d] ELSE slim[d][w]
  BY <1>1, RaisedStep
<1>3. \A d \in Rows : f[d][Col(x, d)] <= AuxC(f, x)[d]
  <2> TAKE d \in Rows
  <2>1. f[d] \in [Cols -> 0..MaxC]
    OBVIOUS
  <2>2. QED BY <2>1, <1>1, OwnWithinBucket
<1> HIDE DEF s
<1>4. \A d \in Rows, w \in Buckets : slim[d][w] \in 0..MaxC
  BY DEF TypeOK
<1>5. \A d \in Rows, w \in Buckets :
          /\ s[d][w] >= slim[d][w]
          /\ w # BucketOf(x, d) => s[d][w] = slim[d][w]
          /\ s[d][w] = slim[d][w] \/ s[d][w] <= MaxOf(BucketRow(f[d], w))
  <2> TAKE d \in Rows, w \in Buckets
  <2>1. s[d][w] = IF w = BucketOf(x, d) /\ slim[d][w] < AuxC(f, x)[d]
                  THEN AuxC(f, x)[d] ELSE slim[d][w]
    BY <1>2
  <2>2. AuxC(f, x)[d] \in 0..MaxC /\ slim[d][w] \in 0..MaxC
    BY <1>1, <1>4
  <2>3. AuxC(f, x)[d] = MaxOf(BucketRow(f[d], BucketOf(x, d)))
    BY <1>1
  <2>4. QED BY <2>1, <2>2, <2>3
<1>6. ASSUME NEW n \in Nat,
             \A d \in Rows : f[d][Col(x, d)] >= Lesser(n + delta, MaxC),
             NEW d \in Rows
      PROVE  s[d][BucketOf(x, d)] >= Lesser(n + delta, MaxC)
  <2>1. BucketOf(x, d) \in Buckets /\ Col(x, d) \in Cols
    BY Layout
  <2>2. s[d][BucketOf(x, d)] >= AuxC(f, x)[d]
    <3>1. AuxC(f, x)[d] \in 0..MaxC /\ slim[d][BucketOf(x, d)] \in 0..MaxC
      BY <1>1, <1>4, <2>1
    <3>2. QED BY <1>2, <2>1, <3>1
  <2>3. f[d][Col(x, d)] <= AuxC(f, x)[d] /\ f[d][Col(x, d)] >= Lesser(n + delta, MaxC)
    BY <1>3, <1>6
  <2>4. /\ s[d][BucketOf(x, d)] \in 0..MaxC /\ AuxC(f, x)[d] \in 0..MaxC
        /\ f[d][Col(x, d)] \in 0..MaxC /\ Lesser(n + delta, MaxC) \in Nat
    BY <1>1, <1>2, <2>1, SizesAssumption DEF Lesser
  <2>5. QED BY <2>2, <2>3, <2>4
<1>7. QED BY <1>2, <1>5, <1>6 DEF SlimRises, s

(* Without it: the smallest slim counter of x moves towards the smallest   *)
(* fat counter by at most delta.                                           *)
LEMMA MinRises ==
    ASSUME TypeOK, NEW x \in Keys, NEW delta \in Nat,
           NEW f \in [Rows -> [Cols -> 0..MaxC]]
    PROVE  SlimRises(f, x, delta, IncLMin(f, x, delta))
<1> DEFINE s == IncLMin(f, x, delta)
           minr == MinOf(FatCounters(f, x))
           minl == MinOf(SlimCounters(slim, x))
           goal == IF minr - delta <= minl THEN minr ELSE minl + delta
<1> USE SizesAssumption
<1>1. \A d \in Rows : BucketOf(x, d) \in Buckets /\ Col(x, d) \in Cols
  BY Layout
<1>2. /\ minr \in 0..MaxC
      /\ \E d \in Rows : minr = f[d][Col(x, d)]
      /\ \A d \in Rows : minr <= f[d][Col(x, d)]
  <2>1. FatCounters(f, x) \in [Rows -> 0..MaxC]
    BY <1>1 DEF FatCounters
  <2>2. \A d \in Rows : FatCounters(f, x)[d] = f[d][Col(x, d)]
    BY DEF FatCounters
  <2>3. QED BY <2>1, <2>2, QueryValue
<1>3. /\ minl \in 0..MaxC
      /\ \E d \in Rows : minl = slim[d][BucketOf(x, d)]
      /\ \A d \in Rows : minl <= slim[d][BucketOf(x, d)]
  <2>1. SlimCounters(slim, x) \in [Rows -> 0..MaxC]
    BY <1>1 DEF SlimCounters, TypeOK
  <2>2. \A d \in Rows : SlimCounters(slim, x)[d] = slim[d][BucketOf(x, d)]
    BY DEF SlimCounters
  <2>3. QED BY <2>1, <2>2, QueryValue
<1>4. s = IF minl >= minr THEN slim ELSE Raised(x, [d \in Rows |-> goal])
  BY DEF IncLMin
<1> HIDE DEF s, minr, minl
<1>5. \A d \in Rows, w \in Buckets : slim[d][w] \in 0..MaxC
  BY DEF TypeOK
<1>6. ASSUME minl >= minr PROVE SlimRises(f, x, delta, s)
  <2>1. s = slim
    BY <1>4, <1>6
  <2>2. ASSUME NEW n \in Nat,
               \A d \in Rows : f[d][Col(x, d)] >= Lesser(n + delta, MaxC),
               NEW d \in Rows
        PROVE  s[d][BucketOf(x, d)] >= Lesser(n + delta, MaxC)
    <3>1. minr >= Lesser(n + delta, MaxC)
      BY <1>2, <2>2
    <3>2. minl <= slim[d][BucketOf(x, d)] /\ slim[d][BucketOf(x, d)] \in 0..MaxC
      BY <1>1, <1>3, <1>5
    <3>3. Lesser(n + delta, MaxC) \in Nat
      BY DEF Lesser
    <3>4. QED BY <1>2, <1>3, <1>6, <2>1, <3>1, <3>2, <3>3
  <2>3. s \in [Rows -> [Buckets -> 0..MaxC]]
    BY <2>1 DEF TypeOK
  <2>4. \A d \in Rows, w \in Buckets : s[d][w] = slim[d][w] /\ s[d][w] >= slim[d][w]
    BY <1>5, <2>1
  <2>5. QED BY <2>2, <2>3, <2>4 DEF SlimRises
<1>7. ASSUME ~(minl >= minr) PROVE SlimRises(f, x, delta, s)
  <2>1. goal \in 0..MaxC /\ goal <= minr
    BY <1>2, <1>3, <1>7
  <2> HIDE DEF goal
  <2> DEFINE target == [d \in Rows |-> goal]
  <2>2. target \in [Rows -> 0..MaxC] /\ \A d \in Rows : target[d] = goal
    BY <2>1
  <2>3. s = Raised(x, target)
    BY <1>4, <1>7
  <2> HIDE DEF target
  <2>4. /\ s \in [Rows -> [Buckets -> 0..MaxC]]
        /\ \A d \in Rows, w \in Buckets :
              s[d][w] = IF w = BucketOf(x, d) /\ slim[d][w] < target[d]
                        THEN target[d] ELSE slim[d][w]
    BY <2>2, <2>3, RaisedStep
  <2>5. ASSUME NEW d \in Rows, NEW w \in Buckets
        PROVE  /\ s[d][w] >= slim[d][w]
               /\ w # BucketOf(x, d) => s[d][w] = slim[d][w]
               /\ s[d][w] = slim[d][w] \/ s[d][w] <= MaxOf(BucketRow(f[d], w))
    <3>1. s[d][w] = IF w = BucketOf(x, d) /\ slim[d][w] < goal THEN goal ELSE slim[d][w]
      BY <2>2, <2>4
    <3>2. slim[d][w] \in 0..MaxC
      BY <1>5
    <3>3. goal <= MaxOf(BucketRow(f[d], BucketOf(x, d)))
      <4>1. f[d] \in [Cols -> 0..MaxC]
        OBVIOUS
      <4>2. f[d][Col(x, d)] <= MaxOf(BucketRow(f[d], BucketOf(x, d)))
        BY <4>1, OwnWithinBucket
      <4>3. /\ MaxOf(BucketRow(f[d], BucketOf(x, d))) \in 0..MaxC
            /\ f[d][Col(x, d)] \in 0..MaxC
        BY <1>1, <4>1, BucketMax
      <4>4. minr <= f[d][Col(x, d)]
        BY <1>2
      <4>5. QED BY <1>2, <2>1, <4>2, <4>3, <4>4
    <3>4. QED BY <2>1, <3>1, <3>2, <3>3
  <2>6. ASSUME NEW n \in Nat,
               \A d \in Rows : /\ slim[d][BucketOf(x, d)] >= Lesser(n, MaxC)
                               /\ f[d][Col(x, d)] >= Lesser(n + delta, MaxC),
               NEW d \in Rows
        PROVE  s[d][BucketOf(x, d)] >= Lesser(n + delta, MaxC)
    <3>1. minr >= Lesser(n + delta, MaxC)
      BY <1>2, <2>6
    <3>2. minl >= Lesser(n, MaxC)
      BY <1>3, <2>6
    <3>3. goal >= Lesser(n + delta, MaxC)
      BY <1>2, <1>3, <1>7, <3>1, <3>2 DEF goal, Lesser
    <3>4. s[d][BucketOf(x, d)] >= goal
      <4>1. slim[d][BucketOf(x, d)] \in 0..MaxC /\ BucketOf(x, d) \in Buckets
        BY <1>1, <1>5
      <4>2. QED BY <2>1, <2>2, <2>4, <4>1
    <3>5. Lesser(n + delta, MaxC) \in Nat /\ s[d][BucketOf(x, d)] \in 0..MaxC
      BY <1>1, <2>4 DEF Lesser
    <3>6. QED BY <2>1, <3>3, <3>4, <3>5
  <2>7. QED BY <2>4, <2>5, <2>6 DEF SlimRises
<1>8. SlimRises(f, x, delta, s)
  BY <1>6, <1>7
<1>9. QED BY <1>8 DEF s

(* An insertion, with either setting.                                      *)
LEMMA IncStep ==
    ASSUME TypeOK, NEW x \in Keys, NEW delta \in Deltas, Inc(x, delta)
    PROVE  /\ delta \in Nat
           /\ fat' \in [Rows -> [Cols -> 0..MaxC]]
           /\ \A d \in Rows, c \in Cols :
                 fat'[d][c] = IF c = Col(x, d) THEN Lesser(fat[d][c] + delta, MaxC)
                                               ELSE fat[d][c]
           /\ SlimRises(fat', x, delta, slim')
           /\ maxArray => \A d \in Rows :
                 slim'[d][BucketOf(x, d)] >= MaxOf(BucketRow(fat'[d], BucketOf(x, d)))
<1>1. delta \in Nat
  BY DeltaAssumption, SizesAssumption
<1>2. fat' = IncR(x, delta)
  BY DEF Inc
<1>3. /\ fat' \in [Rows -> [Cols -> 0..MaxC]]
      /\ \A d \in Rows, c \in Cols :
            fat'[d][c] = IF c = Col(x, d) THEN Lesser(fat[d][c] + delta, MaxC) ELSE fat[d][c]
  BY <1>2, IncRStep
<1>4. CASE maxArray
  <2>1. slim' = Raised(x, AuxC(fat', x))
    BY <1>4 DEF Inc
  <2>2. SlimRises(fat', x, delta, slim')
    BY <1>1, <1>3, <2>1, RaisedRises
  <2>3. /\ AuxC(fat', x) \in [Rows -> 0..MaxC]
        /\ \A d \in Rows : AuxC(fat', x)[d] = MaxOf(BucketRow(fat'[d], BucketOf(x, d)))
    BY <1>3, AuxCType
  <2>4. \A d \in Rows, w \in Buckets :
           slim'[d][w] = IF w = BucketOf(x, d) /\ slim[d][w] < AuxC(fat', x)[d]
                         THEN AuxC(fat', x)[d] ELSE slim[d][w]
    BY <2>1, <2>3, RaisedStep
  <2>5. ASSUME NEW d \in Rows
        PROVE slim'[d][BucketOf(x, d)] >= MaxOf(BucketRow(fat'[d], BucketOf(x, d)))
    <3>1. BucketOf(x, d) \in Buckets
      BY Layout
    <3>2. AuxC(fat', x)[d] \in 0..MaxC /\ slim[d][BucketOf(x, d)] \in 0..MaxC
      BY <2>3, <3>1 DEF TypeOK
    <3>3. slim'[d][BucketOf(x, d)] >= AuxC(fat', x)[d]
      BY <2>4, <3>1, <3>2, SizesAssumption
    <3>4. QED BY <2>3, <3>3
  <2>6. QED BY <1>1, <1>3, <2>2, <2>5
<1>5. CASE ~maxArray
  <2>1. slim' = IncLMin(fat', x, delta)
    BY <1>5 DEF Inc
  <2>2. SlimRises(fat', x, delta, slim')
    BY <1>1, <1>3, <2>1, MinRises
  <2>3. QED BY <1>1, <1>3, <1>5, <2>2
<1>6. QED BY <1>4, <1>5

(* A deletion: slim counters are lowered to the largest fat counter left   *)
(* in their bucket.                                                        *)
LEMMA DecStep ==
    ASSUME TypeOK, NEW x \in Keys, NEW delta \in Deltas, Dec(x, delta)
    PROVE  /\ delta \in Nat
           /\ fat' \in [Rows -> [Cols -> 0..MaxC]]
           /\ \A d \in Rows, c \in Cols :
                 fat'[d][c] = IF c = Col(x, d) THEN FloorSub(fat[d][c], delta) ELSE fat[d][c]
           /\ slim' \in [Rows -> [Buckets -> 0..MaxC]]
           /\ \A d \in Rows, w \in Buckets :
                 slim'[d][w] = IF w = BucketOf(x, d)
                               THEN Lesser(slim[d][w], MaxOf(BucketRow(fat'[d], w)))
                               ELSE slim[d][w]
<1> USE SizesAssumption
<1>1. delta \in Nat
  BY DeltaAssumption
<1>2. /\ fat' \in [Rows -> [Cols -> 0..MaxC]]
      /\ \A d \in Rows, c \in Cols :
            fat'[d][c] = IF c = Col(x, d) THEN FloorSub(fat[d][c], delta) ELSE fat[d][c]
  <2>1. fat' = DecR(x, delta)
    BY DEF Dec
  <2>2. QED BY <2>1, DecRStep
<1>3. /\ AuxC(fat', x) \in [Rows -> 0..MaxC]
      /\ \A d \in Rows : AuxC(fat', x)[d] = MaxOf(BucketRow(fat'[d], BucketOf(x, d)))
  BY <1>2, AuxCType
<1>4. \A d \in Rows : BucketOf(x, d) \in Buckets /\ slim[d] \in [Buckets -> 0..MaxC]
  BY Layout DEF TypeOK
<1>5. slim' = [d \in Rows |-> [slim[d] EXCEPT ![BucketOf(x, d)] =
                   IF @ > AuxC(fat', x)[d] THEN AuxC(fat', x)[d] ELSE @]]
  BY DEF Dec, DecL
<1>6. \A d \in Rows : slim'[d] \in [Buckets -> 0..MaxC]
  BY <1>3, <1>4, <1>5
<1>7. slim' \in [Rows -> [Buckets -> 0..MaxC]]
  BY <1>5, <1>6
<1>8. ASSUME NEW d \in Rows, NEW w \in Buckets
      PROVE  slim'[d][w] = IF w = BucketOf(x, d)
                           THEN Lesser(slim[d][w], MaxOf(BucketRow(fat'[d], w)))
                           ELSE slim[d][w]
  <2>1. slim'[d][w] = IF w = BucketOf(x, d) /\ slim[d][w] > AuxC(fat', x)[d]
                      THEN AuxC(fat', x)[d] ELSE slim[d][w]
    BY <1>4, <1>5
  <2>2. AuxC(fat', x)[d] \in 0..MaxC /\ slim[d][w] \in 0..MaxC
    BY <1>3 DEF TypeOK
  <2>3. AuxC(fat', x)[d] = MaxOf(BucketRow(fat'[d], BucketOf(x, d)))
    BY <1>3
  <2>4. QED BY <2>1, <2>2, <2>3 DEF Lesser
<1>9. QED BY <1>1, <1>2, <1>7, <1>8

-----------------------------------------------------------------------------
(* Type correctness, the asserts, and the slim array within the fat one *)

LEMMA InitType == Init => TypeOK
<1> SUFFICES ASSUME Init PROVE TypeOK
  OBVIOUS
<1>1. 0 \in 0..MaxC
  BY SizesAssumption
<1>2. fat \in [Rows -> [Cols -> 0..MaxC]]
  BY <1>1 DEF Init
<1>3. slim \in [Rows -> [Buckets -> 0..MaxC]]
  BY <1>1 DEF Init
<1>4. QED BY <1>2, <1>3 DEF Init, TypeOK

LEMMA NextType == TypeOK /\ [Next]_vars => TypeOK'
<1> SUFFICES ASSUME TypeOK, [Next]_vars PROVE TypeOK'
  OBVIOUS
<1>1. ASSUME NEW x \in Keys, NEW delta \in Deltas, Inc(x, delta) PROVE TypeOK'
  <2>1. /\ delta \in Nat
        /\ fat' \in [Rows -> [Cols -> 0..MaxC]]
        /\ slim' \in [Rows -> [Buckets -> 0..MaxC]]
    BY <1>1, IncStep DEF SlimRises
  <2>2. count' \in [Keys -> Nat]
    BY <1>1, <2>1 DEF Inc, TypeOK
  <2>3. aborted' \in BOOLEAN /\ cut' \in BOOLEAN /\ lossy' = lossy /\ maxArray' = maxArray
    BY <1>1 DEF Inc
  <2>4. QED BY <2>1, <2>2, <2>3 DEF TypeOK
<1>2. ASSUME NEW x \in Keys, NEW delta \in Deltas, Dec(x, delta) PROVE TypeOK'
  <2>1. /\ delta \in Nat
        /\ fat' \in [Rows -> [Cols -> 0..MaxC]]
        /\ slim' \in [Rows -> [Buckets -> 0..MaxC]]
    BY <1>2, DecStep
  <2>2. count' \in [Keys -> Nat]
    <3>1. count[x] - delta \in Nat
      BY <1>2, <2>1 DEF Dec, TypeOK
    <3>2. QED BY <1>2, <3>1 DEF Dec, TypeOK
  <2>3. aborted' \in BOOLEAN /\ cut' = cut /\ lossy' = (lossy \/ cut) /\ maxArray' = maxArray
    BY <1>2 DEF Dec
  <2>4. QED BY <2>1, <2>2, <2>3 DEF TypeOK
<1>3. CASE UNCHANGED vars
  BY <1>3 DEF vars, TypeOK
<1>4. QED BY <1>1, <1>2, <1>3 DEF Next

(* Counters stay within 0..max_c in every execution, through insertions    *)
(* and deletions.                                                          *)
THEOREM TypeCorrect == Spec => []TypeOK
<1>1. QED BY InitType, NextType, PTL DEF Spec

(* The maximum of a bucket of empty counters is 0.                         *)
LEMMA EmptyBucket ==
    \A r \in [Cols -> 0..MaxC], w \in Buckets :
       (\A c \in Cols : r[c] = 0) => MaxOf(BucketRow(r, w)) = 0
<1> SUFFICES ASSUME NEW r \in [Cols -> 0..MaxC], NEW w \in Buckets,
                    \A c \in Cols : r[c] = 0
             PROVE  MaxOf(BucketRow(r, w)) = 0
  OBVIOUS
<1>1. PICK i \in 0 .. (K - 1) : MaxOf(BucketRow(r, w)) = r[w * K + i]
  BY BucketMax
<1>2. QED BY <1>1, Layout

(* How the slim array stands to the fat one: within it, and equal to its   *)
(* bucket maxima with MAX_COUNTERS_ARRAY; no assert has failed.            *)
SInv == TypeOK /\ NoAssertFails /\ SlimWithinBucket /\ SlimIsBucketMax

LEMMA InitSlim == Init => SInv
<1> SUFFICES ASSUME Init PROVE SInv
  OBVIOUS
<1>1. TypeOK
  BY InitType
<1>2. ASSUME NEW d \in Rows, NEW w \in Buckets
      PROVE  slim[d][w] = 0 /\ MaxOf(BucketRow(fat[d], w)) = 0
  <2>1. slim[d][w] = 0
    BY DEF Init
  <2>2. fat[d] \in [Cols -> 0..MaxC] /\ \A c \in Cols : fat[d][c] = 0
    BY <1>1 DEF Init, TypeOK
  <2>3. QED BY <2>1, <2>2, EmptyBucket
<1>3. NoAssertFails
  BY DEF Init, NoAssertFails
<1>4. QED BY <1>1, <1>2, <1>3 DEF SInv, SlimWithinBucket, SlimIsBucketMax

LEMMA IncSlim ==
    ASSUME SInv, NEW x \in Keys, NEW delta \in Deltas, Inc(x, delta)
    PROVE  NoAssertFails' /\ SlimWithinBucket' /\ SlimIsBucketMax'
<1>1. TypeOK
  BY DEF SInv
<1>2. /\ delta \in Nat
      /\ fat' \in [Rows -> [Cols -> 0..MaxC]]
      /\ \A d \in Rows, c \in Cols :
            fat'[d][c] = IF c = Col(x, d) THEN Lesser(fat[d][c] + delta, MaxC) ELSE fat[d][c]
      /\ SlimRises(fat', x, delta, slim')
      /\ maxArray => \A d \in Rows :
            slim'[d][BucketOf(x, d)] >= MaxOf(BucketRow(fat'[d], BucketOf(x, d)))
  BY <1>1, IncStep
<1>3. \A d \in Rows : fat[d] \in [Cols -> 0..MaxC] /\ fat'[d] \in [Cols -> 0..MaxC]
  BY <1>1, <1>2 DEF TypeOK
<1>4. \A d \in Rows, w \in Buckets :
         /\ MaxOf(BucketRow(fat[d], w)) \in 0..MaxC
         /\ MaxOf(BucketRow(fat'[d], w)) \in 0..MaxC
         /\ slim[d][w] \in 0..MaxC /\ slim'[d][w] \in 0..MaxC
  BY <1>1, <1>2, <1>3, BucketMax DEF TypeOK, SlimRises
<1>5. ASSUME NEW d \in Rows, NEW w \in Buckets
      PROVE  MaxOf(BucketRow(fat[d], w)) <= MaxOf(BucketRow(fat'[d], w))
  <2>1. \A c \in Cols : fat[d][c] <= fat'[d][c] + 0
    <3> TAKE c \in Cols
    <3>1. fat[d][c] \in 0..MaxC /\ fat'[d][c] \in 0..MaxC
      BY <1>3
    <3>2. fat'[d][c] = IF c = Col(x, d) THEN Lesser(fat[d][c] + delta, MaxC) ELSE fat[d][c]
      BY <1>2
    <3>3. QED BY <1>2, <3>1, <3>2, SizesAssumption DEF Lesser
  <2>2. 0 \in Nat
    OBVIOUS
  <2>3. MaxOf(BucketRow(fat[d], w)) <= MaxOf(BucketRow(fat'[d], w)) + 0
    BY <1>3, <2>1, <2>2, BucketMaxGrows
  <2>4. QED BY <1>4, <2>3
<1>6. \A d \in Rows, w \in Buckets :
         /\ slim'[d][w] >= slim[d][w]
         /\ w # BucketOf(x, d) => slim'[d][w] = slim[d][w]
         /\ slim'[d][w] = slim[d][w] \/ slim'[d][w] <= MaxOf(BucketRow(fat'[d], w))
  BY <1>2 DEF SlimRises
<1>7. \A d \in Rows, w \in Buckets : slim[d][w] <= MaxOf(BucketRow(fat[d], w))
  BY DEF SInv, SlimWithinBucket
<1>8. \A d \in Rows, w \in Buckets : slim'[d][w] <= MaxOf(BucketRow(fat'[d], w))
  <2> TAKE d \in Rows, w \in Buckets
  <2>1. QED BY <1>4, <1>5, <1>6, <1>7
<1>9. ~aborted'
  <2>1. CASE maxArray
    <3>1. aborted' = \E d \in Rows : SlimCounters(slim, x)[d] > AuxC(fat', x)[d]
      BY <2>1 DEF Inc
    <3>2. ASSUME NEW d \in Rows PROVE ~ (SlimCounters(slim, x)[d] > AuxC(fat', x)[d])
      <4>1. BucketOf(x, d) \in Buckets
        BY Layout
      <4>2. SlimCounters(slim, x)[d] = slim[d][BucketOf(x, d)]
        BY DEF SlimCounters
      <4>3. AuxC(fat', x)[d] = MaxOf(BucketRow(fat'[d], BucketOf(x, d)))
        BY <1>2, AuxCType
      <4> DEFINE old == MaxOf(BucketRow(fat[d], BucketOf(x, d)))
                 new == MaxOf(BucketRow(fat'[d], BucketOf(x, d)))
                 own == slim[d][BucketOf(x, d)]
      <4>4. own <= old /\ old <= new /\ own \in Int /\ old \in Int /\ new \in Int
        BY <1>4, <1>5, <1>7, <4>1
      <4>5. AuxC(fat', x)[d] = new /\ SlimCounters(slim, x)[d] = own
        BY <4>2, <4>3
      <4> HIDE DEF old, new, own
      <4>6. QED BY <4>4, <4>5
    <3>3. QED BY <3>1, <3>2
  <2>2. CASE ~maxArray
    BY <2>2 DEF Inc
  <2>3. QED BY <2>1, <2>2
<1>10. maxArray => \A d \in Rows, w \in Buckets : slim'[d][w] = MaxOf(BucketRow(fat'[d], w))
  <2> SUFFICES ASSUME maxArray, NEW d \in Rows, NEW w \in Buckets
               PROVE  slim'[d][w] = MaxOf(BucketRow(fat'[d], w))
    OBVIOUS
  <2>1. CASE w = BucketOf(x, d)
    <3> DEFINE new == MaxOf(BucketRow(fat'[d], w))
    <3>1. slim'[d][w] >= new
      BY <1>2, <2>1
    <3>2. slim'[d][w] <= new /\ new \in 0..MaxC /\ slim'[d][w] \in 0..MaxC
      BY <1>4, <1>8
    <3> HIDE DEF new
    <3>3. slim'[d][w] = new
      BY <3>1, <3>2, SizesAssumption
    <3>4. QED BY <3>3 DEF new
  <2>2. CASE w # BucketOf(x, d)
    <3>1. slim'[d][w] = slim[d][w]
      BY <1>6, <2>2
    <3>2. slim[d][w] = MaxOf(BucketRow(fat[d], w))
      BY DEF SInv, SlimIsBucketMax
    <3>3. \A c \in Cols : c # Col(x, d) => fat[d][c] = fat'[d][c]
      BY <1>2
    <3>4. MaxOf(BucketRow(fat[d], w)) = MaxOf(BucketRow(fat'[d], w))
      BY <1>3, <2>2, <3>3, OtherBuckets
    <3>5. QED BY <3>1, <3>2, <3>4
  <2>3. QED BY <2>1, <2>2
<1>11. maxArray' = maxArray
  BY DEF Inc
<1>12. QED BY <1>8, <1>9, <1>10, <1>11 DEF NoAssertFails, SlimWithinBucket, SlimIsBucketMax

LEMMA DecSlim ==
    ASSUME SInv, NEW x \in Keys, NEW delta \in Deltas, Dec(x, delta)
    PROVE  NoAssertFails' /\ SlimWithinBucket' /\ SlimIsBucketMax'
<1>1. TypeOK
  BY DEF SInv
<1>2. /\ delta \in Nat
      /\ fat' \in [Rows -> [Cols -> 0..MaxC]]
      /\ \A d \in Rows, c \in Cols :
            fat'[d][c] = IF c = Col(x, d) THEN FloorSub(fat[d][c], delta) ELSE fat[d][c]
      /\ slim' \in [Rows -> [Buckets -> 0..MaxC]]
      /\ \A d \in Rows, w \in Buckets :
            slim'[d][w] = IF w = BucketOf(x, d)
                          THEN Lesser(slim[d][w], MaxOf(BucketRow(fat'[d], w)))
                          ELSE slim[d][w]
  BY <1>1, DecStep
<1>3. \A d \in Rows : fat[d] \in [Cols -> 0..MaxC] /\ fat'[d] \in [Cols -> 0..MaxC]
  BY <1>1, <1>2 DEF TypeOK
<1>4. \A d \in Rows, w \in Buckets :
         /\ MaxOf(BucketRow(fat[d], w)) \in 0..MaxC
         /\ MaxOf(BucketRow(fat'[d], w)) \in 0..MaxC
         /\ slim[d][w] \in 0..MaxC /\ slim'[d][w] \in 0..MaxC
  BY <1>1, <1>2, <1>3, BucketMax DEF TypeOK
<1>5. \A d \in Rows, c \in Cols :
         fat[d][c] <= fat'[d][c] + delta /\ fat'[d][c] <= fat[d][c] + 0
  <2> TAKE d \in Rows, c \in Cols
  <2>1. fat[d][c] \in 0..MaxC /\ fat'[d][c] \in 0..MaxC
    BY <1>3
  <2>2. fat'[d][c] = IF c = Col(x, d) THEN FloorSub(fat[d][c], delta) ELSE fat[d][c]
    BY <1>2
  <2>3. QED BY <1>2, <2>1, <2>2, SizesAssumption DEF FloorSub
<1>6. ASSUME NEW d \in Rows, NEW w \in Buckets
      PROVE  /\ MaxOf(BucketRow(fat[d], w)) <= MaxOf(BucketRow(fat'[d], w)) + delta
             /\ MaxOf(BucketRow(fat'[d], w)) <= MaxOf(BucketRow(fat[d], w))
  <2>1. 0 \in Nat
    OBVIOUS
  <2>2. MaxOf(BucketRow(fat[d], w)) <= MaxOf(BucketRow(fat'[d], w)) + delta
    BY <1>2, <1>3, <1>5, BucketMaxGrows
  <2>3. MaxOf(BucketRow(fat'[d], w)) <= MaxOf(BucketRow(fat[d], w)) + 0
    BY <1>3, <1>5, <2>1, BucketMaxGrows
  <2>4. QED BY <1>4, <2>2, <2>3
<1>7. \A d \in Rows, w \in Buckets : slim[d][w] <= MaxOf(BucketRow(fat[d], w))
  BY DEF SInv, SlimWithinBucket
<1>8. ASSUME NEW d \in Rows, NEW w \in Buckets, w # BucketOf(x, d)
      PROVE  MaxOf(BucketRow(fat[d], w)) = MaxOf(BucketRow(fat'[d], w))
  <2>1. \A c \in Cols : c # Col(x, d) => fat[d][c] = fat'[d][c]
    BY <1>2
  <2>2. QED BY <1>3, <1>8, <2>1, OtherBuckets
<1>9. ASSUME NEW d \in Rows, NEW w \in Buckets
      PROVE  slim'[d][w] <= MaxOf(BucketRow(fat'[d], w))
  <2>1. CASE w = BucketOf(x, d)
    <3>1. slim'[d][w] = Lesser(slim[d][w], MaxOf(BucketRow(fat'[d], w)))
      BY <1>2, <2>1
    <3>2. QED BY <1>4, <3>1 DEF Lesser
  <2>2. CASE w # BucketOf(x, d)
    BY <1>2, <1>7, <1>8, <2>2
  <2>3. QED BY <2>1, <2>2
<1>10. ~aborted'
  <2>1. aborted' = \E d \in Rows : SlimCounters(slim, x)[d] > AuxC(fat', x)[d] + delta
    BY DEF Dec
  <2>2. ASSUME NEW d \in Rows
        PROVE  ~ (SlimCounters(slim, x)[d] > AuxC(fat', x)[d] + delta)
    <3>1. BucketOf(x, d) \in Buckets
      BY Layout
    <3>2. SlimCounters(slim, x)[d] = slim[d][BucketOf(x, d)]
      BY DEF SlimCounters
    <3>3. AuxC(fat', x)[d] = MaxOf(BucketRow(fat'[d], BucketOf(x, d)))
      BY <1>2, AuxCType
    <3> DEFINE old == MaxOf(BucketRow(fat[d], BucketOf(x, d)))
               new == MaxOf(BucketRow(fat'[d], BucketOf(x, d)))
               own == slim[d][BucketOf(x, d)]
    <3>4. own <= old /\ old <= new + delta /\ own \in Int /\ old \in Int /\ new \in Int
      BY <1>4, <1>6, <1>7, <3>1
    <3>5. AuxC(fat', x)[d] = new /\ SlimCounters(slim, x)[d] = own
      BY <3>2, <3>3
    <3> HIDE DEF old, new, own
    <3>6. QED BY <1>2, <3>4, <3>5
  <2>3. QED BY <2>1, <2>2
<1>11. maxArray => \A d \in Rows, w \in Buckets : slim'[d][w] = MaxOf(BucketRow(fat'[d], w))
  <2> SUFFICES ASSUME maxArray, NEW d \in Rows, NEW w \in Buckets
               PROVE  slim'[d][w] = MaxOf(BucketRow(fat'[d], w))
    OBVIOUS
  <2>1. slim[d][w] = MaxOf(BucketRow(fat[d], w))
    BY DEF SInv, SlimIsBucketMax
  <2>2. CASE w = BucketOf(x, d)
    <3>1. slim'[d][w] = Lesser(slim[d][w], MaxOf(BucketRow(fat'[d], w)))
      BY <1>2, <2>2
    <3>2. QED BY <1>4, <1>6, <2>1, <3>1 DEF Lesser
  <2>3. CASE w # BucketOf(x, d)
    BY <1>2, <1>8, <2>1, <2>3
  <2>4. QED BY <2>2, <2>3
<1>12. maxArray' = maxArray
  BY DEF Dec
<1>13. QED BY <1>9, <1>10, <1>11, <1>12 DEF NoAssertFails, SlimWithinBucket, SlimIsBucketMax

LEMMA NextSlim == SInv /\ [Next]_vars => SInv'
<1> SUFFICES ASSUME SInv, [Next]_vars PROVE SInv'
  OBVIOUS
<1>1. TypeOK'
  BY NextType DEF SInv
<1>2. CASE UNCHANGED vars
  BY <1>2 DEF vars, SInv, TypeOK, NoAssertFails, SlimWithinBucket, SlimIsBucketMax
<1>3. QED BY <1>1, <1>2, IncSlim, DecSlim DEF Next, SInv

(* The asserts of inc_l() and dec_l() hold in every execution.             *)
THEOREM AssertsHold == Spec => []NoAssertFails
<1>1. SInv => NoAssertFails
  BY DEF SInv
<1>2. QED BY <1>1, InitSlim, NextSlim, PTL DEF Spec

(* No slim counter ever exceeds the largest fat counter of its bucket.     *)
THEOREM SlimBounded == Spec => []SlimWithinBucket
<1>1. SInv => SlimWithinBucket
  BY DEF SInv
<1>2. QED BY <1>1, InitSlim, NextSlim, PTL DEF Spec

(* With MAX_COUNTERS_ARRAY the slim array is always what compose_slim()    *)
(* would compute.                                                          *)
THEOREM SlimComposed == Spec => []SlimIsBucketMax
<1>1. SInv => SlimIsBucketMax
  BY DEF SInv
<1>2. QED BY <1>1, InitSlim, NextSlim, PTL DEF Spec

-----------------------------------------------------------------------------
(* Exact loads and one-sided answers *)

Here(d, c) == {x \in Keys : Col(x, d) = c}

(* Giving delta more to x adds delta to the total of x's column in each    *)
(* row, and to no other.                                                   *)
LEMMA TotalStep ==
    \A n \in [Keys -> Nat], x \in Keys, delta \in Nat : \A m :
        (\A y \in Keys : m[y] = IF y = x THEN n[x] + delta ELSE n[y]) =>
        \A d \in Rows, c \in Cols :
            Total(m, Here(d, c)) =
              IF c = Col(x, d) THEN Total(n, Here(d, c)) + delta ELSE Total(n, Here(d, c))
<1> SUFFICES
      ASSUME NEW n \in [Keys -> Nat], NEW x \in Keys, NEW delta \in Nat,
             NEW m, \A y \in Keys : m[y] = IF y = x THEN n[x] + delta ELSE n[y],
             NEW d \in Rows, NEW c \in Cols
      PROVE  Total(m, Here(d, c)) =
              IF c = Col(x, d) THEN Total(n, Here(d, c)) + delta ELSE Total(n, Here(d, c))
  OBVIOUS
<1>1. CASE c = Col(x, d)
  <2>1. IsFiniteSet(Here(d, c))
    BY KeysAssumption, FS_Subset DEF Here
  <2>2. x \in Here(d, c)
    BY <1>1 DEF Here
  <2>3. /\ \A y \in Here(d, c) : n[y] \in Nat
        /\ \A y \in Here(d, c) : m[y] = IF y = x THEN n[x] + delta ELSE n[y]
    BY DEF Here
  <2>4. Total(m, Here(d, c)) = Total(n, Here(d, c)) + delta
    BY <2>1, <2>2, <2>3, TotalAdd
  <2>5. QED BY <1>1, <2>4
<1>2. CASE c # Col(x, d)
  <2>1. \A y \in Here(d, c) : m[y] = n[y]
    BY <1>2 DEF Here
  <2>2. Total(m, Here(d, c)) = Total(n, Here(d, c))
    BY <2>1, TotalSame
  <2>3. QED BY <1>2, <2>2
<1>3. QED BY <1>1, <1>2

(* The total of a column is a natural number, at least the count of each   *)
(* of its keys.                                                            *)
LEMMA ColumnCovers ==
    \A n \in [Keys -> Nat], d \in Rows :
       /\ \A c \in Cols : Total(n, Here(d, c)) \in Nat
       /\ \A x \in Keys : n[x] <= Total(n, Here(d, Col(x, d)))
<1> SUFFICES ASSUME NEW n \in [Keys -> Nat], NEW d \in Rows
             PROVE  /\ \A c \in Cols : Total(n, Here(d, c)) \in Nat
                    /\ \A x \in Keys : n[x] <= Total(n, Here(d, Col(x, d)))
  OBVIOUS
<1>1. ASSUME NEW c \in Cols
      PROVE  /\ Total(n, Here(d, c)) \in Nat
             /\ \A x \in Here(d, c) : n[x] <= Total(n, Here(d, c))
  <2>1. IsFiniteSet(Here(d, c)) /\ \A x \in Here(d, c) : n[x] \in Nat
    BY KeysAssumption, FS_Subset DEF Here
  <2>2. QED BY <2>1, TotalCovers
<1>2. \A x \in Keys : Col(x, d) \in Cols /\ x \in Here(d, Col(x, d))
  BY Layout DEF Here
<1>3. QED BY <1>1, <1>2

(* The inductive invariant.  While nothing has been cut, every fat counter *)
(* is the sum of the counts of its keys, which is why a deletion is then   *)
(* never floored; while no deletion has followed a cut, that sum is cut    *)
(* once, and the slim counters of a key cover its count.                   *)
UncutIsExact == ~cut => \A d \in Rows, c \in Cols : fat[d][c] = Total(count, Here(d, c))
Covered == ~lossy => \A x \in Keys, d \in Rows :
                        slim[d][BucketOf(x, d)] >= Lesser(count[x], MaxC)
IInv == SInv /\ UncutIsExact /\ FatIsExactLoad /\ Covered

LEMMA InitLoads == Init => IInv
<1> SUFFICES ASSUME Init PROVE IInv
  OBVIOUS
<1>1. \A d \in Rows, c \in Cols : Total(count, Here(d, c)) = 0
  <2> TAKE d \in Rows, c \in Cols
  <2>1. \A y \in Here(d, c) : count[y] = 0
    BY DEF Init, Here
  <2>2. QED BY <2>1, TotalZero
<1>2. \A d \in Rows, c \in Cols : fat[d][c] = 0
  BY DEF Init
<1>3. UncutIsExact
  BY <1>1, <1>2 DEF UncutIsExact
<1>4. Lesser(0, MaxC) = 0
  BY SizesAssumption DEF Lesser
<1>5. FatIsExactLoad
  BY <1>1, <1>2, <1>4 DEF FatIsExactLoad, Here
<1>6. Covered
  <2>1. \A x \in Keys, d \in Rows : slim[d][BucketOf(x, d)] = 0 /\ count[x] = 0
    BY Layout DEF Init
  <2>2. QED BY <1>4, <2>1 DEF Covered
<1>7. QED BY <1>3, <1>5, <1>6, InitSlim DEF IInv

LEMMA IncLoads ==
    ASSUME IInv, NEW x \in Keys, NEW delta \in Deltas, Inc(x, delta)
    PROVE  UncutIsExact' /\ FatIsExactLoad' /\ Covered'
<1> USE SizesAssumption
<1>1. TypeOK /\ UncutIsExact /\ FatIsExactLoad /\ Covered
  BY DEF IInv, SInv
<1>2. /\ delta \in Nat
      /\ fat' \in [Rows -> [Cols -> 0..MaxC]]
      /\ \A d \in Rows, c \in Cols :
            fat'[d][c] = IF c = Col(x, d) THEN Lesser(fat[d][c] + delta, MaxC) ELSE fat[d][c]
      /\ SlimRises(fat', x, delta, slim')
  BY <1>1, IncStep
<1>3. /\ count \in [Keys -> Nat]
      /\ count' \in [Keys -> Nat]
      /\ \A y \in Keys : count'[y] = IF y = x THEN count[x] + delta ELSE count[y]
  BY <1>1, <1>2 DEF Inc, TypeOK
<1>4. \A d \in Rows, c \in Cols :
         Total(count', Here(d, c)) =
           IF c = Col(x, d) THEN Total(count, Here(d, c)) + delta ELSE Total(count, Here(d, c))
  <2>1. delta \in Nat /\ count \in [Keys -> Nat]
    BY <1>2, <1>3
  <2>2. \A y \in Keys : count'[y] = IF y = x THEN count[x] + delta ELSE count[y]
    BY <1>3
  <2>3. QED BY <2>1, <2>2, TotalStep
<1>5. \A d \in Rows, c \in Cols : Total(count, Here(d, c)) \in Nat
  BY <1>3, ColumnCovers
<1>6. UncutIsExact'
  <2> SUFFICES ASSUME ~cut', NEW d \in Rows, NEW c \in Cols
               PROVE  fat'[d][c] = Total(count', Here(d, c))
    BY DEF UncutIsExact
  <2>1. ~cut /\ ~ (fat[d][Col(x, d)] + delta > MaxC)
    BY DEF Inc
  <2>2. fat[d][c] = Total(count, Here(d, c))
    BY <1>1, <2>1 DEF UncutIsExact
  <2>3. c = Col(x, d) => fat[d][c] + delta <= MaxC
    <3>1. fat[d][c] \in 0..MaxC
      BY <1>1 DEF TypeOK
    <3>2. QED BY <1>2, <2>1, <3>1
  <2>4. c = Col(x, d) => fat'[d][c] = fat[d][c] + delta
    BY <1>2, <2>3 DEF Lesser
  <2>5. c # Col(x, d) => fat'[d][c] = fat[d][c]
    BY <1>2
  <2>6. QED BY <1>4, <2>2, <2>4, <2>5
<1>7. FatIsExactLoad'
  <2> SUFFICES ASSUME ~lossy', NEW d \in Rows, NEW c \in Cols
               PROVE  fat'[d][c] = Lesser(Total(count', Here(d, c)), MaxC)
    BY DEF FatIsExactLoad, Here
  <2>1. fat[d][c] = Lesser(Total(count, Here(d, c)), MaxC)
    BY <1>1 DEF Inc, FatIsExactLoad, Here
  <2> DEFINE old == Total(count, Here(d, c))
             new == Total(count', Here(d, c))
  <2>2. /\ old \in Nat
        /\ new = IF c = Col(x, d) THEN old + delta ELSE old
        /\ fat[d][c] = Lesser(old, MaxC)
        /\ fat'[d][c] = IF c = Col(x, d) THEN Lesser(fat[d][c] + delta, MaxC) ELSE fat[d][c]
    BY <1>2, <1>4, <1>5, <2>1
  <2> HIDE DEF old, new
  <2>3. fat'[d][c] = Lesser(new, MaxC)
    BY <1>2, <2>2 DEF Lesser
  <2>4. QED BY <2>3 DEF new
<1>8. Covered'
  <2> SUFFICES ASSUME ~lossy', NEW y \in Keys, NEW d \in Rows
               PROVE  slim'[d][BucketOf(y, d)] >= Lesser(count'[y], MaxC)
    BY DEF Covered
  <2>1. ~lossy
    BY DEF Inc
  <2>2. \A z \in Keys, e \in Rows : slim[e][BucketOf(z, e)] >= Lesser(count[z], MaxC)
    BY <1>1, <2>1 DEF Covered
  <2>3. CASE y = x
    <3>1. \A e \in Rows : fat'[e][Col(x, e)] >= Lesser(count[x] + delta, MaxC)
      <4> TAKE e \in Rows
      <4>1. Col(x, e) \in Cols
        BY Layout
      <4>2. fat'[e][Col(x, e)] = Lesser(Total(count', Here(e, Col(x, e))), MaxC)
        BY <1>7, <4>1 DEF FatIsExactLoad, Here
      <4>3. count'[x] <= Total(count', Here(e, Col(x, e)))
        BY <1>3, ColumnCovers
      <4>4. Total(count', Here(e, Col(x, e))) \in Nat
        BY <1>3, <4>1, ColumnCovers
      <4>5. count'[x] = count[x] + delta /\ count'[x] \in Nat
        BY <1>3
      <4>6. Lesser(Total(count', Here(e, Col(x, e))), MaxC) >= Lesser(count'[x], MaxC)
        BY <4>3, <4>4, <4>5 DEF Lesser
      <4>7. QED BY <4>2, <4>5, <4>6
    <3>2. count[x] \in Nat /\ count'[x] = count[x] + delta
      BY <1>3
    <3>3. \A e \in Rows : slim'[e][BucketOf(x, e)] >= Lesser(count[x] + delta, MaxC)
      BY <1>2, <2>2, <3>1, <3>2 DEF SlimRises
    <3>4. QED BY <2>3, <3>2, <3>3
  <2>4. CASE y # x
    <3>1. BucketOf(y, d) \in Buckets
      BY Layout
    <3>2. slim'[d][BucketOf(y, d)] >= slim[d][BucketOf(y, d)]
      BY <1>2, <3>1 DEF SlimRises
    <3>3. /\ slim'[d][BucketOf(y, d)] \in 0..MaxC
          /\ slim[d][BucketOf(y, d)] \in 0..MaxC
      BY <1>1, <1>2, <3>1 DEF SlimRises, TypeOK
    <3>4. count'[y] = count[y] /\ count[y] \in Nat
      BY <1>3, <2>4
    <3>5. slim[d][BucketOf(y, d)] >= Lesser(count[y], MaxC)
      BY <2>2
    <3>6. Lesser(count[y], MaxC) \in Nat
      BY <3>4 DEF Lesser
    <3>7. QED BY <3>2, <3>3, <3>4, <3>5, <3>6
  <2>5. QED BY <2>3, <2>4
<1>9. QED BY <1>6, <1>7, <1>8

LEMMA DecLoads ==
    ASSUME IInv, NEW x \in Keys, NEW delta \in Deltas, Dec(x, delta)
    PROVE  UncutIsExact' /\ FatIsExactLoad' /\ Covered'
<1> USE SizesAssumption
<1>1. TypeOK /\ UncutIsExact /\ FatIsExactLoad /\ Covered
  BY DEF IInv, SInv
<1>2. /\ delta \in Nat
      /\ fat' \in [Rows -> [Cols -> 0..MaxC]]
      /\ \A d \in Rows, c \in Cols :
            fat'[d][c] = IF c = Col(x, d) THEN FloorSub(fat[d][c], delta) ELSE fat[d][c]
      /\ slim' \in [Rows -> [Buckets -> 0..MaxC]]
      /\ \A d \in Rows, w \in Buckets :
            slim'[d][w] = IF w = BucketOf(x, d)
                          THEN Lesser(slim[d][w], MaxOf(BucketRow(fat'[d], w)))
                          ELSE slim[d][w]
  BY <1>1, DecStep
<1>3. /\ count \in [Keys -> Nat]
      /\ count' \in [Keys -> Nat]
      /\ \A y \in Keys : /\ count'[y] <= count[y]
                         /\ count[y] = IF y = x THEN count'[x] + delta ELSE count'[y]
  <2>1. count \in [Keys -> Nat] /\ count[x] - delta \in Nat
    BY <1>1, <1>2 DEF Dec, TypeOK
  <2>2. \A y \in Keys : count'[y] = IF y = x THEN count[x] - delta ELSE count[y]
    BY <2>1 DEF Dec
  <2>3. count' \in [Keys -> Nat]
    BY <2>1 DEF Dec
  <2>4. QED BY <1>2, <2>1, <2>2, <2>3
<1>4. \A d \in Rows, c \in Cols :
         Total(count, Here(d, c)) =
           IF c = Col(x, d) THEN Total(count', Here(d, c)) + delta
                            ELSE Total(count', Here(d, c))
  <2>1. delta \in Nat /\ count' \in [Keys -> Nat]
    BY <1>2, <1>3
  <2>2. \A y \in Keys : count[y] = IF y = x THEN count'[x] + delta ELSE count'[y]
    BY <1>3
  <2>3. QED BY <2>1, <2>2, TotalStep
<1>5. \A d \in Rows, c \in Cols : Total(count', Here(d, c)) \in Nat
  BY <1>3, ColumnCovers
<1>6. ASSUME ~cut, NEW d \in Rows, NEW c \in Cols
      PROVE  fat'[d][c] = Total(count', Here(d, c))
  <2>1. fat[d][c] = Total(count, Here(d, c))
    BY <1>1, <1>6 DEF UncutIsExact
  <2> DEFINE old == Total(count, Here(d, c))
             new == Total(count', Here(d, c))
  <2>2. /\ new \in Nat
        /\ old = IF c = Col(x, d) THEN new + delta ELSE new
        /\ fat[d][c] = old
        /\ fat'[d][c] = IF c = Col(x, d) THEN FloorSub(fat[d][c], delta) ELSE fat[d][c]
    BY <1>2, <1>4, <1>5, <2>1
  <2> HIDE DEF old, new
  <2>3. fat'[d][c] = new
    BY <1>2, <2>2 DEF FloorSub
  <2>4. QED BY <2>3 DEF new
<1>7. UncutIsExact'
  BY <1>6 DEF UncutIsExact, Dec
<1>8. FatIsExactLoad'
  <2> SUFFICES ASSUME ~lossy', NEW d \in Rows, NEW c \in Cols
               PROVE  fat'[d][c] = Lesser(Total(count', Here(d, c)), MaxC)
    BY DEF FatIsExactLoad, Here
  <2>1. ~cut
    BY DEF Dec
  <2>2. fat'[d][c] = Total(count', Here(d, c)) /\ fat'[d][c] \in 0..MaxC
    BY <1>2, <1>6, <2>1
  <2>3. QED BY <2>2 DEF Lesser
<1>9. Covered'
  <2> SUFFICES ASSUME ~lossy', NEW y \in Keys, NEW d \in Rows
               PROVE  slim'[d][BucketOf(y, d)] >= Lesser(count'[y], MaxC)
    BY DEF Covered
  <2>1. ~cut /\ ~lossy
    BY DEF Dec
  <2> DEFINE w == BucketOf(y, d)
             top == MaxOf(BucketRow(fat'[d], w))
             need == Lesser(count'[y], MaxC)
  <2>2. w \in Buckets /\ Col(y, d) \in Cols /\ fat'[d] \in [Cols -> 0..MaxC]
    BY <1>2, Layout
  <2>3. count'[y] \in Nat /\ count[y] \in Nat /\ count'[y] <= count[y]
    BY <1>3
  <2>4. slim[d][w] >= need /\ slim[d][w] \in 0..MaxC
    <3>1. slim[d][w] >= Lesser(count[y], MaxC)
      BY <1>1, <2>1 DEF Covered
    <3>2. slim[d][w] \in 0..MaxC
      BY <1>1, <2>2 DEF TypeOK
    <3>3. Lesser(count[y], MaxC) >= need /\ Lesser(count[y], MaxC) \in Nat /\ need \in Nat
      BY <2>3 DEF Lesser
    <3> HIDE DEF w, need
    <3>4. QED BY <3>1, <3>2, <3>3
  <2>5. top >= need /\ top \in 0..MaxC
    <3>1. fat'[d][Col(y, d)] <= top /\ top \in 0..MaxC
      BY <2>2, OwnWithinBucket, BucketMax
    <3>2. fat'[d][Col(y, d)] = Total(count', Here(d, Col(y, d)))
      BY <1>6, <2>1, <2>2
    <3>3. fat'[d][Col(y, d)] \in 0..MaxC
      BY <2>2
    <3>4. count'[y] <= Total(count', Here(d, Col(y, d)))
      BY <1>3, ColumnCovers
    <3>5. need <= count'[y] /\ need \in Nat
      BY <2>3 DEF Lesser
    <3> HIDE DEF top, need
    <3>6. QED BY <2>3, <3>1, <3>2, <3>3, <3>4, <3>5
  <2>6. slim'[d][w] = IF w = BucketOf(x, d) THEN Lesser(slim[d][w], top) ELSE slim[d][w]
    BY <1>2, <2>2
  <2> HIDE DEF w, top, need
  <2>7. slim'[d][w] >= need
    BY <2>4, <2>5, <2>6 DEF Lesser
  <2>8. QED BY <2>7 DEF w, need
<1>10. QED BY <1>7, <1>8, <1>9

LEMMA NextLoads == IInv /\ [Next]_vars => IInv'
<1> SUFFICES ASSUME IInv, [Next]_vars PROVE IInv'
  OBVIOUS
<1>1. SInv'
  BY NextSlim DEF IInv
<1>2. CASE UNCHANGED vars
  <2>1. UNCHANGED <<fat, slim, count, cut, lossy>>
    BY <1>2 DEF vars
  <2>2. UncutIsExact' /\ FatIsExactLoad' /\ Covered'
    BY <2>1 DEF IInv, UncutIsExact, FatIsExactLoad, Covered
  <2>3. QED BY <1>1, <2>2 DEF IInv
<1>3. QED BY <1>1, <1>2, IncLoads, DecLoads DEF Next, IInv

(* Until a deletion follows a cut, every fat counter is the sum of the     *)
(* counts of the keys of its column, cut at max_c.                         *)
THEOREM FatExact == Spec => []FatIsExactLoad
<1>1. IInv => FatIsExactLoad
  BY DEF IInv
<1>2. QED BY <1>1, InitLoads, NextLoads, PTL DEF Spec

(* The slim counters of a key cover its count, and so does the smallest.   *)
LEMMA AnswersCovered == IInv => OneSided
<1> SUFFICES ASSUME IInv, ~lossy, NEW x \in Keys
             PROVE  Query(x) >= Lesser(count[x], MaxC)
  BY DEF OneSided
<1>1. \A d \in Rows : /\ SlimCounters(slim, x)[d] = slim[d][BucketOf(x, d)]
                      /\ SlimCounters(slim, x)[d] >= Lesser(count[x], MaxC)
  BY DEF SlimCounters, IInv, Covered
<1>2. SlimCounters(slim, x) \in [Rows -> 0..MaxC]
  <2>1. \A d \in Rows : slim[d][BucketOf(x, d)] \in 0..MaxC
    BY Layout DEF IInv, SInv, TypeOK
  <2>2. QED BY <2>1 DEF SlimCounters
<1>3. \E d \in Rows : MinOf(SlimCounters(slim, x)) = SlimCounters(slim, x)[d]
  BY <1>2, QueryValue
<1>4. QED BY <1>1, <1>3 DEF Query

(* Until then a query never answers less than the count of its key,        *)
(* whatever is deleted of the keys it shares counters with.                *)
THEOREM AnswersCover == Spec => []OneSided
BY AnswersCovered, InitLoads, NextLoads, PTL DEF Spec

-----------------------------------------------------------------------------
(* SFV2 implements FrequencyEstimator *)

(* The answer for a key is one of its slim counters, and when these move   *)
(* by at most some amount in one direction, so does the answer.            *)
LEMMA SlimAnswer ==
    ASSUME NEW s \in [Rows -> [Buckets -> 0..MaxC]], NEW x \in Keys
    PROVE  /\ MinOf(SlimCounters(s, x)) \in 0..MaxC
           /\ \E d \in Rows : MinOf(SlimCounters(s, x)) = s[d][BucketOf(x, d)]
           /\ \A d \in Rows : MinOf(SlimCounters(s, x)) <= s[d][BucketOf(x, d)]
<1>1. \A d \in Rows : SlimCounters(s, x)[d] = s[d][BucketOf(x, d)]
  BY DEF SlimCounters
<1>2. SlimCounters(s, x) \in [Rows -> 0..MaxC]
  <2>1. \A d \in Rows : s[d][BucketOf(x, d)] \in 0..MaxC
    BY Layout
  <2>2. QED BY <2>1 DEF SlimCounters
<1>3. QED BY <1>1, <1>2, QueryValue

LEMMA AnswerMoves ==
    ASSUME NEW s \in [Rows -> [Buckets -> 0..MaxC]], NEW t \in [Rows -> [Buckets -> 0..MaxC]],
           NEW up \in Nat,
           \A d \in Rows, w \in Buckets : s[d][w] <= t[d][w] /\ t[d][w] <= s[d][w] + up,
           NEW x \in Keys
    PROVE  /\ MinOf(SlimCounters(s, x)) <= MinOf(SlimCounters(t, x))
           /\ MinOf(SlimCounters(t, x)) <= MinOf(SlimCounters(s, x)) + up
<1> USE SizesAssumption
<1>1. \A d \in Rows : /\ BucketOf(x, d) \in Buckets
                      /\ s[d][BucketOf(x, d)] \in Nat /\ t[d][BucketOf(x, d)] \in Nat
  BY Layout
<1>2. /\ SlimCounters(s, x) \in [Rows -> Nat] /\ SlimCounters(t, x) \in [Rows -> Nat]
      /\ \A d \in Rows : /\ SlimCounters(s, x)[d] = s[d][BucketOf(x, d)]
                         /\ SlimCounters(t, x)[d] = t[d][BucketOf(x, d)]
  BY <1>1 DEF SlimCounters
<1>3. Rows # {} /\ \A d \in Rows : /\ SlimCounters(s, x)[d] <= SlimCounters(t, x)[d]
                                   /\ SlimCounters(t, x)[d] <= SlimCounters(s, x)[d] + up
  BY <1>1, <1>2, NonEmpty
<1>4. QED BY <1>2, <1>3, MinOfMoves

(* The empty sketch answers zero.                                          *)
LEMMA InitRefines == Init => Estimator!Init
<1> SUFFICES ASSUME Init PROVE Estimator!Init
  OBVIOUS
<1>1. ASSUME NEW x \in Keys PROVE Query(x) = 0
  <2>1. \E d \in Rows : Query(x) = slim[d][BucketOf(x, d)]
    BY InitType, SlimAnswer DEF TypeOK, Query
  <2>2. QED BY <2>1, Layout DEF Init
<1>2. QED BY <1>1 DEF Init, Estimator!Init

(* Without MAX_COUNTERS_ARRAY the goal, with it the bucket's maximum, is at*)
(* most delta above the counter that is raised to it.                      *)
LEMMA IncRisesLittle ==
    ASSUME SInv, NEW x \in Keys, NEW delta \in Deltas, Inc(x, delta)
    PROVE  \A d \in Rows, w \in Buckets :
              slim[d][w] <= slim'[d][w] /\ slim'[d][w] <= slim[d][w] + delta
<1> USE SizesAssumption
<1>1. TypeOK
  BY DEF SInv
<1>2. /\ delta \in Nat
      /\ fat' \in [Rows -> [Cols -> 0..MaxC]]
      /\ \A d \in Rows, c \in Cols :
            fat'[d][c] = IF c = Col(x, d) THEN Lesser(fat[d][c] + delta, MaxC) ELSE fat[d][c]
      /\ SlimRises(fat', x, delta, slim')
  BY <1>1, IncStep
<1>3. \A d \in Rows, w \in Buckets :
         /\ slim[d][w] \in 0..MaxC /\ slim'[d][w] \in 0..MaxC
         /\ slim'[d][w] >= slim[d][w]
         /\ w # BucketOf(x, d) => slim'[d][w] = slim[d][w]
         /\ slim'[d][w] = slim[d][w] \/ slim'[d][w] <= MaxOf(BucketRow(fat'[d], w))
  BY <1>1, <1>2 DEF SlimRises, TypeOK
<1>4. ASSUME maxArray, NEW d \in Rows, NEW w \in Buckets
      PROVE  slim'[d][w] <= slim[d][w] + delta
  <2>1. slim[d][w] = MaxOf(BucketRow(fat[d], w))
    BY <1>4 DEF SInv, SlimIsBucketMax
  <2>2. fat[d] \in [Cols -> 0..MaxC] /\ fat'[d] \in [Cols -> 0..MaxC]
    BY <1>1, <1>2 DEF TypeOK
  <2>3. \A c \in Cols : fat'[d][c] <= fat[d][c] + delta
    <3> TAKE c \in Cols
    <3>1. fat[d][c] \in 0..MaxC
      BY <2>2
    <3>2. fat'[d][c] = IF c = Col(x, d) THEN Lesser(fat[d][c] + delta, MaxC) ELSE fat[d][c]
      BY <1>2
    <3>3. QED BY <1>2, <3>1, <3>2 DEF Lesser
  <2>4. MaxOf(BucketRow(fat'[d], w)) <= MaxOf(BucketRow(fat[d], w)) + delta
    BY <1>2, <2>2, <2>3, BucketMaxGrows
  <2>5. MaxOf(BucketRow(fat'[d], w)) \in 0..MaxC
    BY <2>2, BucketMax
  <2> DEFINE new == MaxOf(BucketRow(fat'[d], w))
  <2>6. new <= slim[d][w] + delta /\ new \in 0..MaxC
    BY <2>1, <2>4, <2>5
  <2>7. slim'[d][w] = slim[d][w] \/ slim'[d][w] <= new
    BY <1>3
  <2> HIDE DEF new
  <2>8. QED BY <1>2, <1>3, <2>6, <2>7
<1>5. ASSUME ~maxArray, NEW d \in Rows, NEW w \in Buckets
      PROVE  slim'[d][w] <= slim[d][w] + delta
  <2> DEFINE minr == MinOf(FatCounters(fat', x))
             minl == MinOf(SlimCounters(slim, x))
             goal == IF minr - delta <= minl THEN minr ELSE minl + delta
  <2>1. slim' = IF minl >= minr THEN slim ELSE Raised(x, [e \in Rows |-> goal])
    BY <1>5 DEF Inc, IncLMin
  <2>2. minl \in 0..MaxC /\ \A e \in Rows : minl <= slim[e][BucketOf(x, e)]
    BY <1>1, SlimAnswer DEF TypeOK
  <2>3. minr \in 0..MaxC
    <3>1. \A e \in Rows : fat'[e][Col(x, e)] \in 0..MaxC
      BY <1>2, Layout
    <3>2. FatCounters(fat', x) \in [Rows -> 0..MaxC]
      BY <3>1 DEF FatCounters
    <3>3. QED BY <3>2, QueryValue
  <2> HIDE DEF minr, minl
  <2>4. goal \in 0..MaxC /\ goal <= minl + delta
    BY <1>2, <2>2, <2>3
  <2> HIDE DEF goal
  <2>5. CASE minl >= minr
    BY <1>2, <1>3, <2>1, <2>5
  <2>6. CASE ~(minl >= minr)
    <3>1. [e \in Rows |-> goal] \in [Rows -> 0..MaxC]
      BY <2>4
    <3>2. slim' = Raised(x, [e \in Rows |-> goal])
      BY <2>1, <2>6
    <3>3. slim'[d][w] = IF w = BucketOf(x, d) /\ slim[d][w] < goal THEN goal ELSE slim[d][w]
      BY <1>1, <3>1, <3>2, RaisedStep
    <3>4. slim[d][w] \in 0..MaxC
      BY <1>3
    <3>5. QED BY <1>2, <2>2, <2>4, <3>3, <3>4
  <2>7. QED BY <2>5, <2>6
<1>6. QED BY <1>3, <1>4, <1>5

(* A deletion lowers a slim counter to what is left in its bucket, and the *)
(* counter was within what was there before.                               *)
LEMMA DecFallsLittle ==
    ASSUME SInv, NEW x \in Keys, NEW delta \in Deltas, Dec(x, delta)
    PROVE  \A d \in Rows, w \in Buckets :
              slim'[d][w] <= slim[d][w] /\ slim[d][w] <= slim'[d][w] + delta
<1> USE SizesAssumption
<1>1. TypeOK
  BY DEF SInv
<1>2. /\ delta \in Nat
      /\ fat' \in [Rows -> [Cols -> 0..MaxC]]
      /\ \A d \in Rows, c \in Cols :
            fat'[d][c] = IF c = Col(x, d) THEN FloorSub(fat[d][c], delta) ELSE fat[d][c]
      /\ \A d \in Rows, w \in Buckets :
            slim'[d][w] = IF w = BucketOf(x, d)
                          THEN Lesser(slim[d][w], MaxOf(BucketRow(fat'[d], w)))
                          ELSE slim[d][w]
  BY <1>1, DecStep
<1>3. ASSUME NEW d \in Rows, NEW w \in Buckets
      PROVE  slim'[d][w] <= slim[d][w] /\ slim[d][w] <= slim'[d][w] + delta
  <2>1. fat[d] \in [Cols -> 0..MaxC] /\ fat'[d] \in [Cols -> 0..MaxC]
    BY <1>1, <1>2 DEF TypeOK
  <2>2. \A c \in Cols : fat[d][c] <= fat'[d][c] + delta
    <3> TAKE c \in Cols
    <3>1. fat[d][c] \in 0..MaxC
      BY <2>1
    <3>2. fat'[d][c] = IF c = Col(x, d) THEN FloorSub(fat[d][c], delta) ELSE fat[d][c]
      BY <1>2
    <3>3. QED BY <1>2, <3>1, <3>2 DEF FloorSub
  <2> DEFINE old == MaxOf(BucketRow(fat[d], w))
             new == MaxOf(BucketRow(fat'[d], w))
  <2>3. old <= new + delta
    BY <1>2, <2>1, <2>2, BucketMaxGrows
  <2>4. old \in 0..MaxC /\ new \in 0..MaxC
    BY <2>1, BucketMax
  <2>5. slim[d][w] <= old /\ slim[d][w] \in 0..MaxC
    BY <1>1 DEF SInv, SlimWithinBucket, TypeOK
  <2>6. slim'[d][w] = IF w = BucketOf(x, d) THEN Lesser(slim[d][w], new) ELSE slim[d][w]
    BY <1>2
  <2> HIDE DEF old, new
  <2>7. QED BY <1>2, <2>3, <2>4, <2>5, <2>6 DEF Lesser
<1>4. QED BY <1>3

(* What either update leaves to be shown of the estimator's step.          *)
LEMMA CoveredRefines == IInv => lossy \/ Estimator!Covered
<1> SUFFICES ASSUME IInv, ~lossy, NEW x \in Keys PROVE Query(x) >= Lesser(count[x], MaxC)
  BY DEF Estimator!Covered, Estimator!Lesser, Lesser
<1>1. \E d \in Rows : Query(x) = slim[d][BucketOf(x, d)]
  BY SlimAnswer DEF IInv, SInv, TypeOK, Query
<1>2. QED BY <1>1 DEF IInv, Covered

LEMMA AnswersNext ==
    ASSUME TypeOK, TypeOK'
    PROVE  /\ [x \in Keys |-> Query(x)]' = [x \in Keys |-> Query(x)']
           /\ \A x \in Keys : /\ Query(x) = MinOf(SlimCounters(slim, x))
                              /\ Query(x)' = MinOf(SlimCounters(slim', x))
                              /\ Query(x)' \in 0..MaxC
<1>1. \A x \in Keys : Query(x)' = MinOf(SlimCounters(slim', x))
  BY DEF Query, SlimCounters, BucketOf, Col
<1>2. \A x \in Keys : MinOf(SlimCounters(slim', x)) \in 0..MaxC
  BY SlimAnswer DEF TypeOK
<1>3. QED BY <1>1, <1>2 DEF Query

LEMMA IncRefines ==
    ASSUME IInv, IInv', NEW x \in Keys, NEW delta \in Deltas, Inc(x, delta)
    PROVE  Estimator!Add(x, delta)
<1>1. TypeOK /\ TypeOK' /\ SInv /\ delta \in Nat
  BY DeltaAssumption, SizesAssumption DEF IInv, SInv
<1>2. slim \in [Rows -> [Buckets -> 0..MaxC]] /\ slim' \in [Rows -> [Buckets -> 0..MaxC]]
  BY <1>1 DEF TypeOK
<1>3. \A d \in Rows, w \in Buckets :
         slim[d][w] <= slim'[d][w] /\ slim'[d][w] <= slim[d][w] + delta
  BY <1>1, IncRisesLittle
<1>4. \A y \in Keys : Query(y) <= Query(y)' /\ Query(y)' <= Query(y) + delta
  BY <1>1, <1>2, <1>3, AnswerMoves, AnswersNext
<1>5. count' = [count EXCEPT ![x] = @ + delta] /\ cut' \in {cut, TRUE} /\ lossy' = lossy
  BY <1>1 DEF Inc, TypeOK
<1>6. (lossy \/ Estimator!Covered)'
  BY CoveredRefines, PTL
<1>7. QED BY <1>1, <1>4, <1>5, <1>6, AnswersNext DEF Estimator!Add

LEMMA DecRefines ==
    ASSUME IInv, IInv', NEW x \in Keys, NEW delta \in Deltas, Dec(x, delta)
    PROVE  Estimator!Remove(x, delta)
<1> USE SizesAssumption
<1>1. TypeOK /\ TypeOK' /\ SInv /\ delta \in Nat
  BY DeltaAssumption DEF IInv, SInv
<1>2. slim \in [Rows -> [Buckets -> 0..MaxC]] /\ slim' \in [Rows -> [Buckets -> 0..MaxC]]
  BY <1>1 DEF TypeOK
<1>3. \A d \in Rows, w \in Buckets :
         slim'[d][w] <= slim[d][w] /\ slim[d][w] <= slim'[d][w] + delta
  BY <1>1, DecFallsLittle
<1>4. ASSUME NEW y \in Keys PROVE Query(y)' <= Query(y) /\ Query(y)' >= Query(y) - delta
  <2>1. /\ MinOf(SlimCounters(slim', y)) <= MinOf(SlimCounters(slim, y))
        /\ MinOf(SlimCounters(slim, y)) <= MinOf(SlimCounters(slim', y)) + delta
    BY <1>1, <1>2, <1>3, AnswerMoves
  <2>2. /\ MinOf(SlimCounters(slim, y)) \in 0..MaxC /\ MinOf(SlimCounters(slim', y)) \in 0..MaxC
    BY <1>2, SlimAnswer
  <2>3. QED BY <1>1, <2>1, <2>2, AnswersNext
<1>5. /\ count[x] >= delta /\ count' = [count EXCEPT ![x] = @ - delta]
      /\ cut' = cut /\ lossy' = (lossy \/ cut)
  BY DEF Dec
<1>6. (lossy \/ Estimator!Covered)'
  BY CoveredRefines, PTL
<1>7. QED BY <1>1, <1>4, <1>5, <1>6, AnswersNext DEF Estimator!Remove

(* The SF_V2 sketch implements the frequency estimator, whether or not it  *)
(* was built with MAX_COUNTERS_ARRAY: one request moves no answer by more  *)
(* than its delta, and until a deletion follows a cut the answers cover.   *)
THEOREM Implementation == Spec => ImplementsEstimator
<1>1. IInv /\ IInv' /\ [Next]_vars => [Estimator!Next]_Estimator!vars
  <2> SUFFICES ASSUME IInv, IInv', [Next]_vars PROVE [Estimator!Next]_Estimator!vars
    OBVIOUS
  <2>1. CASE Next
    BY <2>1, IncRefines, DecRefines DEF Next, Estimator!Next
  <2>2. CASE UNCHANGED vars
    BY <2>2 DEF vars, Estimator!vars, Query, SlimCounters, BucketOf, Col
  <2>3. QED BY <2>1, <2>2
<1>2. QED BY InitLoads, NextLoads, InitRefines, <1>1, PTL
          DEF Spec, ImplementsEstimator, Estimator!Spec

-----------------------------------------------------------------------------
(* Beside the Count-Min and the Count sketch                               *)

InBucket(d, w) == {x \in Keys : BucketOf(x, d) = w}
On(d, c, sign) == {x \in Keys : Col(x, d) = c /\ Sign[x][d] = sign}

(* The Count-Min sketch has a counter for every bucket, the Count sketch   *)
(* one for every column.                                                   *)
LEMMA SameLayout ==
    /\ CM!Rows = Rows /\ CM!Cols = Buckets /\ CS!Rows = Rows /\ CS!Cols = Cols
    /\ \A x \in Keys, d \in Rows : CM!Pos(x, d) = BucketOf(x, d)
    /\ \A x \in Keys, d \in Rows : CS!Pos(x, d) = Col(x, d)
    /\ \A n, delta : CM!SatAdd(n, delta, MaxC) = SatAdd(n, delta, MaxC)
    /\ \A n, delta : CM!FloorSub(n, delta) = FloorSub(n, delta)
<1>1. CM!Rows = Rows /\ CM!Cols = Buckets /\ CS!Rows = Rows /\ CS!Cols = Cols
  BY DEF CM!Rows, CM!Cols, CS!Rows, CS!Cols, Rows, Cols, Buckets
<1>2. ASSUME NEW x \in Keys, NEW d \in Rows PROVE CM!Pos(x, d) = BucketOf(x, d)
  <2>1. BucketOf(x, d) \in 0 .. (WL - 1)
    BY Layout DEF Buckets
  <2>2. CM!Pos(x, d) = BucketOf(x, d) % WL
    BY DEF CM!Pos
  <2>3. QED BY <2>1, <2>2, SizesAssumption
<1>3. \A x \in Keys, d \in Rows : CS!Pos(x, d) = Col(x, d)
  BY DEF CS!Pos, Col
<1>4. /\ \A n, delta : CM!SatAdd(n, delta, MaxC) = SatAdd(n, delta, MaxC)
      /\ \A n, delta : CM!FloorSub(n, delta) = FloorSub(n, delta)
  BY DEF CM!SatAdd, SatAdd, CM!FloorSub, FloorSub
<1>5. QED BY <1>1, <1>2, <1>3, <1>4

-----------------------------------------------------------------------------
(* What a request does to the two programs *)

Tables == [Rows -> [Buckets -> 0..MaxC]]
Signed == [Rows -> [Cols -> -MaxNum..MaxNum]]

LEMMA CMStep ==
    ASSUME cm \in Tables, NEW x \in Keys, NEW delta \in 0..MaxC
    PROVE  /\ CM!Insert(x, delta) =>
                /\ cm' \in Tables
                /\ \A d \in Rows, w \in Buckets :
                      cm'[d][w] = IF w = BucketOf(x, d)
                                  THEN Lesser(cm[d][w] + delta, MaxC) ELSE cm[d][w]
           /\ CM!Delete_(x, delta) =>
                /\ cm' \in Tables
                /\ \A d \in Rows, w \in Buckets :
                      cm'[d][w] = IF w = BucketOf(x, d)
                                  THEN FloorSub(cm[d][w], delta) ELSE cm[d][w]
<1> USE SizesAssumption
<1>1. \A d \in Rows : cm[d] \in [Buckets -> 0..MaxC] /\ BucketOf(x, d) \in Buckets
  BY Layout DEF Tables
<1>2. \A d \in Rows, w \in Buckets :
         /\ SatAdd(cm[d][w], delta, MaxC) \in 0..MaxC
         /\ SatAdd(cm[d][w], delta, MaxC) = Lesser(cm[d][w] + delta, MaxC)
         /\ FloorSub(cm[d][w], delta) \in 0..MaxC
  <2> TAKE d \in Rows, w \in Buckets
  <2>1. cm[d][w] \in 0..MaxC
    BY <1>1
  <2>2. SatAdd(cm[d][w], delta, MaxC) \in 0..MaxC /\ SatAdd(cm[d][w], delta, MaxC) = Lesser(cm[d][w] + delta, MaxC)
    BY <2>1, SatAddBounds
  <2>3. FloorSub(cm[d][w], delta) \in 0..MaxC
    BY <2>1 DEF FloorSub
  <2>4. QED BY <2>2, <2>3
<1>3. ASSUME CM!Insert(x, delta)
      PROVE  /\ cm' \in Tables
             /\ \A d \in Rows, w \in Buckets :
                   cm'[d][w] = IF w = BucketOf(x, d)
                               THEN Lesser(cm[d][w] + delta, MaxC) ELSE cm[d][w]
  <2>1. cm' = [i \in Rows |-> [cm[i] EXCEPT ![BucketOf(x, i)] = SatAdd(@, delta, MaxC)]]
    BY <1>3, SameLayout DEF CM!Insert
  <2>2. \A d \in Rows : cm'[d] \in [Buckets -> 0..MaxC]
    BY <1>1, <1>2, <2>1
  <2>3. cm' \in Tables
    BY <2>1, <2>2 DEF Tables
  <2>4. QED BY <1>1, <1>2, <2>1, <2>3
<1>4. ASSUME CM!Delete_(x, delta)
      PROVE  /\ cm' \in Tables
             /\ \A d \in Rows, w \in Buckets :
                   cm'[d][w] = IF w = BucketOf(x, d)
                               THEN FloorSub(cm[d][w], delta) ELSE cm[d][w]
  <2>1. cm' = [i \in Rows |-> [cm[i] EXCEPT ![BucketOf(x, i)] = FloorSub(@, delta)]]
    BY <1>4, SameLayout DEF CM!Delete_
  <2>2. \A d \in Rows : cm'[d] \in [Buckets -> 0..MaxC]
    BY <1>1, <1>2, <2>1
  <2>3. cm' \in Tables
    BY <2>1, <2>2 DEF Tables
  <2>4. QED BY <1>1, <1>2, <2>1, <2>3
<1>5. QED BY <1>3, <1>4

(* Until it is clipped the counter of x's column moves by delta in the     *)
(* direction of x's sign, and clipped or not it stays within MaxNum.       *)
LEMMA CSStep ==
    ASSUME cs \in Signed, NEW x \in Keys, NEW delta \in 0..MaxNum
    PROVE  /\ CS!Inc(x, delta) =>
                /\ cs' \in Signed
                /\ ~clipped' => \A d \in Rows, c \in Cols :
                      cs'[d][c] = IF c = Col(x, d)
                                  THEN cs[d][c] + delta * Sign[x][d] ELSE cs[d][c]
           /\ CS!Dec(x, delta) =>
                /\ cs' \in Signed
                /\ ~clipped' => \A d \in Rows, c \in Cols :
                      cs'[d][c] = IF c = Col(x, d)
                                  THEN cs[d][c] - delta * Sign[x][d] ELSE cs[d][c]
<1> USE SignAssumption
<1>1. \A d \in Rows : /\ cs[d] \in [Cols -> -MaxNum..MaxNum] /\ Col(x, d) \in Cols
                      /\ Sign[x][d] \in {-1, 1}
                      /\ CS!Seen(x, d) = Sign[x][d] * cs[d][Col(x, d)]
  BY Layout, SameLayout DEF Signed, CS!Seen
<1> DEFINE up(d) == IF MaxNum - delta < CS!Seen(x, d) THEN MaxNum * Sign[x][d]
                    ELSE cs[d][Col(x, d)] + delta * Sign[x][d]
           down(d) == IF MaxNum - delta < -CS!Seen(x, d) THEN -MaxNum * Sign[x][d]
                      ELSE cs[d][Col(x, d)] - delta * Sign[x][d]
<1>2. ASSUME NEW d \in Rows
      PROVE  /\ up(d) \in -MaxNum..MaxNum
             /\ ~ (CS!Seen(x, d) + delta > MaxNum) => up(d) = cs[d][Col(x, d)] + delta * Sign[x][d]
             /\ down(d) \in -MaxNum..MaxNum
             /\ ~ (CS!Seen(x, d) - delta < -MaxNum) => down(d) = cs[d][Col(x, d)] - delta * Sign[x][d]
  <2> DEFINE n == cs[d][Col(x, d)]
  <2>1. n \in -MaxNum..MaxNum /\ CS!Seen(x, d) = Sign[x][d] * n
    BY <1>1
  <2> HIDE DEF n
  <2>2. CASE Sign[x][d] = 1
    <3>1. CS!Seen(x, d) = n
      BY <2>1, <2>2
    <3>2. /\ up(d) = IF MaxNum - delta < n THEN MaxNum ELSE n + delta
          /\ down(d) = IF MaxNum - delta < -n THEN -MaxNum ELSE n - delta
          /\ delta * Sign[x][d] = delta
      BY <2>1, <2>2, <3>1 DEF n
    <3> HIDE DEF up, down
    <3>3. QED BY <2>1, <3>1, <3>2 DEF n
  <2>3. CASE Sign[x][d] = -1
    <3>1. CS!Seen(x, d) = -n
      BY <2>1, <2>3
    <3>2. /\ delta * Sign[x][d] = -delta
          /\ MaxNum * Sign[x][d] = -MaxNum /\ -MaxNum * Sign[x][d] = MaxNum
      BY <2>3
    <3>3. up(d) = IF MaxNum - delta < -n THEN -MaxNum ELSE n - delta
      BY <2>1, <3>1, <3>2 DEF n
    <3>4. down(d) = IF MaxNum - delta < n THEN MaxNum ELSE n + delta
      BY <2>1, <3>1, <3>2 DEF n
    <3> HIDE DEF up, down
    <3>5. QED BY <2>1, <3>1, <3>2, <3>3, <3>4 DEF n
  <2>4. QED BY <1>1, <2>2, <2>3
<1>3. ASSUME CS!Inc(x, delta)
      PROVE  /\ cs' \in Signed
             /\ ~clipped' => \A d \in Rows, c \in Cols :
                   cs'[d][c] = IF c = Col(x, d)
                               THEN cs[d][c] + delta * Sign[x][d] ELSE cs[d][c]
  <2>1. /\ cs' = [i \in Rows |-> [cs[i] EXCEPT ![Col(x, i)] = up(i)]]
        /\ ~clipped' => \A i \in Rows : ~ (CS!Seen(x, i) + delta > MaxNum)
    BY <1>1, <1>3, SameLayout DEF CS!Inc
  <2> HIDE DEF up
  <2>2. \A d \in Rows : cs'[d] \in [Cols -> -MaxNum..MaxNum]
    BY <1>1, <1>2, <2>1
  <2>3. cs' \in Signed
    BY <2>1, <2>2 DEF Signed
  <2>4. QED BY <1>1, <1>2, <2>1, <2>3
<1>4. ASSUME CS!Dec(x, delta)
      PROVE  /\ cs' \in Signed
             /\ ~clipped' => \A d \in Rows, c \in Cols :
                   cs'[d][c] = IF c = Col(x, d)
                               THEN cs[d][c] - delta * Sign[x][d] ELSE cs[d][c]
  <2>1. /\ cs' = [i \in Rows |-> [cs[i] EXCEPT ![Col(x, i)] = down(i)]]
        /\ ~clipped' => \A i \in Rows : ~ (CS!Seen(x, i) - delta < -MaxNum)
    BY <1>1, <1>4, SameLayout DEF CS!Dec
  <2> HIDE DEF down
  <2>2. \A d \in Rows : cs'[d] \in [Cols -> -MaxNum..MaxNum]
    BY <1>1, <1>2, <2>1
  <2>3. cs' \in Signed
    BY <2>1, <2>2 DEF Signed
  <2>4. QED BY <1>1, <1>2, <2>1, <2>3
<1>5. QED BY <1>3, <1>4

-----------------------------------------------------------------------------
(* The slim array against Count-Min *)

(* The keys of a column of a bucket are keys of the bucket.                *)
LEMMA ColumnInBucket ==
    \A d \in Rows, w \in Buckets, i \in 0 .. (K - 1) :
       Here(d, w * K + i) \subseteq InBucket(d, w)
<1> SUFFICES ASSUME NEW d \in Rows, NEW w \in Buckets, NEW i \in 0 .. (K - 1),
                    NEW x \in Keys, Col(x, d) = w * K + i
             PROVE  BucketOf(x, d) = w
  BY DEF Here, InBucket
<1> DEFINE j == Col(x, d) % K
           v == BucketOf(x, d)
<1>1. j \in 0 .. (K - 1) /\ v \in Buckets /\ Col(x, d) = v * K + j
  BY Layout
<1> HIDE DEF j, v
<1>2. v = w
  BY <1>1, BucketsDisjoint
<1>3. QED BY <1>2 DEF v

(* What delta more for x make of the total of a set S of keys.             *)
Gains(x, delta, S, old, new) ==
    /\ old \in Nat
    /\ x \in S => new = old + delta
    /\ x \notin S => new = old

(* Giving delta more to x adds delta to the total of a set of keys that x  *)
(* belongs to, and changes no other total.                                 *)
LEMMA MovedTotals ==
    \A n \in [Keys -> Nat], x \in Keys, delta \in Nat : \A m :
        (\A y \in Keys : m[y] = IF y = x THEN n[x] + delta ELSE n[y]) =>
        \A S \in SUBSET Keys : Gains(x, delta, S, Total(n, S), Total(m, S))
<1> SUFFICES
      ASSUME NEW n \in [Keys -> Nat], NEW x \in Keys, NEW delta \in Nat,
             NEW m, \A y \in Keys : m[y] = IF y = x THEN n[x] + delta ELSE n[y],
             NEW S \in SUBSET Keys
      PROVE  Gains(x, delta, S, Total(n, S), Total(m, S))
  OBVIOUS
<1>1. IsFiniteSet(S) /\ \A y \in S : n[y] \in Nat
  BY KeysAssumption, FS_Subset
<1>2. \A y \in S : m[y] = IF y = x THEN n[x] + delta ELSE n[y]
  OBVIOUS
<1>3. Total(n, S) \in Nat
  BY <1>1, TotalCovers
<1>4. Total(m, S) = IF x \in S THEN Total(n, S) + delta ELSE Total(n, S)
  BY <1>1, <1>2, TotalMoves
<1>5. QED BY <1>3, <1>4 DEF Gains

LEMMA AddedTotals ==
    ASSUME count \in [Keys -> Nat], NEW x \in Keys, NEW delta \in Nat,
           count' = [count EXCEPT ![x] = @ + delta]
    PROVE  \A S \in SUBSET Keys : Gains(x, delta, S, Total(count, S), Total(count', S))
<1>1. \A y \in Keys : count'[y] = IF y = x THEN count[x] + delta ELSE count[y]
  OBVIOUS
<1>2. QED BY <1>1, MovedTotals

LEMMA TakenTotals ==
    ASSUME count \in [Keys -> Nat], NEW x \in Keys, NEW delta \in Nat,
           count[x] >= delta, count' = [count EXCEPT ![x] = @ - delta]
    PROVE  \A S \in SUBSET Keys : Gains(x, delta, S, Total(count', S), Total(count, S))
<1> DEFINE n == count'
<1>1. n \in [Keys -> Nat] /\ \A y \in Keys : count[y] = IF y = x THEN n[x] + delta ELSE n[y]
  OBVIOUS
<1> HIDE DEF n
<1>2. \A S \in SUBSET Keys : Gains(x, delta, S, Total(n, S), Total(count, S))
  BY <1>1, MovedTotals
<1>3. QED BY <1>2 DEF n

(* The inductive invariant.  While the Count-Min sketch has not lost a     *)
(* deletion its counters are the totals of their buckets, cut at MaxC;     *)
(* it is cut no later than the fat array, whose columns are smaller, so    *)
(* the fat array has not lost a deletion either.                           *)
CutLater == ~cmLossy => ~lossy /\ (cut => cmCut)
CMUncut  == ~cmCut =>
    \A d \in Rows, w \in Buckets : cm[d][w] = Total(count, InBucket(d, w))
CMLoads  == ~cmLossy =>
    \A d \in Rows, w \in Buckets : cm[d][w] = Lesser(Total(count, InBucket(d, w)), MaxC)
CMInv ==
    /\ IInv
    /\ cm \in Tables /\ cmCut \in BOOLEAN /\ cmLossy \in BOOLEAN
    /\ CutLater /\ CMUncut /\ CMLoads

LEMMA InitCM == CompareInit => CMInv
<1> SUFFICES ASSUME CompareInit PROVE CMInv
  OBVIOUS
<1> USE SizesAssumption
<1>1. IInv /\ ~cut /\ ~lossy /\ cmCut = FALSE /\ cmLossy = FALSE
  BY InitLoads DEF CompareInit, Init, CM!Init
<1>2. \A d \in Rows, w \in Buckets : cm[d][w] = 0
  BY SameLayout DEF CompareInit, CM!Init
<1>3. cm \in Tables
  BY SameLayout DEF CompareInit, CM!Init, Tables
<1>4. ASSUME NEW d \in Rows, NEW w \in Buckets PROVE Total(count, InBucket(d, w)) = 0
  <2>1. \A x \in InBucket(d, w) : count[x] = 0
    BY DEF CompareInit, Init, InBucket
  <2>2. QED BY <2>1, TotalZero
<1>5. Lesser(0, MaxC) = 0
  BY DEF Lesser
<1>6. QED BY <1>1, <1>2, <1>3, <1>4, <1>5 DEF CMInv, CutLater, CMUncut, CMLoads

(* While both are exact, a fat counter is at most its Count-Min counter.   *)
LEMMA FatWithinCM ==
    ASSUME CMInv, ~cmLossy, NEW d \in Rows, NEW w \in Buckets, NEW i \in 0 .. (K - 1)
    PROVE  fat[d][w * K + i] <= cm[d][w]
<1> USE SizesAssumption
<1>1. w * K + i \in Cols
  BY Layout
<1>2. TypeOK /\ FatIsExactLoad /\ ~lossy
  BY DEF CMInv, IInv, SInv, CutLater
<1>3. fat[d][w * K + i] = Lesser(Total(count, Here(d, w * K + i)), MaxC)
  BY <1>1, <1>2 DEF FatIsExactLoad, Here
<1>4. cm[d][w] = Lesser(Total(count, InBucket(d, w)), MaxC)
  BY DEF CMInv, CMLoads
<1> DEFINE part == Total(count, Here(d, w * K + i))
           all  == Total(count, InBucket(d, w))
<1>5. part <= all /\ part \in Nat /\ all \in Nat
  <2>1. IsFiniteSet(InBucket(d, w)) /\ \A y \in InBucket(d, w) : count[y] \in Nat
    BY <1>2, KeysAssumption, FS_Subset DEF InBucket, TypeOK
  <2>2. Here(d, w * K + i) \in SUBSET InBucket(d, w)
    BY ColumnInBucket
  <2>3. part <= all
    BY <2>1, <2>2, TotalMono
  <2>4. all \in Nat
    BY <2>1, TotalCovers
  <2>5. part \in Nat
    BY <1>1, <1>2, ColumnCovers DEF TypeOK
  <2>6. QED BY <2>3, <2>4, <2>5
<1> HIDE DEF part, all
<1>6. Lesser(part, MaxC) <= Lesser(all, MaxC)
  BY <1>5 DEF Lesser
<1>7. QED BY <1>3, <1>4, <1>6 DEF part, all

LEMMA IncCM ==
    ASSUME CMInv, IInv', NEW x \in Keys, NEW delta \in Deltas,
           Inc(x, delta), CM!Insert(x, delta)
    PROVE  CMInv'
<1> USE SizesAssumption
<1>1. /\ TypeOK /\ cm \in Tables /\ cmCut \in BOOLEAN /\ cmLossy \in BOOLEAN
      /\ CutLater /\ CMUncut /\ CMLoads /\ delta \in 0..MaxC
  BY DeltaAssumption DEF CMInv, IInv, SInv
<1>2. /\ cm' \in Tables
      /\ \A d \in Rows, w \in Buckets :
            cm'[d][w] = IF w = BucketOf(x, d) THEN Lesser(cm[d][w] + delta, MaxC) ELSE cm[d][w]
  BY <1>1, CMStep
<1>3. /\ cmCut' = (cmCut \/ \E d \in Rows : cm[d][BucketOf(x, d)] + delta > MaxC)
      /\ cmLossy' = cmLossy
  BY SameLayout DEF CM!Insert
<1>4. ASSUME NEW d \in Rows, NEW w \in Buckets
      PROVE  /\ cm[d][w] \in 0..MaxC
             /\ Total(count, InBucket(d, w)) \in Nat
             /\ Total(count', InBucket(d, w)) =
                  IF w = BucketOf(x, d) THEN Total(count, InBucket(d, w)) + delta
                  ELSE Total(count, InBucket(d, w))
  <2>1. InBucket(d, w) \in SUBSET Keys /\ (x \in InBucket(d, w) <=> w = BucketOf(x, d))
    BY DEF InBucket
  <2>2. count \in [Keys -> Nat] /\ count' = [count EXCEPT ![x] = @ + delta] /\ delta \in Nat
    BY <1>1 DEF Inc, TypeOK
  <2>3. Gains(x, delta, InBucket(d, w), Total(count, InBucket(d, w)), Total(count', InBucket(d, w)))
    BY <2>1, <2>2, AddedTotals
  <2>4. cm[d][w] \in 0..MaxC
    BY <1>1 DEF Tables
  <2>5. QED BY <2>1, <2>3, <2>4 DEF Gains
<1>5. CMUncut'
  <2> SUFFICES ASSUME ~cmCut', NEW d \in Rows, NEW w \in Buckets
               PROVE  cm'[d][w] = Total(count', InBucket(d, w))
    BY DEF CMUncut, InBucket, BucketOf, Col
  <2>1. ~cmCut /\ ~ (cm[d][BucketOf(x, d)] + delta > MaxC)
    BY <1>3
  <2>2. cm[d][w] = Total(count, InBucket(d, w))
    BY <1>1, <2>1 DEF CMUncut
  <2>3. w = BucketOf(x, d) => Lesser(cm[d][w] + delta, MaxC) = cm[d][w] + delta
    BY <1>1, <1>4, <2>1 DEF Lesser
  <2>4. QED BY <1>2, <1>4, <2>2, <2>3
<1>6. CMLoads'
  <2> SUFFICES ASSUME ~cmLossy', NEW d \in Rows, NEW w \in Buckets
               PROVE  cm'[d][w] = Lesser(Total(count', InBucket(d, w)), MaxC)
    BY DEF CMLoads, InBucket, BucketOf, Col
  <2> DEFINE old == Total(count, InBucket(d, w))
             new == Total(count', InBucket(d, w))
  <2>1. /\ old \in Nat
        /\ new = IF w = BucketOf(x, d) THEN old + delta ELSE old
        /\ cm[d][w] = Lesser(old, MaxC)
    BY <1>1, <1>3, <1>4 DEF CMLoads
  <2> HIDE DEF old, new
  <2>2. cm'[d][w] = Lesser(new, MaxC)
    BY <1>1, <1>2, <2>1 DEF Lesser
  <2>3. QED BY <2>2 DEF new
<1>7. CutLater'
  <2> SUFFICES ASSUME ~cmLossy' PROVE ~lossy' /\ (cut' => cmCut')
    BY DEF CutLater
  <2>1. ~cmLossy /\ ~lossy /\ (cut => cmCut) /\ lossy' = lossy
    BY <1>1, <1>3 DEF CutLater, Inc
  <2>2. ASSUME NEW d \in Rows, fat[d][Col(x, d)] + delta > MaxC
        PROVE  cm[d][BucketOf(x, d)] + delta > MaxC
    <3> DEFINE i == Col(x, d) % K
               w == BucketOf(x, d)
    <3>1. i \in 0 .. (K - 1) /\ w \in Buckets /\ Col(x, d) = w * K + i /\ Col(x, d) \in Cols
      BY Layout
    <3> HIDE DEF i, w
    <3>2. fat[d][w * K + i] <= cm[d][w]
      BY <2>1, <3>1, FatWithinCM
    <3>3. fat[d][Col(x, d)] \in 0..MaxC /\ cm[d][w] \in 0..MaxC
      BY <1>1, <1>4, <3>1 DEF TypeOK
    <3>4. cm[d][w] + delta > MaxC
      BY <1>1, <2>2, <3>1, <3>2, <3>3
    <3>5. QED BY <3>4 DEF w
  <2>3. cut' = (cut \/ \E d \in Rows : fat[d][Col(x, d)] + delta > MaxC)
    BY DEF Inc
  <2>4. QED BY <1>3, <2>1, <2>2, <2>3
<1>8. QED BY <1>1, <1>2, <1>3, <1>5, <1>6, <1>7 DEF CMInv

LEMMA DecCM ==
    ASSUME CMInv, IInv', NEW x \in Keys, NEW delta \in Deltas,
           Dec(x, delta), CM!Delete_(x, delta)
    PROVE  CMInv'
<1> USE SizesAssumption
<1>1. /\ TypeOK /\ TypeOK' /\ cm \in Tables /\ cmCut \in BOOLEAN /\ cmLossy \in BOOLEAN
      /\ CutLater /\ CMUncut /\ CMLoads /\ delta \in 0..MaxC
  BY DeltaAssumption DEF CMInv, IInv, SInv
<1>2. /\ cm' \in Tables
      /\ \A d \in Rows, w \in Buckets :
            cm'[d][w] = IF w = BucketOf(x, d) THEN FloorSub(cm[d][w], delta) ELSE cm[d][w]
  BY <1>1, CMStep
<1>3. cmLossy' = (cmLossy \/ cmCut \/ count[x] < delta) /\ cmCut' = cmCut
  BY DEF CM!Delete_
<1>4. ASSUME NEW d \in Rows, NEW w \in Buckets
      PROVE  /\ Total(count', InBucket(d, w)) \in Nat
             /\ Total(count, InBucket(d, w)) =
                  IF w = BucketOf(x, d) THEN Total(count', InBucket(d, w)) + delta
                  ELSE Total(count', InBucket(d, w))
  <2>1. InBucket(d, w) \in SUBSET Keys /\ (x \in InBucket(d, w) <=> w = BucketOf(x, d))
    BY DEF InBucket
  <2>2. /\ count \in [Keys -> Nat] /\ delta \in Nat
        /\ count[x] >= delta /\ count' = [count EXCEPT ![x] = @ - delta]
    BY <1>1 DEF Dec, TypeOK
  <2>3. Gains(x, delta, InBucket(d, w), Total(count', InBucket(d, w)), Total(count, InBucket(d, w)))
    BY <2>1, <2>2, TakenTotals
  <2>4. QED BY <2>1, <2>3 DEF Gains
<1>5. ASSUME ~cmCut, NEW d \in Rows, NEW w \in Buckets
      PROVE  cm'[d][w] = Total(count', InBucket(d, w))
  <2>1. cm[d][w] = Total(count, InBucket(d, w))
    BY <1>1, <1>5 DEF CMUncut
  <2> DEFINE old == Total(count, InBucket(d, w))
             new == Total(count', InBucket(d, w))
  <2>2. /\ new \in Nat /\ cm[d][w] = old
        /\ old = IF w = BucketOf(x, d) THEN new + delta ELSE new
    BY <1>4, <2>1
  <2> HIDE DEF old, new
  <2>3. cm'[d][w] = new
    BY <1>1, <1>2, <2>2 DEF FloorSub
  <2>4. QED BY <2>3 DEF new
<1>6. CMUncut'
  BY <1>3, <1>5 DEF CMUncut, InBucket, BucketOf, Col
<1>7. CMLoads'
  <2> SUFFICES ASSUME ~cmLossy', NEW d \in Rows, NEW w \in Buckets
               PROVE  cm'[d][w] = Lesser(Total(count', InBucket(d, w)), MaxC)
    BY DEF CMLoads, InBucket, BucketOf, Col
  <2>1. cm'[d][w] = Total(count', InBucket(d, w))
    BY <1>3, <1>5
  <2>2. cm'[d][w] \in 0..MaxC
    BY <1>2 DEF Tables
  <2>3. QED BY <2>1, <2>2 DEF Lesser
<1>8. CutLater'
  BY <1>1, <1>3 DEF CutLater, Dec
<1>9. QED BY <1>1, <1>2, <1>3, <1>6, <1>7, <1>8 DEF CMInv

(* A trace of the comparison is a trace of SF_V2.                          *)
LEMMA RunsSFV2 == CompareInit => Init
BY DEF CompareInit

LEMMA StepsSFV2 == [CompareNext]_allVars => [Next]_vars
BY DEF CompareNext, Next, allVars, vars

LEMMA NextCM == CMInv /\ [CompareNext]_allVars => CMInv'
<1> SUFFICES ASSUME CMInv, [CompareNext]_allVars PROVE CMInv'
  OBVIOUS
<1>1. IInv'
  BY NextLoads, StepsSFV2 DEF CMInv
<1>2. CASE CompareNext
  BY <1>1, <1>2, IncCM, DecCM DEF CompareNext
<1>3. CASE UNCHANGED allVars
  <2>1. UNCHANGED <<lossy, cut, cm, cmCut, cmLossy, count>>
    BY <1>3 DEF allVars, vars
  <2>2. CutLater' /\ CMUncut' /\ CMLoads'
    BY <2>1 DEF CMInv, CutLater, CMUncut, CMLoads, InBucket, BucketOf, Col
  <2>3. QED BY <1>1, <2>1, <2>2 DEF CMInv
<1>4. QED BY <1>2, <1>3

(* SF_V2 gives the answers of its own traces also beside the others.       *)
THEOREM CompareRunsSFV2 == CompareSpec => Spec
<1>1. QED BY RunsSFV2, StepsSFV2, PTL DEF CompareSpec, Spec

(* The slim array stays within a Count-Min sketch of its size, deletions   *)
(* included, until that sketch has lost a deletion to a cut.               *)
THEOREM Within == CompareSpec => []SlimWithinCM
<1>1. CMInv => SlimWithinCM
  <2> SUFFICES ASSUME CMInv, ~cmLossy, NEW d \in Rows, NEW w \in Buckets
               PROVE  slim[d][w] <= cm[d][w]
    BY DEF SlimWithinCM
  <2> USE SizesAssumption
  <2>1. TypeOK /\ SlimWithinBucket /\ cm \in Tables
    BY DEF CMInv, IInv, SInv
  <2>2. fat[d] \in [Cols -> 0..MaxC] /\ slim[d][w] \in 0..MaxC /\ cm[d][w] \in 0..MaxC
    BY <2>1 DEF TypeOK, Tables
  <2>3. PICK i \in 0 .. (K - 1) : MaxOf(BucketRow(fat[d], w)) = fat[d][w * K + i]
    BY <2>2, BucketMax
  <2>4. slim[d][w] <= fat[d][w * K + i]
    BY <2>1, <2>3 DEF SlimWithinBucket
  <2>5. fat[d][w * K + i] <= cm[d][w]
    BY FatWithinCM
  <2>6. fat[d][w * K + i] \in 0..MaxC
    BY <2>2, Layout
  <2>7. QED BY <2>2, <2>4, <2>5, <2>6
<1>2. QED BY <1>1, InitCM, NextCM, PTL DEF CompareSpec

-----------------------------------------------------------------------------
(* The Count sketch *)

(* The inductive invariant: the counters stay within MaxNum in absolute    *)
(* value, and are signed sums until one is clipped.                        *)
CSInv ==
    /\ count \in [Keys -> Nat]
    /\ cs \in Signed
    /\ ~clipped => \A d \in Rows, c \in Cols :
          cs[d][c] = Total(count, On(d, c, 1)) - Total(count, On(d, c, -1))

LEMMA InitCS == CompareInit => CSInv
<1> SUFFICES ASSUME CompareInit PROVE CSInv
  OBVIOUS
<1>1. count = [x \in Keys |-> 0]
  BY DEF CompareInit, Init
<1>2. cs = [d \in Rows |-> [c \in Cols |-> 0]]
  BY SameLayout DEF CompareInit, CS!Init
<1>3. cs \in Signed
  BY <1>2, SignAssumption DEF Signed
<1>4. ASSUME NEW d \in Rows, NEW c \in Cols, NEW sign PROVE Total(count, On(d, c, sign)) = 0
  <2>1. \A y \in On(d, c, sign) : count[y] = 0
    BY <1>1 DEF On
  <2>2. QED BY <2>1, TotalZero
<1>5. QED BY <1>1, <1>2, <1>3, <1>4 DEF CSInv

(* x belongs to one of the two groups of its column in each row, the one   *)
(* of its sign, and to no group of any other column.                       *)
LEMMA GroupOf ==
    ASSUME NEW x \in Keys, NEW d \in Rows, NEW c \in Cols
    PROVE  /\ Sign[x][d] \in {-1, 1}
           /\ x \in On(d, c, 1) <=> c = Col(x, d) /\ Sign[x][d] = 1
           /\ x \in On(d, c, -1) <=> c = Col(x, d) /\ Sign[x][d] = -1
           /\ On(d, c, 1) \in SUBSET Keys /\ On(d, c, -1) \in SUBSET Keys
BY SignAssumption DEF On

LEMMA IncCS ==
    ASSUME CSInv, NEW x \in Keys, NEW delta \in Deltas, CS!Inc(x, delta)
    PROVE  CSInv'
<1> USE SignAssumption
<1>1. count \in [Keys -> Nat] /\ cs \in Signed /\ delta \in 0..MaxNum /\ delta \in Nat
  BY DEF CSInv
<1>2. count' = [count EXCEPT ![x] = @ + delta] /\ (~clipped' => ~clipped)
  BY DEF CS!Inc
<1>3. /\ cs' \in Signed
      /\ ~clipped' => \A d \in Rows, c \in Cols :
            cs'[d][c] = IF c = Col(x, d) THEN cs[d][c] + delta * Sign[x][d] ELSE cs[d][c]
  BY <1>1, CSStep
<1>4. ASSUME ~clipped', NEW d \in Rows, NEW c \in Cols
      PROVE  cs'[d][c] = Total(count', On(d, c, 1)) - Total(count', On(d, c, -1))
  <2> DEFINE plus == Total(count, On(d, c, 1))
             minus == Total(count, On(d, c, -1))
             plusNew == Total(count', On(d, c, 1))
             minusNew == Total(count', On(d, c, -1))
  <2>1. cs[d][c] = plus - minus
    BY <1>2, <1>4 DEF CSInv
  <2>2. cs'[d][c] = IF c = Col(x, d) THEN cs[d][c] + delta * Sign[x][d] ELSE cs[d][c]
    BY <1>3, <1>4
  <2>3. Gains(x, delta, On(d, c, 1), plus, plusNew)
    BY <1>1, <1>2, GroupOf, AddedTotals
  <2>4. Gains(x, delta, On(d, c, -1), minus, minusNew)
    BY <1>1, <1>2, GroupOf, AddedTotals
  <2> HIDE DEF plus, minus, plusNew, minusNew
  <2>5. CASE c = Col(x, d) /\ Sign[x][d] = 1
    <3>1. x \in On(d, c, 1) /\ x \notin On(d, c, -1)
      BY <2>5, GroupOf
    <3>2. delta * Sign[x][d] = delta
      BY <1>1, <2>5
    <3>3. cs'[d][c] = plusNew - minusNew
      BY <1>1, <2>1, <2>2, <2>3, <2>4, <2>5, <3>1, <3>2 DEF Gains
    <3>4. QED BY <3>3 DEF plusNew, minusNew
  <2>6. CASE c = Col(x, d) /\ Sign[x][d] = -1
    <3>1. x \notin On(d, c, 1) /\ x \in On(d, c, -1)
      BY <2>6, GroupOf
    <3>2. delta * Sign[x][d] = -delta
      BY <1>1, <2>6
    <3>3. cs'[d][c] = plusNew - minusNew
      BY <1>1, <2>1, <2>2, <2>3, <2>4, <2>6, <3>1, <3>2 DEF Gains
    <3>4. QED BY <3>3 DEF plusNew, minusNew
  <2>7. CASE c # Col(x, d)
    <3>1. x \notin On(d, c, 1) /\ x \notin On(d, c, -1)
      BY <2>7, GroupOf
    <3>2. cs'[d][c] = plusNew - minusNew
      BY <2>1, <2>2, <2>3, <2>4, <2>7, <3>1 DEF Gains
    <3>3. QED BY <3>2 DEF plusNew, minusNew
  <2>8. QED BY <2>5, <2>6, <2>7, GroupOf
<1>5. count' \in [Keys -> Nat]
  BY <1>1, <1>2
<1>6. QED BY <1>3, <1>4, <1>5 DEF CSInv, On, Col

LEMMA DecCS ==
    ASSUME CSInv, NEW x \in Keys, NEW delta \in Deltas, count[x] >= delta, CS!Dec(x, delta)
    PROVE  CSInv'
<1> USE SignAssumption
<1>1. count \in [Keys -> Nat] /\ cs \in Signed /\ delta \in 0..MaxNum /\ delta \in Nat
  BY DEF CSInv
<1>2. count' = [count EXCEPT ![x] = @ - delta] /\ (~clipped' => ~clipped)
  BY DEF CS!Dec
<1>3. /\ cs' \in Signed
      /\ ~clipped' => \A d \in Rows, c \in Cols :
            cs'[d][c] = IF c = Col(x, d) THEN cs[d][c] - delta * Sign[x][d] ELSE cs[d][c]
  BY <1>1, CSStep
<1>4. ASSUME ~clipped', NEW d \in Rows, NEW c \in Cols
      PROVE  cs'[d][c] = Total(count', On(d, c, 1)) - Total(count', On(d, c, -1))
  <2> DEFINE plus == Total(count, On(d, c, 1))
             minus == Total(count, On(d, c, -1))
             plusNew == Total(count', On(d, c, 1))
             minusNew == Total(count', On(d, c, -1))
  <2>1. cs[d][c] = plus - minus
    BY <1>2, <1>4 DEF CSInv
  <2>2. cs'[d][c] = IF c = Col(x, d) THEN cs[d][c] - delta * Sign[x][d] ELSE cs[d][c]
    BY <1>3, <1>4
  <2>3. Gains(x, delta, On(d, c, 1), plusNew, plus)
    BY <1>1, <1>2, GroupOf, TakenTotals
  <2>4. Gains(x, delta, On(d, c, -1), minusNew, minus)
    BY <1>1, <1>2, GroupOf, TakenTotals
  <2> HIDE DEF plus, minus, plusNew, minusNew
  <2>5. CASE c = Col(x, d) /\ Sign[x][d] = 1
    <3>1. x \in On(d, c, 1) /\ x \notin On(d, c, -1)
      BY <2>5, GroupOf
    <3>2. delta * Sign[x][d] = delta
      BY <1>1, <2>5
    <3>3. cs'[d][c] = plusNew - minusNew
      BY <1>1, <2>1, <2>2, <2>3, <2>4, <2>5, <3>1, <3>2 DEF Gains
    <3>4. QED BY <3>3 DEF plusNew, minusNew
  <2>6. CASE c = Col(x, d) /\ Sign[x][d] = -1
    <3>1. x \notin On(d, c, 1) /\ x \in On(d, c, -1)
      BY <2>6, GroupOf
    <3>2. delta * Sign[x][d] = -delta
      BY <1>1, <2>6
    <3>3. cs'[d][c] = plusNew - minusNew
      BY <1>1, <2>1, <2>2, <2>3, <2>4, <2>6, <3>1, <3>2 DEF Gains
    <3>4. QED BY <3>3 DEF plusNew, minusNew
  <2>7. CASE c # Col(x, d)
    <3>1. x \notin On(d, c, 1) /\ x \notin On(d, c, -1)
      BY <2>7, GroupOf
    <3>2. cs'[d][c] = plusNew - minusNew
      BY <2>1, <2>2, <2>3, <2>4, <2>7, <3>1 DEF Gains
    <3>3. QED BY <3>2 DEF plusNew, minusNew
  <2>8. QED BY <2>5, <2>6, <2>7, GroupOf
<1>5. count' \in [Keys -> Nat]
  <2>1. count[x] - delta \in Nat
    BY <1>1
  <2>2. QED BY <1>1, <1>2, <2>1
<1>6. QED BY <1>3, <1>4, <1>5 DEF CSInv, On, Col

LEMMA NextCS == CSInv /\ [CompareNext]_allVars => CSInv'
<1> SUFFICES ASSUME CSInv, [CompareNext]_allVars PROVE CSInv'
  OBVIOUS
<1>1. CASE CompareNext
  BY <1>1, IncCS, DecCS DEF CompareNext, Dec
<1>2. CASE UNCHANGED allVars
  BY <1>2 DEF allVars, vars, CSInv, On, Col
<1>3. QED BY <1>1, <1>2

(* Until a counter of the Count sketch is clipped it is the signed sum of  *)
(* the counts of its keys.                                                 *)
THEOREM SignedSum == CompareSpec => []SignedSumExact
<1>1. CSInv => SignedSumExact
  BY DEF CSInv, SignedSumExact, On
<1>2. QED BY <1>1, InitCS, NextCS, PTL DEF CompareSpec

(* No counter of the Count sketch leaves -maxNum..maxNum, whatever is      *)
(* added or taken after it has been clipped.                               *)
THEOREM SignedBounded == CompareSpec => [](cs \in Signed)
<1>1. CSInv => cs \in Signed
  BY DEF CSInv
<1>2. QED BY <1>1, InitCS, NextCS, PTL DEF CompareSpec
=============================================================================
