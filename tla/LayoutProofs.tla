---------------------------- MODULE LayoutProofs ----------------------------
(***************************************************************************)
(* Proofs about the two layouts of the counters in memory: the vector path *)
(* of compose_slim() stores what the portable loop stores, and packed      *)
(* counters do not disturb each other.                                     *)
(***************************************************************************)
EXTENDS MCLayout, CountersProofs

-----------------------------------------------------------------------------
(* The vector path *)

Even(n) == n % 2 = 0

(* Flipping the lowest bit twice changes nothing, and flipping it leaves a *)
(* pair of halves and what comes before it where they are.                 *)
LEMMA FlipPairs ==
    ASSUME NEW n \in Nat
    PROVE  Flip(n) \in Nat /\ Flip(Flip(n)) = n
<1>1. CASE n % 2 = 0
  <2>1. Flip(n) = n + 1 /\ (n + 1) % 2 = 1
    BY <1>1 DEF Flip
  <2>2. QED BY <2>1 DEF Flip
<1>2. CASE n % 2 = 1
  <2>1. Flip(n) = n - 1 /\ n - 1 \in Nat /\ (n - 1) % 2 = 0
    BY <1>2 DEF Flip
  <2>2. QED BY <2>1 DEF Flip
<1>3. QED BY <1>1, <1>2

LEMMA FlipAfter ==
    ASSUME NEW e \in Nat, Even(e), NEW n \in Nat
    PROVE  Flip(e + n) = e + Flip(n)
<1>1. CASE n % 2 = 0
  <2>1. (e + n) % 2 = 0
    BY <1>1 DEF Even
  <2>2. QED BY <1>1, <2>1 DEF Flip
<1>2. CASE n % 2 = 1
  <2>1. (e + n) % 2 = 1
    BY <1>2 DEF Even
  <2>2. QED BY <1>2, <2>1 DEF Flip
<1>3. QED BY <1>1, <1>2

LEMMA FlipBefore ==
    ASSUME NEW e \in Nat, Even(e), NEW n \in 0 .. (e - 1)
    PROVE  Flip(n) \in 0 .. (e - 1)
<1>1. CASE n % 2 = 0
  <2>1. n # e - 1
    BY <1>1 DEF Even
  <2>2. QED BY <1>1, <2>1 DEF Flip
<1>2. CASE n % 2 = 1
  <2>1. n # 0
    BY <1>2
  <2>2. QED BY <1>2, <2>1 DEF Flip
<1>3. QED BY <1>1, <1>2

LEMMA ProductEven ==
    ASSUME NEW m \in Nat, NEW n \in Nat, Even(m)
    PROVE  Even(m * n) /\ m * n \in Nat
<1>1. PICK h \in Nat : m = 2 * h
  BY DEF Even
<1>2. (2 * h) * n = 2 * (h * n) /\ h * n \in Nat
  OBVIOUS
<1>3. (2 * (h * n)) % 2 = 0 /\ 2 * (h * n) \in Nat
  BY <1>2
<1>4. QED BY <1>1, <1>2, <1>3 DEF Even

LEMMA HalfOfEven ==
    ASSUME NEW n \in Nat, Even(n)
    PROVE  2 * ((n + 1) \div 2) = n
<1>1. PICK h \in Nat : n = 2 * h
  BY DEF Even
<1>2. (2 * h + 1) \div 2 = h
  OBVIOUS
<1>3. QED BY <1>1, <1>2

(* A fat row of 32-bit counters has no half to spare; a slim row has one   *)
(* when its width is odd.                                                  *)
LEMMA Halves ==
    ASSUME WL \in Nat
    PROVE  /\ RHalves = K * WL /\ Even(RHalves) /\ RHalves \in Nat
           /\ LHalves \in Nat /\ Even(LHalves) /\ WL <= LHalves
<1>1. K * WL \in Nat /\ Even(K * WL)
  BY ProductEven, SizesAssumption DEF Even
<1> DEFINE f == K * WL
<1>2. RHalves = 2 * ((f + 1) \div 2)
  BY DEF RHalves
<1> HIDE DEF f
<1>3. RHalves = f
  BY <1>1, <1>2, HalfOfEven DEF f
<1>4. LHalves \in Nat /\ WL <= LHalves /\ Even(LHalves)
  BY DEF LHalves, Even
<1>5. QED BY <1>1, <1>3, <1>4 DEF f

(* What a lane of a bucket inside the row reads is the bucket.             *)
LEMMA LaneReads ==
    ASSUME WL \in Nat, NEW r \in Rows, NEW e \in Nat, Even(e), NEW n \in Nat, e + n < WL
    PROVE  Lane(r, e, Flip(n)) = Portable(r, e + n)
<1> DEFINE v == e + n
<1> DEFINE I == 0 .. (K - 1)
<1>1. K \in Nat \ {0} /\ Even(K) /\ D \in Nat
  BY SizesAssumption DEF Even
<1>2. Flip(Flip(n)) = n
  BY FlipPairs
<1>3. v * K = K * v /\ v * K \in Nat /\ Even(v * K) /\ v * K + K <= K * WL
  <2>1. v \in Nat /\ v + 1 <= WL
    OBVIOUS
  <2>2. Even(K * v) /\ K * v \in Nat
    BY <1>1, <2>1, ProductEven
  <2>3. K * (v + 1) <= K * WL /\ K * (v + 1) = K * v + K /\ v * K = K * v
    BY <1>1, <2>1
  <2> HIDE DEF v
  <2>4. QED BY <2>2, <2>3
<1> DEFINE b == v * K
<1>4. ASSUME NEW i \in I
      PROVE  Right(r, b + i) = fat[r][b + Flip(i)] /\ Flip(i) \in I
  <2>1. Flip(i) \in I
    BY <1>1, FlipBefore
  <2>2. Flip(b + i) = b + Flip(i)
    BY <1>3, FlipAfter
  <2>3. RHalves = K * WL /\ RHalves \in Nat
    BY Halves
  <2> HIDE DEF b
  <2>4. b + i \in Nat /\ b + i < RHalves /\ b + Flip(i) \in 0 .. (K * WL - 1)
    BY <1>1, <1>3, <2>1, <2>3 DEF b
  <2>5. (b + i) \div RHalves = 0 /\ (b + i) % RHalves = b + i
    BY <2>3, <2>4
  <2>6. r + 0 = r /\ r < D
    BY <1>1 DEF Rows
  <2>7. b + Flip(i) \in Cols
    BY <2>4 DEF Cols
  <2>8. QED BY <2>1, <2>2, <2>5, <2>6, <2>7 DEF Right
<1> DEFINE read == [i \in I |-> Right(r, b + i)]
<1> DEFINE there == [i \in I |-> fat[r][b + i]]
<1>5. Lane(r, e, Flip(n)) = MaxOf(read)
  BY <1>2 DEF Lane
<1>6. Portable(r, v) = MaxOf(there)
  BY DEF Portable
<1>7. {read[i] : i \in DOMAIN read} = {there[i] : i \in DOMAIN there}
  <2>1. \A i \in I : read[i] = there[Flip(i)] /\ Flip(i) \in I
    BY <1>4
  <2>2. \A i \in I : there[i] = read[Flip(i)]
    <3> SUFFICES ASSUME NEW i \in I PROVE there[i] = read[Flip(i)]
      OBVIOUS
    <3>1. Flip(i) \in I /\ Flip(Flip(i)) = i
      BY <1>4, FlipPairs
    <3>2. QED BY <2>1, <3>1
  <2>3. DOMAIN read = I /\ DOMAIN there = I
    OBVIOUS
  <2> HIDE DEF read, there, I
  <2>4. QED BY <2>1, <2>2, <2>3
<1>8. QED BY <1>5, <1>6, <1>7 DEF MaxOf

-----------------------------------------------------------------------------
(* The loop stands at the start of a group of four lanes, and what lies    *)
(* before it is composed.                                                  *)
LoopType ==
    /\ WL \in Nat \ {0}
    /\ d \in Nat /\ d <= D
    /\ w \in Nat /\ w % 4 = 0

Composing ==
    \A r \in Rows, v \in 0 .. (WL - 1) :
        r < d \/ (r = d /\ v < w) => LeftCounter(r, v) = Portable(r, v)

FastInv == LoopType /\ Composing

(* Where a row keeps a slim counter.                                       *)
LEMMA CounterPlace ==
    ASSUME WL \in Nat \ {0}, NEW r \in Rows, NEW v \in 0 .. (WL - 1)
    PROVE  /\ r * LHalves \in Nat
           /\ Flip(v) \in 0 .. (LHalves - 1)
           /\ r * LHalves + Flip(v) \in LBlock
<1>1. LHalves \in Nat /\ Even(LHalves) /\ WL <= LHalves
  BY Halves
<1>2. Flip(v) \in 0 .. (LHalves - 1)
  BY <1>1, FlipBefore
<1>3. D \in Nat /\ r \in Nat /\ r + 1 <= D
  BY SizesAssumption DEF Rows
<1>4. (r + 1) * LHalves <= D * LHalves /\ (r + 1) * LHalves = r * LHalves + LHalves
  BY <1>1, <1>3
<1>5. r * LHalves \in Nat /\ D * LHalves \in Nat
  BY <1>1, <1>3
<1>6. QED BY <1>1, <1>2, <1>4, <1>5 DEF LBlock

(* Four lanes are stored in the halves of their four counters, and every   *)
(* counter before them stays: those of the row because a group begins at   *)
(* a pair, those of the rows before because a row ends before the next.    *)
LEMMA GroupStores ==
    ASSUME FastInv, StoreGroup,
           NEW r \in Rows, NEW v \in 0 .. (WL - 1),
           r < d \/ (r = d /\ v < w + 4)
    PROVE  LeftCounter(r, v)' = Portable(r, v)'
<1> DEFINE base == d * LHalves + w
<1> DEFINE place == r * LHalves + Flip(v)
<1>1. /\ WL \in Nat \ {0} /\ d \in Nat /\ w \in Nat /\ Even(w)
      /\ d < D /\ WL' = WL /\ fat' = fat /\ D \in Nat
  BY SizesAssumption DEF FastInv, LoopType, StoreGroup, Even
<1>2. left' = [p \in LBlock |->
                  IF p \in base .. (base + 3) THEN Lane(d, w, p - base) ELSE left[p]]
  <2>1. d * LHalves + w + 0 = base /\ d * LHalves + w + 3 = base + 3
    BY <1>1, Halves
  <2>2. QED BY <2>1 DEF StoreGroup
<1>3. LHalves \in Nat /\ Even(LHalves) /\ LHalves' = LHalves /\ WL <= LHalves
  BY <1>1, Halves DEF LHalves
<1>4. place \in LBlock /\ r * LHalves \in Nat /\ Flip(v) \in 0 .. (LHalves - 1)
  BY <1>1, CounterPlace
<1>5. LeftCounter(r, v)' = left'[place] /\ LeftCounter(r, v) = left[place]
  BY <1>3 DEF LeftCounter
<1>6. Portable(r, v)' = Portable(r, v)
  BY <1>1 DEF Portable
<1>7. CASE r = d /\ v >= w
  <2> DEFINE n == v - w
  <2>1. n \in 0 .. 3 /\ v = w + n
    BY <1>1, <1>7
  <2>2. Flip(v) = w + Flip(n) /\ Flip(n) \in 0 .. 3
    <3> HIDE DEF n
    <3>1. Flip(w + n) = w + Flip(n)
      BY <1>1, <2>1, FlipAfter
    <3>2. Flip(n) \in 0 .. 3
      BY <2>1 DEF Flip
    <3>3. QED BY <2>1, <3>1, <3>2
  <2>3. place \in base .. (base + 3) /\ place - base = Flip(n)
    <3> HIDE DEF n
    <3> DEFINE row == r * LHalves
    <3>1. row \in Nat /\ d * LHalves = row
      BY <1>4, <1>7
    <3> HIDE DEF row
    <3>2. place = row + Flip(v) /\ base = row + w
      BY <3>1 DEF row
    <3>3. QED BY <1>1, <2>2, <3>1, <3>2
  <2>4. Lane(d, w, Flip(n)) = Portable(r, v)
    <3> HIDE DEF n
    <3>1. n \in Nat /\ w + n < WL /\ WL \in Nat
      BY <1>1, <2>1
    <3>2. QED BY <1>1, <1>7, <2>1, <3>1, LaneReads
  <2> HIDE DEF base, place, n
  <2>5. QED BY <1>2, <1>4, <1>5, <1>6, <2>3, <2>4
<1>8. CASE r < d \/ (r = d /\ v < w)
  <2>1. place < base
    <3>1. CASE r < d
      <4>1. r \in Nat /\ r + 1 <= d
        BY <1>1, <3>1 DEF Rows
      <4>2. (r + 1) * LHalves <= d * LHalves /\ (r + 1) * LHalves = r * LHalves + LHalves
        BY <1>1, <1>3, <4>1
      <4>3. d * LHalves \in Nat
        BY <1>1, <1>3
      <4>4. QED BY <1>1, <1>3, <1>4, <4>2, <4>3
    <3>2. CASE r = d /\ v < w
      <4>1. Flip(v) \in 0 .. (w - 1)
        BY <1>1, <3>2, FlipBefore
      <4>2. QED BY <1>1, <1>4, <3>2, <4>1
    <3>3. QED BY <1>8, <3>1, <3>2
  <2>2. base \in Nat
    BY <1>1, <1>3
  <2>3. LeftCounter(r, v) = Portable(r, v)
    BY <1>8 DEF FastInv, Composing
  <2> HIDE DEF base, place
  <2>4. left'[place] = left[place]
    BY <1>2, <1>4, <2>1, <2>2
  <2>5. QED BY <1>5, <1>6, <2>3, <2>4
<1>9. QED BY <1>1, <1>7, <1>8

LEMMA FastStep == FastInv /\ [Next]_vars => FastInv'
<1> SUFFICES ASSUME FastInv, [Next]_vars PROVE FastInv'
  OBVIOUS
<1>1. CASE StoreGroup
  <2>1. /\ WL \in Nat \ {0} /\ d \in Nat /\ w \in Nat /\ w % 4 = 0
        /\ d < D /\ WL' = WL /\ D \in Nat
    BY <1>1, SizesAssumption DEF FastInv, LoopType, StoreGroup
  <2>2. /\ w + 4 < WL => w' = w + 4 /\ d' = d
        /\ w + 4 >= WL => w' = 0 /\ d' = d + 1
    BY <1>1, <2>1 DEF StoreGroup
  <2>3. LoopType'
    BY <2>1, <2>2 DEF LoopType
  <2>4. Composing'
    <3> SUFFICES ASSUME NEW r \in Rows, NEW v \in 0 .. (WL - 1),
                        r < d' \/ (r = d' /\ v < w')
                 PROVE  LeftCounter(r, v)' = Portable(r, v)'
      BY <2>1 DEF Composing, Rows
    <3>1. r < d \/ (r = d /\ v < w + 4)
      BY <2>1, <2>2 DEF Rows
    <3>2. QED BY <1>1, <3>1, GroupStores
  <2>5. QED BY <2>3, <2>4 DEF FastInv
<1>2. CASE UNCHANGED vars
  BY <1>2 DEF vars, FastInv, LoopType, Composing, LeftCounter, Portable, LHalves
<1>3. QED BY <1>1, <1>2 DEF Next, Done

(* The vector path of compose_slim() stores what the portable loop stores, *)
(* for any number of rows and slim counters, also where a row is not a     *)
(* multiple of four and runs over into the next.                           *)
THEOREM VectorPath == Spec => []FastEqualsPortable
<1>1. Init => FastInv
  BY SizesAssumption DEF Init, FastInv, LoopType, Composing, Rows
<1>2. FastInv => FastEqualsPortable
  BY SizesAssumption DEF FastInv, LoopType, Composing, FastEqualsPortable, Rows
<1>3. QED BY <1>1, <1>2, FastStep, PTL DEF Spec

-----------------------------------------------------------------------------
(* Powers of two, and the numbers that sets of bits stand for              *)

(* A power of two is the number of subsets of that many members, and one   *)
(* more member doubles it.                                                 *)
LEMMA PowerIsSubsets ==
    ASSUME NEW n \in Nat
    PROVE  /\ 2^n \in Nat \ {0}
           /\ IsFiniteSet(SUBSET (1 .. n)) /\ Cardinality(SUBSET (1 .. n)) = 2^n
<1>1. IsFiniteSet(1 .. n) /\ Cardinality(1 .. n) = n
  BY FS_Interval
<1>2. IsFiniteSet(SUBSET (1 .. n)) /\ Cardinality(SUBSET (1 .. n)) = 2^n
  BY <1>1, FS_SUBSET
<1>3. Cardinality(SUBSET (1 .. n)) \in Nat /\ SUBSET (1 .. n) # {}
  BY <1>2, FS_CardinalityType
<1>4. Cardinality(SUBSET (1 .. n)) # 0
  BY <1>2, <1>3, FS_EmptySet
<1>5. QED BY <1>2, <1>3, <1>4

LEMMA PowerDoubles ==
    ASSUME NEW n \in Nat
    PROVE  2^(n + 1) = 2 * 2^n /\ 2^n \in Nat \ {0} /\ 2^(n + 1) \in Nat \ {0}
<1> DEFINE few == SUBSET (1 .. n)
<1> DEFINE more == {T \cup {n + 1} : T \in few}
<1> DEFINE all == SUBSET (1 .. (n + 1))
<1>1. few \cup more = all /\ few \cap more = {}
  <2>1. \A T \in few : n + 1 \notin T
    OBVIOUS
  <2>2. ASSUME NEW T \in all, T \notin few PROVE T \in more
    <3>1. n + 1 \in T
      BY <2>2
    <3>2. T \ {n + 1} \in few
      OBVIOUS
    <3>3. T = (T \ {n + 1}) \cup {n + 1}
      BY <3>1
    <3>4. QED BY <3>2, <3>3
  <2>3. (1 .. n) \subseteq 1 .. (n + 1) /\ n + 1 \in 1 .. (n + 1)
    OBVIOUS
  <2>4. \A T \in few : T \in all /\ T \cup {n + 1} \in all
    BY <2>3
  <2>5. few \cup more = all
    <3> HIDE DEF few, all
    <3>1. \A V \in more : \E T \in few : V = T \cup {n + 1}
      OBVIOUS
    <3>2. more \subseteq all
      BY <2>4, <3>1
    <3> HIDE DEF more
    <3>3. QED BY <2>2, <2>4, <3>2
  <2>6. few \cap more = {}
    BY <2>1
  <2>7. QED BY <2>5, <2>6
<1>2. IsFiniteSet(few) /\ Cardinality(few) = 2^n /\ 2^n \in Nat \ {0}
  BY PowerIsSubsets
<1>3. IsFiniteSet(more) /\ Cardinality(more) = Cardinality(few)
  <2> DEFINE f == [T \in few |-> T \cup {n + 1}]
  <2>1. f \in [few -> more]
    OBVIOUS
  <2>2. \A T, U \in few : f[T] = f[U] => T = U
    <3> SUFFICES ASSUME NEW T \in few, NEW U \in few, f[T] = f[U] PROVE T = U
      OBVIOUS
    <3>1. T \cup {n + 1} = U \cup {n + 1} /\ n + 1 \notin T /\ n + 1 \notin U
      OBVIOUS
    <3>2. QED BY <3>1
  <2>3. \A V \in more : \E T \in few : f[T] = V
    OBVIOUS
  <2> HIDE DEF f, few, more
  <2>4. f \in Bijection(few, more)
    BY <2>1, <2>2, <2>3 DEF Bijection, Injection, Surjection, IsInjective
  <2>5. QED BY <1>2, <2>4, FS_Bijection DEF ExistsBijection
<1>4. Cardinality(all) = 2^(n + 1) /\ 2^(n + 1) \in Nat \ {0}
  <2>1. n + 1 \in Nat
    OBVIOUS
  <2>2. QED BY <2>1, PowerIsSubsets
<1>5. Cardinality(few \cap more) = 0
  BY <1>1, FS_EmptySet
<1> HIDE DEF few, more, all
<1>6. Cardinality(few \cup more) = Cardinality(few) + Cardinality(more) - Cardinality(few \cap more)
  BY <1>2, <1>3, FS_Union
<1>7. 2^(n + 1) = 2^n + 2^n - 0
  BY <1>1, <1>2, <1>3, <1>4, <1>5, <1>6
<1>8. QED BY <1>2, <1>4, <1>7

LEMMA PowerRises ==
    ASSUME NEW m \in Nat, NEW n \in Nat, m <= n
    PROVE  2^m <= 2^n /\ (m < n => 2^m < 2^n)
<1>1. SUBSET (1 .. m) \in SUBSET (SUBSET (1 .. n))
  OBVIOUS
<1>2. 2^m \in Nat /\ 2^n \in Nat
  BY PowerIsSubsets
<1> DEFINE small == SUBSET (1 .. m)
<1> DEFINE large == SUBSET (1 .. n)
<1>3. /\ IsFiniteSet(large) /\ Cardinality(large) = 2^n
      /\ IsFiniteSet(small) /\ Cardinality(small) = 2^m
  BY PowerIsSubsets
<1> HIDE DEF small, large
<1>4. small \in SUBSET large
  BY <1>1 DEF small, large
<1>5. 2^m <= 2^n /\ (2^n = 2^m => large = small)
  BY <1>3, <1>4, FS_Subset
<1>6. ASSUME m < n PROVE large # small
  <2>1. (1 .. n) \in SUBSET (1 .. n) /\ (1 .. n) \notin SUBSET (1 .. m)
    <3>1. n \in 1 .. n /\ n \notin 1 .. m
      BY <1>6
    <3>2. QED BY <3>1
  <2>2. QED BY <2>1 DEF small, large
<1>7. QED BY <1>2, <1>5, <1>6

(* The sum of a finite set of numbers, a member at a time.                 *)
LEMMA SumSetWithout ==
    ASSUME NEW S \in SUBSET Nat, IsFiniteSet(S)
    PROVE  /\ SumSet(S) \in Int
           /\ SumSet({}) = 0
           /\ \A x \in S : SumSet(S) = x + SumSet(S \ {x})
<1> DEFINE self == [x \in Nat |-> x]
<1>1. ASSUME NEW T \in SUBSET Nat, IsFiniteSet(T) PROVE SumSet(T) = Balance(self, T)
  <2> DEFINE h == CHOOSE h : SumsUp(h, self, T)
  <2>1. T \in SUBSET DOMAIN self /\ \A x \in T : self[x] \in Int
    OBVIOUS
  <2>2. \A U \in SUBSET T : U # {} => Pick(U) \in Nat
    BY DEF Pick
  <2>3. SumsUp(h, self, T)
    BY <1>1, <2>1, SumsUpOnce
  <2>4. h[T] = Balance(self, T)
    BY <1>1, <2>1, <2>3, SumsUpOnce
  <2>5. \A g : SumsUp(g, self, T)
          <=> g = [U \in SUBSET T |-> IF U = {} THEN 0 ELSE Pick(U) + g[U \ {Pick(U)}]]
    BY <2>2 DEF SumsUp
  <2>6. SumSet(T) = h[T]
    BY <2>5 DEF SumSet, FoldSet, MapThenFoldSet, Pick
  <2>7. QED BY <2>4, <2>6
<1>2. S \in SUBSET DOMAIN self /\ \A x \in S : self[x] = x /\ self[x] \in Int
  OBVIOUS
<1>3. \A x \in S : S \ {x} \in SUBSET Nat /\ IsFiniteSet(S \ {x})
  BY FS_Subset
<1>4. SumSet({}) = Balance(self, {})
  BY <1>1, FS_EmptySet
<1>5. SumSet(S) = Balance(self, S) /\ \A x \in S : SumSet(S \ {x}) = Balance(self, S \ {x})
  BY <1>1, <1>3
<1> HIDE DEF self
<1>6. /\ Balance(self, S) \in Int /\ Balance(self, {}) = 0
      /\ \A x \in S : Balance(self, S) = self[x] + Balance(self, S \ {x})
  BY <1>2, BalanceWithout
<1>7. QED BY <1>2, <1>4, <1>5, <1>6

(* The next bit of a number tells whether half of twice the modulus        *)
(* remains.                                                                *)
LEMMA NextBit ==
    ASSUME NEW m \in Nat \ {0}, NEW n \in Nat
    PROVE  n % (2 * m) = IF (n \div m) % 2 = 1 THEN (n % m) + m ELSE n % m
<1>1. PICK q \in Nat, r \in 0 .. (m - 1) : n \div m = q /\ n % m = r /\ n = m * q + r
  BY QuotientOf
<1>2. PICK h \in Nat : q = 2 * h \/ q = 2 * h + 1
  <2>1. q \div 2 \in Nat /\ q % 2 \in 0 .. 1 /\ 2 * (q \div 2) + (q % 2) = q
    BY QuotientOf
  <2>2. QED BY <2>1
<1>3. m * (2 * h) = (2 * m) * h /\ m * (2 * h + 1) = (2 * m) * h + m /\ (2 * m) * h \in Nat
  OBVIOUS
<1>4. 2 * m \in Nat \ {0}
  OBVIOUS
<1>5. CASE q = 2 * h
  <2>1. q % 2 = 0
    BY <1>5
  <2>2. n = (2 * m) * h + r /\ r \in 0 .. (2 * m - 1)
    BY <1>1, <1>3, <1>5
  <2>3. n % (2 * m) = r
    BY <1>4, <2>2, QuotientIs
  <2>4. QED BY <1>1, <2>1, <2>3
<1>6. CASE q = 2 * h + 1
  <2>1. q % 2 = 1
    BY <1>6
  <2>2. n = (2 * m) * h + (r + m) /\ r + m \in 0 .. (2 * m - 1)
    BY <1>1, <1>3, <1>6
  <2>3. n % (2 * m) = r + m
    BY <1>4, <2>2, QuotientIs
  <2>4. QED BY <1>1, <2>1, <2>3
<1>7. QED BY <1>2, <1>5, <1>6

LEMMA SameSum == \A S : Packed!SumSet(S) = SumSet(S)
BY DEF SumSet, FoldSet, MapThenFoldSet, Packed!SumSet, Packed!FoldSet, Packed!MapThenFoldSet

(* A higher bit adds its power.                                            *)
LEMMA ValueAdds ==
    ASSUME NEW k \in Nat, NEW S \in SUBSET (0 .. (k - 1))
    PROVE  /\ Packed!Value(S) \in Int
           /\ Packed!Value({}) = 0
           /\ Packed!Value(S \cup {k}) = Packed!Value(S) + 2^k
<1> DEFINE low == {2^p : p \in S}
<1> DEFINE top == 2^k
<1>1. ASSUME NEW p \in S PROVE 2^p \in Nat /\ 2^p < top
  <2>1. p \in Nat /\ p <= k /\ p < k
    OBVIOUS
  <2>2. QED BY <2>1, PowerRises, PowerIsSubsets
<1>2. top \in Nat
  BY PowerIsSubsets
<1>3. low \in SUBSET Nat /\ top \notin low /\ \A v \in low : v <= top
  BY <1>1, <1>2
<1>4. {2^p : p \in S \cup {k}} = low \cup {top}
  OBVIOUS
<1>5. {2^p : p \in {}} = {}
  OBVIOUS
<1> HIDE DEF low, top
<1> DEFINE both == low \cup {top}
<1>6. both \in SUBSET Nat /\ top \in both /\ both \ {top} = low /\ \A v \in both : v <= top
  BY <1>2, <1>3
<1>7. IsFiniteSet(low) /\ IsFiniteSet(both)
  BY <1>2, <1>3, <1>6, FS_BoundedSetOfNaturals
<1> HIDE DEF both
<1>8. SumSet(both) = top + SumSet(low) /\ SumSet(low) \in Int /\ SumSet({}) = 0
  BY <1>3, <1>6, <1>7, SumSetWithout
<1>9. Packed!Value(S) = SumSet(low) /\ Packed!Value(S \cup {k}) = SumSet(both)
  BY <1>4, SameSum DEF Packed!Value, low, both
<1>10. Packed!Value({}) = SumSet({})
  BY <1>5, SameSum DEF Packed!Value
<1>11. Packed!Value(S \cup {k}) = Packed!Value(S) + top
  BY <1>2, <1>8, <1>9
<1>12. QED BY <1>8, <1>9, <1>10, <1>11 DEF top

(* Taking the bits of a number and adding up their powers gives it back,   *)
(* but for what is above the bits taken.                                   *)
LowBits(n, k) == {p \in 0 .. (k - 1) : (n \div 2^p) % 2 = 1}

LEMMA LowBitsValue ==
    ASSUME NEW n \in Nat, NEW k \in Nat
    PROVE  Packed!Value(LowBits(n, k)) = n % 2^k
<1> DEFINE bad == {i \in Nat : Packed!Value(LowBits(n, i)) # n % 2^i}
<1>1. 0 \notin bad
  <2>1. LowBits(n, 0) = {}
    BY DEF LowBits
  <2>2. Packed!Value({}) = 0
    BY ValueAdds
  <2>3. 2^0 = 1 /\ n % 1 = 0
    OBVIOUS
  <2>4. QED BY <2>1, <2>2, <2>3
<1>2. ASSUME NEW i \in Nat, i \notin bad PROVE i + 1 \notin bad
  <2> DEFINE m == 2^i
  <2>1. Packed!Value(LowBits(n, i)) = n % m /\ m \in Nat \ {0} /\ 2^(i + 1) = 2 * m
    BY <1>2, PowerDoubles
  <2>2. LowBits(n, i) \in SUBSET (0 .. (i - 1))
    BY DEF LowBits
  <2>3. LowBits(n, i + 1)
          = IF (n \div m) % 2 = 1 THEN LowBits(n, i) \cup {i} ELSE LowBits(n, i)
    <3>1. 0 .. (i + 1 - 1) = (0 .. (i - 1)) \cup {i}
      OBVIOUS
    <3> DEFINE on(p) == (n \div 2^p) % 2 = 1
    <3>2. /\ LowBits(n, i + 1) = {p \in (0 .. (i - 1)) \cup {i} : on(p)}
          /\ LowBits(n, i) = {p \in 0 .. (i - 1) : on(p)}
          /\ ((n \div m) % 2 = 1 <=> on(i))
      BY <3>1 DEF LowBits
    <3> HIDE DEF on
    <3> HIDE DEF m
    <3>3. QED BY <3>2
  <2>4. Packed!Value(LowBits(n, i) \cup {i}) = Packed!Value(LowBits(n, i)) + m
    BY <2>2, ValueAdds
  <2> HIDE DEF m
  <2>5. Packed!Value(LowBits(n, i + 1)) = n % (2 * m)
    BY <2>1, <2>3, <2>4, NextBit
  <2>6. QED BY <2>1, <2>5
<1>3. bad = {}
  <2> SUFFICES ASSUME bad # {} PROVE FALSE
    OBVIOUS
  <2>0. bad \in SUBSET Nat
    OBVIOUS
  <2> HIDE DEF bad
  <2>1. PICK i \in bad : \A j \in bad : i <= j
    BY <2>0, MinIsLeast
  <2>2. i # 0 /\ i - 1 \in Nat
    BY <1>1, <2>0, <2>1
  <2>3. i - 1 \notin bad
    BY <2>0, <2>1, <2>2
  <2>4. (i - 1) + 1 = i
    BY <2>0
  <2>5. QED BY <1>2, <2>1, <2>2, <2>3, <2>4
<1>4. QED BY <1>3

(* All the bits below k make 2^k - 1, which max_c is.                      *)
LEMMA AllBitsValue ==
    ASSUME NEW k \in Nat
    PROVE  Packed!Value(0 .. (k - 1)) = 2^k - 1
<1> DEFINE bad == {i \in Nat : Packed!Value(0 .. (i - 1)) # 2^i - 1}
<1>1. 0 \notin bad
  <2>1. 0 .. (0 - 1) = {} /\ 2^0 = 1
    OBVIOUS
  <2>2. Packed!Value({}) = 0
    BY ValueAdds
  <2>3. QED BY <2>1, <2>2
<1>2. ASSUME NEW i \in Nat, i \notin bad PROVE i + 1 \notin bad
  <2> DEFINE m == 2^i
  <2>1. Packed!Value(0 .. (i - 1)) = m - 1 /\ m \in Nat \ {0} /\ 2^(i + 1) = 2 * m
    BY <1>2, PowerDoubles
  <2>2. 0 .. (i + 1 - 1) = (0 .. (i - 1)) \cup {i}
    OBVIOUS
  <2>3. Packed!Value((0 .. (i - 1)) \cup {i}) = Packed!Value(0 .. (i - 1)) + m
    BY ValueAdds
  <2>4. Packed!Value(0 .. (i + 1 - 1)) = Packed!Value((0 .. (i - 1)) \cup {i})
    BY <2>2
  <2>5. (m - 1) + m = 2 * m - 1
    BY <2>1
  <2> HIDE DEF m
  <2>6. Packed!Value(0 .. (i + 1 - 1)) = 2 * m - 1
    BY <2>1, <2>3, <2>4, <2>5, Zenon
  <2>7. QED BY <2>1, <2>6
<1>3. bad = {}
  <2> SUFFICES ASSUME bad # {} PROVE FALSE
    OBVIOUS
  <2>0. bad \in SUBSET Nat
    OBVIOUS
  <2> HIDE DEF bad
  <2>1. PICK i \in bad : \A j \in bad : i <= j
    BY <2>0, MinIsLeast
  <2>2. i # 0 /\ i - 1 \in Nat
    BY <1>1, <2>0, <2>1
  <2>3. i - 1 \notin bad
    BY <2>0, <2>1, <2>2
  <2>4. (i - 1) + 1 = i
    BY <2>0
  <2>5. QED BY <1>2, <2>1, <2>2, <2>3, <2>4
<1>4. QED BY <1>3

LEMMA MaxCType == Packed!MaxC \in Nat
<1>1. BitsC \in Nat
  BY WidthAssumption
<1>2. 2^BitsC \in Nat \ {0}
  BY <1>1, PowerIsSubsets
<1>3. QED BY <1>2 DEF Packed!MaxC

(* Storing a number of up to BitsC bits and reading it gives it back.      *)
LEMMA SmallNumber ==
    ASSUME NEW n \in Nat, n <= Packed!MaxC
    PROVE  /\ Packed!Bits(n) \subseteq Packed!MaxBits
           /\ Packed!Value(Packed!Bits(n)) = n
<1> DEFINE m == 2^BitsC
<1>1. W \in Nat /\ BitsC \in Nat /\ BitsC <= W
  BY WidthAssumption
<1>2. m \in Nat /\ n < m /\ 2^W \in Nat /\ m <= 2^W
  BY <1>1, PowerRises, PowerIsSubsets DEF Packed!MaxC
<1>3. Packed!Bits(n) = LowBits(n, W)
  BY DEF Packed!Bits, Packed!Positions, LowBits
<1>4. Packed!Value(LowBits(n, W)) = n % 2^W
  BY <1>1, LowBitsValue
<1>5. n % 2^W = n
  <2> DEFINE all == 2^W
  <2>1. all \in Nat \ {0} /\ n \in 0 .. (all - 1)
    BY <1>2
  <2> HIDE DEF all
  <2>2. n = all * 0 + n
    BY <2>1
  <2>3. n % all = n
    BY <2>1, <2>2, QuotientIs
  <2>4. QED BY <2>3 DEF all
<1>6. ASSUME NEW p \in LowBits(n, W) PROVE p \in Packed!MaxBits
  <2>1. p \in Nat /\ (n \div 2^p) % 2 = 1
    BY <1>1 DEF LowBits
  <2>2. ASSUME p >= BitsC PROVE FALSE
    <3> DEFINE x == 2^p
    <3>1. x \in Nat \ {0} /\ m <= x
      BY <1>1, <2>1, <2>2, PowerRises, PowerIsSubsets
    <3>2. n \in 0 .. (x - 1)
      BY <1>2, <3>1
    <3> HIDE DEF x
    <3>3. n = x * 0 + n
      BY <3>1
    <3>4. n \div x = 0
      BY <3>1, <3>2, <3>3, QuotientIs
    <3>5. (n \div x) % 2 = 0
      BY <3>4
    <3>6. QED BY <2>1, <3>5 DEF x
  <2>3. QED BY <1>1, <2>1, <2>2 DEF Packed!MaxBits
<1>7. QED BY <1>3, <1>4, <1>5, <1>6

-----------------------------------------------------------------------------
(* Where the bits of a packed counter are                                  *)

(* The word that holds bit q of counter c, and the position there.         *)
Word(c, q) ==
    IF q + Packed!HGap(c) < W THEN Packed!HIndex(c) ELSE Packed!HIndex(c) - 1
Place(c, q) ==
    IF q + Packed!HGap(c) < W THEN q + Packed!HGap(c) ELSE q + Packed!HGap(c) - W

Counting == 0 .. (N - 1)
Indices  == 0 .. (Packed!Length - 1)

LEMMA LengthType == Packed!Length \in Nat
<1>1. W \in Nat \ {0} /\ N \in Nat /\ BitsC \in Nat
  BY WidthAssumption
<1>2. N * BitsC + (W - 1) \in Nat
  BY <1>1
<1>3. QED BY <1>1, <1>2 DEF Packed!Length

(* A counter lies in one word, or ends in one and begins in the one before.*)
LEMMA Layout ==
    ASSUME NEW c \in Counting
    PROVE  /\ Packed!HIndex(c) \in Indices /\ Packed!HGap(c) \in 0 .. (W - 1)
           /\ Packed!HBit(c) = c * BitsC + BitsC /\ c * BitsC \in Nat
           /\ Packed!HBit(c) = W * Packed!HIndex(c) + W - Packed!HGap(c)
           /\ BitsC + Packed!HGap(c) <= W => Packed!LIndex(c) = Packed!HIndex(c)
           /\ BitsC + Packed!HGap(c) > W =>
                 /\ Packed!LIndex(c) = Packed!HIndex(c) - 1
                 /\ Packed!HIndex(c) > 0
                 /\ Packed!LGap(c) = BitsC + Packed!HGap(c) - W
<1> DEFINE B == c * BitsC
<1> DEFINE h == Packed!HIndex(c)
<1>1. /\ W \in Nat \ {0} /\ BitsC \in Nat \ {0} /\ BitsC <= W
      /\ N \in Nat \ {0} /\ c \in Nat /\ c + 1 <= N
  BY WidthAssumption DEF Counting
<1>2. B \in Nat /\ Packed!HBit(c) = B + BitsC /\ Packed!LBit(c) = B
  BY <1>1 DEF Packed!HBit, Packed!LBit
<1>3. (c + 1) * BitsC <= N * BitsC /\ (c + 1) * BitsC = B + BitsC /\ N * BitsC \in Nat
  BY <1>1
<1> HIDE DEF B
<1> DEFINE last == B + BitsC - 1
<1>4. last \in Nat /\ h = last \div W
  BY <1>1, <1>2 DEF Packed!HIndex
<1> HIDE DEF h
<1>5. PICK r \in 0 .. (W - 1) : last = W * h + r /\ h \in Nat /\ W * h \in Nat
  BY <1>1, <1>4, QuotientOf
<1>6. Packed!HGap(c) = W - 1 - r
  <2>1. Packed!HGap(c) = (h + 1) * W - (B + BitsC)
    BY <1>2 DEF Packed!HGap, h
  <2>2. (h + 1) * W = W * h + W
    BY <1>1, <1>5
  <2>3. QED BY <1>1, <1>2, <1>5, <2>1, <2>2
<1>7. h \in Indices
  <2> DEFINE m == Packed!Length
  <2> DEFINE end == N * BitsC + (W - 1)
  <2>1. end \in Nat /\ m = end \div W
    BY <1>1, <1>3 DEF Packed!Length
  <2> HIDE DEF m
  <2>2. PICK s \in 0 .. (W - 1) : end = W * m + s /\ m \in Nat /\ W * m \in Nat
    BY <1>1, <2>1, QuotientOf
  <2>3. ASSUME m <= h PROVE FALSE
    <3>1. W * m <= W * h
      BY <1>1, <1>5, <2>2, <2>3
    <3>2. QED BY <1>1, <1>2, <1>3, <1>5, <2>2, <3>1
  <2>4. QED BY <1>5, <2>2, <2>3 DEF Indices, m
<1>8. CASE BitsC + Packed!HGap(c) <= W
  <2>1. r + 1 - BitsC \in 0 .. (W - 1) /\ B = W * h + (r + 1 - BitsC)
    BY <1>1, <1>2, <1>5, <1>6, <1>8
  <2>2. B \div W = h
    BY <1>1, <1>2, <1>5, <2>1, QuotientIs
  <2>3. Packed!LIndex(c) = h
    BY <1>2, <2>2 DEF Packed!LIndex
  <2>4. QED BY <1>1, <1>2, <1>5, <1>6, <1>7, <1>8, <2>3 DEF h, B
<1>9. CASE BitsC + Packed!HGap(c) > W
  <2>1. W + r + 1 - BitsC \in 0 .. (W - 1)
    BY <1>1, <1>6, <1>9
  <2>2. h # 0
    BY <1>1, <1>2, <1>5, <1>6, <1>9
  <2>3. W * h = W * (h - 1) + W /\ h - 1 \in Nat
    BY <1>1, <1>5, <2>2
  <2>4. B = W * (h - 1) + (W + r + 1 - BitsC)
    BY <1>1, <1>2, <1>5, <2>3
  <2>5. B \div W = h - 1
    BY <1>1, <1>2, <2>1, <2>3, <2>4, QuotientIs
  <2>6. Packed!LIndex(c) = h - 1
    BY <1>2, <2>5 DEF Packed!LIndex
  <2>7. Packed!LGap(c) = BitsC + Packed!HGap(c) - W
    <3>1. Packed!LGap(c) = h * W - B /\ h * W = W * h
      BY <1>1, <1>2, <1>5 DEF Packed!LGap, h
    <3>2. QED BY <1>1, <1>2, <1>5, <1>6, <3>1
  <2>8. QED BY <1>1, <1>2, <1>5, <1>6, <1>7, <1>9, <2>2, <2>6, <2>7 DEF h, B
<1>10. QED BY <1>1, <1>6, <1>8, <1>9

(* Every bit of a counter has a place in the row, and no other bit has it. *)
LEMMA Places ==
    ASSUME NEW c \in Counting, NEW q \in Packed!MaxBits
    PROVE  /\ Word(c, q) \in Indices /\ Place(c, q) \in Packed!Positions
           /\ c * BitsC + BitsC - 1 - q = W * Word(c, q) + (W - 1 - Place(c, q))
<1> DEFINE h == Packed!HIndex(c)
<1> DEFINE g == Packed!HGap(c)
<1> DEFINE B == c * BitsC
<1>1. /\ W \in Nat \ {0} /\ BitsC \in Nat \ {0} /\ BitsC <= W /\ q \in 0 .. (BitsC - 1)
      /\ h \in Nat /\ h \in Indices /\ g \in 0 .. (W - 1) /\ B \in Nat
      /\ B + BitsC = W * h + W - g
      /\ BitsC + g > W => h > 0
  BY Layout, WidthAssumption DEF Packed!MaxBits, Indices
<1>2. W * h \in Nat /\ (h > 0 => W * h = W * (h - 1) + W)
  BY <1>1
<1>3. h > 0 => h - 1 \in Indices
  BY <1>1, LengthType DEF Indices
<1>4. /\ Word(c, q) = IF q + g < W THEN h ELSE h - 1
      /\ Place(c, q) = IF q + g < W THEN q + g ELSE q + g - W
  BY DEF Word, Place
<1> HIDE DEF h, g, B
<1>5. CASE q + g < W
  <2>1. Word(c, q) = h /\ Place(c, q) = q + g /\ q + g \in 0 .. (W - 1)
    BY <1>1, <1>4, <1>5
  <2>2. B + BitsC - 1 - q = W * h + (W - 1 - (q + g))
    BY <1>1, <1>2
  <2>3. QED BY <1>1, <2>1, <2>2 DEF Packed!Positions, B
<1>6. CASE q + g >= W
  <2>1. h > 0 /\ Word(c, q) = h - 1 /\ Place(c, q) = q + g - W /\ q + g - W \in 0 .. (W - 1)
    BY <1>1, <1>4, <1>6
  <2>2. B + BitsC - 1 - q = W * (h - 1) + (W - 1 - (q + g - W))
    BY <1>1, <1>2, <2>1
  <2>3. QED BY <1>3, <2>1, <2>2 DEF Packed!Positions, B
<1>7. QED BY <1>1, <1>5, <1>6

LEMMA PlacesApart ==
    ASSUME NEW c \in Counting, NEW e \in Counting,
           NEW q \in Packed!MaxBits, NEW p \in Packed!MaxBits,
           Word(c, q) = Word(e, p), Place(c, q) = Place(e, p)
    PROVE  c = e /\ q = p
<1> DEFINE B == c * BitsC
<1> DEFINE E == e * BitsC
<1>1. /\ W \in Nat /\ BitsC \in Nat \ {0} /\ q \in 0 .. (BitsC - 1) /\ p \in 0 .. (BitsC - 1)
      /\ c \in Nat /\ e \in Nat
  BY WidthAssumption DEF Packed!MaxBits, Counting
<1>2. B \in Nat /\ E \in Nat
  BY <1>1
<1>3. B + BitsC - 1 - q = E + BitsC - 1 - p
  BY Places
<1>4. ASSUME c < e PROVE FALSE
  <2>1. (c + 1) * BitsC <= E /\ (c + 1) * BitsC = B + BitsC
    BY <1>1, <1>4
  <2> HIDE DEF B, E
  <2>2. QED BY <1>1, <1>2, <1>3, <2>1
<1>5. ASSUME e < c PROVE FALSE
  <2>1. (e + 1) * BitsC <= B /\ (e + 1) * BitsC = E + BitsC
    BY <1>1, <1>5
  <2> HIDE DEF B, E
  <2>2. QED BY <1>1, <1>2, <1>3, <2>1
<1>6. c = e
  BY <1>1, <1>4, <1>5
<1>7. B = E
  BY <1>6
<1> HIDE DEF B, E
<1>8. q = p
  BY <1>1, <1>2, <1>3, <1>7
<1>9. QED BY <1>6, <1>8

-----------------------------------------------------------------------------
(* get_cpt_c() and set_cpt_c()                                             *)

WordsType == words \in [Indices -> SUBSET Packed!Positions]

(* Reading collects the bits of the counter from their places.             *)
BitsRead ==
    \A c \in Counting :
        /\ Packed!GetCptC(c) \subseteq Packed!MaxBits
        /\ \A q \in Packed!MaxBits :
              q \in Packed!GetCptC(c) <=> Place(c, q) \in words[Word(c, q)]

LEMMA GetReads == WordsType => BitsRead
<1> SUFFICES ASSUME WordsType, NEW c \in Counting
             PROVE  /\ Packed!GetCptC(c) \subseteq Packed!MaxBits
                    /\ \A q \in Packed!MaxBits :
                          q \in Packed!GetCptC(c) <=> Place(c, q) \in words[Word(c, q)]
  BY DEF BitsRead
<1> DEFINE h == Packed!HIndex(c)
<1> DEFINE g == Packed!HGap(c)
<1> DEFINE l == Packed!LIndex(c)
<1>1. /\ W \in Nat \ {0} /\ BitsC \in Nat \ {0} /\ BitsC <= W
      /\ h \in Nat /\ h \in Indices /\ g \in 0 .. (W - 1)
      /\ BitsC + g <= W => l = h
      /\ BitsC + g > W => l = h - 1 /\ h > 0
  BY Layout, WidthAssumption DEF Indices
<1>2. l \in Indices
  BY <1>1, LengthType DEF Indices
<1>3. words[h] \subseteq Packed!Positions /\ words[l] \subseteq Packed!Positions
  BY <1>1, <1>2 DEF WordsType
<1>4. \A q : /\ Word(c, q) = IF q + g < W THEN h ELSE h - 1
             /\ Place(c, q) = IF q + g < W THEN q + g ELSE q + g - W
  BY DEF Word, Place
<1>5. Packed!GetCptC(c) =
        IF l = h THEN Packed!ShiftR(words[h], g) \cap Packed!MaxBits
        ELSE (Packed!ShiftR(words[h], g) \cup Packed!ShiftL(words[l], W - g)) \cap Packed!MaxBits
  BY DEF Packed!GetCptC
<1> HIDE DEF h, g, l
<1>6. ASSUME NEW q \in Packed!MaxBits
      PROVE  q \in Packed!ShiftR(words[h], g) <=> q + g \in words[h]
  BY <1>1, <1>3 DEF Packed!ShiftR, Packed!MaxBits, Packed!Positions
<1>7. ASSUME NEW q \in Packed!MaxBits
      PROVE  q \in Packed!ShiftL(words[l], W - g) <=> q + g - W \in words[l]
  BY <1>1, <1>3 DEF Packed!ShiftL, Packed!MaxBits, Packed!Positions
<1>8. ASSUME NEW q \in Packed!MaxBits
      PROVE  q \in Packed!GetCptC(c) <=> Place(c, q) \in words[Word(c, q)]
  <2>1. q \in 0 .. (BitsC - 1)
    BY DEF Packed!MaxBits
  <2>2. CASE l = h
    <3>1. BitsC + g <= W
      BY <1>1, <2>2
    <3>2. q + g < W
      BY <1>1, <2>1, <3>1
    <3>3. QED BY <1>4, <1>5, <1>6, <2>2, <3>2
  <2>3. CASE l # h
    <3>1. BitsC + g > W /\ l = h - 1
      BY <1>1, <2>3
    <3>2. q \in Packed!GetCptC(c) <=> q + g \in words[h] \/ q + g - W \in words[l]
      BY <1>5, <1>6, <1>7, <2>3, <3>1
    <3>3. CASE q + g < W
      <4>1. q + g - W \notin words[l]
        BY <1>1, <1>3, <2>1, <3>1, <3>3 DEF Packed!Positions
      <4>2. QED BY <1>4, <3>2, <3>3, <4>1
    <3>4. CASE ~(q + g < W)
      <4>1. q + g \notin words[h]
        BY <1>1, <1>3, <2>1, <3>4 DEF Packed!Positions
      <4>2. QED BY <1>4, <3>1, <3>2, <3>4, <4>1
    <3>5. QED BY <3>3, <3>4
  <2>4. QED BY <2>2, <2>3
<1>9. Packed!GetCptC(c) \subseteq Packed!MaxBits
  BY <1>5
<1>10. QED BY <1>8, <1>9

(* Writing changes the bits at the places of the counter and no others, if *)
(* the shift of ~0, an int, stays within an int: the bits of a counter     *)
(* that lie in the earlier word are fewer than the counter has.            *)
LEMMA SetWrites ==
    ASSUME WordsType, BitsC <= IntBits,
           NEW c \in Counting, NEW val \in SUBSET Packed!MaxBits, Packed!SetCptC(c, val)
    PROVE  /\ WordsType'
           /\ \A q \in Packed!MaxBits : Place(c, q) \in words'[Word(c, q)] <=> q \in val
           /\ \A x \in Indices, p \in Packed!Positions :
                 (\A q \in Packed!MaxBits : ~(Word(c, q) = x /\ Place(c, q) = p))
                    => (p \in words'[x] <=> p \in words[x])
<1> DEFINE h == Packed!HIndex(c)
<1> DEFINE g == Packed!HGap(c)
<1> DEFINE l == Packed!LIndex(c)
<1> DEFINE end == Packed!LGap(c)
<1> DEFINE high == (words[h] \ Packed!ShiftL(Packed!MaxBits, g)) \cup Packed!ShiftL(val, g)
<1> DEFINE low == (words[l] \cap (end .. (W - 1))) \cup Packed!ShiftR(val, W - g)
<1>1. /\ W \in Nat \ {0} /\ BitsC \in Nat \ {0} /\ BitsC <= W /\ IntBits \in Nat
      /\ h \in Nat /\ h \in Indices /\ g \in 0 .. (W - 1)
      /\ BitsC + g <= W => l = h
      /\ BitsC + g > W => l = h - 1 /\ h > 0 /\ end = BitsC + g - W
  BY Layout, WidthAssumption DEF Indices
<1>2. l \in Indices /\ (l < h <=> BitsC + g > W)
  BY <1>1, LengthType DEF Indices
<1>3. words[h] \subseteq Packed!Positions /\ words[l] \subseteq Packed!Positions
  BY <1>1, <1>2 DEF WordsType
<1>4. \A q : /\ Word(c, q) = IF q + g < W THEN h ELSE h - 1
             /\ Place(c, q) = IF q + g < W THEN q + g ELSE q + g - W
  BY DEF Word, Place
<1>5. \A q \in Packed!MaxBits : q \in 0 .. (BitsC - 1)
  BY DEF Packed!MaxBits
<1>6. words' = [words EXCEPT ![h] = high, ![l] = IF l < h THEN low ELSE high]
  <2>1. CASE l < h
    <3>1. end < IntBits
      BY <1>1, <1>2, <2>1
    <3>2. Packed!KeepMasks(end) = {end .. (W - 1)}
      BY <3>1 DEF Packed!KeepMasks
    <3>3. words' = [words EXCEPT ![h] = high, ![l] = (words[l] \cap (end .. (W - 1))) \cup Packed!ShiftR(val, W - g)]
      <4>1. PICK keep \in Packed!KeepMasks(end) :
              words' = [words EXCEPT ![h] = high, ![l] = (@ \cap keep) \cup Packed!ShiftR(val, W - g)]
        BY <2>1 DEF Packed!SetCptC
      <4>2. keep = end .. (W - 1)
        BY <3>2
      <4>3. h # l
        BY <1>1, <1>2, <2>1
      <4> HIDE DEF h, g, l, end, high
      <4>4. QED BY <4>1, <4>2, <4>3
    <3>4. QED BY <2>1, <3>3
  <2>2. CASE ~(l < h)
    <3>1. l = h
      BY <1>1, <1>2, <2>2
    <3>2. words' = [words EXCEPT ![h] = high]
      BY <2>2 DEF Packed!SetCptC
    <3> HIDE DEF h, l, high, low
    <3>3. [words EXCEPT ![h] = high] = [words EXCEPT ![h] = high, ![h] = high]
      OBVIOUS
    <3>4. QED BY <2>2, <3>1, <3>2, <3>3
  <2>3. QED BY <2>1, <2>2
<1>7. high \subseteq Packed!Positions /\ low \subseteq Packed!Positions
  BY <1>3 DEF Packed!ShiftL, Packed!ShiftR
<1>8. ASSUME NEW p \in Packed!Positions
      PROVE  p \in high <=> IF p - g \in Packed!MaxBits THEN p - g \in val ELSE p \in words[h]
  <2>1. p \in 0 .. (W - 1)
    BY DEF Packed!Positions
  <2>2. p \in Packed!ShiftL(val, g) <=> p - g \in val
    BY <1>1, <1>5, <2>1 DEF Packed!ShiftL, Packed!Positions
  <2>3. p \in Packed!ShiftL(Packed!MaxBits, g) <=> p - g \in Packed!MaxBits
    BY <1>1, <1>5, <2>1 DEF Packed!ShiftL, Packed!Positions
  <2>4. QED BY <2>2, <2>3
<1>9. ASSUME NEW p \in Packed!Positions, l < h
      PROVE  p \in low <=> IF p + W - g \in Packed!MaxBits THEN p + W - g \in val ELSE p \in words[l]
  <2>1. p \in 0 .. (W - 1) /\ BitsC + g > W /\ end = BitsC + g - W
    BY <1>1, <1>2, <1>9 DEF Packed!Positions
  <2>2. p \in Packed!ShiftR(val, W - g) <=> p + W - g \in val
    BY <1>1, <1>5, <2>1 DEF Packed!ShiftR, Packed!Positions
  <2>3. p \in end .. (W - 1) <=> p + W - g \notin Packed!MaxBits
    BY <1>1, <2>1 DEF Packed!MaxBits
  <2>4. QED BY <2>2, <2>3
<1> HIDE DEF h, g, l, end, high, low
<1>10. /\ words' \in [Indices -> SUBSET Packed!Positions]
       /\ words'[h] = high
       /\ l < h => words'[l] = low
       /\ \A x \in Indices : x # h /\ ~(x = l /\ l < h) => words'[x] = words[x]
  <2>1. l < h \/ l = h
    BY <1>1, <1>2
  <2>2. l < h => l # h
    BY <1>1, <1>2
  <2>3. QED BY <1>1, <1>2, <1>6, <1>7, <2>1, <2>2 DEF WordsType
<1>11. ASSUME NEW q \in Packed!MaxBits
       PROVE  Place(c, q) \in words'[Word(c, q)] <=> q \in val
  <2>1. q \in 0 .. (BitsC - 1)
    BY <1>5
  <2>2. CASE q + g < W
    <3>1. q + g \in Packed!Positions /\ (q + g) - g = q
      BY <1>1, <2>1, <2>2 DEF Packed!Positions
    <3>2. q + g \in high <=> q \in val
      BY <1>8, <3>1
    <3>3. QED BY <1>4, <1>10, <2>2, <3>2
  <2>3. CASE ~(q + g < W)
    <3>1. l < h /\ l = h - 1
      BY <1>1, <1>2, <2>1, <2>3
    <3>2. q + g - W \in Packed!Positions /\ (q + g - W) + W - g = q
      BY <1>1, <2>1, <2>3 DEF Packed!Positions
    <3>3. q + g - W \in low <=> q \in val
      BY <1>9, <3>1, <3>2
    <3>4. QED BY <1>4, <1>10, <2>3, <3>1, <3>3
  <2>4. QED BY <2>2, <2>3
<1>12. ASSUME NEW x \in Indices, NEW p \in Packed!Positions,
              \A q \in Packed!MaxBits : ~(Word(c, q) = x /\ Place(c, q) = p)
       PROVE  p \in words'[x] <=> p \in words[x]
  <2>1. p \in 0 .. (W - 1)
    BY DEF Packed!Positions
  <2>2. CASE x = h
    <3>1. (p - g) + g < W /\ (p - g) + g = p
      BY <1>1, <2>1
    <3>2. p - g \notin Packed!MaxBits
      BY <1>4, <1>12, <2>2, <3>1
    <3>3. QED BY <1>8, <1>10, <2>2, <3>2
  <2>3. CASE x = l /\ l < h
    <3>1. ~((p + W - g) + g < W) /\ (p + W - g) + g - W = p /\ l = h - 1
      BY <1>1, <1>2, <2>1, <2>3
    <3>2. p + W - g \notin Packed!MaxBits
      BY <1>4, <1>12, <2>3, <3>1
    <3>3. QED BY <1>9, <1>10, <2>3, <3>2
  <2>4. CASE x # h /\ ~(x = l /\ l < h)
    BY <1>10, <2>4
  <2>5. QED BY <2>2, <2>3, <2>4
<1>13. WordsType'
  <2>1. Indices' = Indices
    BY DEF Indices
  <2>2. QED BY <1>10, <2>1 DEF WordsType
<1>14. QED BY <1>11, <1>12, <1>13

(* A counter that was written holds what was written, and all the others   *)
(* hold what they held, whichever words they share with it.                *)
LEMMA SetThenGet ==
    ASSUME WordsType, BitsC <= IntBits,
           NEW c \in Counting, NEW val \in SUBSET Packed!MaxBits, Packed!SetCptC(c, val)
    PROVE  /\ WordsType'
           /\ \A e \in Counting :
                 Packed!GetCptC(e)' = IF e = c THEN val ELSE Packed!GetCptC(e)
<1>1. WordsType'
  BY SetWrites
<1>2. BitsRead
  BY GetReads
<1>3. BitsRead'
  <2>1. (WordsType => BitsRead)'
    BY GetReads, PTL
  <2>2. QED BY <1>1, <2>1
<1>4. Packed!MaxBits' = Packed!MaxBits /\ Counting' = Counting
  BY DEF Packed!MaxBits, Counting
<1>5. ASSUME NEW e \in Counting
      PROVE  /\ Packed!GetCptC(e)' \subseteq Packed!MaxBits
             /\ \A q \in Packed!MaxBits :
                   q \in Packed!GetCptC(e)' <=> Place(e, q) \in words'[Word(e, q)]
  <2>1. \A q : Place(e, q)' = Place(e, q) /\ Word(e, q)' = Word(e, q)
    BY DEF Place, Word, Packed!HGap, Packed!HIndex, Packed!HBit, Packed!LBit
  <2>2. QED BY <1>3, <1>4, <2>1 DEF BitsRead
<1>6. Packed!GetCptC(c)' = val
  BY <1>5, SetWrites
<1>7. ASSUME NEW e \in Counting, e # c
      PROVE  Packed!GetCptC(e)' = Packed!GetCptC(e)
  <2>1. ASSUME NEW q \in Packed!MaxBits
        PROVE  q \in Packed!GetCptC(e)' <=> q \in Packed!GetCptC(e)
    <3>1. \A p \in Packed!MaxBits : ~(Word(c, p) = Word(e, q) /\ Place(c, p) = Place(e, q))
      BY <1>7, PlacesApart
    <3>2. Word(e, q) \in Indices /\ Place(e, q) \in Packed!Positions
      BY Places
    <3>3. Place(e, q) \in words'[Word(e, q)] <=> Place(e, q) \in words[Word(e, q)]
      BY <3>1, <3>2, SetWrites
    <3>4. QED BY <1>2, <1>5, <3>3 DEF BitsRead
  <2>2. Packed!GetCptC(e)' \subseteq Packed!MaxBits /\ Packed!GetCptC(e) \subseteq Packed!MaxBits
    BY <1>2, <1>5 DEF BitsRead
  <2>3. QED BY <2>1, <2>2
<1>8. QED BY <1>1, <1>6, <1>7

-----------------------------------------------------------------------------
(* The row as an array of counters                                         *)

PackedInv == WordsType /\ plain \in [Counting -> 0 .. Packed!MaxC] /\ PackedIsPlain

(* An update that writes a number within max_c to a counter, and to its    *)
(* history, keeps the row an array.                                        *)
LEMMA WriteKeeps ==
    ASSUME PackedInv, BitsC <= IntBits,
           NEW c \in Counting, NEW val \in SUBSET Packed!MaxBits, NEW n \in 0 .. Packed!MaxC,
           Packed!Value(val) = n, Packed!SetCptC(c, val), plain' = [plain EXCEPT ![c] = n]
    PROVE  PackedInv'
<1>1. WordsType /\ plain \in [Counting -> 0 .. Packed!MaxC]
      /\ \A e \in Counting : Packed!Value(Packed!GetCptC(e)) = plain[e]
  BY DEF PackedInv, PackedIsPlain, Packed!PackedIsPlain, Counting
<1>2. WordsType' /\ \A e \in Counting : Packed!GetCptC(e)' = IF e = c THEN val ELSE Packed!GetCptC(e)
  BY <1>1, SetThenGet
<1>3. plain' \in [Counting -> 0 .. Packed!MaxC]
  BY <1>1
<1>4. ASSUME NEW e \in Counting PROVE Packed!Value(Packed!GetCptC(e)') = plain'[e]
  BY <1>1, <1>2
<1>5. Packed!MaxC' = Packed!MaxC /\ Counting' = Counting
  BY DEF Packed!MaxC, Counting
<1>6. \A e \in Counting : Packed!Value(Packed!GetCptC(e))' = Packed!Value(Packed!GetCptC(e)')
  BY DEF Packed!Value
<1>7. PackedIsPlain'
  BY <1>4, <1>6 DEF PackedIsPlain, Packed!PackedIsPlain, Counting
<1>8. QED BY <1>2, <1>3, <1>5, <1>7 DEF PackedInv

(* (max_c - delta) in size_t, for a delta within max_c.                    *)
LEMMA RoomValue ==
    ASSUME NEW delta \in 0 .. Packed!MaxC
    PROVE  Packed!Value(Packed!Bits(2^W + Packed!MaxC - delta)) = Packed!MaxC - delta
<1> DEFINE all == 2^W
<1> DEFINE room == Packed!MaxC - delta
<1>1. W \in Nat /\ BitsC \in Nat /\ BitsC <= W
  BY WidthAssumption
<1>2. all \in Nat \ {0} /\ 2^BitsC \in Nat \ {0} /\ 2^BitsC <= all
  BY <1>1, PowerRises, PowerIsSubsets
<1>3. Packed!MaxC \in Nat /\ room \in 0 .. (all - 1) /\ all + Packed!MaxC - delta = all + room
  BY <1>2 DEF Packed!MaxC
<1> HIDE DEF room
<1>4. Packed!Bits(all + room) = LowBits(all + room, W)
  BY DEF Packed!Bits, Packed!Positions, LowBits
<1>5. Packed!Value(LowBits(all + room, W)) = (all + room) % all
  <2>1. all + room \in Nat
    BY <1>2, <1>3
  <2>2. QED BY <1>1, <2>1, LowBitsValue
<1> HIDE DEF all
<1>6. all + room = all * 1 + room /\ all + room \in Nat
  BY <1>2, <1>3
<1>7. (all + room) % all = room
  BY <1>2, <1>3, <1>6, QuotientIs
<1>8. Packed!Bits(all + Packed!MaxC - delta) = Packed!Bits(all + room)
  BY <1>3
<1>9. QED BY <1>4, <1>5, <1>7, <1>8 DEF all, room

LEMMA IncKeeps ==
    ASSUME PackedInv, BitsC <= IntBits, NEW c \in Counting, NEW delta \in 0 .. Packed!MaxC,
           Packed!Inc(c, delta)
    PROVE  PackedInv'
<1> DEFINE max == Packed!MaxC
<1> DEFINE n == plain[c]
<1> DEFINE sum == IF max - delta > n THEN Packed!Bits(n + delta) ELSE Packed!MaxBits
<1>1. max \in Nat /\ max = 2^BitsC - 1 /\ BitsC \in Nat
  BY WidthAssumption, PowerIsSubsets DEF Packed!MaxC
<1>2. n \in 0 .. max /\ Packed!Value(Packed!GetCptC(c)) = n
  BY DEF PackedInv, PackedIsPlain, Packed!PackedIsPlain, Counting
<1>3. Packed!Value(Packed!Bits(2^W + max - delta)) = max - delta
  BY RoomValue
<1>4. Packed!SetCptC(c, sum) /\ plain' = [plain EXCEPT ![c] = Lesser(n + delta, max)]
  BY <1>2, <1>3 DEF Packed!Inc, Packed!Lesser, Lesser
<1> HIDE DEF max, n
<1>5. CASE max - delta > n
  <2>1. Lesser(n + delta, max) = n + delta /\ n + delta \in 0 .. max
    BY <1>1, <1>2, <1>5 DEF Lesser, max
  <2>2. sum = Packed!Bits(n + delta)
    BY <1>5
  <2>3. sum \subseteq Packed!MaxBits /\ Packed!Value(sum) = n + delta
    BY <2>1, <2>2, SmallNumber DEF max
  <2> HIDE DEF sum
  <2>4. QED BY <1>4, <2>1, <2>3, WriteKeeps DEF max
<1>6. CASE ~(max - delta > n)
  <2>1. Lesser(n + delta, max) = max /\ max \in 0 .. max
    BY <1>1, <1>2, <1>6 DEF Lesser, max
  <2>2. sum = Packed!MaxBits
    BY <1>6
  <2>3. Packed!Value(sum) = max
    BY <1>1, <2>2, AllBitsValue DEF Packed!MaxBits
  <2> HIDE DEF sum
  <2>4. QED BY <1>4, <2>1, <2>2, <2>3, WriteKeeps DEF max
<1>7. QED BY <1>5, <1>6

LEMMA DecKeeps ==
    ASSUME PackedInv, BitsC <= IntBits, NEW c \in Counting, NEW delta \in Nat, Packed!Dec(c, delta)
    PROVE  PackedInv'
<1> DEFINE n == plain[c]
<1> DEFINE less == FloorSub(n, delta)
<1>1. Packed!MaxC \in Nat
  BY MaxCType
<1>2. n \in 0 .. Packed!MaxC /\ Packed!Value(Packed!GetCptC(c)) = n
  BY DEF PackedInv, PackedIsPlain, Packed!PackedIsPlain, Counting
<1>3. Packed!SetCptC(c, Packed!Bits(less)) /\ plain' = [plain EXCEPT ![c] = less]
  BY <1>2 DEF Packed!Dec, Packed!FloorSub, FloorSub
<1> HIDE DEF n
<1>4. less \in 0 .. Packed!MaxC
  BY <1>1, <1>2 DEF FloorSub
<1> HIDE DEF less
<1>5. Packed!Bits(less) \subseteq Packed!MaxBits /\ Packed!Value(Packed!Bits(less)) = less
  BY <1>1, <1>4, SmallNumber
<1>6. QED BY <1>3, <1>4, <1>5, WriteKeeps

(* Packed counters are an array of saturating counters, for words, counters*)
(* and rows of any size: whichever words a counter lies in, an update      *)
(* leaves its neighbours alone.  The counter must not be wider than an int *)
(* (~0 is shifted as one) and a delta not above max_c (max_c - delta wraps).*)
THEOREM PackedRow ==
    ASSUME BitsC <= IntBits, Deltas \subseteq 0 .. Packed!MaxC
    PROVE  Packed!Spec => []PackedIsPlain
<1>1. Packed!Init => PackedInv
  <2> SUFFICES ASSUME Packed!Init PROVE PackedInv
    OBVIOUS
  <2>1. WordsType
    BY DEF Packed!Init, WordsType, Indices
  <2>2. Packed!MaxC \in Nat
    BY MaxCType
  <2>3. plain \in [Counting -> 0 .. Packed!MaxC]
    BY <2>2 DEF Packed!Init, Counting
  <2>4. ASSUME NEW c \in Counting PROVE Packed!Value(Packed!GetCptC(c)) = plain[c]
    <3>1. BitsRead
      BY <2>1, GetReads
    <3>2. \A q \in Packed!MaxBits : q \notin Packed!GetCptC(c)
      BY <3>1, Places DEF BitsRead, Packed!Init, Indices
    <3>3. Packed!GetCptC(c) = {}
      BY <3>1, <3>2 DEF BitsRead
    <3>4. Packed!Value({}) = 0
      BY ValueAdds
    <3>5. QED BY <3>3, <3>4 DEF Packed!Init, Counting
  <2>5. QED BY <2>1, <2>3, <2>4 DEF PackedInv, PackedIsPlain, Packed!PackedIsPlain, Counting
<1>2. PackedInv /\ [Packed!Next]_(Packed!vars) => PackedInv'
  <2> SUFFICES ASSUME PackedInv, [Packed!Next]_(Packed!vars) PROVE PackedInv'
    OBVIOUS
  <2>1. ASSUME NEW c \in Counting, NEW delta \in Deltas, Packed!Inc(c, delta) PROVE PackedInv'
    BY <2>1, IncKeeps
  <2>2. ASSUME NEW c \in Counting, NEW delta \in Deltas, Packed!Dec(c, delta) PROVE PackedInv'
    BY <2>2, DecKeeps, WidthAssumption
  <2>3. CASE UNCHANGED Packed!vars
    <3>1. words' = words /\ plain' = plain
      BY <2>3 DEF Packed!vars
    <3>2. QED BY <3>1 DEF PackedInv, WordsType, Indices, Counting, PackedIsPlain, Packed!PackedIsPlain,
                Packed!GetCptC
  <2>4. QED BY <2>1, <2>2, <2>3 DEF Packed!Next, Counting
<1>3. PackedInv => PackedIsPlain
  BY DEF PackedInv
<1>4. QED BY <1>1, <1>2, <1>3, PTL DEF Packed!Spec
=============================================================================
