--------------------------- MODULE SFFinalProofs ---------------------------
(***************************************************************************)
(* Theorems about SFFinal, for any keys, hash functions, sizes and deltas  *)
(* its assumptions allow.                                                  *)
(***************************************************************************)
EXTENDS SFFinal, CountersProofs

(* A key's column and bucket exist, the column lies in the bucket, and the *)
(* slots of a bucket are columns.                                          *)
LEMMA Layout ==
    /\ WR \in Nat \ {0}
    /\ \A x \in Keys, d \in Rows :
          /\ Col(x, d) \in Cols
          /\ BucketOf(x, d) \in Buckets
          /\ Col(x, d) % K \in 0 .. (K - 1)
          /\ Col(x, d) = BucketOf(x, d) * K + (Col(x, d) % K)
    /\ \A w \in Buckets, i \in 0 .. (K - 1) : w * K + i \in Cols
<1> USE SizesAssumption
<1>1. WR \in Nat \ {0}
  BY DEF WR
<1>2. \A h \in Nat : h % WR \in Cols
  BY <1>1 DEF Cols
<1>3. \A x \in Keys, d \in Rows : Col(x, d) \in Cols
  BY <1>2, HashAssumption DEF Col
<1>4. ASSUME NEW c \in Cols
      PROVE  /\ c \div K \in Buckets
             /\ c % K \in 0 .. (K - 1)
             /\ c = (c \div K) * K + (c % K)
  <2>1. c \in 0 .. (K * WL - 1)
    BY DEF Cols, WR
  <2>2. QED BY <2>1, SlotOfColumn DEF Buckets
<1>5. ASSUME NEW w \in Buckets, NEW i \in 0 .. (K - 1) PROVE w * K + i \in Cols
  <2>1. w \in Nat /\ w + 1 <= WL
    BY DEF Buckets
  <2>2. (w + 1) * K <= WL * K
    BY <2>1
  <2>3. (w + 1) * K = w * K + K /\ w * K \in Nat
    BY <2>1
  <2>4. QED BY <2>1, <2>2, <2>3 DEF Cols, WR
<1>6. QED BY <1>1, <1>3, <1>4, <1>5 DEF BucketOf

(* Rows and the columns of a bucket are not empty, so every query and      *)
(* every bucket maximum is taken over something.                           *)
LEMMA NonEmpty == 0 \in Rows /\ 0 \in 0 .. (K - 1)
BY SizesAssumption DEF Rows

(* The answer of a row of counters is one of them.                         *)
LEMMA QueryValue ==
    ASSUME NEW f \in [Rows -> Nat]
    PROVE  /\ MinOf(f) \in Nat
           /\ \A b \in Int : (\A d \in Rows : f[d] >= b) => MinOf(f) >= b
           /\ \A d \in Rows : MinOf(f) <= f[d]
<1>1. DOMAIN f = Rows /\ Rows # {} /\ \A d \in DOMAIN f : f[d] \in Nat
  BY NonEmpty
<1>2. /\ \E d \in DOMAIN f : MinOf(f) = f[d]
      /\ \A d \in DOMAIN f : MinOf(f) <= f[d]
      /\ MinOf(f) \in Nat
  BY <1>1, MinOfLeast
<1>3. QED BY <1>1, <1>2

(* The maximum of a bucket of a fat row bounds each of its counters.       *)
LEMMA BucketMax ==
    ASSUME NEW r \in [Cols -> 0..MaxC], NEW w \in Buckets
    PROVE  /\ MaxOf(BucketRow(r, w)) \in 0..MaxC
           /\ \A i \in 0 .. (K - 1) : r[w * K + i] <= MaxOf(BucketRow(r, w))
<1> DEFINE f == BucketRow(r, w)
<1>1. /\ DOMAIN f = 0 .. (K - 1)
      /\ \A i \in DOMAIN f : f[i] = r[w * K + i] /\ f[i] \in 0..MaxC
  BY Layout DEF BucketRow
<1>2. DOMAIN f # {}
  BY <1>1, NonEmpty
<1>3. MaxC \in Nat
  BY SizesAssumption
<1> HIDE DEF f
<1>4. /\ \A i \in DOMAIN f : f[i] <= MaxOf(f)
      /\ MaxOf(f) \in 0..MaxC
  BY <1>1, <1>2, <1>3, MaxOfGreatest
<1>5. QED BY <1>1, <1>4 DEF f

-----------------------------------------------------------------------------
(* Type correctness *)

(* Both updates of the fat array, in one shape.                            *)
LEMMA FatStep ==
    ASSUME TypeOK, NEW x \in Keys, NEW delta \in Deltas,
           IncROnly(x, delta) \/ DecROnly(x, delta)
    PROVE  /\ fat' \in [Rows -> [Cols -> 0..MaxC]]
           /\ \A d \in Rows, c \in Cols :
                 fat'[d][c] = IF c = Col(x, d) THEN Lesser(fat[d][c] + delta, MaxC)
                                               ELSE fat[d][c]
<1> USE SizesAssumption
<1>1. fat' = [d \in Rows |-> [fat[d] EXCEPT ![Col(x, d)] = SatAdd(@, delta, MaxC)]]
  BY DEF IncROnly, DecROnly
<1>2. delta \in 0..MaxC
  BY DeltaAssumption
<1>3. \A d \in Rows : Col(x, d) \in Cols /\ fat[d] \in [Cols -> 0..MaxC]
  BY Layout DEF TypeOK
<1>4. \A d \in Rows, c \in Cols : /\ SatAdd(fat[d][c], delta, MaxC) \in 0..MaxC
                                  /\ SatAdd(fat[d][c], delta, MaxC) = Lesser(fat[d][c] + delta, MaxC)
  BY <1>2, <1>3, SatAddBounds
<1>5. \A d \in Rows, c \in Cols :
          fat'[d][c] = IF c = Col(x, d) THEN SatAdd(fat[d][c], delta, MaxC) ELSE fat[d][c]
  BY <1>1, <1>3
<1>6. \A d \in Rows : fat'[d] \in [Cols -> 0..MaxC]
  BY <1>1, <1>3, <1>4
<1>7. fat' \in [Rows -> [Cols -> 0..MaxC]]
  BY <1>1, <1>6
<1>8. QED BY <1>4, <1>5, <1>7

LEMMA InitType == Init => TypeOK
BY SizesAssumption DEF Init, TypeOK

LEMMA NextType == TypeOK /\ [Next]_vars => TypeOK'
<1> SUFFICES ASSUME TypeOK, [Next]_vars PROVE TypeOK'
  OBVIOUS
<1> USE DEF TypeOK
<1>1. ASSUME NEW x \in Keys, NEW delta \in Deltas, Inc(x, delta) PROVE TypeOK'
  <2>1. fat' \in [Rows -> [Cols -> 0..MaxC]]
    BY <1>1, FatStep DEF Inc
  <2>2. inserted' \in [Keys -> Nat]
    <3>1. delta \in Nat BY DeltaAssumption, SizesAssumption
    <3>2. QED BY <1>1, <3>1 DEF Inc
  <2>3. QED BY <1>1, <2>1, <2>2 DEF Inc
<1>2. ASSUME NEW x \in Keys, NEW delta \in Deltas, Dec(x, delta) PROVE TypeOK'
  <2>1. fat' \in [Rows -> [Cols -> 0..MaxC]]
    BY <1>2, FatStep DEF Dec
  <2>2. deleted' \in [Keys -> Nat]
    <3>1. delta \in Nat BY DeltaAssumption, SizesAssumption
    <3>2. QED BY <1>2, <3>1 DEF Dec
  <2>3. QED BY <1>2, <2>1, <2>2 DEF Dec
<1>3. CASE ComposeSlim
  <2>1. \A d \in Rows, w \in Buckets : MaxOf(BucketRow(fat[d], w)) \in 0..MaxC
    BY BucketMax
  <2>2. slim' \in [Rows -> [Buckets -> 0..MaxC]]
    BY <1>3, <2>1 DEF ComposeSlim
  <2>3. QED BY <1>3, <2>2 DEF ComposeSlim
<1>4. CASE SetQuerySlim
  BY <1>4 DEF SetQuerySlim, history
<1>5. CASE SetQueryFat
  BY <1>5 DEF SetQueryFat, history
<1>6. CASE UNCHANGED vars
  BY <1>6 DEF vars
<1>7. QED BY <1>1, <1>2, <1>3, <1>4, <1>5, <1>6 DEF Next

(* Counters stay within 0..max_c and the histories are counts, in every    *)
(* execution.                                                              *)
THEOREM TypeCorrect == Spec => []TypeOK
<1>1. QED BY InitType, NextType, PTL DEF Spec

-----------------------------------------------------------------------------
(* Exact loads *)

Here(d, c) == {x \in Keys : Col(x, d) = c}

(* The inductive invariant: every fat counter is the saturated load of its *)
(* column, every slim counter the saturated load its bucket had when it    *)
(* was composed, and a slim array that is fresh was composed from the      *)
(* history as it is.                                                       *)
FreshIsComposed == fresh => composed = <<inserted, deleted>>
IInv == TypeOK /\ FatIsExactLoad /\ SlimIsSnapshot /\ FreshIsComposed

(* What the keys of a column were given is a natural number, at least what *)
(* any one of them was given.                                              *)
LEMMA LoadCovers ==
    ASSUME NEW ins \in [Keys -> Nat], NEW del \in [Keys -> Nat],
           NEW d \in Rows, NEW c \in Cols
    PROVE  /\ Load(ins, del, d, c) \in Nat
           /\ \A x \in Here(d, c) : ins[x] + del[x] <= Load(ins, del, d, c)
<1>1. IsFiniteSet(Here(d, c))
  BY KeysAssumption, FS_Subset DEF Here
<1>2. /\ \A y \in Here(d, c) : ins[y] \in Nat
      /\ \A y \in Here(d, c) : del[y] \in Nat
  BY DEF Here
<1>3. /\ Total(ins, Here(d, c)) \in Nat
      /\ \A x \in Here(d, c) : ins[x] <= Total(ins, Here(d, c))
  BY <1>1, <1>2, TotalCovers
<1>4. /\ Total(del, Here(d, c)) \in Nat
      /\ \A x \in Here(d, c) : del[x] <= Total(del, Here(d, c))
  BY <1>1, <1>2, TotalCovers
<1>5. Load(ins, del, d, c) = Total(ins, Here(d, c)) + Total(del, Here(d, c))
  BY DEF Load, Here
<1>6. QED BY <1>2, <1>3, <1>4, <1>5

(* Giving delta more to x adds delta to the load of x's column in each     *)
(* row, and to no other: for inserts and for deletes.                      *)
LEMMA TotalStep ==
    \A n \in [Keys -> Nat], x \in Keys, delta \in Nat : \A m :
        (\A y \in Keys : m[y] = IF y = x THEN n[x] + delta ELSE n[y]) =>
        \A d \in Rows, c \in Cols :
            Total(m, Here(d, c)) =
              IF c = Col(x, d) THEN Total(n, Here(d, c)) + delta ELSE Total(n, Here(d, c))
<1> SUFFICES
      ASSUME NEW n \in [Keys -> Nat], NEW x \in Keys, NEW delta \in Nat,
             NEW m, \A y \in Keys : m[y] = IF y = x THEN n[x] + delta ELSE n[y],
             NEW d \in Rows, NEW c \in Cols
      PROVE  Total(m, Here(d, c)) =
              IF c = Col(x, d) THEN Total(n, Here(d, c)) + delta ELSE Total(n, Here(d, c))
  OBVIOUS
<1>1. CASE c = Col(x, d)
  <2>1. IsFiniteSet(Here(d, c))
    BY KeysAssumption, FS_Subset DEF Here
  <2>2. x \in Here(d, c)
    BY <1>1 DEF Here
  <2>3. /\ \A y \in Here(d, c) : n[y] \in Nat
        /\ \A y \in Here(d, c) : m[y] = IF y = x THEN n[x] + delta ELSE n[y]
    BY DEF Here
  <2>4. Total(m, Here(d, c)) = Total(n, Here(d, c)) + delta
    BY <2>1, <2>2, <2>3, TotalAdd
  <2>5. QED BY <1>1, <2>4
<1>2. CASE c # Col(x, d)
  <2>1. \A y \in Here(d, c) : m[y] = n[y]
    BY <1>2 DEF Here
  <2>2. Total(m, Here(d, c)) = Total(n, Here(d, c))
    BY <2>1, TotalSame
  <2>3. QED BY <1>2, <2>2
<1>3. QED BY <1>1, <1>2

LEMMA InitLoads == Init => IInv
<1> SUFFICES ASSUME Init PROVE IInv
  OBVIOUS
<1>1. TypeOK
  BY InitType
<1>2. ASSUME NEW d \in Rows, NEW c \in Cols PROVE Load(inserted, deleted, d, c) = 0
  <2>1. /\ \A y \in Here(d, c) : inserted[y] = 0
        /\ \A y \in Here(d, c) : deleted[y] = 0
    BY DEF Init, Here
  <2>2. Total(inserted, Here(d, c)) = 0 /\ Total(deleted, Here(d, c)) = 0
    BY <2>1, TotalZero
  <2>3. QED BY <2>2 DEF Load, Here
<1>3. FatIsExactLoad
  BY <1>2, SizesAssumption DEF FatIsExactLoad, Init, Lesser
<1>4. SlimIsSnapshot
  <2> SUFFICES ASSUME NEW d \in Rows, NEW w \in Buckets
               PROVE slim[d][w] = MaxOf([i \in 0 .. (K - 1) |->
                        Lesser(Load(composed[1], composed[2], d, w * K + i), MaxC)])
    BY DEF SlimIsSnapshot
  <2> DEFINE f == [i \in 0 .. (K - 1) |->
                        Lesser(Load(composed[1], composed[2], d, w * K + i), MaxC)]
  <2>1. \A i \in 0 .. (K - 1) : f[i] = 0
    <3>1. composed[1] = inserted /\ composed[2] = deleted
      BY DEF Init
    <3>2. \A i \in 0 .. (K - 1) : Load(inserted, deleted, d, w * K + i) = 0
      BY <1>2, Layout
    <3>3. QED BY <3>1, <3>2, SizesAssumption DEF Lesser
  <2>2. DOMAIN f = 0 .. (K - 1)
    OBVIOUS
  <2> HIDE DEF f
  <2>3. \E i \in DOMAIN f : MaxOf(f) = f[i]
    <3>1. DOMAIN f # {} /\ \A i \in DOMAIN f : f[i] \in 0..0
      BY <2>1, <2>2, NonEmpty
    <3>2. 0 \in Nat OBVIOUS
    <3>3. QED BY <3>1, <3>2, MaxOfGreatest
  <2>4. MaxOf(f) = 0
    BY <2>1, <2>2, <2>3
  <2>5. slim[d][w] = 0
    BY DEF Init
  <2>6. QED BY <2>4, <2>5 DEF f
<1>5. QED BY <1>1, <1>3, <1>4 DEF IInv, FreshIsComposed, Init

(* An update moves the fat counters and the loads together.                *)
LEMMA UpdateLoads ==
    ASSUME TypeOK, FatIsExactLoad, NEW x \in Keys, NEW delta \in Deltas,
           Inc(x, delta) \/ Dec(x, delta)
    PROVE  FatIsExactLoad'
<1> USE SizesAssumption DEF TypeOK
<1>1. delta \in Nat
  BY DeltaAssumption
<1> SUFFICES ASSUME NEW d \in Rows, NEW c \in Cols
             PROVE fat'[d][c] = Lesser(Load(inserted', deleted', d, c), MaxC)
  BY DEF FatIsExactLoad
<1> DEFINE here == Here(d, c)
<1>2. fat'[d][c] = IF c = Col(x, d) THEN Lesser(fat[d][c] + delta, MaxC) ELSE fat[d][c]
  <2>1. IncROnly(x, delta) \/ DecROnly(x, delta)
    BY DEF Inc, Dec
  <2>2. QED BY <2>1, FatStep
<1>3. \/ inserted' = [inserted EXCEPT ![x] = @ + delta] /\ deleted' = deleted
      \/ deleted' = [deleted EXCEPT ![x] = @ + delta] /\ inserted' = inserted
  BY DEF Inc, Dec
<1>4. /\ Load(inserted, deleted, d, c) = Total(inserted, here) + Total(deleted, here)
      /\ Load(inserted', deleted', d, c) = Total(inserted', here) + Total(deleted', here)
  BY DEF Load, Here
<1>5. Total(inserted, here) \in Nat /\ Total(deleted, here) \in Nat
  <2>1. IsFiniteSet(here)
    BY KeysAssumption, FS_Subset DEF Here
  <2>2. /\ \A y \in here : inserted[y] \in Nat
        /\ \A y \in here : deleted[y] \in Nat
    BY DEF Here
  <2>3. QED BY <2>1, <2>2, TotalCovers
<1>6. Load(inserted', deleted', d, c) =
        IF c = Col(x, d) THEN Load(inserted, deleted, d, c) + delta
                         ELSE Load(inserted, deleted, d, c)
  <2>1. CASE inserted' = [inserted EXCEPT ![x] = @ + delta] /\ deleted' = deleted
    <3>1. \A y \in Keys : inserted'[y] = IF y = x THEN inserted[x] + delta ELSE inserted[y]
      BY <2>1
    <3> HIDE DEF TypeOK, here
    <3>2. Total(inserted', Here(d, c)) =
            IF c = Col(x, d) THEN Total(inserted, Here(d, c)) + delta
                             ELSE Total(inserted, Here(d, c))
      <4>1. inserted \in [Keys -> Nat]
        BY DEF TypeOK
      <4>2. QED BY <4>1, <3>1, <1>1, TotalStep
    <3>3. QED BY <2>1, <3>2, <1>1, <1>4, <1>5 DEF here
  <2>2. CASE deleted' = [deleted EXCEPT ![x] = @ + delta] /\ inserted' = inserted
    <3>1. \A y \in Keys : deleted'[y] = IF y = x THEN deleted[x] + delta ELSE deleted[y]
      BY <2>2
    <3> HIDE DEF TypeOK, here
    <3>2. Total(deleted', Here(d, c)) =
            IF c = Col(x, d) THEN Total(deleted, Here(d, c)) + delta
                             ELSE Total(deleted, Here(d, c))
      <4>1. deleted \in [Keys -> Nat]
        BY DEF TypeOK
      <4>2. QED BY <4>1, <3>1, <1>1, TotalStep
    <3>3. QED BY <2>2, <3>2, <1>1, <1>4, <1>5 DEF here
  <2>3. QED BY <1>3, <2>1, <2>2
<1>7. fat[d][c] = Lesser(Load(inserted, deleted, d, c), MaxC)
  BY DEF FatIsExactLoad
<1>8. Load(inserted, deleted, d, c) \in Nat
  BY <1>4, <1>5
<1>9. QED BY <1>1, <1>2, <1>6, <1>7, <1>8 DEF Lesser

LEMMA NextLoads == IInv /\ [Next]_vars => IInv'
<1> SUFFICES ASSUME IInv, [Next]_vars PROVE IInv'
  OBVIOUS
<1>1. TypeOK'
  BY NextType DEF IInv
<1>2. ASSUME NEW x \in Keys, NEW delta \in Deltas, Inc(x, delta) \/ Dec(x, delta)
      PROVE IInv'
  <2>1. FatIsExactLoad'
    BY <1>2, UpdateLoads DEF IInv
  <2>2. slim' = slim /\ composed' = composed /\ fresh' = FALSE
    BY <1>2 DEF Inc, Dec
  <2>3. SlimIsSnapshot'
    BY <2>2 DEF IInv, SlimIsSnapshot
  <2>4. QED BY <1>1, <2>1, <2>2, <2>3 DEF IInv, FreshIsComposed
<1>3. CASE ComposeSlim
  <2>1. /\ fat' = fat /\ inserted' = inserted /\ deleted' = deleted
        /\ composed'[1] = inserted /\ composed'[2] = deleted
        /\ composed' = <<inserted, deleted>>
    BY <1>3 DEF ComposeSlim
  <2>2. FatIsExactLoad'
    BY <2>1 DEF IInv, FatIsExactLoad
  <2>3. ASSUME NEW d \in Rows, NEW w \in Buckets
        PROVE slim'[d][w] = MaxOf([i \in 0 .. (K - 1) |->
                 Lesser(Load(composed'[1], composed'[2], d, w * K + i), MaxC)])
    <3>1. slim'[d][w] = MaxOf(BucketRow(fat[d], w))
      BY <1>3 DEF ComposeSlim
    <3>2. \A i \in 0 .. (K - 1) :
             fat[d][w * K + i] = Lesser(Load(inserted, deleted, d, w * K + i), MaxC)
      BY Layout DEF IInv, FatIsExactLoad
    <3>3. BucketRow(fat[d], w) = [i \in 0 .. (K - 1) |->
             Lesser(Load(inserted, deleted, d, w * K + i), MaxC)]
      BY <3>2 DEF BucketRow
    <3>4. QED BY <2>1, <3>1, <3>3
  <2>4. SlimIsSnapshot'
    BY <2>3 DEF SlimIsSnapshot
  <2>5. QED BY <1>1, <2>1, <2>2, <2>4 DEF IInv, FreshIsComposed
<1>4. CASE SetQuerySlim \/ SetQueryFat \/ UNCHANGED vars
  <2>1. UNCHANGED <<fat, slim, inserted, deleted, composed, fresh>>
    BY <1>4 DEF SetQuerySlim, SetQueryFat, history, vars
  <2>2. QED BY <1>1, <2>1
         DEF IInv, FatIsExactLoad, SlimIsSnapshot, FreshIsComposed
<1>5. QED BY <1>2, <1>3, <1>4 DEF Next

(* In every execution, each fat counter is the sum of what was added for   *)
(* the keys of its column, cut once at max_c.                              *)
THEOREM FatExact == Spec => []FatIsExactLoad
<1>1. IInv => FatIsExactLoad
  BY DEF IInv
<1>2. QED BY InitLoads, NextLoads, <1>1, PTL DEF Spec

(* In every execution, each slim counter is the largest load of its bucket *)
(* at the last compose_slim().                                             *)
THEOREM SlimExact == Spec => []SlimIsSnapshot
<1>1. IInv => SlimIsSnapshot
  BY DEF IInv
<1>2. QED BY InitLoads, NextLoads, <1>1, PTL DEF Spec

-----------------------------------------------------------------------------
(* One-sided answers *)

(* A slim counter is at least the saturated load every slot of its bucket  *)
(* had at the last compose_slim().                                         *)
LEMMA SnapshotCovers ==
    ASSUME TypeOK, SlimIsSnapshot, NEW d \in Rows, NEW w \in Buckets, NEW i \in 0 .. (K - 1)
    PROVE  Lesser(Load(composed[1], composed[2], d, w * K + i), MaxC) <= slim[d][w]
<1> DEFINE f == [j \in 0 .. (K - 1) |->
                    Lesser(Load(composed[1], composed[2], d, w * K + j), MaxC)]
<1>1. MaxC \in Nat
  BY SizesAssumption
<1>2. \A j \in 0 .. (K - 1) : f[j] \in 0..MaxC
  <2>1. composed[1] \in [Keys -> Nat] /\ composed[2] \in [Keys -> Nat]
    BY DEF TypeOK
  <2>2. \A j \in 0 .. (K - 1) : Load(composed[1], composed[2], d, w * K + j) \in Nat
    BY <2>1, Layout, LoadCovers
  <2>3. QED BY <1>1, <2>2 DEF Lesser
<1>3. DOMAIN f = 0 .. (K - 1) /\ DOMAIN f # {}
  BY NonEmpty
<1>4. slim[d][w] = MaxOf(f)
  BY DEF SlimIsSnapshot
<1>5. f[i] = Lesser(Load(composed[1], composed[2], d, w * K + i), MaxC)
  OBVIOUS
<1> HIDE DEF f
<1>6. f[i] <= MaxOf(f)
  BY <1>1, <1>2, <1>3, MaxOfGreatest
<1>7. QED BY <1>4, <1>5, <1>6

(* A load covers the net count of each key of the column.                  *)
LEMMA NetCovered ==
    ASSUME NEW ins \in [Keys -> Nat], NEW del \in [Keys -> Nat],
           NEW x \in Keys, NEW d \in Rows
    PROVE  Lesser(ins[x] - del[x], MaxC) <= Lesser(Load(ins, del, d, Col(x, d)), MaxC)
<1>1. Col(x, d) \in Cols /\ x \in Here(d, Col(x, d))
  BY Layout DEF Here
<1>2. /\ Load(ins, del, d, Col(x, d)) \in Nat
      /\ ins[x] + del[x] <= Load(ins, del, d, Col(x, d))
  BY <1>1, LoadCovers
<1>3. ins[x] \in Nat /\ del[x] \in Nat /\ MaxC \in Nat
  BY SizesAssumption
<1>4. QED BY <1>2, <1>3 DEF Lesser

(* The column of a key, as a slot of its bucket.                           *)
LEMMA OwnSlot ==
    ASSUME NEW x \in Keys, NEW d \in Rows
    PROVE  \E i \in 0 .. (K - 1) : Col(x, d) = BucketOf(x, d) * K + i
BY Layout

(* query_fat() never answers less than the net count of the key, cut at    *)
(* max_c.                                                                  *)
THEOREM FatCovers == Spec => []FatOneSided
<1>1. IInv => FatOneSided
  <2> SUFFICES ASSUME IInv, NEW x \in Keys
               PROVE FatQuery(x) >= Lesser(inserted[x] - deleted[x], MaxC)
    BY DEF FatOneSided
  <2> DEFINE f == FatCounters(fat, x)
  <2>1. f \in [Rows -> Nat]
    BY Layout, SizesAssumption DEF IInv, TypeOK, FatCounters
  <2>2. \A d \in Rows : f[d] >= Lesser(inserted[x] - deleted[x], MaxC)
    <3> SUFFICES ASSUME NEW d \in Rows PROVE f[d] >= Lesser(inserted[x] - deleted[x], MaxC)
      OBVIOUS
    <3>1. f[d] = Lesser(Load(inserted, deleted, d, Col(x, d)), MaxC)
      BY Layout DEF IInv, FatIsExactLoad, FatCounters
    <3>2. inserted \in [Keys -> Nat] /\ deleted \in [Keys -> Nat]
      BY DEF IInv, TypeOK
    <3>3. Lesser(inserted[x] - deleted[x], MaxC) <= Lesser(Load(inserted, deleted, d, Col(x, d)), MaxC)
      BY <3>2, NetCovered
    <3>4. inserted[x] \in Nat /\ deleted[x] \in Nat /\ MaxC \in Nat /\ f[d] \in Nat
      BY <2>1, <3>2, SizesAssumption
    <3>5. Lesser(inserted[x] - deleted[x], MaxC) \in Int
      BY <3>4 DEF Lesser
    <3>6. QED BY <3>1, <3>3, <3>4, <3>5
  <2>3. Lesser(inserted[x] - deleted[x], MaxC) \in Int
    BY SizesAssumption DEF IInv, TypeOK, Lesser
  <2> HIDE DEF f
  <2>4. MinOf(f) >= Lesser(inserted[x] - deleted[x], MaxC)
    BY <2>1, <2>2, <2>3, QueryValue
  <2>5. QED BY <2>4 DEF FatQuery, f
<1>2. QED BY InitLoads, NextLoads, <1>1, PTL DEF Spec

(* The slim counters of a key cover the net count that the key had at the  *)
(* last compose_slim().                                                    *)
LEMMA SlimNet == IInv => SlimOneSided
<1> SUFFICES ASSUME IInv, NEW x \in Keys
             PROVE SlimQuery(x) >= Lesser(composed[1][x] - composed[2][x], MaxC)
  BY DEF SlimOneSided
<1> DEFINE f == SlimCounters(slim, x)
<1>1. f \in [Rows -> Nat]
  BY Layout, SizesAssumption DEF IInv, TypeOK, SlimCounters
<1>2. composed[1] \in [Keys -> Nat] /\ composed[2] \in [Keys -> Nat]
  BY DEF IInv, TypeOK
<1>3. Lesser(composed[1][x] - composed[2][x], MaxC) \in Int
  BY <1>2, SizesAssumption DEF Lesser
<1>4. ASSUME NEW d \in Rows PROVE f[d] >= Lesser(composed[1][x] - composed[2][x], MaxC)
  <2>1. PICK i \in 0 .. (K - 1) : Col(x, d) = BucketOf(x, d) * K + i
    BY OwnSlot
  <2>2. f[d] = slim[d][BucketOf(x, d)] /\ BucketOf(x, d) \in Buckets /\ f[d] \in Nat
    BY <1>1, Layout DEF SlimCounters
  <2>3. Lesser(Load(composed[1], composed[2], d, Col(x, d)), MaxC) <= f[d]
    BY <2>1, <2>2, SnapshotCovers DEF IInv
  <2>4. Lesser(composed[1][x] - composed[2][x], MaxC)
           <= Lesser(Load(composed[1], composed[2], d, Col(x, d)), MaxC)
    BY <1>2, NetCovered
  <2>5. Lesser(Load(composed[1], composed[2], d, Col(x, d)), MaxC) \in Int
    <3>1. Load(composed[1], composed[2], d, Col(x, d)) \in Nat
      BY <1>2, Layout, LoadCovers
    <3>2. QED BY <3>1, SizesAssumption DEF Lesser
  <2>6. QED BY <1>3, <2>2, <2>3, <2>4, <2>5
<1> HIDE DEF f
<1>5. MinOf(f) >= Lesser(composed[1][x] - composed[2][x], MaxC)
  BY <1>1, <1>3, <1>4, QueryValue
<1>6. QED BY <1>5 DEF SlimQuery, f

(* query_slim() never answers less than the net count the key had at the   *)
(* last compose_slim(), cut at max_c.                                      *)
THEOREM SlimCovers == Spec => []SlimOneSided
BY InitLoads, NextLoads, SlimNet, PTL DEF Spec

(* Right after compose_slim(), and until the next update, the slim answer  *)
(* is never below the fat one.                                             *)
THEOREM FreshSlimCoversFat == Spec => []FreshSlimDominatesFat
<1>1. IInv => FreshSlimDominatesFat
  <2> SUFFICES ASSUME IInv, fresh, NEW x \in Keys PROVE SlimQuery(x) >= FatQuery(x)
    BY DEF FreshSlimDominatesFat
  <2> DEFINE f == FatCounters(fat, x)
  <2> DEFINE s == SlimCounters(slim, x)
  <2>1. f \in [Rows -> Nat] /\ s \in [Rows -> Nat]
    BY Layout, SizesAssumption DEF IInv, TypeOK, FatCounters, SlimCounters
  <2>2. ASSUME NEW d \in Rows PROVE f[d] <= s[d]
    <3>1. PICK i \in 0 .. (K - 1) : Col(x, d) = BucketOf(x, d) * K + i
      BY OwnSlot
    <3>2. s[d] = slim[d][BucketOf(x, d)] /\ BucketOf(x, d) \in Buckets
      BY Layout DEF SlimCounters
    <3>3. composed[1] = inserted /\ composed[2] = deleted
      BY DEF IInv, FreshIsComposed
    <3>4. f[d] = Lesser(Load(inserted, deleted, d, Col(x, d)), MaxC)
      BY Layout DEF IInv, FatIsExactLoad, FatCounters
    <3>5. Lesser(Load(composed[1], composed[2], d, Col(x, d)), MaxC) <= slim[d][BucketOf(x, d)]
      BY <3>1, <3>2, SnapshotCovers DEF IInv
    <3>6. QED BY <3>2, <3>3, <3>4, <3>5
  <2> HIDE DEF f, s
  <2>3. MinOf(f) \in Nat /\ \A d \in Rows : MinOf(f) <= f[d]
    BY <2>1, QueryValue
  <2>4. \A d \in Rows : s[d] >= MinOf(f)
    <3>1. \A d \in Rows : f[d] \in Nat /\ s[d] \in Nat
      BY <2>1
    <3>2. QED BY <2>2, <2>3, <3>1
  <2>5. MinOf(s) >= MinOf(f)
    <3>1. MinOf(f) \in Int BY <2>3
    <3>2. QED BY <2>1, <2>4, <3>1, QueryValue
  <2>6. QED BY <2>5 DEF FatQuery, SlimQuery, f, s
<1>2. QED BY InitLoads, NextLoads, <1>1, PTL DEF Spec
=============================================================================
