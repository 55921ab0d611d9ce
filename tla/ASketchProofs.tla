---------------------------- MODULE ASketchProofs ----------------------------
(***************************************************************************)
(* Theorems about ASketch, for any keys, hash functions, filter and sketch *)
(* sizes its assumption allows.                                            *)
(***************************************************************************)
EXTENDS ASketch, CountersProofs

Tables == [Rows -> [Cols -> Nat]]

TypeOK ==
    /\ items \in [Slots -> Keys \cup {None}]
    /\ newCount \in [Slots -> Nat]
    /\ oldCount \in [Slots -> Nat]
    /\ counter \in Tables
    /\ count \in [Keys -> Nat]
    /\ skipped \in BOOLEAN

(* No key is in two slots.                                                 *)
Injective == \A i, j \in Slots : items[i] = items[j] /\ items[i] # None => i = j

(* What the sketch has of a key is part of what is known of it.            *)
OldWithinNew == \A i \in Slots : oldCount[i] <= newCount[i]

(* While a slot is free, a key that is in none has not been seen.          *)
FreeMeansUnseen == Free # {} => \A x \in Keys : Held(x) = {} => count[x] = 0

PendingIsPart == \A x \in Keys : Pending(x) <= count[x]

SketchCovers ==
    \A x \in Keys, d \in Rows :
        counter[d][Pos(x, d)] >= Lesser(count[x] - Pending(x), MaxCnt)

FilterCovers ==
    \A i \in Slots, x \in Keys : items[i] = x => newCount[i] >= Lesser(count[x], MaxCnt)

FilterWithin ==
    ~skipped => \A i \in Slots, x \in Keys, d \in Rows :
        items[i] = x => newCount[i] <= Total(count, Here(d, Pos(x, d)))

(* The inductive invariant.                                                *)
IInv ==
    /\ TypeOK /\ Injective /\ OldWithinNew
    /\ FreeMeansUnseen /\ PendingIsPart
    /\ SketchCovers /\ FilterCovers
    /\ NothingLost /\ FilterWithin

-----------------------------------------------------------------------------
(* Reading the filter and the sketch *)

LEMMA Layout ==
    /\ 0 \in Rows /\ 0 \in Slots
    /\ \A x \in Keys, d \in Rows : Pos(x, d) \in Cols
<1> USE ASketchAssumption
<1>1. 0 \in Rows /\ 0 \in Slots
  BY DEF Rows, Slots
<1>2. ASSUME NEW x \in Keys, NEW d \in Rows PROVE Pos(x, d) \in Cols
  <2>1. Hash[x][d] \in Nat
    OBVIOUS
  <2>2. QED BY <2>1 DEF Pos, Cols
<1>3. QED BY <1>1, <1>2

(* What Pending() is of a key in a slot, and of one in none.               *)
PendingIs ==
    /\ \A x \in Keys : Held(x) = {} => Pending(x) = 0
    /\ \A i \in Slots, x \in Keys : items[i] = x =>
          /\ Held(x) # {} /\ Min(Held(x)) = i
          /\ Pending(x) = newCount[i] - oldCount[i]

LEMMA MinOfOne == \A i \in Nat : Min({i}) = i
<1> SUFFICES ASSUME NEW i \in Nat PROVE Min({i}) = i
  OBVIOUS
<1>1. {i} \in SUBSET Nat /\ {i} # {}
  OBVIOUS
<1>2. Min({i}) \in {i}
  BY <1>1, MinIsLeast
<1>3. QED BY <1>2

LEMMA SlotOfKey == Injective => PendingIs
<1> SUFFICES ASSUME Injective PROVE PendingIs
  OBVIOUS
<1>1. ASSUME NEW i \in Slots, NEW x \in Keys, items[i] = x
      PROVE  Held(x) # {} /\ Min(Held(x)) = i
  <2>1. Held(x) = {i}
    BY <1>1, ASketchAssumption DEF Held, Injective
  <2>2. i \in Nat
    BY DEF Slots
  <2>3. QED BY <2>1, <2>2, MinOfOne
<1>2. QED BY <1>1 DEF PendingIs, Pending

(* Added() raises the counters of x that are not at MaxCnt by n.           *)
LEMMA AddedStep ==
    ASSUME NEW c \in Tables, NEW x \in Keys, NEW n \in Nat
    PROVE  /\ Added(c, x, n) \in Tables
           /\ \A d \in Rows, k \in Cols :
                 Added(c, x, n)[d][k] = IF k = Pos(x, d) /\ c[d][k] # MaxCnt
                                        THEN c[d][k] + n ELSE c[d][k]
<1> DEFINE t == Added(c, x, n)
<1>1. t = [d \in Rows |-> [c[d] EXCEPT ![Pos(x, d)] = IF @ # MaxCnt THEN @ + n ELSE @]]
  BY DEF Added
<1>2. \A d \in Rows : c[d] \in [Cols -> Nat] /\ Pos(x, d) \in Cols
  BY Layout DEF Tables
<1> HIDE DEF t
<1>3. \A d \in Rows, k \in Cols :
         t[d][k] = IF k = Pos(x, d) /\ c[d][k] # MaxCnt THEN c[d][k] + n ELSE c[d][k]
  BY <1>1, <1>2
<1>4. \A d \in Rows : t[d] \in [Cols -> Nat]
  BY <1>1, <1>2
<1>5. t \in Tables
  BY <1>1, <1>4 DEF Tables
<1>6. QED BY <1>3, <1>5 DEF t

(* The estimate of an insertion is one more than the smallest counter that *)
(* is not at MaxCnt, and Top when there is none or it is beyond.           *)
LEMMA EstimateIs ==
    ASSUME counter \in Tables, NEW x \in Keys
    PROVE  /\ Estimate(x) \in Nat
           /\ \/ Estimate(x) = Top
              \/ \E d \in Rows : /\ counter[d][Pos(x, d)] # MaxCnt
                                 /\ Estimate(x) = counter[d][Pos(x, d)] + 1
           /\ \A d \in Rows : counter[d][Pos(x, d)] # MaxCnt =>
                                 Estimate(x) <= counter[d][Pos(x, d)] + 1
<1> DEFINE S == {Top} \cup {Cells(counter, x)[d] + 1 :
                               d \in {e \in Rows : Cells(counter, x)[e] # MaxCnt}}
<1>1. \A d \in Rows : /\ Cells(counter, x)[d] = counter[d][Pos(x, d)]
                      /\ counter[d][Pos(x, d)] \in Nat
  BY Layout DEF Cells, Tables
<1>2. S \in SUBSET Nat /\ S # {}
  BY <1>1, ASketchAssumption
<1>3. Min(S) \in S /\ \A n \in S : Min(S) <= n
  BY <1>2, MinIsLeast
<1>4. Estimate(x) = Min(S)
  BY DEF Estimate
<1>5. \A d \in Rows : counter[d][Pos(x, d)] # MaxCnt => counter[d][Pos(x, d)] + 1 \in S
  BY <1>1
<1>6. \/ Min(S) = Top
      \/ \E d \in Rows : /\ counter[d][Pos(x, d)] # MaxCnt
                         /\ Min(S) = counter[d][Pos(x, d)] + 1
  BY <1>1, <1>3
<1>7. Min(S) \in Nat
  BY <1>2, <1>3
<1> HIDE DEF S
<1>8. QED BY <1>3, <1>4, <1>5, <1>6, <1>7

(* The slot that is given up exists.                                       *)
LEMMA VictimSlot == Victim \in Slots
<1> DEFINE least == {i \in Slots : newCount[i] < Top /\ newCount[i] = MinValue}
<1>1. Victim = IF least = {} THEN 0 ELSE Min(least)
  BY DEF Victim
<1>2. CASE least = {}
  BY <1>1, <1>2, Layout
<1>3. CASE least # {}
  <2>1. least \in SUBSET Nat /\ least \in SUBSET Slots
    BY DEF Slots
  <2> HIDE DEF least
  <2>2. Min(least) \in least
    BY <1>3, <2>1, MinIsLeast
  <2>3. QED BY <1>1, <1>3, <2>1, <2>2
<1>4. QED BY <1>2, <1>3

(* The total of the keys of a counter, and what delta more for one of them *)
(* makes of it.                                                            *)
Gains(x, delta, d, k, old, new) ==
    /\ old \in Nat
    /\ k = Pos(x, d) => new = old + delta
    /\ k # Pos(x, d) => new = old

LEMMA HereTotals ==
    \A n \in [Keys -> Nat], x \in Keys, delta \in Nat : \A m :
        (\A y \in Keys : m[y] = IF y = x THEN n[x] + delta ELSE n[y]) =>
        \A d \in Rows, k \in Cols :
            Gains(x, delta, d, k, Total(n, Here(d, k)), Total(m, Here(d, k)))
<1> SUFFICES
      ASSUME NEW n \in [Keys -> Nat], NEW x \in Keys, NEW delta \in Nat,
             NEW m, \A y \in Keys : m[y] = IF y = x THEN n[x] + delta ELSE n[y],
             NEW d \in Rows, NEW k \in Cols
      PROVE  Gains(x, delta, d, k, Total(n, Here(d, k)), Total(m, Here(d, k)))
  OBVIOUS
<1> DEFINE S == Here(d, k)
<1>1. /\ IsFiniteSet(S) /\ S \in SUBSET Keys
      /\ x \in S <=> k = Pos(x, d)
  BY ASketchAssumption, FS_Subset DEF Here
<1> HIDE DEF S
<1>2. /\ \A y \in S : n[y] \in Nat
      /\ \A y \in S : m[y] = IF y = x THEN n[x] + delta ELSE n[y]
  BY <1>1
<1>3. Total(n, S) \in Nat
  BY <1>1, <1>2, TotalCovers
<1>4. Total(m, S) = IF x \in S THEN Total(n, S) + delta ELSE Total(n, S)
  BY <1>1, <1>2, TotalMoves
<1>5. QED BY <1>1, <1>3, <1>4 DEF S, Gains

-----------------------------------------------------------------------------
(* The invariant holds of the empty sketch *)

LEMMA InitInv == Init => IInv
<1> SUFFICES ASSUME Init PROVE IInv
  OBVIOUS
<1> USE ASketchAssumption
<1>1. TypeOK
  BY DEF Init, TypeOK, Tables
<1>2. /\ \A i \in Slots : items[i] = None /\ newCount[i] = 0 /\ oldCount[i] = 0
      /\ \A x \in Keys : count[x] = 0
      /\ \A d \in Rows, k \in Cols : counter[d][k] = 0
      /\ ~skipped
  BY DEF Init
<1>3. Injective /\ OldWithinNew
  BY <1>2 DEF Injective, OldWithinNew
<1>4. \A x \in Keys : Held(x) = {} /\ Pending(x) = 0
  BY <1>2 DEF Held, Pending
<1>5. FreeMeansUnseen /\ PendingIsPart /\ FilterCovers /\ FilterWithin
  BY <1>2, <1>4 DEF FreeMeansUnseen, PendingIsPart, FilterCovers, FilterWithin
<1>6. SketchCovers
  <2>1. Lesser(0, MaxCnt) = 0
    BY DEF Lesser
  <2>2. ASSUME NEW x \in Keys, NEW d \in Rows
        PROVE  counter[d][Pos(x, d)] >= Lesser(count[x] - Pending(x), MaxCnt)
    <3>1. Pos(x, d) \in Cols /\ count[x] - Pending(x) = 0
      BY <1>2, <1>4, Layout
    <3>2. QED BY <1>2, <2>1, <3>1
  <2>3. QED BY <2>2 DEF SketchCovers
<1>7. NothingLost
  <2>1. ASSUME NEW d \in Rows, NEW k \in Cols
        PROVE  Total([x \in Keys |-> count[x] - Pending(x)], Here(d, k)) = 0
    <3>1. \A y \in Here(d, k) : [x \in Keys |-> count[x] - Pending(x)][y] = 0
      BY <1>2, <1>4 DEF Here
    <3>2. QED BY <3>1, TotalZero
  <2>2. QED BY <1>2, <2>1 DEF NothingLost
<1>8. QED BY <1>1, <1>3, <1>5, <1>6, <1>7 DEF IInv

-----------------------------------------------------------------------------
(* What one insertion does *)

(* What the sketch itself has been given of each key.                      *)
Sketched == [x \in Keys |-> count[x] - Pending(x)]

LEMMA SketchedType ==
    TypeOK /\ Injective /\ OldWithinNew /\ PendingIsPart =>
      /\ Sketched \in [Keys -> Nat]
      /\ \A x \in Keys : /\ Sketched[x] = count[x] - Pending(x) /\ Sketched[x] <= count[x]
                         /\ Pending(x) \in Nat
<1> SUFFICES ASSUME TypeOK, Injective, OldWithinNew, PendingIsPart, NEW x \in Keys
             PROVE  Pending(x) \in Nat /\ count[x] - Pending(x) \in Nat /\ count[x] - Pending(x) <= count[x]
  BY DEF Sketched
<1>1. Pending(x) \in Nat
  <2>1. CASE Held(x) = {}
    BY <2>1, SlotOfKey DEF PendingIs
  <2>2. CASE Held(x) # {}
    <3>1. PICK i \in Slots : items[i] = x
      BY <2>2 DEF Held
    <3>2. Pending(x) = newCount[i] - oldCount[i]
      BY <3>1, SlotOfKey DEF PendingIs
    <3>3. newCount[i] \in Nat /\ oldCount[i] \in Nat /\ oldCount[i] <= newCount[i]
      BY DEF TypeOK, OldWithinNew
    <3>4. QED BY <3>2, <3>3
  <2>3. QED BY <2>1, <2>2
<1>2. count[x] \in Nat /\ Pending(x) <= count[x]
  BY DEF TypeOK, PendingIsPart
<1>3. QED BY <1>1, <1>2

(* The count of x rises by one, and so do the totals of its counters.      *)
Counted(x) ==
    /\ count' \in [Keys -> Nat]
    /\ \A y \in Keys : count'[y] = IF y = x THEN count[x] + 1 ELSE count[y]
    /\ \A d \in Rows, k \in Cols :
          Gains(x, 1, d, k, Total(count, Here(d, k)), Total(count', Here(d, k)))

LEMMA CountStep ==
    ASSUME TypeOK, NEW x \in Keys, Count(x) PROVE Counted(x)
<1>1. /\ count \in [Keys -> Nat] /\ count' \in [Keys -> Nat]
      /\ \A y \in Keys : count'[y] = IF y = x THEN count[x] + 1 ELSE count[y]
  BY DEF TypeOK, Count
<1>2. \A d \in Rows, k \in Cols :
         Gains(x, 1, d, k, Total(count, Here(d, k)), Total(count', Here(d, k)))
  <2>1. 1 \in Nat
    OBVIOUS
  <2>2. QED BY <1>1, <2>1, HereTotals
<1>3. QED BY <1>1, <1>2 DEF Counted

(* The filter alone counts x: what the sketch has been given stays.        *)
LEMMA FilterStep ==
    ASSUME IInv, NEW x \in Keys, Counted(x), UNCHANGED <<counter, skipped>>,
           \A y \in Keys : Sketched'[y] = Sketched[y]
    PROVE  SketchCovers' /\ NothingLost'
<1>1. \A y \in Keys : (count[y] - Pending(y))' = count[y] - Pending(y)
  BY DEF Sketched
<1>2. SketchCovers'
  BY <1>1 DEF IInv, SketchCovers, Pos
<1>3. NothingLost'
  <2> SUFFICES ASSUME ~skipped, NEW d \in Rows, NEW k \in Cols
               PROVE  counter[d][k] = Total(Sketched', Here(d, k))
    BY DEF NothingLost, Sketched, Here, Pos
  <2>1. \A y \in Here(d, k) : Sketched'[y] = Sketched[y]
    BY DEF Here
  <2>2. Total(Sketched', Here(d, k)) = Total(Sketched, Here(d, k))
    BY <2>1, TotalSame
  <2>3. counter[d][k] = Total(Sketched, Here(d, k))
    BY DEF IInv, NothingLost, Sketched
  <2>4. QED BY <2>2, <2>3
<1>4. QED BY <1>2, <1>3

LEMMA HeldStep ==
    ASSUME IInv, NEW x \in Keys, Counted(x), InsertHeld(x)
    PROVE  IInv'
<1>1. /\ TypeOK /\ Injective /\ OldWithinNew /\ FreeMeansUnseen /\ PendingIsPart
      /\ FilterCovers /\ FilterWithin /\ PendingIs
  BY SlotOfKey DEF IInv
<1>2. PICK i \in Slots : items[i] = x
  BY DEF InsertHeld, Held
<1>3. /\ newCount' = [newCount EXCEPT ![i] = @ + 1]
      /\ UNCHANGED <<items, oldCount, counter, skipped>>
  BY <1>1, <1>2 DEF InsertHeld, PendingIs
<1>4. /\ newCount \in [Slots -> Nat] /\ oldCount \in [Slots -> Nat] /\ count \in [Keys -> Nat]
      /\ newCount' \in [Slots -> Nat]
      /\ \A j \in Slots : newCount'[j] = IF j = i THEN newCount[i] + 1 ELSE newCount[j]
  BY <1>1, <1>3 DEF TypeOK
<1>5. TypeOK'
  BY <1>1, <1>3, <1>4 DEF TypeOK, Counted
<1>6. Injective' /\ OldWithinNew'
  BY <1>1, <1>3, <1>4 DEF Injective, OldWithinNew
<1>7. PendingIs'
  BY <1>6, SlotOfKey, PTL
<1>8. \A y \in Keys : Held(y)' = Held(y)
  BY <1>3 DEF Held
<1>9. ASSUME NEW y \in Keys
      PROVE  Pending(y)' = IF y = x THEN Pending(x) + 1 ELSE Pending(y)
  <2>1. CASE Held(y) = {}
    <3>1. y # x
      BY <2>1 DEF InsertHeld
    <3>2. QED BY <1>1, <1>7, <1>8, <2>1, <3>1 DEF PendingIs
  <2>2. CASE Held(y) # {}
    <3>1. PICK j \in Slots : items[j] = y
      BY <2>2 DEF Held
    <3>2. Pending(y) = newCount[j] - oldCount[j] /\ Pending(y)' = newCount'[j] - oldCount[j]
      BY <1>1, <1>3, <1>7, <3>1 DEF PendingIs
    <3>3. j = i <=> y = x
      BY <1>1, <1>2, <3>1, ASketchAssumption DEF Injective
    <3>4. newCount[j] \in Nat /\ oldCount[j] \in Nat
      BY <1>4
    <3>5. newCount'[j] = IF j = i THEN newCount[i] + 1 ELSE newCount[j]
      BY <1>4
    <3>6. QED BY <3>2, <3>3, <3>4, <3>5
  <2>3. QED BY <2>1, <2>2
<1>10. /\ \A y \in Keys : Pending(y) \in Nat /\ count[y] \in Nat /\ Pending(y) <= count[y]
       /\ \A y \in Keys : count'[y] = IF y = x THEN count[x] + 1 ELSE count[y]
  BY <1>1, <1>4, SketchedType DEF Counted, PendingIsPart
<1>11. PendingIsPart'
  BY <1>9, <1>10 DEF PendingIsPart
<1>12. \A y \in Keys : Sketched'[y] = Sketched[y]
  <2>1. \A y \in Keys : count'[y] - Pending(y)' = count[y] - Pending(y)
    BY <1>9, <1>10
  <2>2. QED BY <2>1 DEF Sketched
<1>13. SketchCovers' /\ NothingLost'
  BY <1>3, <1>12, FilterStep
<1>14. FreeMeansUnseen'
  <2>1. Free' = Free
    BY <1>3 DEF Free, Held
  <2>2. QED BY <1>1, <1>8, <1>10, <2>1 DEF FreeMeansUnseen, InsertHeld
<1>15. FilterCovers'
  <2> SUFFICES ASSUME NEW j \in Slots, NEW y \in Keys, items[j] = y
               PROVE  newCount'[j] >= Lesser(count'[y], MaxCnt)
    BY <1>3 DEF FilterCovers
  <2>1. newCount[j] >= Lesser(count[y], MaxCnt)
    BY <1>1 DEF FilterCovers
  <2>2. j = i <=> y = x
    BY <1>1, <1>2, ASketchAssumption DEF Injective
  <2>3. newCount'[j] = IF y = x THEN newCount[j] + 1 ELSE newCount[j]
    BY <1>4, <2>2
  <2>4. newCount[j] \in Nat /\ count[y] \in Nat /\ MaxCnt \in Nat
    BY <1>4, ASketchAssumption
  <2>5. QED BY <1>10, <2>1, <2>3, <2>4 DEF Lesser
<1>16. FilterWithin'
  <2> SUFFICES ASSUME ~skipped, NEW j \in Slots, NEW y \in Keys, NEW d \in Rows, items[j] = y
               PROVE  newCount'[j] <= Total(count', Here(d, Pos(y, d)))
    BY <1>3 DEF FilterWithin, Here, Pos
  <2> DEFINE old == Total(count, Here(d, Pos(y, d)))
             new == Total(count', Here(d, Pos(y, d)))
  <2>1. newCount[j] <= old
    BY <1>1 DEF FilterWithin
  <2>2. old \in Nat /\ new \in Nat /\ new >= old /\ (y = x => new = old + 1)
    <3>1. Pos(y, d) \in Cols
      BY Layout
    <3>2. /\ old \in Nat
          /\ Pos(y, d) = Pos(x, d) => new = old + 1
          /\ Pos(y, d) # Pos(x, d) => new = old
      BY <3>1 DEF Counted, Gains
    <3> HIDE DEF old, new
    <3>3. QED BY <3>2
  <2>3. j = i <=> y = x
    BY <1>1, <1>2, ASketchAssumption DEF Injective
  <2>4. newCount'[j] = (IF y = x THEN newCount[j] + 1 ELSE newCount[j]) /\ newCount[j] \in Nat
    BY <1>4, <2>3
  <2> HIDE DEF old, new
  <2>5. newCount'[j] <= new
    <3>1. CASE y = x
      BY <2>1, <2>2, <2>4, <3>1
    <3>2. CASE y # x
      BY <2>1, <2>2, <2>4, <3>2
    <3>3. QED BY <3>1, <3>2
  <2>6. QED BY <2>5 DEF new
<1>17. QED BY <1>5, <1>6, <1>11, <1>13, <1>14, <1>15, <1>16 DEF IInv

LEMMA FreeStep ==
    ASSUME IInv, NEW x \in Keys, Counted(x), InsertFree(x)
    PROVE  IInv'
<1> USE ASketchAssumption
<1> DEFINE i == Min(Free)
<1>1. /\ TypeOK /\ Injective /\ OldWithinNew /\ FreeMeansUnseen /\ PendingIsPart
      /\ FilterCovers /\ FilterWithin /\ PendingIs
  BY SlotOfKey DEF IInv
<1>2. i \in Slots /\ items[i] = None
  <2>1. Free \in SUBSET Nat /\ Free # {}
    BY DEF InsertFree, Free, Held, Slots
  <2>2. Min(Free) \in Free
    BY <2>1, MinIsLeast
  <2>3. QED BY <2>2 DEF Free, Held
<1>3. /\ items' = [items EXCEPT ![i] = x]
      /\ newCount' = [newCount EXCEPT ![i] = 1]
      /\ oldCount' = [oldCount EXCEPT ![i] = 0]
      /\ UNCHANGED <<counter, skipped>>
      /\ Held(x) = {} /\ Free # {}
  BY DEF InsertFree
<1> HIDE DEF i
<1>4. /\ items \in [Slots -> Keys \cup {None}]
      /\ newCount \in [Slots -> Nat] /\ oldCount \in [Slots -> Nat] /\ count \in [Keys -> Nat]
  BY <1>1 DEF TypeOK
<1>5. TypeOK'
  BY <1>1, <1>3, <1>4 DEF TypeOK, Counted
<1>6. \A j \in Slots :
         /\ items'[j] = IF j = i THEN x ELSE items[j]
         /\ newCount'[j] = IF j = i THEN 1 ELSE newCount[j]
         /\ oldCount'[j] = IF j = i THEN 0 ELSE oldCount[j]
  BY <1>3, <1>4
<1>7. \A j \in Slots : items[j] # x
  BY <1>3 DEF Held
<1>8. Injective' /\ OldWithinNew'
  <2>1. Injective'
    BY <1>1, <1>6, <1>7 DEF Injective
  <2>2. OldWithinNew'
    BY <1>1, <1>6 DEF OldWithinNew
  <2>3. QED BY <2>1, <2>2
<1>9. PendingIs'
  BY <1>8, SlotOfKey, PTL
<1>10. count[x] = 0
  BY <1>1, <1>3 DEF FreeMeansUnseen
<1>11. ASSUME NEW y \in Keys
       PROVE  Pending(y)' = IF y = x THEN 1 ELSE Pending(y)
  <2>1. CASE y = x
    <3>1. Pending(x)' = newCount'[i] - oldCount'[i]
      BY <1>2, <1>6, <1>9 DEF PendingIs
    <3>2. QED BY <1>2, <1>6, <2>1, <3>1
  <2>2. CASE y # x /\ Held(y) = {}
    <3>1. Held(y)' = {}
      BY <1>6, <2>2 DEF Held
    <3>2. QED BY <1>1, <1>9, <2>2, <3>1 DEF PendingIs
  <2>3. CASE y # x /\ Held(y) # {}
    <3>1. PICK j \in Slots : items[j] = y
      BY <2>3 DEF Held
    <3>2. j # i /\ items'[j] = y
      BY <1>2, <1>6, <3>1
    <3>3. Pending(y) = newCount[j] - oldCount[j] /\ Pending(y)' = newCount'[j] - oldCount'[j]
      BY <1>1, <1>9, <3>1, <3>2 DEF PendingIs
    <3>4. QED BY <1>6, <2>3, <3>2, <3>3
  <2>4. QED BY <2>1, <2>2, <2>3
<1>12. /\ \A y \in Keys : Pending(y) \in Nat /\ count[y] \in Nat /\ Pending(y) <= count[y]
       /\ \A y \in Keys : count'[y] = IF y = x THEN count[x] + 1 ELSE count[y]
  BY <1>1, <1>4, SketchedType DEF Counted, PendingIsPart
<1>13. PendingIsPart'
  BY <1>10, <1>11, <1>12 DEF PendingIsPart
<1>14. \A y \in Keys : Sketched'[y] = Sketched[y]
  <2>1. Pending(x) = 0
    BY <1>1, <1>3 DEF PendingIs
  <2>2. \A y \in Keys : count'[y] - Pending(y)' = count[y] - Pending(y)
    BY <1>10, <1>11, <1>12, <2>1
  <2>3. QED BY <2>2 DEF Sketched
<1>15. SketchCovers' /\ NothingLost'
  BY <1>3, <1>14, FilterStep
<1>16. FreeMeansUnseen'
  <2> SUFFICES ASSUME NEW y \in Keys, Held(y)' = {}
               PROVE  count'[y] = 0
    BY DEF FreeMeansUnseen
  <2>1. y # x /\ Held(y) = {}
    <3>1. \A j \in Slots : items'[j] # y
      BY DEF Held
    <3>2. \A j \in Slots : items[j] # y
      BY <1>2, <1>6, <3>1
    <3>3. QED BY <1>2, <1>6, <3>1, <3>2 DEF Held
  <2>2. QED BY <1>1, <1>3, <1>12, <2>1 DEF FreeMeansUnseen
<1>17. FilterCovers'
  <2> SUFFICES ASSUME NEW j \in Slots, NEW y \in Keys, items'[j] = y
               PROVE  newCount'[j] >= Lesser(count'[y], MaxCnt)
    BY DEF FilterCovers
  <2>1. CASE j = i
    <3>1. y = x /\ newCount'[j] = 1 /\ count'[y] = 1
      BY <1>6, <1>10, <1>12, <2>1
    <3>2. QED BY <3>1 DEF Lesser
  <2>2. CASE j # i
    <3>1. y # x /\ items[j] = y /\ newCount'[j] = newCount[j] /\ count'[y] = count[y]
      BY <1>6, <1>7, <1>12, <2>2
    <3>2. QED BY <1>1, <3>1 DEF FilterCovers
  <2>3. QED BY <2>1, <2>2
<1>18. FilterWithin'
  <2> SUFFICES ASSUME ~skipped, NEW j \in Slots, NEW y \in Keys, NEW d \in Rows, items'[j] = y
               PROVE  newCount'[j] <= Total(count', Here(d, Pos(y, d)))
    BY <1>3 DEF FilterWithin, Here, Pos
  <2> DEFINE old == Total(count, Here(d, Pos(y, d)))
             new == Total(count', Here(d, Pos(y, d)))
  <2>1. old \in Nat /\ new \in Nat /\ new >= old /\ (y = x => new = old + 1)
    <3>1. Pos(y, d) \in Cols
      BY Layout
    <3>2. /\ old \in Nat
          /\ Pos(y, d) = Pos(x, d) => new = old + 1
          /\ Pos(y, d) # Pos(x, d) => new = old
      BY <3>1 DEF Counted, Gains
    <3> HIDE DEF old, new
    <3>3. QED BY <3>2
  <2>2. CASE j = i
    <3>1. y = x /\ newCount'[j] = 1
      BY <1>6, <2>2
    <3> HIDE DEF old, new
    <3>2. newCount'[j] <= new
      BY <2>1, <3>1
    <3>3. QED BY <3>2 DEF new
  <2>3. CASE j # i
    <3>1. items[j] = y /\ newCount'[j] = newCount[j] /\ newCount[j] \in Nat
      BY <1>4, <1>6, <2>3
    <3>2. newCount[j] <= old
      BY <1>1, <3>1 DEF FilterWithin
    <3> HIDE DEF old, new
    <3>3. newCount'[j] <= new
      BY <2>1, <3>1, <3>2
    <3>4. QED BY <3>3 DEF new
  <2>4. QED BY <2>2, <2>3
<1>19. QED BY <1>5, <1>8, <1>13, <1>15, <1>16, <1>17, <1>18 DEF IInv

(* The sketch after an insertion that misses the filter: one more for x,   *)
(* and n for the key v that is driven out, if one is.                      *)
AddedTwice(x, v, n) == Added(Added(counter, x, 1), v, n)

(* Adding nothing changes nothing.                                         *)
LEMMA AddedNothing ==
    ASSUME NEW c \in Tables, NEW x \in Keys
    PROVE  Added(c, x, 0) = c
<1>1. /\ Added(c, x, 0) \in Tables
      /\ \A d \in Rows, k \in Cols :
            Added(c, x, 0)[d][k] = IF k = Pos(x, d) /\ c[d][k] # MaxCnt
                                   THEN c[d][k] + 0 ELSE c[d][k]
  BY AddedStep
<1>2. \A d \in Rows, k \in Cols : c[d][k] \in Nat
  BY DEF Tables
<1>3. \A d \in Rows, k \in Cols : Added(c, x, 0)[d][k] = c[d][k]
  BY <1>1, <1>2
<1> DEFINE t == Added(c, x, 0)
<1> HIDE DEF t
<1>4. ASSUME NEW d \in Rows PROVE t[d] = c[d]
  <2>1. t[d] \in [Cols -> Nat] /\ c[d] \in [Cols -> Nat]
    BY <1>1 DEF Tables, t
  <2>2. \A k \in Cols : t[d][k] = c[d][k]
    BY <1>3 DEF t
  <2>3. QED BY <2>1, <2>2
<1>5. t = c
  <2>1. t \in [Rows -> [Cols -> Nat]] /\ c \in [Rows -> [Cols -> Nat]]
    BY <1>1 DEF Tables, t
  <2>2. QED BY <1>4, <2>1
<1>6. QED BY <1>5 DEF t

(* What that does to what the sketch has been given, and what it means     *)
(* that no counter at MaxCnt has been left alone in it.                    *)
Given(x, v, n) ==
    \A y \in Keys : Sketched'[y] = Sketched[y] + (IF y = x THEN 1 ELSE 0)
                                               + (IF y = v THEN n ELSE 0)
Unskipped(x, v, n) ==
    ~skipped' => /\ ~skipped /\ ~Skips(counter, x)
                 /\ n = 0 \/ ~Skips(Added(counter, x, 1), v)

(* The sketch covers, and until it skips holds exactly, what it was given. *)
LEMMA SketchGains ==
    ASSUME TypeOK, SketchCovers, NothingLost, Sketched \in [Keys -> Nat],
           NEW x \in Keys, NEW v \in Keys, NEW n \in Nat, counter' = AddedTwice(x, v, n),
           Given(x, v, n), Unskipped(x, v, n)
    PROVE  counter' \in Tables /\ SketchCovers' /\ NothingLost'
<1> USE ASketchAssumption
<1> DEFINE g == Added(counter, x, 1)
<1>1. counter \in Tables
  BY DEF TypeOK
<1>2. /\ g \in Tables
      /\ \A d \in Rows, k \in Cols :
            g[d][k] = IF k = Pos(x, d) /\ counter[d][k] # MaxCnt
                      THEN counter[d][k] + 1 ELSE counter[d][k]
  <2>1. 1 \in Nat
    OBVIOUS
  <2>2. QED BY <1>1, <2>1, AddedStep
<1>3. counter' = Added(g, v, n)
  BY DEF AddedTwice
<1> HIDE DEF g
<1>4. /\ counter' \in Tables
      /\ \A d \in Rows, k \in Cols :
            counter'[d][k] = IF k = Pos(v, d) /\ g[d][k] # MaxCnt
                             THEN g[d][k] + n ELSE g[d][k]
  <2> DEFINE t == Added(g, v, n)
  <2>1. /\ t \in Tables
        /\ \A d \in Rows, k \in Cols :
              t[d][k] = IF k = Pos(v, d) /\ g[d][k] # MaxCnt THEN g[d][k] + n ELSE g[d][k]
    BY <1>2, AddedStep
  <2> HIDE DEF t
  <2>2. counter' = t
    BY <1>3 DEF t
  <2>3. QED BY <2>1, <2>2
<1>5. \A d \in Rows, k \in Cols :
         counter[d][k] \in Nat /\ g[d][k] \in Nat /\ counter'[d][k] \in Nat
  BY <1>1, <1>2, <1>4 DEF Tables
<1>6. SketchCovers'
  <2> SUFFICES ASSUME NEW y \in Keys, NEW d \in Rows
               PROVE  counter'[d][Pos(y, d)] >= Lesser(Sketched'[y], MaxCnt)
    BY DEF SketchCovers, Sketched, Pos
  <2> DEFINE k == Pos(y, d)
  <2>1. k \in Cols
    BY Layout
  <2>2. counter[d][k] >= Lesser(Sketched[y], MaxCnt)
    BY DEF SketchCovers, Sketched
  <2> DEFINE mid == Sketched[y] + (IF y = x THEN 1 ELSE 0)
  <2>3. Sketched[y] \in Nat /\ mid \in Nat /\ Sketched'[y] = mid + (IF y = v THEN n ELSE 0)
    BY DEF Given
  <2>4. g[d][k] >= Lesser(mid, MaxCnt)
    <3>1. g[d][k] = IF k = Pos(x, d) /\ counter[d][k] # MaxCnt
                    THEN counter[d][k] + 1 ELSE counter[d][k]
      BY <1>2, <2>1
    <3>2. counter[d][k] \in Nat
      BY <1>5, <2>1
    <3>3. CASE y = x
      BY <2>2, <2>3, <3>1, <3>2, <3>3 DEF Lesser
    <3>4. CASE y # x
      <4>1. mid = Sketched[y]
        BY <2>3, <3>4
      <4>2. g[d][k] >= counter[d][k]
        BY <3>1, <3>2
      <4>3. Lesser(mid, MaxCnt) \in Nat
        BY <2>3 DEF Lesser
      <4> HIDE DEF mid, k
      <4>4. g[d][k] \in Nat
        BY <1>5, <2>1
      <4>5. QED BY <2>2, <3>2, <4>1, <4>2, <4>3, <4>4
    <3>5. QED BY <3>3, <3>4
  <2> HIDE DEF mid
  <2>5. counter'[d][k] = IF k = Pos(v, d) /\ g[d][k] # MaxCnt THEN g[d][k] + n ELSE g[d][k]
    BY <1>4, <2>1
  <2>6. g[d][k] \in Nat
    BY <1>5, <2>1
  <2>7. CASE y = v
    BY <2>3, <2>4, <2>5, <2>6, <2>7 DEF Lesser
  <2>8. CASE y # v
    BY <2>3, <2>4, <2>5, <2>6, <2>8 DEF Lesser
  <2>9. QED BY <2>7, <2>8
<1>7. NothingLost'
  <2> SUFFICES ASSUME ~skipped', NEW d \in Rows, NEW k \in Cols
               PROVE  counter'[d][k] = Total(Sketched', Here(d, k))
    BY DEF NothingLost, Sketched, Here, Pos
  <2> DEFINE mid == [y \in Keys |-> Sketched[y] + (IF y = x THEN 1 ELSE 0)]
             end == Sketched'
  <2>1. mid \in [Keys -> Nat] /\ 1 \in Nat
    OBVIOUS
  <2>2. \A y \in Keys : mid[y] = IF y = x THEN Sketched[x] + 1 ELSE Sketched[y]
    OBVIOUS
  <2>3. \A y \in Keys : end[y] = IF y = v THEN mid[v] + n ELSE mid[y]
    BY DEF Given
  <2> HIDE DEF mid, end
  <2> DEFINE before == Total(Sketched, Here(d, k))
             between == Total(mid, Here(d, k))
             after == Total(end, Here(d, k))
  <2>4. Gains(x, 1, d, k, before, between)
    BY <2>1, <2>2, HereTotals
  <2>5. Gains(v, n, d, k, between, after)
    BY <2>1, <2>3, HereTotals
  <2>6. counter[d][k] = before
    BY DEF NothingLost, Sketched, Unskipped
  <2>7. /\ k = Pos(x, d) => counter[d][k] # MaxCnt
        /\ k = Pos(v, d) => g[d][k] # MaxCnt \/ n = 0
    BY DEF Skips, Cells, g, Unskipped
  <2> HIDE DEF before, between, after
  <2>8. g[d][k] = between
    <3>1. g[d][k] = IF k = Pos(x, d) /\ counter[d][k] # MaxCnt
                    THEN counter[d][k] + 1 ELSE counter[d][k]
      BY <1>2
    <3>2. QED BY <2>4, <2>6, <2>7, <3>1 DEF Gains
  <2>9. counter'[d][k] = after
    <3>1. counter'[d][k] = IF k = Pos(v, d) /\ g[d][k] # MaxCnt THEN g[d][k] + n ELSE g[d][k]
      BY <1>4
    <3>2. g[d][k] \in Nat
      BY <1>5
    <3>3. between \in Nat
      BY <2>8, <3>2
    <3>4. CASE k # Pos(v, d)
      BY <2>5, <2>8, <3>1, <3>4 DEF Gains
    <3>5. CASE k = Pos(v, d)
      <4>1. after = between + n /\ (g[d][k] # MaxCnt \/ n = 0)
        BY <2>5, <2>7, <3>5 DEF Gains
      <4>2. counter'[d][k] = g[d][k] + n
        BY <3>1, <3>2, <3>5, <4>1
      <4>3. QED BY <2>8, <4>1, <4>2
    <3>6. QED BY <3>4, <3>5
  <2>10. QED BY <2>9 DEF after, end
<1>8. QED BY <1>4, <1>6, <1>7

(* x is counted by the sketch alone.                                       *)
LEMMA PassStep ==
    ASSUME IInv, NEW x \in Keys, Counted(x), Held(x) = {}, Free = {},
           counter' = Added(counter, x, 1), skipped' = (skipped \/ Skips(counter, x)),
           UNCHANGED <<items, newCount, oldCount>>
    PROVE  IInv'
<1> USE ASketchAssumption
<1>1. /\ TypeOK /\ Injective /\ OldWithinNew /\ PendingIsPart
      /\ SketchCovers /\ FilterCovers /\ NothingLost /\ FilterWithin /\ PendingIs
  BY SlotOfKey DEF IInv
<1>2. Injective' /\ OldWithinNew'
  BY <1>1 DEF Injective, OldWithinNew
<1>3. \A y \in Keys : Held(y)' = Held(y) /\ Pending(y)' = Pending(y)
  BY DEF Held, Pending
<1>4. /\ Sketched \in [Keys -> Nat]
      /\ \A y \in Keys : /\ Sketched[y] = count[y] - Pending(y)
                         /\ Pending(y) \in Nat /\ count[y] \in Nat /\ Pending(y) <= count[y]
      /\ \A y \in Keys : count'[y] = IF y = x THEN count[x] + 1 ELSE count[y]
  BY <1>1, SketchedType DEF Counted, PendingIsPart, TypeOK
<1>5. PendingIsPart'
  BY <1>3, <1>4 DEF PendingIsPart
<1>6. Given(x, x, 0)
  <2>1. \A y \in Keys : Sketched'[y] = count'[y] - Pending(y)
    BY <1>3 DEF Sketched
  <2>2. ASSUME NEW y \in Keys
        PROVE  Sketched'[y] = Sketched[y] + (IF y = x THEN 1 ELSE 0) + (IF y = x THEN 0 ELSE 0)
    <3>1. /\ Sketched'[y] = count'[y] - Pending(y) /\ Sketched[y] = count[y] - Pending(y)
          /\ Pending(y) \in Nat /\ count[y] \in Nat
          /\ count'[y] = IF y = x THEN count[y] + 1 ELSE count[y]
      BY <1>4, <2>1
    <3>2. QED BY <3>1
  <2>3. QED BY <2>2 DEF Given
<1>7. counter' = AddedTwice(x, x, 0)
  <2>1. Added(counter, x, 1) \in Tables
    <3>1. 1 \in Nat /\ counter \in Tables
      BY <1>1 DEF TypeOK
    <3>2. QED BY <3>1, AddedStep
  <2>2. QED BY <2>1, AddedNothing DEF AddedTwice
<1>8. 0 \in Nat /\ Unskipped(x, x, 0)
  BY DEF Unskipped
<1>9. counter' \in Tables /\ SketchCovers' /\ NothingLost'
  BY <1>1, <1>4, <1>6, <1>7, <1>8, SketchGains
<1>10. TypeOK'
  <2>1. skipped' \in BOOLEAN
    BY DEF Skips
  <2>2. QED BY <1>1, <1>9, <2>1 DEF TypeOK, Counted
<1>11. FreeMeansUnseen'
  BY DEF FreeMeansUnseen, Free, Held
<1>12. FilterCovers'
  <2> SUFFICES ASSUME NEW j \in Slots, NEW y \in Keys, items[j] = y
               PROVE  newCount[j] >= Lesser(count'[y], MaxCnt)
    BY DEF FilterCovers
  <2>1. y # x
    BY DEF Held
  <2>2. QED BY <1>1, <1>4, <2>1 DEF FilterCovers
<1>13. FilterWithin'
  <2> SUFFICES ASSUME ~skipped, NEW j \in Slots, NEW y \in Keys, NEW d \in Rows, items[j] = y
               PROVE  newCount[j] <= Total(count', Here(d, Pos(y, d)))
    BY DEF FilterWithin, Here, Pos
  <2> DEFINE old == Total(count, Here(d, Pos(y, d)))
             new == Total(count', Here(d, Pos(y, d)))
  <2>1. Pos(y, d) \in Cols
    BY Layout
  <2>2. /\ old \in Nat
        /\ Pos(y, d) = Pos(x, d) => new = old + 1
        /\ Pos(y, d) # Pos(x, d) => new = old
    BY <2>1 DEF Counted, Gains
  <2>3. newCount[j] <= old /\ newCount[j] \in Nat
    BY <1>1 DEF FilterWithin, TypeOK
  <2> HIDE DEF old, new
  <2>4. newCount[j] <= new
    BY <2>2, <2>3
  <2>5. QED BY <2>4 DEF new
<1>14. QED BY <1>2, <1>5, <1>9, <1>10, <1>11, <1>12, <1>13 DEF IInv

(* The estimate of a key that is in no slot covers its count with the      *)
(* insertion in progress, and until the sketch skips does not exceed what  *)
(* its counters would hold without a filter.                               *)
LEMMA EstimateCovers ==
    ASSUME IInv, NEW x \in Keys, Held(x) = {}
    PROVE  /\ Estimate(x) >= Lesser(count[x] + 1, MaxCnt)
           /\ ~skipped /\ ~Skips(counter, x) => \A d \in Rows :
                 Estimate(x) <= Total(count, Here(d, Pos(x, d))) + 1
<1> USE ASketchAssumption
<1>1. /\ TypeOK /\ Injective /\ OldWithinNew /\ PendingIsPart /\ SketchCovers /\ NothingLost
      /\ counter \in Tables /\ count \in [Keys -> Nat] /\ Pending(x) = 0
  BY SlotOfKey DEF IInv, TypeOK, PendingIs
<1>2. \A d \in Rows : counter[d][Pos(x, d)] \in Nat /\ counter[d][Pos(x, d)] >= Lesser(count[x], MaxCnt)
  <2> TAKE d \in Rows
  <2>1. counter[d][Pos(x, d)] \in Nat
    BY <1>1, Layout DEF Tables
  <2>2. counter[d][Pos(x, d)] >= Lesser(count[x] - 0, MaxCnt)
    BY <1>1 DEF SketchCovers
  <2>3. count[x] - 0 = count[x]
    BY <1>1
  <2>4. QED BY <2>1, <2>2, <2>3
<1>3. Estimate(x) >= Lesser(count[x] + 1, MaxCnt)
  <2>1. CASE Estimate(x) = Top
    BY <1>1, <2>1 DEF Lesser
  <2>2. CASE Estimate(x) # Top
    <3>1. PICK d \in Rows : /\ counter[d][Pos(x, d)] # MaxCnt
                            /\ Estimate(x) = counter[d][Pos(x, d)] + 1
      BY <1>1, <2>2, EstimateIs
    <3>2. counter[d][Pos(x, d)] \in Nat /\ counter[d][Pos(x, d)] >= Lesser(count[x], MaxCnt)
      BY <1>2
    <3>3. count[x] \in Nat
      BY <1>1
    <3>4. QED BY <3>1, <3>2, <3>3 DEF Lesser
  <2>3. QED BY <2>1, <2>2
<1>4. ASSUME ~skipped, ~Skips(counter, x), NEW d \in Rows
      PROVE  Estimate(x) <= Total(count, Here(d, Pos(x, d))) + 1
  <2> DEFINE k == Pos(x, d)
             part == Total(Sketched, Here(d, k))
             all == Total(count, Here(d, k))
  <2>1. k \in Cols
    BY Layout
  <2>2. counter[d][k] # MaxCnt
    BY <1>4 DEF Skips, Cells
  <2>3. Estimate(x) <= counter[d][k] + 1 /\ Estimate(x) \in Nat
    BY <1>1, <2>2, EstimateIs
  <2>4. counter[d][k] = part
    BY <1>1, <1>4, <2>1 DEF NothingLost, Sketched
  <2>5. part <= all /\ part \in Nat /\ all \in Nat
    <3> DEFINE S == Here(d, k)
    <3>1. IsFiniteSet(S) /\ S \in SUBSET Keys
      BY FS_Subset DEF Here
    <3> HIDE DEF S
    <3>2. \A y \in S : Sketched[y] \in Nat /\ Sketched[y] <= count[y]
      BY <1>1, <3>1, SketchedType
    <3>3. \A y \in S : count[y] \in Nat
      BY <1>1, <3>1
    <3>4. Total(Sketched, S) <= Total(count, S)
      BY <3>1, <3>2, <3>3, TotalRises
    <3>5. Total(Sketched, S) \in Nat
      BY <3>1, <3>2, TotalCovers
    <3>6. Total(count, S) \in Nat
      BY <3>1, <3>3, TotalCovers
    <3>7. QED BY <3>4, <3>5, <3>6 DEF S
  <2> HIDE DEF part, all
  <2>6. Estimate(x) <= all + 1
    BY <2>3, <2>4, <2>5
  <2>7. QED BY <2>6 DEF all
<1>5. QED BY <1>3, <1>4

(* x drives the key of a slot out of the filter.                           *)
LEMMA SwapStep ==
    ASSUME IInv, NEW x \in Keys, Counted(x), Held(x) = {}, Free = {},
           NEW i \in Slots, Admit(x, i),
           counter' = WriteBack(Added(counter, x, 1), i),
           skipped' = (skipped \/ Skips(counter, x) \/ WriteBackSkips(Added(counter, x, 1), i))
    PROVE  IInv'
<1> USE ASketchAssumption
<1> DEFINE v == items[i]
           n == newCount[i] - oldCount[i]
           e == Estimate(x)
<1>1. /\ TypeOK /\ Injective /\ OldWithinNew /\ PendingIsPart
      /\ SketchCovers /\ FilterCovers /\ NothingLost /\ FilterWithin /\ PendingIs
  BY SlotOfKey DEF IInv
<1>2. /\ items \in [Slots -> Keys \cup {None}]
      /\ newCount \in [Slots -> Nat] /\ oldCount \in [Slots -> Nat]
      /\ counter \in Tables /\ count \in [Keys -> Nat]
  BY <1>1 DEF TypeOK
<1>3. /\ v \in Keys /\ v # x
      /\ \A j \in Slots : items[j] # None /\ items[j] # x
  BY <1>2 DEF Free, Held
<1>4. n \in Nat /\ n = Pending(v)
  <2>1. newCount[i] \in Nat /\ oldCount[i] \in Nat /\ oldCount[i] <= newCount[i]
    BY <1>1, <1>2 DEF OldWithinNew
  <2>2. QED BY <1>1, <1>3, <2>1 DEF PendingIs
<1>5. e \in Nat /\ e >= Lesser(count[x] + 1, MaxCnt)
  BY <1>2, EstimateIs, EstimateCovers
<1>6. ~skipped /\ ~Skips(counter, x) => \A d \in Rows : e <= Total(count, Here(d, Pos(x, d))) + 1
  BY EstimateCovers
<1>7. counter' = AddedTwice(x, v, n)
  <2> DEFINE g == Added(counter, x, 1)
  <2>1. g \in Tables
    <3>1. 1 \in Nat
      OBVIOUS
    <3>2. QED BY <1>2, <3>1, AddedStep
  <2>2. counter' = IF n > 0 THEN Added(g, v, n) ELSE g
    BY DEF WriteBack
  <2>3. n > 0 \/ n = 0
    BY <1>4
  <2> HIDE DEF g, v, n
  <2>4. counter' = Added(g, v, n)
    BY <1>3, <2>1, <2>2, <2>3, AddedNothing
  <2>5. QED BY <2>4 DEF AddedTwice, g
<1>8. Unskipped(x, v, n)
  <2>1. newCount[i] \in Nat /\ oldCount[i] \in Nat /\ oldCount[i] <= newCount[i]
    BY <1>1, <1>2 DEF OldWithinNew
  <2>2. newCount[i] > oldCount[i] \/ n = 0
    BY <2>1
  <2>3. QED BY <2>2 DEF Unskipped, WriteBackSkips
<1>9. \A j \in Slots :
         /\ items'[j] = IF j = i THEN x ELSE items[j]
         /\ newCount'[j] = IF j = i THEN e ELSE newCount[j]
         /\ oldCount'[j] = IF j = i THEN e ELSE oldCount[j]
  BY <1>2 DEF Admit
<1>10. /\ items' \in [Slots -> Keys \cup {None}]
       /\ newCount' \in [Slots -> Nat] /\ oldCount' \in [Slots -> Nat]
  BY <1>2, <1>5 DEF Admit
<1> HIDE DEF n, e
<1>11. Injective' /\ OldWithinNew'
  <2>1. Injective'
    BY <1>1, <1>3, <1>9 DEF Injective
  <2>2. OldWithinNew'
    BY <1>1, <1>5, <1>9 DEF OldWithinNew
  <2>3. QED BY <2>1, <2>2
<1>12. PendingIs'
  BY <1>11, SlotOfKey, PTL
<1>13. ASSUME NEW y \in Keys
       PROVE  Pending(y)' = IF y = x \/ y = v THEN 0 ELSE Pending(y)
  <2>1. CASE y = x
    <3>1. Pending(x)' = newCount'[i] - oldCount'[i]
      BY <1>9, <1>12 DEF PendingIs
    <3>2. QED BY <1>5, <1>9, <2>1, <3>1
  <2>2. CASE y = v
    <3>1. \A j \in Slots : items'[j] # y
      BY <1>1, <1>3, <1>9, <2>2 DEF Injective
    <3>2. Held(y)' = {}
      BY <3>1 DEF Held
    <3> HIDE DEF v
    <3>3. QED BY <1>3, <1>12, <2>2, <3>2 DEF PendingIs
  <2>3. CASE y # x /\ y # v /\ Held(y) = {}
    <3>1. Held(y)' = {}
      BY <1>9, <2>3 DEF Held
    <3>2. QED BY <1>1, <1>12, <2>3, <3>1 DEF PendingIs
  <2>4. CASE y # x /\ y # v /\ Held(y) # {}
    <3>1. PICK j \in Slots : items[j] = y
      BY <2>4 DEF Held
    <3>2. j # i /\ items'[j] = y
      BY <1>9, <2>4, <3>1
    <3>3. Pending(y) = newCount[j] - oldCount[j] /\ Pending(y)' = newCount'[j] - oldCount'[j]
      BY <1>1, <1>12, <3>1, <3>2 DEF PendingIs
    <3>4. QED BY <1>9, <2>4, <3>2, <3>3
  <2>5. QED BY <2>1, <2>2, <2>3, <2>4
<1> HIDE DEF v
<1>14. /\ Sketched \in [Keys -> Nat]
       /\ \A y \in Keys : /\ Sketched[y] = count[y] - Pending(y)
                          /\ Pending(y) \in Nat /\ count[y] \in Nat /\ Pending(y) <= count[y]
       /\ \A y \in Keys : count'[y] = IF y = x THEN count[x] + 1 ELSE count[y]
  BY <1>1, <1>2, SketchedType DEF Counted, PendingIsPart
<1>15. PendingIsPart'
  <2> SUFFICES ASSUME NEW y \in Keys PROVE Pending(y)' <= count'[y]
    BY DEF PendingIsPart
  <2>1. Pending(y)' = (IF y = x \/ y = v THEN 0 ELSE Pending(y))
    BY <1>13
  <2>2. QED BY <1>14, <2>1
<1>16. Given(x, v, n)
  <2>1. ASSUME NEW y \in Keys
        PROVE  Sketched'[y] = Sketched[y] + (IF y = x THEN 1 ELSE 0) + (IF y = v THEN n ELSE 0)
    <3>1. Sketched'[y] = count'[y] - Pending(y)'
      BY DEF Sketched
    <3>2. Pending(y)' = (IF y = x \/ y = v THEN 0 ELSE Pending(y))
      BY <1>13
    <3>3. /\ Sketched[y] = count[y] - Pending(y)
          /\ Pending(y) \in Nat /\ count[y] \in Nat
          /\ count'[y] = IF y = x THEN count[y] + 1 ELSE count[y]
      BY <1>14
    <3>4. y = x => Pending(y) = 0
      BY <1>1 DEF PendingIs
    <3>5. y = v => Pending(y) = n
      BY <1>4
    <3>6. QED BY <1>3, <1>4, <3>1, <3>2, <3>3, <3>4, <3>5
  <2>2. QED BY <2>1 DEF Given
<1>17. counter' \in Tables /\ SketchCovers' /\ NothingLost'
  BY <1>1, <1>3, <1>4, <1>7, <1>8, <1>14, <1>16, SketchGains
<1>18. TypeOK'
  <2>1. skipped' \in BOOLEAN
    BY DEF Skips, WriteBackSkips
  <2>2. QED BY <1>10, <1>17, <2>1 DEF TypeOK, Counted
<1>19. FreeMeansUnseen'
  <2>1. Free' = {}
    BY <1>3, <1>9 DEF Free, Held
  <2>2. QED BY <2>1 DEF FreeMeansUnseen
<1>20. FilterCovers'
  <2> SUFFICES ASSUME NEW j \in Slots, NEW y \in Keys, items'[j] = y
               PROVE  newCount'[j] >= Lesser(count'[y], MaxCnt)
    BY DEF FilterCovers
  <2>1. CASE j = i
    <3>1. y = x /\ newCount'[j] = e /\ count'[y] = count[x] + 1
      BY <1>9, <1>14, <2>1
    <3>2. QED BY <1>5, <3>1
  <2>2. CASE j # i
    <3>1. items[j] = y /\ y # x /\ newCount'[j] = newCount[j] /\ count'[y] = count[y]
      BY <1>3, <1>9, <1>14, <2>2
    <3>2. QED BY <1>1, <3>1 DEF FilterCovers
  <2>3. QED BY <2>1, <2>2
<1>21. FilterWithin'
  <2> SUFFICES ASSUME ~skipped', NEW j \in Slots, NEW y \in Keys, NEW d \in Rows, items'[j] = y
               PROVE  newCount'[j] <= Total(count', Here(d, Pos(y, d)))
    BY DEF FilterWithin, Here, Pos
  <2> DEFINE old == Total(count, Here(d, Pos(y, d)))
             new == Total(count', Here(d, Pos(y, d)))
  <2>1. Pos(y, d) \in Cols
    BY Layout
  <2>2. /\ old \in Nat
        /\ Pos(y, d) = Pos(x, d) => new = old + 1
        /\ Pos(y, d) # Pos(x, d) => new = old
    BY <2>1 DEF Counted, Gains
  <2>3. CASE j = i
    <3>1. y = x /\ newCount'[j] = e
      BY <1>9, <2>3
    <3>2. e <= old + 1
      BY <1>6, <3>1
    <3> HIDE DEF old, new
    <3>3. newCount'[j] <= new
      BY <2>2, <3>1, <3>2
    <3>4. QED BY <3>3 DEF new
  <2>4. CASE j # i
    <3>1. items[j] = y /\ newCount'[j] = newCount[j] /\ newCount[j] \in Nat
      BY <1>2, <1>9, <2>4
    <3>2. newCount[j] <= old
      BY <1>1, <3>1 DEF FilterWithin
    <3> HIDE DEF old, new
    <3>3. newCount'[j] <= new
      BY <2>2, <3>1, <3>2
    <3>4. QED BY <3>3 DEF new
  <2>5. QED BY <2>3, <2>4
<1>22. QED BY <1>11, <1>15, <1>17, <1>18, <1>19, <1>20, <1>21 DEF IInv

LEMMA NextInv == IInv /\ [Next]_vars => IInv'
<1> SUFFICES ASSUME IInv, [Next]_vars PROVE IInv'
  OBVIOUS
<1>1. ASSUME NEW x \in Keys, Insert(x) PROVE IInv'
  <2>1. Counted(x)
    BY <1>1, CountStep DEF Insert, IInv
  <2>2. CASE InsertHeld(x)
    BY <2>1, <2>2, HeldStep
  <2>3. CASE InsertFree(x)
    BY <2>1, <2>3, FreeStep
  <2>4. CASE InsertMissing(x)
    <3>1. Held(x) = {} /\ Free = {}
      BY <2>4 DEF InsertMissing
    <3>2. CASE Estimate(x) > MinValue
      <4>1. /\ Admit(x, Victim)
            /\ counter' = WriteBack(Added(counter, x, 1), Victim)
            /\ skipped' = (skipped \/ Skips(counter, x)
                                   \/ WriteBackSkips(Added(counter, x, 1), Victim))
        BY <2>4, <3>2 DEF InsertMissing
      <4>2. QED BY <2>1, <3>1, <4>1, VictimSlot, SwapStep
    <3>3. CASE ~(Estimate(x) > MinValue)
      <4>1. /\ counter' = Added(counter, x, 1)
            /\ skipped' = (skipped \/ Skips(counter, x))
            /\ UNCHANGED <<items, newCount, oldCount>>
        BY <2>4, <3>3 DEF InsertMissing
      <4>2. QED BY <2>1, <3>1, <4>1, PassStep
    <3>4. QED BY <3>2, <3>3
  <2>5. QED BY <1>1, <2>2, <2>3, <2>4 DEF Insert
<1>2. CASE UNCHANGED vars
  <2>1. UNCHANGED <<items, newCount, oldCount, counter, count, skipped>>
    BY <1>2 DEF vars
  <2>2. TypeOK' /\ Injective' /\ OldWithinNew' /\ FilterCovers'
    BY <2>1 DEF IInv, TypeOK, Injective, OldWithinNew, FilterCovers
  <2>3. FreeMeansUnseen'
    BY <2>1 DEF IInv, FreeMeansUnseen, Free, Held
  <2>4. PendingIsPart' /\ SketchCovers'
    BY <2>1 DEF IInv, PendingIsPart, SketchCovers, Pending, Held, Pos
  <2>5. NothingLost'
    BY <2>1 DEF IInv, NothingLost, Pending, Held, Here, Pos
  <2>6. FilterWithin'
    BY <2>1 DEF IInv, FilterWithin, Here, Pos
  <2>7. QED BY <2>2, <2>3, <2>4, <2>5, <2>6 DEF IInv
<1>3. QED BY <1>1, <1>2 DEF Next

-----------------------------------------------------------------------------
(* Theorems *)

(* Counts and counters are natural numbers and slots hold keys, in every   *)
(* execution.                                                              *)
THEOREM TypeCorrect == Spec => []TypeOK
<1>1. IInv => TypeOK
  BY DEF IInv
<1>2. QED BY <1>1, InitInv, NextInv, PTL DEF Spec

(* However often keys enter and leave the filter, a counter of the sketch  *)
(* holds what its keys were given less what is pending in the filter,      *)
(* until an update has left a counter at MaxCnt alone.                     *)
THEOREM Lossless == Spec => []NothingLost
<1>1. IInv => NothingLost
  BY DEF IInv
<1>2. QED BY <1>1, InitInv, NextInv, PTL DEF Spec

(* The answer for a key is its filter count, or the smallest of its        *)
(* counters, cut at Top.                                                   *)
LEMMA QueryIs ==
    ASSUME IInv, NEW x \in Keys
    PROVE  \/ \E i \in Slots : items[i] = x /\ Query(x) = newCount[i]
           \/ /\ Held(x) = {} /\ Query(x) \in Nat
              /\ \A d \in Rows : Query(x) <= counter[d][Pos(x, d)]
              /\ Query(x) = Top \/ \E d \in Rows : Query(x) = counter[d][Pos(x, d)]
<1> USE ASketchAssumption
<1>1. CASE Held(x) # {}
  <2>1. PICK i \in Slots : items[i] = x
    BY <1>1 DEF Held
  <2>2. Min(Held(x)) = i
    BY <2>1, SlotOfKey DEF PendingIs, IInv
  <2>3. QED BY <1>1, <2>1, <2>2 DEF Query
<1>2. CASE Held(x) = {}
  <2> DEFINE cells == Cells(counter, x)
             least == MinOf(cells)
  <2>1. \A d \in Rows : counter[d][Pos(x, d)] \in Nat /\ cells[d] = counter[d][Pos(x, d)]
    BY Layout DEF Cells, IInv, TypeOK, Tables
  <2>2. DOMAIN cells = Rows /\ Rows # {}
    BY Layout DEF Cells
  <2> HIDE DEF cells
  <2>3. /\ \E d \in DOMAIN cells : least = cells[d]
        /\ \A d \in DOMAIN cells : least <= cells[d]
        /\ least \in Nat
    BY <2>1, <2>2, MinOfLeast
  <2> HIDE DEF least
  <2>4. {Top, least} \in SUBSET Nat /\ {Top, least} # {}
    BY <2>3
  <2>5. /\ Min({Top, least}) \in {Top, least}
        /\ \A k \in {Top, least} : Min({Top, least}) <= k
    BY <2>4, MinIsLeast
  <2>6. Query(x) = Min({Top, least})
    BY <1>2 DEF Query, least, cells
  <2>7. Query(x) \in Nat /\ Query(x) <= least /\ (Query(x) = Top \/ Query(x) = least)
    BY <2>3, <2>5, <2>6
  <2>8. \A d \in Rows : Query(x) <= counter[d][Pos(x, d)]
    <3> TAKE d \in Rows
    <3>1. least <= counter[d][Pos(x, d)] /\ counter[d][Pos(x, d)] \in Nat
      BY <2>1, <2>2, <2>3
    <3>2. QED BY <2>3, <2>7, <3>1
  <2>9. QED BY <1>2, <2>1, <2>2, <2>3, <2>7, <2>8
<1>3. QED BY <1>1, <1>2

(* An answer is never below the count of its key, nor below MaxCnt when    *)
(* the count is beyond it, whatever the filter has taken in or driven out. *)
THEOREM AnswersCover == Spec => []OneSided
<1>1. IInv => OneSided
  <2> SUFFICES ASSUME IInv, NEW x \in Keys
               PROVE  Query(x) >= Lesser(count[x], MaxCnt)
    BY DEF OneSided
  <2> USE ASketchAssumption
  <2>1. CASE \E i \in Slots : items[i] = x /\ Query(x) = newCount[i]
    BY <2>1 DEF IInv, FilterCovers
  <2>2. CASE /\ Held(x) = {} /\ Query(x) \in Nat
             /\ Query(x) = Top \/ \E d \in Rows : Query(x) = counter[d][Pos(x, d)]
    <3>1. Pending(x) = 0 /\ count[x] \in Nat
      BY <2>2, SlotOfKey DEF PendingIs, IInv, TypeOK
    <3>2. \A d \in Rows : counter[d][Pos(x, d)] >= Lesser(count[x], MaxCnt)
      <4>1. count[x] - 0 = count[x]
        BY <3>1
      <4>2. QED BY <3>1, <4>1 DEF IInv, SketchCovers
    <3>3. CASE Query(x) = Top
      BY <3>1, <3>3 DEF Lesser
    <3>4. CASE \E d \in Rows : Query(x) = counter[d][Pos(x, d)]
      BY <3>2, <3>4
    <3>5. QED BY <2>2, <3>3, <3>4
  <2>3. QED BY <2>1, <2>2, QueryIs
<1>2. QED BY <1>1, InitInv, NextInv, PTL DEF Spec

(* The smallest total of a key's counters.                                 *)
LEMMA WithoutFilter ==
    ASSUME TypeOK, NEW x \in Keys
    PROVE  \E d \in Rows :
              /\ Total(count, Here(d, Pos(x, d))) \in Nat
              /\ MinOf([e \in Rows |-> Total(count, Here(e, Pos(x, e)))])
                    = Total(count, Here(d, Pos(x, d)))
<1> DEFINE f == [e \in Rows |-> Total(count, Here(e, Pos(x, e)))]
<1>1. ASSUME NEW d \in Rows PROVE Total(count, Here(d, Pos(x, d))) \in Nat
  <2>1. IsFiniteSet(Here(d, Pos(x, d))) /\ \A y \in Here(d, Pos(x, d)) : count[y] \in Nat
    BY ASketchAssumption, FS_Subset DEF Here, TypeOK
  <2>2. QED BY <2>1, TotalCovers
<1>2. DOMAIN f = Rows /\ Rows # {} /\ \A d \in DOMAIN f : f[d] \in Nat
  BY <1>1, Layout
<1> HIDE DEF f
<1>3. \E d \in DOMAIN f : MinOf(f) = f[d]
  BY <1>2, MinOfLeast
<1>4. QED BY <1>1, <1>2, <1>3 DEF f

(* Until an update has left a counter alone, an answer is at most that of  *)
(* a Count-Min sketch of the same size without a filter.                   *)
THEOREM Within == Spec => []WithinCountMin
<1>1. IInv => WithinCountMin
  <2> SUFFICES ASSUME IInv, ~skipped, NEW x \in Keys
               PROVE  Query(x) <= MinOf([d \in Rows |-> Total(count, Here(d, Pos(x, d)))])
    BY DEF WithinCountMin
  <2>1. TypeOK /\ NothingLost /\ FilterWithin /\ Injective /\ OldWithinNew /\ PendingIsPart
    BY DEF IInv
  <2>2. PICK d \in Rows :
              /\ Total(count, Here(d, Pos(x, d))) \in Nat
              /\ MinOf([e \in Rows |-> Total(count, Here(e, Pos(x, e)))])
                    = Total(count, Here(d, Pos(x, d)))
    BY <2>1, WithoutFilter
  <2> DEFINE all == Total(count, Here(d, Pos(x, d)))
             part == Total(Sketched, Here(d, Pos(x, d)))
  <2>3. Query(x) <= all
    <3>1. CASE \E i \in Slots : items[i] = x /\ Query(x) = newCount[i]
      BY <2>1, <3>1 DEF FilterWithin
    <3>2. CASE Query(x) \in Nat /\ Query(x) <= counter[d][Pos(x, d)]
      <4>1. counter[d][Pos(x, d)] = part
        BY <2>1, Layout DEF NothingLost, Sketched
      <4>2. part <= all /\ part \in Nat
        <5> DEFINE S == Here(d, Pos(x, d))
        <5>1. IsFiniteSet(S) /\ S \in SUBSET Keys
          BY ASketchAssumption, FS_Subset DEF Here
        <5> HIDE DEF S
        <5>2. \A y \in S : Sketched[y] \in Nat /\ Sketched[y] <= count[y]
          BY <2>1, <5>1, SketchedType
        <5>3. \A y \in S : count[y] \in Nat
          BY <2>1, <5>1 DEF TypeOK
        <5>4. Total(Sketched, S) <= Total(count, S)
          BY <5>1, <5>2, <5>3, TotalRises
        <5>5. Total(Sketched, S) \in Nat
          BY <5>1, <5>2, TotalCovers
        <5>6. QED BY <5>4, <5>5 DEF S
      <4> HIDE DEF part, all
      <4>3. all \in Nat
        BY <2>2 DEF all
      <4>4. QED BY <3>2, <4>1, <4>2, <4>3
    <3>3. QED BY <3>1, <3>2, QueryIs
  <2>4. QED BY <2>2, <2>3
<1>2. QED BY <1>1, InitInv, NextInv, PTL DEF Spec
=============================================================================
