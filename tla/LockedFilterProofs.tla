------------------------- MODULE LockedFilterProofs -------------------------
(***************************************************************************)
(* Proofs about LockedFilter, for any threads, locks, counters and bounds. *)
(***************************************************************************)
EXTENDS LockedFilter, CountersProofs

Ids == 0 .. (NumCounters - 1)
InSync(t) == Occupied!InSync(t)
Size(n) == IF n < 0 THEN -n ELSE n

(* The library's sum is the same operator inside the instance.             *)
LEMMA SumOfAll ==
    ASSUME NEW I, IsFiniteSet(I), NEW f \in [I -> Int]
    PROVE  Occupied!SumFunction(f) = Balance(f, I)
<1>1. Occupied!SumFunction(f) = SumFunctionOnSet(f, I)
  BY DEF Occupied!SumFunction, Occupied!SumFunctionOnSet, Occupied!FoldFunctionOnSet,
         Occupied!MapThenFoldSet, SumFunctionOnSet, FoldFunctionOnSet, MapThenFoldSet
<1>2. QED BY <1>1, SumIsBalance

-----------------------------------------------------------------------------
(* The partitioned counter: its inductive invariant *)

(* A thread between its exchange and its fetch-and-add has a counter; one  *)
(* that is not has nothing in its hands.                                   *)
CounterType ==
    /\ local \in [Ids -> Int] /\ global \in Int /\ added \in Int
    /\ at \in [Threads -> {"idle", "collect", "give", "sync", "syncGive", "synced"}]
    /\ id \in [Threads -> Nat] /\ held \in [Threads -> Int] /\ late \in [Threads -> Nat]
    /\ \A t \in Threads : at[t] \in {"collect", "give", "sync", "syncGive"} => id[t] \in Ids
    /\ \A t \in Threads : at[t] \notin {"give", "syncGive"} => held[t] = 0

Conserved == global + Balance(local, Ids) + Balance(held, Threads) = added

(* The local counters that a thread in pc_sync() has been at hold at most  *)
(* what was added since it began.                                          *)
Sizes == [i \in Ids |-> Size(local[i])]
Swept(t) ==
    {i \in Ids : at[t] = "synced" \/ i < id[t] \/ (at[t] = "syncGive" /\ i = id[t])}
SweptIsLate == \A t \in Threads : InSync(t) => Total(Sizes, Swept(t)) <= late[t]

(* A local counter beyond the threshold has a thread that will collect it. *)
Far(n) == n > Threshold \/ n < -Threshold
FarIsCollected ==
    \A i \in Ids : Far(local[i]) => \E t \in Threads : at[t] = "collect" /\ id[t] = i

CounterInv ==
    CounterType /\ Conserved /\ SweptIsLate /\ FarIsCollected

LEMMA SetsFinite ==
    /\ IsFiniteSet(Ids) /\ IsFiniteSet(Threads) /\ Cardinality(Ids) = NumCounters
    /\ \A t : IsFiniteSet(Swept(t))
<1>1. 0 \in Int /\ NumCounters - 1 \in Int /\ NumCounters \in Nat \ {0}
  BY LockedAssumption
<1>2. IsFiniteSet(Ids) /\ Cardinality(Ids) = NumCounters
  BY <1>1, FS_Interval DEF Ids
<1>3. QED BY <1>2, LockedAssumption, FS_Subset DEF Swept

(* Rows of sizes.                                                          *)
LEMMA SizesType == CounterType => Sizes \in [Ids -> Nat]
BY DEF CounterType, Sizes, Size

LEMMA CounterInit == Occupied!Init => CounterInv
<1> SUFFICES ASSUME Occupied!Init PROVE CounterInv
  OBVIOUS
<1>1. CounterType
  BY LockedAssumption DEF CounterType, Ids, Occupied!Init, Occupied!Ids
<1>2. Conserved
  <2>1. local \in [Ids -> {0}] /\ held \in [Threads -> {0}]
    BY DEF Ids, Occupied!Init, Occupied!Ids
  <2>2. Balance(local, Ids) = 0 /\ Balance(held, Threads) = 0
    BY <2>1, BalanceZero
  <2>3. QED BY <2>2 DEF Conserved, Occupied!Init
<1>3. SweptIsLate
  BY DEF SweptIsLate, InSync, Occupied!InSync, Occupied!Init
<1>4. FarIsCollected
  BY LockedAssumption DEF FarIsCollected, Far, Ids, Occupied!Init, Occupied!Ids
<1>5. QED BY <1>1, <1>2, <1>3, <1>4 DEF CounterInv

(* pc_add() up to the test.                                                *)
LEMMA AddKeeps ==
    ASSUME CounterInv, NEW t \in Threads, NEW i \in Ids, NEW amount \in Int,
           Occupied!Add(t, i, amount)
    PROVE  CounterInv'
<1>1. CounterType
  BY DEF CounterInv
<1>2. /\ local' = [local EXCEPT ![i] = local[i] + amount] /\ local[i] \in Int
      /\ global' = global /\ held' = held /\ added' = added + amount
      /\ at[t] = "idle"
  BY <1>1 DEF CounterType, Occupied!Add, Occupied!Call
<1>3. \/ ~Far(local'[i]) /\ at' = at /\ id' = id
      \/ at' = [at EXCEPT ![t] = "collect"] /\ id' = [id EXCEPT ![t] = i]
  BY DEF Occupied!Add, Occupied!Beyond, Far
<1>4. late' = [u \in Threads |-> IF InSync(u) THEN late[u] + Size(amount) ELSE 0]
  BY DEF Occupied!Add, Occupied!Size, Size, InSync
<1>5. Size(amount) \in Nat
  BY DEF Size
<1>6. CounterType'
  <2>1. late' \in [Threads -> Nat]
    BY <1>1, <1>4, <1>5 DEF CounterType
  <2>2. i \in Nat
    BY DEF Ids
  <2>3. QED BY <1>1, <1>2, <1>3, <2>1, <2>2 DEF CounterType
<1>7. Conserved'
  <2>1. Balance(local', Ids) = Balance(local, Ids) + amount
    <3>1. /\ local \in [Ids -> Int] /\ local' \in [Ids -> Int]
          /\ local'[i] = local[i] + amount /\ \A j \in Ids \ {i} : local'[j] = local[j]
      BY <1>1, <1>2 DEF CounterType
    <3>2. Balance(local', Ids) = Balance(local, Ids) - local[i] + local'[i]
      BY <3>1, SetsFinite, BalanceMoves
    <3>3. Balance(local, Ids) \in Int
      BY <3>1, SetsFinite, BalanceWithout
    <3>4. QED BY <1>2, <3>1, <3>2, <3>3
  <2>2. Balance(local, Ids) \in Int /\ Balance(held, Threads) \in Int
    BY <1>1, SetsFinite, BalanceWithout DEF CounterType
  <2>3. QED BY <1>1, <1>2, <2>1, <2>2 DEF Conserved, CounterType, CounterInv
<1>8. ASSUME NEW u \in Threads, InSync(u)' PROVE Total(Sizes', Swept(u)') <= late'[u]
  <2>1. u # t /\ InSync(u)
    BY <1>1, <1>2, <1>3, <1>8 DEF InSync, Occupied!InSync, CounterType
  <2>2. Swept(u)' = Swept(u) /\ late'[u] = late[u] + Size(amount)
    BY <1>1, <1>3, <1>4, <2>1 DEF Swept, CounterType
  <2> DEFINE V == Swept(u)
  <2> DEFINE m == [j \in Ids |-> IF j = i THEN Sizes[i] + Size(amount) ELSE Sizes[j]]
  <2>3. /\ \A j \in Ids : Sizes[j] \in Nat /\ Sizes'[j] \in Nat
        /\ \A j \in Ids : Sizes'[j] <= m[j]
    BY <1>1, <1>2, <1>6 DEF Sizes, Size, CounterType
  <2>4. V \subseteq Ids /\ IsFiniteSet(V)
    BY SetsFinite DEF Swept
  <2>5. /\ \A j \in V : Sizes[j] \in Nat /\ Sizes'[j] \in Nat /\ m[j] \in Nat
        /\ \A j \in V : Sizes'[j] <= m[j]
        /\ \A j \in V : m[j] = IF j = i THEN Sizes[i] + Size(amount) ELSE Sizes[j]
    BY <1>5, <2>3, <2>4
  <2> HIDE DEF V, m
  <2>6. Total(m, V) = IF i \in V THEN Total(Sizes, V) + Size(amount) ELSE Total(Sizes, V)
    <3> DEFINE n == Sizes
    <3> HIDE DEF n
    <3>1. /\ IsFiniteSet(V) /\ \A y \in V : n[y] \in Nat
          /\ \A y \in V : m[y] = IF y = i THEN n[i] + Size(amount) ELSE n[y]
      BY <2>4, <2>5 DEF n
    <3>2. Total(m, V) = IF i \in V THEN Total(n, V) + Size(amount) ELSE Total(n, V)
      BY ONLY <1>5, <3>1, TotalMoves
    <3>3. QED BY <3>2 DEF n
  <2>7. Total(Sizes', V) <= Total(m, V)
    BY <2>4, <2>5, TotalRises
  <2>8. Total(Sizes, V) <= late[u]
    BY <2>1 DEF CounterInv, SweptIsLate, V
  <2>9. /\ Total(Sizes, V) \in Nat /\ Total(Sizes', V) \in Nat
        /\ Total(m, V) \in Nat /\ late[u] \in Nat
    BY <1>1, <2>4, <2>5, TotalCovers DEF CounterType
  <2>10. Total(Sizes', V) <= late[u] + Size(amount)
    BY <1>5, <2>6, <2>7, <2>8, <2>9
  <2>11. QED BY <2>2, <2>10 DEF V
<1>9. FarIsCollected'
  <2> SUFFICES ASSUME NEW j \in Ids, Far(local'[j])
               PROVE  \E u \in Threads : at'[u] = "collect" /\ id'[u] = j
    BY DEF FarIsCollected, Far
  <2>1. CASE j = i
    BY <1>1, <1>3, <2>1 DEF CounterType
  <2>2. CASE j # i
    <3>1. Far(local[j])
      BY <1>1, <1>2, <2>2 DEF CounterType
    <3>2. PICK u \in Threads : at[u] = "collect" /\ id[u] = j
      BY <3>1 DEF FarIsCollected, CounterInv
    <3>3. u # t BY <1>2, <3>2
    <3>4. QED BY <1>1, <1>3, <3>2, <3>3 DEF CounterType
  <2>3. QED BY <2>1, <2>2
<1>10. SweptIsLate'
  BY <1>8 DEF SweptIsLate
<1>11. QED BY <1>6, <1>7, <1>9, <1>10 DEF CounterInv

(* The exchange moves a local counter into the hands of the thread.        *)
LEMMA TakeMoves ==
    ASSUME CounterInv, NEW t \in Threads, at[t] \in {"collect", "sync"}, Occupied!Take(t)
    PROVE  /\ id[t] \in Ids
           /\ local' \in [Ids -> Int] /\ held' \in [Threads -> Int]
           /\ local'[id[t]] = 0 /\ \A j \in Ids : j # id[t] => local'[j] = local[j]
           /\ \A u \in Threads : u # t => held'[u] = held[u]
           /\ Balance(local', Ids) + Balance(held', Threads)
                = Balance(local, Ids) + Balance(held, Threads)
           /\ \A V \in SUBSET Ids : Total(Sizes', V) <= Total(Sizes, V)
<1> DEFINE k == id[t]
<1>1. /\ local \in [Ids -> Int] /\ held \in [Threads -> Int] /\ k \in Ids /\ held[t] = 0
  BY DEF CounterInv, CounterType
<1>2. /\ local' = [local EXCEPT ![k] = 0] /\ held' = [held EXCEPT ![t] = local[k]]
  BY DEF Occupied!Take
<1> HIDE DEF k
<1>3. /\ local' \in [Ids -> Int] /\ local'[k] = 0
      /\ \A j \in Ids \ {k} : local'[j] = local[j]
  BY <1>1, <1>2
<1>4. /\ held' \in [Threads -> Int] /\ held'[t] = local[k] /\ local[k] \in Int
      /\ \A u \in Threads \ {t} : held'[u] = held[u]
  BY <1>1, <1>2
<1>5. Balance(local', Ids) = Balance(local, Ids) - local[k] + local'[k]
  BY <1>1, <1>3, SetsFinite, BalanceMoves
<1>6. Balance(held', Threads) = Balance(held, Threads) - held[t] + held'[t]
  BY <1>1, <1>4, SetsFinite, BalanceMoves
<1>7. Balance(local, Ids) \in Int /\ Balance(held, Threads) \in Int
  BY <1>1, SetsFinite, BalanceWithout
<1>8. Balance(local', Ids) + Balance(held', Threads)
        = Balance(local, Ids) + Balance(held, Threads)
  BY <1>1, <1>3, <1>4, <1>5, <1>6, <1>7
<1>9. ASSUME NEW V \in SUBSET Ids PROVE Total(Sizes', V) <= Total(Sizes, V)
  <2>1. \A j \in V : Sizes[j] \in Nat /\ Sizes'[j] \in Nat /\ Sizes'[j] <= Sizes[j]
    BY <1>1, <1>3 DEF Sizes, Size
  <2>2. IsFiniteSet(V)
    BY SetsFinite, FS_Subset
  <2>3. QED BY <2>1, <2>2, TotalRises
<1>10. QED BY <1>1, <1>3, <1>4, <1>8, <1>9 DEF k

(* pc_add() collects the local counter.                                    *)
LEMMA CollectKeeps ==
    ASSUME CounterInv, NEW t \in Threads, Occupied!Collect(t)
    PROVE  CounterInv'
<1>1. /\ at[t] = "collect" /\ Occupied!Take(t) /\ at' = [at EXCEPT ![t] = "give"]
      /\ UNCHANGED <<global, id, added, late>>
  BY DEF Occupied!Collect
<1>2. CounterType
  BY DEF CounterInv
<1>3. /\ id[t] \in Ids
      /\ local' \in [Ids -> Int] /\ held' \in [Threads -> Int]
      /\ local'[id[t]] = 0 /\ \A j \in Ids : j # id[t] => local'[j] = local[j]
      /\ \A u \in Threads : u # t => held'[u] = held[u]
      /\ Balance(local', Ids) + Balance(held', Threads)
           = Balance(local, Ids) + Balance(held, Threads)
      /\ \A V \in SUBSET Ids : Total(Sizes', V) <= Total(Sizes, V)
  BY <1>1, TakeMoves
<1>4. CounterType'
  BY <1>1, <1>2, <1>3 DEF CounterType
<1>5. Conserved'
  <2>1. /\ Balance(local, Ids) \in Int /\ Balance(held, Threads) \in Int
        /\ Balance(local', Ids) \in Int /\ Balance(held', Threads) \in Int
    BY <1>2, <1>3, SetsFinite, BalanceWithout DEF CounterType
  <2>2. QED BY <1>1, <1>2, <1>3, <2>1 DEF Conserved, CounterInv, CounterType
<1>6. ASSUME NEW u \in Threads, InSync(u)' PROVE Total(Sizes', Swept(u)') <= late'[u]
  <2>1. InSync(u) /\ u # t /\ Swept(u)' = Swept(u) /\ Swept(u) \subseteq Ids
    BY <1>1, <1>2, <1>6 DEF InSync, Occupied!InSync, CounterType, Swept
  <2>2. Total(Sizes, Swept(u)) <= late[u] /\ late[u] \in Nat
    BY <1>2, <2>1 DEF CounterInv, SweptIsLate, CounterType
  <2>3. Total(Sizes, Swept(u)) \in Nat /\ Total(Sizes', Swept(u)) \in Nat
    BY <1>2, <1>4, <2>1, SetsFinite, SizesType, TotalCovers DEF Sizes, Size, CounterType
  <2>4. QED BY <1>1, <1>3, <2>1, <2>2, <2>3
<1>7. FarIsCollected'
  <2> SUFFICES ASSUME NEW j \in Ids, Far(local'[j])
               PROVE  \E u \in Threads : at'[u] = "collect" /\ id'[u] = j
    BY DEF FarIsCollected, Far
  <2>1. j # id[t]
    BY <1>3, LockedAssumption DEF Far
  <2>2. PICK u \in Threads : at[u] = "collect" /\ id[u] = j
    BY <1>3, <2>1 DEF FarIsCollected, CounterInv
  <2>3. QED BY <1>1, <1>2, <2>1, <2>2 DEF CounterType
<1>8. QED BY <1>4, <1>5, <1>6, <1>7 DEF CounterInv, SweptIsLate

(* pc_sync() collects the local counter it is at.                          *)
LEMMA SyncTakeKeeps ==
    ASSUME CounterInv, NEW t \in Threads, Occupied!SyncTake(t)
    PROVE  CounterInv'
<1>1. /\ at[t] = "sync" /\ Occupied!Take(t) /\ at' = [at EXCEPT ![t] = "syncGive"]
      /\ UNCHANGED <<global, id, added, late>>
  BY DEF Occupied!SyncTake
<1>2. CounterType
  BY DEF CounterInv
<1>3. /\ id[t] \in Ids
      /\ local' \in [Ids -> Int] /\ held' \in [Threads -> Int]
      /\ local'[id[t]] = 0 /\ \A j \in Ids : j # id[t] => local'[j] = local[j]
      /\ \A u \in Threads : u # t => held'[u] = held[u]
      /\ Balance(local', Ids) + Balance(held', Threads)
           = Balance(local, Ids) + Balance(held, Threads)
      /\ \A V \in SUBSET Ids : Total(Sizes', V) <= Total(Sizes, V)
  BY <1>1, TakeMoves
<1>4. CounterType'
  BY <1>1, <1>2, <1>3 DEF CounterType
<1>5. Conserved'
  <2>1. /\ Balance(local, Ids) \in Int /\ Balance(held, Threads) \in Int
        /\ Balance(local', Ids) \in Int /\ Balance(held', Threads) \in Int
    BY <1>2, <1>3, SetsFinite, BalanceWithout DEF CounterType
  <2>2. QED BY <1>1, <1>2, <1>3, <2>1 DEF Conserved, CounterInv, CounterType
<1>6. ASSUME NEW u \in Threads, InSync(u)' PROVE Total(Sizes', Swept(u)') <= late'[u]
  <2>1. InSync(u) /\ Swept(u) \subseteq Ids /\ Swept(u)' \subseteq Ids
    BY <1>1, <1>2, <1>6 DEF InSync, Occupied!InSync, CounterType, Swept
  <2>2. Total(Sizes, Swept(u)) <= late[u] /\ late[u] \in Nat
    BY <1>2, <2>1 DEF CounterInv, SweptIsLate, CounterType
  <2>3. Total(Sizes, Swept(u)) \in Nat /\ Total(Sizes', Swept(u)) \in Nat
    BY <1>2, <1>4, <2>1, SetsFinite, SizesType, TotalCovers DEF Sizes, Size, CounterType
  <2>4. CASE u # t
    <3>1. Swept(u)' = Swept(u)
      BY <1>1, <1>2, <2>4 DEF CounterType, Swept
    <3>2. QED BY <1>1, <1>3, <2>1, <2>2, <2>3, <3>1
  <2>5. CASE u = t
    <3>1. id[t] \in Swept(t)' /\ Swept(t)' \ {id[t]} = Swept(t)
      BY <1>1, <1>2, <1>3 DEF CounterType, Swept, Ids
    <3>2. Sizes'[id[t]] = 0 /\ \A j \in Ids : Sizes'[j] \in Nat
      BY <1>3, <1>4 DEF Sizes, Size, CounterType
    <3>3. IsFiniteSet(Swept(t)')
      BY <2>1, <2>5, SetsFinite, FS_Subset
    <3>4. \A j \in Swept(t)' : Sizes'[j] \in Nat
      BY <2>1, <2>5, <3>2
    <3>5. Total(Sizes', Swept(t)') = Total(Sizes', Swept(t)' \ {id[t]}) + Sizes'[id[t]]
      BY <3>1, <3>3, <3>4, TotalWithout
    <3>6. Total(Sizes', Swept(t)') = Total(Sizes', Swept(t))
      BY <2>3, <2>5, <3>1, <3>2, <3>5
    <3>7. QED BY <1>1, <1>3, <2>1, <2>2, <2>3, <2>5, <3>6
  <2>6. QED BY <2>4, <2>5
<1>7. FarIsCollected'
  <2> SUFFICES ASSUME NEW j \in Ids, Far(local'[j])
               PROVE  \E u \in Threads : at'[u] = "collect" /\ id'[u] = j
    BY DEF FarIsCollected, Far
  <2>1. j # id[t]
    BY <1>3, LockedAssumption DEF Far
  <2>2. PICK u \in Threads : at[u] = "collect" /\ id[u] = j
    BY <1>3, <2>1 DEF FarIsCollected, CounterInv
  <2>3. QED BY <1>1, <1>2, <2>1, <2>2 DEF CounterType
<1>8. QED BY <1>4, <1>5, <1>6, <1>7 DEF CounterInv, SweptIsLate

(* The fetch-and-add moves what a thread has in its hands to the global    *)
(* counter.                                                                *)
LEMMA HandMoves ==
    ASSUME CounterInv, NEW t \in Threads, Occupied!Hand(t)
    PROVE  /\ global' \in Int /\ held' \in [Threads -> Int] /\ held'[t] = 0
           /\ \A u \in Threads : u # t => held'[u] = held[u]
           /\ global' + Balance(held', Threads) = global + Balance(held, Threads)
<1>1. global \in Int /\ held \in [Threads -> Int] /\ held[t] \in Int
  BY DEF CounterInv, CounterType
<1>2. global' = global + held[t] /\ held' = [held EXCEPT ![t] = 0]
  BY DEF Occupied!Hand
<1>3. /\ held' \in [Threads -> Int] /\ held'[t] = 0
      /\ \A u \in Threads \ {t} : held'[u] = held[u]
  BY <1>1, <1>2
<1>4. Balance(held', Threads) = Balance(held, Threads) - held[t] + held'[t]
  BY <1>1, <1>3, SetsFinite, BalanceMoves
<1>5. Balance(held, Threads) \in Int
  BY <1>1, SetsFinite, BalanceWithout
<1>6. QED BY <1>1, <1>2, <1>3, <1>4, <1>5

(* pc_add() hands over what it collected.                                  *)
LEMMA GiveKeeps ==
    ASSUME CounterInv, NEW t \in Threads, Occupied!Give(t)
    PROVE  CounterInv'
<1>1. /\ at[t] = "give" /\ Occupied!Hand(t) /\ at' = [at EXCEPT ![t] = "idle"]
      /\ id' = [id EXCEPT ![t] = 0] /\ UNCHANGED <<local, added, late>>
  BY DEF Occupied!Give
<1>2. CounterType
  BY DEF CounterInv
<1>3. /\ global' \in Int /\ held' \in [Threads -> Int] /\ held'[t] = 0
      /\ \A u \in Threads : u # t => held'[u] = held[u]
      /\ global' + Balance(held', Threads) = global + Balance(held, Threads)
  BY <1>1, HandMoves
<1>4. CounterType'
  BY <1>1, <1>2, <1>3 DEF CounterType
<1>5. Conserved'
  <2>1. /\ Balance(local, Ids) \in Int /\ Balance(held, Threads) \in Int
        /\ Balance(held', Threads) \in Int
    BY <1>2, <1>3, SetsFinite, BalanceWithout DEF CounterType
  <2>2. QED BY <1>1, <1>2, <1>3, <2>1 DEF Conserved, CounterInv, CounterType
<1>6. ASSUME NEW u \in Threads, InSync(u)' PROVE Total(Sizes', Swept(u)') <= late'[u]
  <2>1. InSync(u) /\ Swept(u)' = Swept(u) /\ Sizes' = Sizes
    BY <1>1, <1>2, <1>6 DEF InSync, Occupied!InSync, CounterType, Swept, Sizes
  <2>2. QED BY <1>1, <2>1 DEF CounterInv, SweptIsLate
<1>7. FarIsCollected'
  BY <1>1, <1>2 DEF FarIsCollected, CounterInv, CounterType
<1>8. QED BY <1>4, <1>5, <1>6, <1>7 DEF CounterInv, SweptIsLate

(* pc_sync() hands over and goes to the next local counter, or ends.       *)
LEMMA SyncGiveKeeps ==
    ASSUME CounterInv, NEW t \in Threads, Occupied!SyncGive(t)
    PROVE  CounterInv'
<1>1. /\ at[t] = "syncGive" /\ Occupied!Hand(t) /\ id' = [id EXCEPT ![t] = id[t] + 1]
      /\ at' = [at EXCEPT ![t] = IF id'[t] < NumCounters THEN "sync" ELSE "synced"]
      /\ UNCHANGED <<local, added, late>>
  BY DEF Occupied!SyncGive
<1>2. CounterType
  BY DEF CounterInv
<1>3. /\ global' \in Int /\ held' \in [Threads -> Int] /\ held'[t] = 0
      /\ \A u \in Threads : u # t => held'[u] = held[u]
      /\ global' + Balance(held', Threads) = global + Balance(held, Threads)
  BY <1>1, HandMoves
<1>4. /\ id[t] \in Ids /\ id'[t] = id[t] + 1 /\ id'[t] \in Nat
      /\ at'[t] = "sync" => id'[t] \in Ids
      /\ at'[t] = IF id'[t] < NumCounters THEN "sync" ELSE "synced"
  BY <1>1, <1>2, LockedAssumption DEF CounterType, Ids
<1>5. CounterType'
  <2>1. /\ at' \in [Threads -> {"idle", "collect", "give", "sync", "syncGive", "synced"}]
        /\ id' \in [Threads -> Nat]
        /\ \A u \in Threads : u # t => at'[u] = at[u] /\ id'[u] = id[u]
    BY <1>1, <1>2, <1>4 DEF CounterType
  <2>2. QED BY <1>1, <1>2, <1>3, <1>4, <2>1 DEF CounterType
<1>6. Conserved'
  <2>1. /\ Balance(local, Ids) \in Int /\ Balance(held, Threads) \in Int
        /\ Balance(held', Threads) \in Int
    BY <1>2, <1>3, SetsFinite, BalanceWithout DEF CounterType
  <2>2. QED BY <1>1, <1>2, <1>3, <2>1 DEF Conserved, CounterInv, CounterType
<1>7. ASSUME NEW u \in Threads, InSync(u)' PROVE Total(Sizes', Swept(u)') <= late'[u]
  <2>1. InSync(u) /\ Sizes' = Sizes
    BY <1>1, <1>2, <1>7 DEF InSync, Occupied!InSync, CounterType, Sizes
  <2>2. Swept(u)' = Swept(u)
    <3>1. CASE u # t
      BY <1>1, <1>2, <3>1 DEF CounterType, Swept
    <3>2. CASE u = t
      BY <1>1, <1>2, <1>4, <3>2, LockedAssumption DEF CounterType, Swept, Ids
    <3>3. QED BY <3>1, <3>2
  <2>3. QED BY <1>1, <2>1, <2>2 DEF CounterInv, SweptIsLate
<1>8. FarIsCollected'
  BY <1>1, <1>2 DEF FarIsCollected, CounterInv, CounterType
<1>9. QED BY <1>5, <1>6, <1>7, <1>8 DEF CounterInv, SweptIsLate

(* pc_sync() begins.                                                       *)
LEMMA SyncKeeps ==
    ASSUME CounterInv, NEW t \in Threads, Occupied!Sync(t)
    PROVE  CounterInv'
<1>1. /\ at[t] = "idle" /\ at' = [at EXCEPT ![t] = "sync"]
      /\ id' = [id EXCEPT ![t] = 0] /\ late' = [late EXCEPT ![t] = 0]
      /\ UNCHANGED <<local, global, held, added>>
  BY DEF Occupied!Sync, Occupied!Call
<1>2. CounterType
  BY DEF CounterInv
<1>3. CounterType'
  BY <1>1, <1>2, LockedAssumption DEF CounterType, Ids
<1>4. Conserved'
  BY <1>1 DEF CounterInv, Conserved
<1>5. ASSUME NEW u \in Threads, InSync(u)' PROVE Total(Sizes', Swept(u)') <= late'[u]
  <2>1. CASE u # t
    <3>1. InSync(u) /\ Sizes' = Sizes /\ Swept(u)' = Swept(u) /\ late'[u] = late[u]
      BY <1>1, <1>2, <1>5, <2>1 DEF InSync, Occupied!InSync, CounterType, Swept, Sizes
    <3>2. QED BY <3>1 DEF CounterInv, SweptIsLate
  <2>2. CASE u = t
    <3>1. Swept(t)' = {} /\ late'[t] = 0
      BY <1>1, <1>2 DEF CounterType, Swept, Ids
    <3>2. Total(Sizes', {}) = 0
      BY TotalZero
    <3>3. QED BY <2>2, <3>1, <3>2
  <2>3. QED BY <2>1, <2>2
<1>6. FarIsCollected'
  BY <1>1, <1>2 DEF FarIsCollected, CounterInv, CounterType
<1>7. QED BY <1>3, <1>4, <1>5, <1>6 DEF CounterInv, SweptIsLate

(* The caller reads the global counter.                                    *)
LEMMA ReadKeeps ==
    ASSUME CounterInv, NEW t \in Threads, Occupied!Read(t)
    PROVE  CounterInv'
<1>1. /\ at[t] = "synced" /\ at' = [at EXCEPT ![t] = "idle"]
      /\ id' = [id EXCEPT ![t] = 0] /\ late' = [late EXCEPT ![t] = 0]
      /\ UNCHANGED <<local, global, held, added>>
  BY DEF Occupied!Read
<1>2. CounterType
  BY DEF CounterInv
<1>3. CounterType'
  BY <1>1, <1>2 DEF CounterType
<1>4. Conserved'
  BY <1>1 DEF CounterInv, Conserved
<1>5. ASSUME NEW u \in Threads, InSync(u)' PROVE Total(Sizes', Swept(u)') <= late'[u]
  <2>1. /\ InSync(u) /\ Sizes' = Sizes /\ Swept(u)' = Swept(u) /\ late'[u] = late[u]
    BY <1>1, <1>2, <1>5 DEF InSync, Occupied!InSync, CounterType, Swept, Sizes
  <2>2. QED BY <2>1 DEF CounterInv, SweptIsLate
<1>6. FarIsCollected'
  BY <1>1, <1>2 DEF FarIsCollected, CounterInv, CounterType
<1>7. QED BY <1>3, <1>4, <1>5, <1>6 DEF CounterInv, SweptIsLate

-----------------------------------------------------------------------------
(* The filter: its inductive invariant *)

Stages == {"idle", "check", "lock", "look", "store", "unlock", "sync"}

(* Where a thread is in its call, and where in the partitioned counter; it *)
(* has some of the locks its call is to take before it looks, all of them  *)
(* when it looks and stores, and then gives them back.                     *)
InCall(t) ==
    /\ stage[t] \in {"check", "lock", "look", "store"} => job[t] \in Jobs
    /\ at[t] \in {"collect", "give"} => stage[t] = "unlock"
    /\ InSync(t) => stage[t] \in {"check", "sync"}
    /\ stage[t] \in {"idle", "check", "sync"} => Has(t) = {}
    /\ stage[t] = "lock" => Has(t) \subseteq LocksOf(job[t]) /\ Has(t) # LocksOf(job[t])
    /\ stage[t] \in {"look", "store"} => LocksOf(job[t]) \subseteq Has(t)
    /\ stage[t] = "unlock" => Has(t) # {}

CallInv ==
    /\ stage \in [Threads -> Stages] /\ job \in [Threads -> Jobs \union {NoJob}]
    /\ lock \in [Locks -> Threads \union {Nobody, Left}]
    /\ \A t \in Threads : InCall(t)

(* Slots c: no item is before its home or apart from it, and the items     *)
(* are in the order of their homes.                                        *)
InOrder(c) ==
    /\ c \in [Slots -> Buckets \union {Free}]
    /\ \A s \in Slots : c[s] # Free => c[s] <= s /\ \A v \in c[s] .. s : c[v] # Free
    /\ \A s, u \in Slots : s < u /\ c[s] # Free /\ c[u] # Free => c[s] <= c[u]

(* In c, p is the place for n items of b, f the first empty slot and e the *)
(* last.                                                                   *)
Gap(c, b, n, p, f, e) ==
    /\ {p, f, e} \subseteq Slots /\ b <= p /\ p <= f
    /\ (n = 1 /\ f = e) \/ (n = 2 /\ f < e)
    /\ \A v \in b .. (p - 1) : c[v] # Free /\ c[v] <= b
    /\ c[p] = Free \/ c[p] > b
    /\ \A v \in p .. e : c[v] = Free <=> v \in {f, e}

Raised(c, b, n, p, f, e) ==
    [u \in p .. e |->
        IF u < p + n THEN b ELSE IF n = 1 \/ u - n < f THEN c[u - n] ELSE c[u - 1]]

(* In c, s has the last item of b and the items up to e are away from home. *)
Hole(c, b, s, e) ==
    /\ {s, e} \subseteq Slots /\ b <= s /\ s <= e
    /\ c[s] = b
    /\ \A v \in b .. e : c[v] # Free
    /\ \A v \in (s + 1) .. e : c[v] < v /\ c[v] > b
    /\ e + 1 \in Slots => c[e + 1] = Free \/ c[e + 1] = e + 1

Lowered(c, s, e) == [u \in s .. e |-> IF u < e THEN c[u + 1] ELSE Free]

(* The slots in the regions a call has locked.                             *)
Zone(j) == {s \in Slots : RegionOf(s) \in LocksOf(j)}

(* What a thread is about to store fits the slots as they are now, and     *)
(* depends on slots it has locked only.                                    *)
Fits(t) ==
    LET j == job[t]
        b == j.bucket
    IN  \/ /\ j.kind = "insert"
           /\ \E p, f, e \in Slots :
                /\ Gap(slots, b, j.n, p, f, e) /\ b .. e \subseteq Zone(j)
                /\ plan[t] = Raised(slots, b, j.n, p, f, e)
        \/ /\ j.kind = "remove"
           /\ \E s, e \in Slots :
                /\ Hole(slots, b, s, e) /\ (b .. (e + 1)) \cap Slots \subseteq Zone(j)
                /\ plan[t] = Lowered(slots, s, e)

(* The slots that have an item of one of the buckets B.                    *)
With(c, B) == {s \in Slots : c[s] \in B}

Counted ==
    /\ stored \in [Buckets -> Int]
    /\ \A b \in Buckets : Cardinality(With(slots, {b})) = stored[b]
    /\ Cardinality(With(slots, Buckets)) = added

SlotInv ==
    /\ DOMAIN plan = Threads
    /\ \/ crowded
       \/ /\ InOrder(slots) /\ Counted
          /\ \A t \in Threads : stage[t] = "store" => Fits(t)

IInv == CounterInv /\ CallInv /\ SlotInv

-----------------------------------------------------------------------------
(* Shifting slots *)

(* The slots once a thread has stored what it planned.                     *)
After(c, d) == [s \in Slots |-> IF s \in DOMAIN d THEN d[s] ELSE c[s]]

LEMMA SlotsAreNumbers ==
    /\ Slots \subseteq Nat /\ IsFiniteSet(Slots) /\ Buckets \subseteq Slots /\ Free \notin Int
    /\ \A s, u \in Slots : s .. u \subseteq Slots
<1>1. 0 \in Int /\ NSlots - 1 \in Int /\ NSlots \in Nat
  BY LockedAssumption
<1>2. IsFiniteSet(Slots)
  BY <1>1, FS_Interval DEF Slots
<1>3. QED BY <1>1, <1>2, LockedAssumption DEF Slots

(* A set matched one to one with a finite one has as many members.         *)
LEMMA Matched ==
    ASSUME NEW S, IsFiniteSet(S), NEW T, NEW m \in [S -> T],
           \A x, y \in S : m[x] = m[y] => x = y, \A y \in T : \E x \in S : m[x] = y
    PROVE  IsFiniteSet(T) /\ Cardinality(T) = Cardinality(S)
<1>1. m \in Bijection(S, T)
  BY Fun_IsBij
<1>2. QED BY <1>1, FS_Bijection DEF ExistsBijection

(* Room for n items of b is made: the order stays.                         *)
LEMMA RaiseOrder ==
    ASSUME NEW c, InOrder(c), NEW b \in Buckets, NEW n \in {1, 2},
           NEW p, NEW f, NEW e, Gap(c, b, n, p, f, e)
    PROVE  InOrder(After(c, Raised(c, b, n, p, f, e)))
<1> DEFINE d == Raised(c, b, n, p, f, e)
<1> DEFINE new == After(c, d)
<1>1. /\ p \in Slots /\ f \in Slots /\ e \in Slots /\ b \in Slots /\ b <= p /\ p <= f /\ f <= e
      /\ Slots \subseteq Nat /\ p + n - 1 <= e /\ b # Free
      /\ \A s, u \in Slots : s .. u \subseteq Slots
  <2>1. /\ p \in Slots /\ f \in Slots /\ e \in Slots /\ b <= p /\ p <= f
        /\ (n = 1 /\ f = e) \/ (n = 2 /\ f < e)
    BY DEF Gap
  <2>2. b \in Slots /\ b # Free
    BY SlotsAreNumbers
  <2>3. QED BY <2>1, <2>2, SlotsAreNumbers
<1>2. /\ c \in [Slots -> Buckets \union {Free}] /\ Buckets \subseteq Slots /\ Free \notin Int
      /\ \A s \in Slots : c[s] # Free => c[s] \in Nat
  BY SlotsAreNumbers DEF InOrder
<1> DEFINE from(u) == IF u < p \/ u > e THEN u
                      ELSE IF n = 1 \/ u - n < f THEN u - n ELSE u - 1
<1>3. \A u \in Slots : new[u] = IF u \in p .. (p + n - 1) THEN b ELSE c[from(u)]
  BY <1>1 DEF After, Raised
<1>4. ASSUME NEW u \in Slots, u \notin p .. (p + n - 1)
      PROVE  /\ from(u) \in Slots /\ from(u) <= u
             /\ u \in p .. e => from(u) \in p .. e /\ c[from(u)] # Free /\ c[from(u)] > b
             /\ u \notin p .. e => from(u) = u
  <2>1. CASE u \notin p .. e
    BY <1>1, <2>1
  <2>2. CASE u \in p .. e
    <3>1. from(u) \in p .. e /\ from(u) \in Slots /\ from(u) <= u /\ from(u) \notin {f, e}
      BY <1>1, <1>4, <2>2 DEF Gap
    <3>2. c[from(u)] # Free
      BY <3>1 DEF Gap
    <3>3. c[from(u)] > b
      <4>1. CASE c[p] = Free
        <5>1. p < from(u) /\ c[from(u)] \in Nat
          BY <1>1, <1>2, <3>1, <3>2, <4>1
        <5>2. \A v \in c[from(u)] .. from(u) : c[v] # Free
          BY <3>1, <3>2 DEF InOrder
        <5>3. p \notin c[from(u)] .. from(u)
          BY <4>1, <5>2
        <5>4. QED BY <1>1, <3>1, <5>1, <5>3
      <4>2. CASE c[p] # Free
        <5>1. c[p] > b
          BY <4>2 DEF Gap
        <5>2. c[p] <= c[from(u)]
          <6>1. CASE p = from(u)
            BY <6>1, <1>1, <1>2, <4>2
          <6>2. CASE p < from(u)
            BY <6>2, <1>1, <3>1, <3>2, <4>2 DEF InOrder
          <6>3. QED BY <1>1, <3>1, <6>1, <6>2
        <5>3. QED BY <1>1, <1>2, <3>1, <3>2, <4>2, <5>1, <5>2
      <4>3. QED BY <4>1, <4>2
    <3>4. QED BY <2>2, <3>1, <3>2, <3>3
  <2>3. QED BY <2>1, <2>2
<1>5. new \in [Slots -> Buckets \union {Free}]
  <2>1. \A u \in Slots : new[u] \in Buckets \union {Free}
    BY <1>2, <1>3, <1>4
  <2>2. QED BY <2>1 DEF After
<1>6. \A v \in Slots : new[v] = Free <=> c[v] = Free /\ v \notin p .. e
  BY <1>1, <1>3, <1>4
<1>7. ASSUME NEW s \in Slots, new[s] # Free
      PROVE  new[s] <= s /\ \A v \in new[s] .. s : new[v] # Free
  <2>1. CASE s \in p .. (p + n - 1)
    <3>1. new[s] = b
      BY <1>3, <2>1
    <3>2. \A v \in b .. (p - 1) : c[v] # Free
      BY DEF Gap
    <3>3. \A v \in b .. s : v \in Slots /\ (v \in b .. (p - 1) \/ v \in p .. e)
      BY <1>1, <2>1
    <3>4. QED BY <1>1, <1>6, <2>1, <3>1, <3>2, <3>3
  <2>2. CASE s \notin p .. (p + n - 1)
    <3> DEFINE u == from(s)
    <3>1. u \in Slots /\ u <= s /\ new[s] = c[u] /\ c[u] # Free /\ c[u] \in Slots
      BY <1>2, <1>3, <1>4, <1>7, <2>2
    <3>2. (s \in p .. e /\ u \in p .. e) \/ u = s
      BY <1>4, <2>2
    <3> HIDE DEF u
    <3>3. c[u] <= u /\ \A v \in c[u] .. u : c[v] # Free
      BY <3>1 DEF InOrder
    <3>4. ASSUME NEW v \in c[u] .. s PROVE new[v] # Free
      <4>1. c[u] \in Nat /\ u \in Nat /\ s \in Nat /\ v \in Slots
        BY <1>1, <3>1
      <4>2. CASE v <= u
        BY <1>6, <3>3, <4>1, <4>2
      <4>3. CASE v > u
        <5>1. v \in p .. e
          BY <1>1, <3>2, <4>1, <4>3
        <5>2. QED BY <1>6, <4>1, <5>1
      <4>4. QED BY <4>1, <4>2, <4>3
    <3>5. c[u] <= s
      <4>1. c[u] \in Nat /\ u \in Nat /\ s \in Nat
        BY <1>1, <3>1
      <4>2. QED BY <3>1, <3>3, <4>1
    <3>6. QED BY <3>1, <3>4, <3>5
  <2>3. QED BY <2>1, <2>2
<1>8. ASSUME NEW s \in Slots, NEW u \in Slots, s < u, new[s] # Free, new[u] # Free
      PROVE  new[s] <= new[u]
  <2>1. CASE s \in p .. (p + n - 1) /\ u \in p .. (p + n - 1)
    BY <1>1, <1>3, <2>1
  <2>2. CASE s \in p .. (p + n - 1) /\ u \notin p .. (p + n - 1) /\ u <= e
    BY <1>1, <1>2, <1>3, <1>4, <1>8, <2>2
  <2>3. CASE u > e /\ s \in p .. e
    <3>1. new[u] = c[u] /\ c[e] = Free /\ c[u] \in Nat
      BY <1>1, <1>2, <1>3, <1>8, <2>3 DEF Gap
    <3>2. \A v \in c[u] .. u : c[v] # Free
      BY <1>8, <3>1 DEF InOrder
    <3>3. c[u] > e
      BY <1>1, <2>3, <3>1, <3>2
    <3>4. new[s] <= s /\ new[s] \in Nat
      BY <1>2, <1>5, <1>7, <1>8, <1>1
    <3>5. QED BY <1>1, <2>3, <3>1, <3>3, <3>4
  <2>4. CASE s < p /\ u \in p .. (p + n - 1)
    <3>1. new[s] = c[s] /\ new[u] = b /\ c[s] \in Nat /\ c[s] <= s
      BY <1>1, <1>2, <1>3, <1>8, <2>4 DEF InOrder
    <3>2. s >= b => c[s] <= b
      BY <1>1, <2>4 DEF Gap
    <3>3. QED BY <1>1, <3>1, <3>2
  <2>5. CASE s \notin p .. (p + n - 1) /\ u \notin p .. (p + n - 1)
             /\ ~(u > e /\ s \in p .. e)
    <3>1. /\ from(s) \in Slots /\ from(u) \in Slots /\ new[s] = c[from(s)] /\ new[u] = c[from(u)]
      BY <1>3, <1>4, <2>5
    <3>2. from(s) < from(u)
      BY <1>1, <1>8, <2>5
    <3>3. QED BY <1>8, <3>1, <3>2 DEF InOrder
  <2>6. QED BY <1>1, <1>8, <2>1, <2>2, <2>3, <2>4, <2>5
<1>9. QED BY <1>5, <1>7, <1>8 DEF InOrder

(* And the items are those that were there and n more of b.                *)
LEMMA RaiseCount ==
    ASSUME NEW c, InOrder(c), NEW b \in Buckets, NEW n \in {1, 2},
           NEW p, NEW f, NEW e, Gap(c, b, n, p, f, e), NEW B \in SUBSET Buckets
    PROVE  /\ Cardinality(With(c, B)) \in Nat
           /\ Cardinality(With(After(c, Raised(c, b, n, p, f, e)), B))
                = Cardinality(With(c, B)) + IF b \in B THEN n ELSE 0
<1> DEFINE d == Raised(c, b, n, p, f, e)
<1> DEFINE new == After(c, d)
<1>1. /\ p \in Slots /\ f \in Slots /\ e \in Slots /\ b <= p /\ p <= f /\ f <= e
      /\ p \in Nat /\ f \in Nat /\ e \in Nat /\ b \in Nat
      /\ Slots \subseteq Nat /\ p + n - 1 <= e /\ p .. e \subseteq Slots
      /\ (n = 1 /\ f = e) \/ (n = 2 /\ f < e)
  <2>1. /\ p \in Slots /\ f \in Slots /\ e \in Slots /\ b <= p /\ p <= f
        /\ (n = 1 /\ f = e) \/ (n = 2 /\ f < e)
    BY DEF Gap
  <2>2. QED BY <2>1, SlotsAreNumbers
<1>2. c[f] = Free /\ c[e] = Free /\ Free \notin B
  <2>1. f \in p .. e /\ e \in p .. e
    BY <1>1
  <2>2. c[f] = Free /\ c[e] = Free
    BY <2>1 DEF Gap
  <2>3. B \subseteq Int
    BY SlotsAreNumbers
  <2>4. QED BY <2>2, <2>3, SlotsAreNumbers
<1> DEFINE own == IF b \in B THEN p .. (p + n - 1) ELSE {}
<1> DEFINE rest == With(new, B) \ own
<1> DEFINE to(s) == IF s < p \/ s > e THEN s ELSE IF n = 2 /\ s > f THEN s + 1 ELSE s + n
<1> DEFINE m == [s \in With(c, B) |-> to(s)]
<1>3. \A u \in Slots : new[u] = IF u \in p .. (p + n - 1) THEN b
                               ELSE IF u < p \/ u > e THEN c[u]
                               ELSE IF n = 1 \/ u - n < f THEN c[u - n] ELSE c[u - 1]
  BY <1>1 DEF After, Raised
<1>4. \A s \in With(c, B) : s \in Slots /\ s \in Nat /\ c[s] \in B /\ s # f /\ s # e
  BY <1>1, <1>2 DEF With
<1>5. ASSUME NEW s \in With(c, B)
      PROVE  to(s) \in Slots /\ to(s) \notin p .. (p + n - 1) /\ new[to(s)] = c[s]
  <2>0. s \in Slots /\ s \in Nat /\ s # f /\ s # e
    BY <1>4
  <2>1. CASE s < p \/ s > e
    BY <1>1, <1>3, <2>0, <2>1
  <2>2. CASE p <= s /\ s <= e
    <3>1. to(s) \in p .. e /\ to(s) \notin p .. (p + n - 1)
      BY <1>1, <2>0, <2>2
    <3>2. to(s) \in Slots
      BY <1>1, <3>1
    <3>3. new[to(s)] = c[s]
      BY <1>1, <1>3, <2>0, <2>2, <3>1, <3>2
    <3>4. QED BY <3>1, <3>2, <3>3
  <2>3. QED BY <1>1, <2>0, <2>1, <2>2
<1>6. m \in [With(c, B) -> rest]
  <2>1. \A s \in With(c, B) : to(s) \in rest
    BY <1>4, <1>5 DEF With
  <2>2. QED BY <2>1
<1>7. \A x, y \in With(c, B) : m[x] = m[y] => x = y
  <2> SUFFICES ASSUME NEW x \in With(c, B), NEW y \in With(c, B), to(x) = to(y) PROVE x = y
    OBVIOUS
  <2>1. x \in Nat /\ y \in Nat /\ x # f /\ x # e /\ y # f /\ y # e
    BY <1>4
  <2>2. QED BY <1>1, <2>1
<1>8. ASSUME NEW u \in rest PROVE \E x \in With(c, B) : m[x] = u
  <2>1. u \in Slots /\ new[u] \in B /\ u \notin own
    BY DEF With
  <2>2. u \notin p .. (p + n - 1)
    BY <1>1, <1>3, <2>1
  <2>3. CASE u < p \/ u > e
    <3>1. u \in With(c, B)
      BY <1>3, <2>1, <2>2, <2>3 DEF With
    <3>2. QED BY <2>3, <3>1
  <2>4. CASE p <= u /\ u <= e
    <3> DEFINE x == IF n = 1 \/ u - n < f THEN u - n ELSE u - 1
    <3>1. x \in p .. e /\ x \in Slots /\ new[u] = c[x]
      BY <1>1, <1>3, <2>1, <2>2, <2>4
    <3>2. x \in With(c, B) /\ x # f /\ x # e
      BY <1>4, <2>1, <3>1 DEF With
    <3>3. to(x) = u
      BY <1>1, <2>1, <2>2, <2>4, <3>1, <3>2
    <3>4. m[x] = u
      BY <3>2, <3>3
    <3>5. QED BY <3>2, <3>4
  <2>5. QED BY <1>1, <2>1, <2>3, <2>4
<1>9. IsFiniteSet(With(c, B)) /\ IsFiniteSet(With(new, B))
  BY SlotsAreNumbers, FS_Subset DEF With
<1>10. Cardinality(rest) = Cardinality(With(c, B)) /\ IsFiniteSet(rest)
  <2> HIDE DEF m, rest
  <2>1. QED BY <1>6, <1>7, <1>8, <1>9, Matched
<1>11. own \subseteq With(new, B) /\ IsFiniteSet(own)
       /\ Cardinality(own) = IF b \in B THEN n ELSE 0
  <2>1. p \in Int /\ p + n - 1 \in Int /\ n \in Nat /\ p + n - 1 >= p
    BY <1>1
  <2>2. IsFiniteSet(p .. (p + n - 1)) /\ Cardinality(p .. (p + n - 1)) = n
    BY <2>1, FS_Interval
  <2>3. own \subseteq With(new, B)
    BY <1>1, <1>3 DEF With
  <2>4. QED BY <2>2, <2>3, FS_EmptySet
<1>12. Cardinality(rest \union own)
         = Cardinality(rest) + Cardinality(own) - Cardinality(rest \intersect own)
  BY <1>10, <1>11, FS_Union
<1>13. rest \union own = With(new, B) /\ rest \intersect own = {}
  BY <1>11
<1>14. Cardinality(With(c, B)) \in Nat /\ Cardinality({}) = 0
  BY <1>9, FS_CardinalityType, FS_EmptySet
<1>15. QED
  <2> HIDE DEF rest, own, new
  <2>1. Cardinality(With(new, B)) = Cardinality(With(c, B)) + IF b \in B THEN n ELSE 0
    BY <1>10, <1>11, <1>12, <1>13, <1>14
  <2>2. QED BY <1>14, <2>1 DEF new

(* The last item of b is taken away: the order stays.                      *)
LEMMA LowerOrder ==
    ASSUME NEW c, InOrder(c), NEW b \in Buckets, NEW s, NEW e, Hole(c, b, s, e)
    PROVE  InOrder(After(c, Lowered(c, s, e)))
<1> DEFINE new == After(c, Lowered(c, s, e))
<1>1. /\ s \in Slots /\ e \in Slots /\ b \in Slots /\ b <= s /\ s <= e
      /\ s \in Nat /\ e \in Nat /\ b \in Nat /\ c[s] = b
      /\ Slots \subseteq Nat /\ \A v, u \in Slots : v .. u \subseteq Slots
  <2>1. s \in Slots /\ e \in Slots /\ b <= s /\ s <= e /\ c[s] = b
    BY DEF Hole
  <2>2. b \in Slots
    BY SlotsAreNumbers
  <2>3. QED BY <2>1, <2>2, SlotsAreNumbers
<1>2. /\ c \in [Slots -> Buckets \union {Free}] /\ Buckets \subseteq Slots /\ Free \notin Int
      /\ \A v \in Slots : c[v] # Free => c[v] \in Nat
  BY SlotsAreNumbers DEF InOrder
<1>3. /\ \A v \in Slots : v \notin s .. e => new[v] = c[v]
      /\ \A v \in s .. (e - 1) : v + 1 \in Slots /\ new[v] = c[v + 1]
      /\ new[e] = Free
  <2>1. s .. e \subseteq Slots /\ \A v \in s .. (e - 1) : v \in s .. e /\ v + 1 \in s .. e
    BY <1>1
  <2>2. QED BY <1>1, <2>1 DEF After, Lowered
<1>4. /\ \A v \in b .. e : v \in Slots /\ c[v] # Free
      /\ \A v \in (s + 1) .. e : c[v] < v /\ c[v] > b
  BY <1>1 DEF Hole
<1>5. ASSUME NEW v \in Slots, v # e PROVE new[v] = Free <=> c[v] = Free
  <2>1. CASE v \in s .. (e - 1)
    <3>1. v \in b .. e /\ v + 1 \in b .. e
      BY <1>1, <2>1
    <3>2. QED BY <1>3, <1>4, <2>1, <3>1
  <2>2. CASE v \notin s .. (e - 1)
    BY <1>1, <1>3, <1>5, <2>2
  <2>3. QED BY <2>1, <2>2
<1>6. new \in [Slots -> Buckets \union {Free}]
  <2>1. ASSUME NEW v \in Slots PROVE new[v] \in Buckets \union {Free}
    <3>1. CASE v \in s .. (e - 1)
      BY <1>2, <1>3, <3>1
    <3>2. CASE v = e
      BY <1>3, <3>2
    <3>3. CASE v \notin s .. e
      BY <1>2, <1>3, <3>3
    <3>4. QED BY <1>1, <3>1, <3>2, <3>3
  <2>2. QED BY <2>1 DEF After
(* An item past e has its home past e.                                     *)
<1>7. ASSUME NEW v \in Slots, v > e, c[v] # Free PROVE c[v] > e
  <2>1. v \in Nat /\ c[v] \in Nat /\ e + 1 \in Slots
    <3>1. e + 1 \in e .. v
      BY <1>1, <1>7
    <3>2. QED BY <1>1, <1>2, <1>7, <3>1
  <2>2. \A u \in c[v] .. v : c[u] # Free
    BY <1>7, <2>1 DEF InOrder
  <2>3. CASE c[e + 1] = Free
    <3>1. e + 1 \notin c[v] .. v
      BY <2>2, <2>3
    <3>2. QED BY <1>1, <1>7, <2>1, <3>1
  <2>4. CASE c[e + 1] = e + 1
    <3>1. CASE v = e + 1
      BY <1>1, <2>4, <3>1
    <3>2. CASE v > e + 1
      <4>1. c[e + 1] # Free
        BY <1>1, <1>2, <2>1, <2>4
      <4>2. c[e + 1] <= c[v]
        BY <1>7, <2>1, <3>2, <4>1 DEF InOrder
      <4>3. QED BY <1>1, <2>1, <2>4, <4>2
    <3>3. QED BY <1>1, <1>7, <2>1, <3>1, <3>2
  <2>5. QED BY <2>1, <2>3, <2>4 DEF Hole
<1>8. ASSUME NEW u \in Slots, new[u] # Free
      PROVE  new[u] <= u /\ \A v \in new[u] .. u : new[v] # Free
  <2>1. u # e /\ u \in Nat /\ new[u] \in Nat /\ new[u] \in Slots
    BY <1>1, <1>2, <1>3, <1>6, <1>8
  <2>2. CASE u \in s .. (e - 1)
    <3>1. new[u] = c[u + 1] /\ u + 1 \in Slots /\ u + 1 \in (s + 1) .. e
      BY <1>1, <1>3, <2>2
    <3>2. c[u + 1] < u + 1 /\ c[u + 1] > b /\ c[u + 1] # Free
      BY <1>4, <3>1, <1>8
    <3>3. \A v \in new[u] .. u : v \in b .. e /\ v # e
      BY <1>1, <2>1, <2>2, <3>1, <3>2
    <3>4. QED BY <1>4, <1>5, <2>1, <3>1, <3>2, <3>3
  <2>3. CASE u \notin s .. (e - 1)
    <3>1. new[u] = c[u] /\ c[u] # Free
      BY <1>1, <1>3, <1>8, <2>1, <2>3
    <3>2. c[u] <= u /\ \A v \in c[u] .. u : c[v] # Free
      BY <3>1 DEF InOrder
    <3>3. e \notin c[u] .. u
      <4>1. CASE u < s
        BY <1>1, <2>1, <4>1
      <4>2. CASE u > e
        BY <1>1, <1>7, <2>1, <3>1, <4>2
      <4>3. QED BY <1>1, <2>1, <2>3, <4>1, <4>2
    <3>4. \A v \in c[u] .. u : v \in Slots /\ v # e
      BY <1>1, <2>1, <3>1, <3>3
    <3>5. QED BY <1>5, <3>1, <3>2, <3>4
  <2>4. QED BY <2>2, <2>3
<1>9. ASSUME NEW v \in Slots, NEW u \in Slots, v < u, new[v] # Free, new[u] # Free
      PROVE  new[v] <= new[u]
  <2> DEFINE from(x) == IF x \in s .. e THEN x + 1 ELSE x
  <2>1. ASSUME NEW x \in Slots, new[x] # Free
        PROVE  from(x) \in Slots /\ new[x] = c[from(x)] /\ c[from(x)] # Free
    <3>1. x # e /\ x \in Nat
      BY <1>1, <1>3, <2>1
    <3>2. CASE x \in s .. (e - 1)
      BY <1>1, <1>3, <2>1, <3>2
    <3>3. CASE x \notin s .. e
      BY <1>3, <2>1, <3>3
    <3>4. QED BY <1>1, <3>1, <3>2, <3>3
  <2>2. from(v) < from(u)
    <3>1. v \in Nat /\ u \in Nat /\ v # e
      BY <1>1, <1>3, <1>9
    <3>2. QED BY <1>1, <1>9, <3>1
  <2>3. QED
    <3> HIDE DEF from, new
    <3>1. /\ from(v) \in Slots /\ new[v] = c[from(v)] /\ c[from(v)] # Free
          /\ from(u) \in Slots /\ new[u] = c[from(u)] /\ c[from(u)] # Free
      BY <1>9, <2>1
    <3>2. QED BY <2>2, <3>1 DEF InOrder
<1>10. QED BY <1>6, <1>8, <1>9 DEF InOrder

(* And the items are those that were there less one of b.                  *)
LEMMA LowerCount ==
    ASSUME NEW c, InOrder(c), NEW b \in Buckets, NEW s, NEW e, Hole(c, b, s, e),
           NEW B \in SUBSET Buckets
    PROVE  /\ Cardinality(With(c, B)) \in Nat
           /\ Cardinality(With(After(c, Lowered(c, s, e)), B))
                = Cardinality(With(c, B)) - IF b \in B THEN 1 ELSE 0
<1> DEFINE new == After(c, Lowered(c, s, e))
<1>1. /\ s \in Slots /\ e \in Slots /\ s \in Nat /\ e \in Nat /\ s <= e /\ c[s] = b
      /\ Slots \subseteq Nat /\ s .. e \subseteq Slots /\ Free \notin B
  <2>1. s \in Slots /\ e \in Slots /\ s <= e /\ c[s] = b
    BY DEF Hole
  <2>2. B \subseteq Int
    BY SlotsAreNumbers
  <2>3. QED BY <2>1, <2>2, SlotsAreNumbers
<1>2. \A u \in Slots : new[u] = IF u < s \/ u > e THEN c[u]
                               ELSE IF u < e THEN c[u + 1] ELSE Free
  BY <1>1 DEF After, Lowered
<1> DEFINE own == IF b \in B THEN {s} ELSE {}
<1> DEFINE rest == With(c, B) \ own
<1> DEFINE to(u) == IF u < s \/ u > e THEN u ELSE u - 1
<1> DEFINE m == [u \in rest |-> to(u)]
<1>3. \A u \in rest : u \in Slots /\ u \in Nat /\ c[u] \in B /\ u # s
  BY <1>1 DEF With
<1>4. ASSUME NEW u \in rest PROVE to(u) \in With(new, B)
  <2>1. u \in Slots /\ u \in Nat /\ c[u] \in B /\ u # s
    BY <1>3
  <2>2. CASE u < s \/ u > e
    BY <1>2, <2>1, <2>2 DEF With
  <2>3. CASE s < u /\ u <= e
    <3>1. u - 1 \in Slots /\ u - 1 >= s /\ u - 1 < e /\ u - 1 \in Nat
      BY <1>1, <2>1, <2>3
    <3>2. new[u - 1] = c[u]
      BY <1>1, <1>2, <2>1, <2>3, <3>1
    <3>3. QED BY <1>1, <2>1, <2>3, <3>1, <3>2 DEF With
  <2>4. QED BY <1>1, <2>1, <2>2, <2>3
<1>5. m \in [rest -> With(new, B)]
  BY <1>4
<1>6. \A x, y \in rest : m[x] = m[y] => x = y
  <2> SUFFICES ASSUME NEW x \in rest, NEW y \in rest, to(x) = to(y) PROVE x = y
    OBVIOUS
  <2>1. x \in Nat /\ y \in Nat /\ x # s /\ y # s
    BY <1>3
  <2>2. QED BY <1>1, <2>1
<1>7. ASSUME NEW u \in With(new, B) PROVE \E x \in rest : m[x] = u
  <2>1. u \in Slots /\ u \in Nat /\ new[u] \in B
    BY <1>1 DEF With
  <2>2. u # e
    BY <1>1, <1>2, <2>1
  <2>3. CASE u < s \/ u > e
    <3>1. u \in rest
      BY <1>1, <1>2, <2>1, <2>3 DEF With
    <3>2. QED BY <2>3, <3>1
  <2>4. CASE s <= u /\ u < e
    <3>1. u + 1 \in Slots /\ new[u] = c[u + 1] /\ u + 1 # s /\ ~(u + 1 < s \/ u + 1 > e)
      BY <1>1, <1>2, <2>1, <2>4
    <3>2. u + 1 \in rest /\ to(u + 1) = u
      BY <2>1, <3>1 DEF With
    <3>3. m[u + 1] = u
      BY <3>2
    <3>4. QED BY <3>2, <3>3
  <2>5. QED BY <1>1, <2>1, <2>2, <2>3, <2>4
<1>8. IsFiniteSet(With(c, B)) /\ IsFiniteSet(rest)
  <2>1. IsFiniteSet(With(c, B))
    BY SlotsAreNumbers, FS_Subset DEF With
  <2>2. QED BY <2>1, FS_Subset
<1>9. Cardinality(With(new, B)) = Cardinality(rest)
  <2> HIDE DEF m, rest
  <2>1. QED BY <1>5, <1>6, <1>7, <1>8, Matched
<1>10. Cardinality(With(c, B)) \in Nat
       /\ Cardinality(rest) = Cardinality(With(c, B)) - IF b \in B THEN 1 ELSE 0
  <2>1. Cardinality(With(c, B)) \in Nat
    BY <1>8, FS_CardinalityType
  <2>2. CASE b \in B
    <3>1. s \in With(c, B) /\ rest = With(c, B) \ {s}
      BY <1>1, <2>2 DEF With
    <3>2. QED BY <1>8, <2>1, <2>2, <3>1, FS_RemoveElement
  <2>3. CASE b \notin B
    BY <2>1, <2>3
  <2>4. QED BY <2>2, <2>3
<1>11. QED
  <2> HIDE DEF rest, new
  <2>1. QED BY <1>9, <1>10 DEF new

-----------------------------------------------------------------------------
(* What a call finds lies in the regions it has locked *)

(* Products of numbers below a product.                                    *)
LEMMA Quotients ==
    ASSUME NEW k \in Nat, NEW l \in Nat, Region * k < Region * (l + 1)
    PROVE  k <= l
<1>1. Region \in Nat /\ Region > 0
  BY LockedAssumption
<1>2. CASE k >= l + 1
  <2>1. PICK d \in Nat : k = (l + 1) + d
    BY <1>2
  <2>2. Region * k = Region * (l + 1) + Region * d /\ Region * d >= 0
    BY <1>1, <2>1
  <2>3. Region * k \in Int /\ Region * (l + 1) \in Int /\ Region * d \in Int
    BY <1>1
  <2>4. QED BY <2>2, <2>3
<1>3. QED BY <1>2

(* Regions are in the order of their slots.                                *)
LEMMA RegionGrows ==
    ASSUME NEW b \in Nat, NEW v \in Nat, b <= v
    PROVE  RegionOf(b) \in Nat /\ RegionOf(v) \in Nat /\ RegionOf(b) <= RegionOf(v)
<1> DEFINE q == b \div Region
<1> DEFINE r == v \div Region
<1>1. Region \in Nat /\ Region > 0
  BY LockedAssumption
<1>2. /\ q \in Nat /\ b % Region \in 0 .. (Region - 1) /\ b = Region * q + (b % Region)
      /\ r \in Nat /\ v % Region \in 0 .. (Region - 1) /\ v = Region * r + (v % Region)
  BY <1>1
<1> HIDE DEF q, r
<1>3. Region * (r + 1) = Region * r + Region /\ Region * r \in Int /\ Region * q \in Int
  BY <1>1, <1>2
<1>4. Region * q < Region * (r + 1)
  BY <1>1, <1>2, <1>3
<1>5. q <= r
  BY <1>2, <1>4, Quotients
<1>6. QED BY <1>2, <1>5 DEF RegionOf, q, r

(* The regions of the slots that follow a bucket.                          *)
LEMMA RegionSpan ==
    ASSUME NEW b \in Nat, NEW v \in Nat, b <= v
    PROVE  /\ v - b < Region - Offset(b) => RegionOf(v) = RegionOf(b)
           /\ v - b <= Region => RegionOf(v) \in {RegionOf(b), RegionOf(b) + 1}
           /\ Offset(b) \in 0 .. (Region - 1)
<1> DEFINE q == b \div Region
<1> DEFINE r == v \div Region
<1>1. Region \in Nat /\ Region > 0
  BY LockedAssumption
<1>2. /\ q \in Nat /\ b % Region \in 0 .. (Region - 1) /\ b = Region * q + (b % Region)
      /\ r \in Nat /\ v % Region \in 0 .. (Region - 1) /\ v = Region * r + (v % Region)
  BY <1>1
<1> HIDE DEF q, r
<1>3. q <= r
  BY RegionGrows DEF RegionOf, q, r
<1>4. ASSUME v - b < Region - (b % Region) PROVE r = q
  <2>1. Region * (q + 1) = Region * q + Region /\ Region * r \in Int /\ Region * q \in Int
    BY <1>1, <1>2
  <2>2. Region * r < Region * (q + 1)
    BY <1>1, <1>2, <1>4, <2>1
  <2>3. r <= q
    BY <1>2, <2>2, Quotients
  <2>4. QED BY <1>2, <1>3, <2>3
<1>5. ASSUME v - b <= Region PROVE r \in {q, q + 1}
  <2>1. Region * (q + 2) = Region * q + Region + Region
        /\ Region * r \in Int /\ Region * q \in Int
    BY <1>1, <1>2
  <2>2. Region * r < Region * (q + 2)
    BY <1>1, <1>2, <1>5, <2>1
  <2>3. r <= q + 1
    <3>1. q + 1 \in Nat /\ (q + 1) + 1 = q + 2
      BY <1>2
    <3>2. QED BY <1>2, <2>2, <3>1, Quotients
  <2>4. QED BY <1>2, <1>3, <2>3
<1>6. QED BY <1>2, <1>4, <1>5 DEF RegionOf, Offset, q, r

(* The slots as far as a call may look are in the regions of its locks:    *)
(* Cluster slots on for one item, a region's length for more or a removal. *)
LEMMA ZoneSpan ==
    ASSUME NEW j \in Jobs, NEW v \in Slots, j.bucket <= v,
           v - j.bucket <= (IF Small(j) THEN Cluster ELSE Region)
    PROVE  v \in Zone(j)
<1> DEFINE b == j.bucket
<1>1. b \in Nat /\ v \in Nat /\ Cluster \in Nat /\ Region \in Nat \ {0} /\ 2 * Cluster < Region
  <2>1. b \in Buckets
    BY DEF Jobs
  <2>2. QED BY <2>1, SlotsAreNumbers, LockedAssumption
<1>2. /\ v - b < Region - Offset(b) => RegionOf(v) = RegionOf(b)
      /\ v - b <= Region => RegionOf(v) \in {RegionOf(b), RegionOf(b) + 1}
      /\ Offset(b) \in 0 .. (Region - 1)
  BY <1>1, RegionSpan
<1>3. CASE Small(j)
  <2>1. CASE ReachesNext(b)
    BY <1>1, <1>2, <1>3, <2>1 DEF Zone, LocksOf
  <2>2. CASE ~ReachesNext(b)
    <3>1. v - b < Region - Offset(b)
      BY <1>1, <1>2, <1>3, <2>2 DEF ReachesNext
    <3>2. QED BY <1>2, <1>3, <3>1 DEF Zone, LocksOf
  <2>3. QED BY <2>1, <2>2
<1>4. CASE ~Small(j)
  BY <1>1, <1>2, <1>4 DEF Zone, LocksOf
<1>5. QED BY <1>3, <1>4

(* Slots in use next to each other are no more than Cluster, as long as no *)
(* stretch is longer.                                                      *)
LEMMA StretchShort ==
    ASSUME ~Crowded, NEW s \in Slots, NEW e \in Slots, s <= e, \A v \in s .. e : InUse(v)
    PROVE  e - s < Cluster
<1>1. s \in Nat /\ e \in Nat /\ Cluster \in Nat /\ s .. e \subseteq Slots
  BY SlotsAreNumbers, LockedAssumption
<1>2. CASE e - s >= Cluster
  <2>1. s + Cluster \in s .. e /\ \A v \in s .. (s + Cluster) : v \in s .. e
    BY <1>1, <1>2
  <2>2. QED BY <1>1, <2>1 DEF Crowded
<1>3. QED BY <1>1, <1>2

(* The least of a nonempty set of slots.                                   *)
LEMMA LeastSlot ==
    ASSUME NEW S \in SUBSET Slots, S # {}
    PROVE  Min(S) \in S /\ \A u \in S : Min(S) <= u
<1>1. S \in SUBSET Nat
  BY SlotsAreNumbers
<1>2. QED BY <1>1, MinIsLeast

(* The first empty slot from a slot on.                                    *)
LEMMA FirstFree ==
    ASSUME NEW x \in Nat, FreeFrom(x) # {}
    PROVE  \E f \in Slots :
              /\ f = Min(FreeFrom(x)) /\ f \in Nat /\ x <= f /\ ~InUse(f)
              /\ \A v \in x .. (f - 1) : v \in Slots /\ InUse(v)
<1> DEFINE f == Min(FreeFrom(x))
<1>1. FreeFrom(x) \in SUBSET Slots
  BY DEF FreeFrom
<1>2. f \in FreeFrom(x) /\ \A u \in FreeFrom(x) : f <= u
  BY <1>1, LeastSlot
<1> HIDE DEF f
<1>3. f \in Slots /\ f \in Nat /\ x <= f /\ ~InUse(f)
  BY <1>2, SlotsAreNumbers DEF FreeFrom
<1>4. ASSUME NEW v \in x .. (f - 1) PROVE v \in Slots /\ InUse(v)
  <2>1. v \in Nat /\ x <= v /\ v < f
    BY <1>3
  <2>2. v \in Slots
    BY <1>3, <2>1, LockedAssumption DEF Slots
  <2>3. v \notin FreeFrom(x)
    BY <1>2, <1>3, <2>1
  <2>4. QED BY <2>1, <2>2, <2>3 DEF FreeFrom
<1>5. QED BY <1>3, <1>4 DEF f

(* An insertion that finds room plans what fits.                           *)
LEMMA InsertFits ==
    ASSUME InOrder(slots), ~Crowded, NEW j \in Jobs, j.kind = "insert", Room(j)
    PROVE  \E p, f, e \in Slots :
              /\ Gap(slots, j.bucket, j.n, p, f, e) /\ j.bucket .. e \subseteq Zone(j)
              /\ ShiftUp(j.bucket, j.n) = Raised(slots, j.bucket, j.n, p, f, e)
<1>1. PICK b \in Slots, n \in {1, 2} :
        b = j.bucket /\ n = j.n /\ b \in Nat /\ b \in Buckets
  <2>1. j.bucket \in Buckets /\ j.n \in {1, 2}
    BY DEF Jobs, Counts
  <2>2. QED BY <2>1, SlotsAreNumbers
<1>2. Cluster \in Nat /\ Region \in Nat /\ 2 * Cluster < Region
  BY LockedAssumption
<1>3. PICK f \in Slots :
        /\ f = Min(FreeFrom(b)) /\ f \in Nat /\ b <= f /\ ~InUse(f)
        /\ \A v \in b .. (f - 1) : v \in Slots /\ InUse(v)
  <2>1. FreeFrom(b) # {}
    BY <1>1 DEF Room
  <2>2. QED BY <1>1, <2>1, FirstFree
<1>4. PICK p \in Slots :
        /\ p = Min(Place(b)) /\ p \in Nat /\ b <= p /\ p <= f
        /\ ~InUse(p) \/ slots[p] > b
        /\ \A v \in b .. (p - 1) : InUse(v) /\ slots[v] <= b
  <2>1. Place(b) \in SUBSET Slots /\ f \in Place(b)
    BY <1>3 DEF Place
  <2>2. Min(Place(b)) \in Place(b) /\ \A u \in Place(b) : Min(Place(b)) <= u
    BY <2>1, LeastSlot
  <2> DEFINE p == Min(Place(b))
  <2> HIDE DEF p
  <2>3. p \in Place(b) /\ \A u \in Place(b) : p <= u
    BY <2>2 DEF p
  <2>4. p \in Slots /\ p \in Nat /\ b <= p /\ p <= f /\ (~InUse(p) \/ slots[p] > b)
    BY <1>1, <2>1, <2>3, SlotsAreNumbers DEF Place
  <2>5. ASSUME NEW v \in b .. (p - 1) PROVE InUse(v) /\ slots[v] <= b
    <3>1. v \in Nat /\ b <= v /\ v < p /\ v \in b .. (f - 1)
      BY <1>1, <1>3, <2>4
    <3>2. v \in Slots /\ InUse(v)
      BY <1>3, <3>1
    <3>3. v \notin Place(b)
      BY <2>3, <2>4, <3>1
    <3>4. slots[v] \in Nat
      BY <3>2, SlotsAreNumbers DEF InOrder, InUse
    <3>5. QED BY <1>1, <3>1, <3>2, <3>3, <3>4 DEF Place
  <2>6. QED BY <2>4, <2>5 DEF p
<1>5. PICK e \in Slots :
        /\ e = LastEmpty(b, n) /\ e \in Nat /\ ~InUse(e)
        /\ (n = 1 /\ f = e) \/ (n = 2 /\ f < e)
        /\ \A v \in (f + 1) .. (e - 1) : v \in Slots /\ InUse(v)
  <2>1. CASE n = 1
    <3>1. f = LastEmpty(b, n)
      BY <1>3, <2>1 DEF LastEmpty, FirstEmpty
    <3>2. (f + 1) .. (f - 1) = {}
      BY <1>3
    <3>3. QED BY <1>3, <2>1, <3>1, <3>2
  <2>2. CASE n = 2
    <3>1. FreeFrom(f + 1) # {} /\ LastEmpty(b, n) = Min(FreeFrom(f + 1))
      BY <1>1, <1>3, <2>2 DEF Room, LastEmpty, FirstEmpty
    <3>2. f + 1 \in Nat
      BY <1>3
    <3>3. PICK e \in Slots :
            /\ e = Min(FreeFrom(f + 1)) /\ e \in Nat /\ f + 1 <= e /\ ~InUse(e)
            /\ \A v \in (f + 1) .. (e - 1) : v \in Slots /\ InUse(v)
      BY <3>1, <3>2, FirstFree
    <3>4. f < e
      BY <1>3, <3>3
    <3>5. QED BY <2>2, <3>1, <3>3, <3>4
  <2>3. QED BY <2>1, <2>2
<1>6. b <= e /\ f <= e
  BY <1>1, <1>3, <1>5
<1>7. ASSUME NEW v \in b .. e
      PROVE  v \in Slots /\ v \in Nat /\ b <= v /\ v <= e /\ (InUse(v) <=> v \notin {f, e})
  <2>1. v \in Nat /\ b <= v /\ v <= e
    BY <1>1, <1>5
  <2>2. v \in Slots
    BY <1>1, <1>5, SlotsAreNumbers
  <2>3. CASE v < f
    <3>1. v \in b .. (f - 1) /\ v \notin {f, e}
      BY <1>1, <1>3, <1>6, <2>1, <2>3, <1>5
    <3>2. QED BY <1>3, <2>1, <2>2, <3>1
  <2>4. CASE v = f \/ v = e
    BY <1>3, <1>5, <2>1, <2>2, <2>4
  <2>5. CASE f < v /\ v < e
    <3>1. v \in (f + 1) .. (e - 1) /\ v \notin {f, e}
      BY <1>3, <1>5, <2>1, <2>5
    <3>2. QED BY <1>5, <2>1, <2>2, <3>1
  <2>6. QED BY <1>3, <1>5, <2>1, <2>3, <2>4, <2>5
<1>8. Gap(slots, b, n, p, f, e)
  <2>1. \A v \in p .. e : v \in b .. e
    BY <1>1, <1>4, <1>5
  <2>2. \A v \in p .. e : slots[v] = Free <=> v \in {f, e}
    BY <1>7, <2>1 DEF InUse
  <2>3. QED BY <1>3, <1>4, <1>5, <2>2 DEF Gap, InUse
<1>9. f - b <= Cluster /\ e <= f + 1 + Cluster
  <2>1. ASSUME f > b PROVE f - b <= Cluster
    <3>1. f - 1 \in b .. (f - 1) /\ b <= f - 1
      BY <1>1, <1>3, <2>1
    <3>2. f - 1 \in Slots
      BY <1>3, <3>1
    <3>3. (f - 1) - b < Cluster
      BY <1>1, <1>3, <3>1, <3>2, StretchShort
    <3>4. QED BY <1>1, <1>2, <1>3, <3>3
  <2>2. f - b <= Cluster
    BY <1>1, <1>2, <1>3, <2>1
  <2>3. ASSUME e > f + 1 PROVE e <= f + 1 + Cluster
    <3>1. f + 1 \in (f + 1) .. (e - 1) /\ e - 1 \in (f + 1) .. (e - 1) /\ f + 1 <= e - 1
      BY <1>3, <1>5, <2>3
    <3>2. f + 1 \in Slots /\ e - 1 \in Slots
      BY <1>5, <3>1
    <3>3. (e - 1) - (f + 1) < Cluster
      BY <1>5, <3>1, <3>2, StretchShort
    <3>4. QED BY <1>2, <1>3, <1>5, <3>3
  <2>4. e <= f + 1 + Cluster
    BY <1>2, <1>3, <1>5, <2>3
  <2>5. QED BY <2>2, <2>4
<1>10. ASSUME NEW v \in b .. e PROVE v \in Zone(j)
  <2>1. v \in Slots /\ b <= v /\ v \in Nat /\ v <= e
    BY <1>7
  <2>2. v - b <= IF Small(j) THEN Cluster ELSE Region
    <3>1. CASE n = 1
      <4>1. Small(j)
        BY <1>1, <3>1 DEF Small
      <4>2. v - b <= Cluster
        BY <1>1, <1>2, <1>3, <1>5, <1>9, <2>1, <3>1
      <4>3. QED BY <4>1, <4>2
    <3>2. CASE n = 2
      <4>1. ~Small(j)
        BY <1>1, <3>2 DEF Small
      <4>2. v - b <= Region
        BY <1>1, <1>2, <1>3, <1>5, <1>9, <2>1
      <4>3. QED BY <4>1, <4>2
    <3>3. QED BY <3>1, <3>2
  <2>3. QED BY <1>1, <2>1, <2>2, ZoneSpan
<1>11. ShiftUp(b, n) = Raised(slots, b, n, p, f, e)
  BY <1>3, <1>4, <1>5 DEF ShiftUp, Raised, FirstEmpty
<1>12. QED BY <1>1, <1>8, <1>10, <1>11

(* The greatest of a nonempty set of slots.                                *)
LEMMA GreatestSlot ==
    ASSUME NEW S \in SUBSET Slots, S # {}
    PROVE  Max(S) \in S /\ \A u \in S : u <= Max(S)
<1>1. S \in SUBSET (0 .. NSlots) /\ NSlots \in Nat
  BY LockedAssumption DEF Slots
<1>2. QED BY <1>1, MaxIsGreatest

(* A removal of what is there plans what fits.                             *)
LEMMA RemoveFits ==
    ASSUME InOrder(slots), ~Crowded, NEW j \in Jobs, j.kind = "remove", HomeItems(j.bucket) # {}
    PROVE  \E s, e \in Slots :
              /\ Hole(slots, j.bucket, s, e)
              /\ (j.bucket .. (e + 1)) \cap Slots \subseteq Zone(j)
              /\ ShiftDown(j.bucket) = Lowered(slots, s, e)
<1>1. PICK b \in Slots : b = j.bucket /\ b \in Nat /\ b \in Buckets
  <2>1. j.bucket \in Buckets
    BY DEF Jobs
  <2>2. QED BY <2>1, SlotsAreNumbers
<1>2. Cluster \in Nat /\ Region \in Nat /\ 2 * Cluster < Region /\ Region > 0
  BY LockedAssumption
<1>3. PICK s \in Slots :
        /\ s = Max(HomeItems(b)) /\ s \in Nat /\ slots[s] = b
        /\ \A u \in Slots : slots[u] = b => u <= s
  <2>1. HomeItems(b) \in SUBSET Slots /\ HomeItems(b) # {}
    BY <1>1 DEF HomeItems
  <2>2. Max(HomeItems(b)) \in HomeItems(b) /\ \A u \in HomeItems(b) : u <= Max(HomeItems(b))
    BY <2>1, GreatestSlot
  <2>3. QED BY <2>1, <2>2, SlotsAreNumbers DEF HomeItems
<1>4. InUse(s) /\ b <= s /\ \A v \in b .. s : InUse(v)
  <2>1. slots[s] # Free
    BY <1>1, <1>3, SlotsAreNumbers
  <2>2. QED BY <1>1, <1>3, <2>1 DEF InOrder, InUse
<1>5. PICK e \in Slots :
        /\ e = Max({s} \union Away(s)) /\ e \in Nat /\ s <= e
        /\ e = s \/ e \in Away(s)
        /\ \A u \in Away(s) : u <= e
  <2>1. {s} \union Away(s) \in SUBSET Slots /\ {s} \union Away(s) # {}
    BY DEF Away
  <2> DEFINE e == Max({s} \union Away(s))
  <2>2. e \in {s} \union Away(s) /\ \A u \in {s} \union Away(s) : u <= e
    BY <2>1, GreatestSlot
  <2> HIDE DEF e
  <2>3. e \in Slots /\ e \in Nat
    BY <2>1, <2>2, SlotsAreNumbers
  <2>4. QED BY <2>2, <2>3 DEF e
<1>6. ASSUME NEW v \in (s + 1) .. e PROVE v \in Slots /\ InUse(v) /\ slots[v] < v
  <2>1. v \in Nat /\ v > s /\ v <= e /\ e # s
    BY <1>3, <1>5
  <2>2. v \in Slots
    BY <1>3, <1>5, <2>1, LockedAssumption DEF Slots
  <2>3. e \in Away(s)
    BY <1>5, <2>1
  <2>4. QED BY <2>2, <2>3 DEF Away
<1>7. ASSUME NEW v \in b .. e PROVE v \in Slots /\ v \in Nat /\ b <= v /\ v <= e /\ InUse(v)
  <2>1. v \in Nat /\ b <= v /\ v <= e
    BY <1>1, <1>5
  <2>2. v \in Slots
    BY <1>1, <1>5, SlotsAreNumbers
  <2>3. v \in b .. s \/ v \in (s + 1) .. e
    BY <1>1, <1>3, <1>5, <2>1
  <2>4. QED BY <1>4, <1>6, <2>1, <2>2, <2>3
<1>8. ASSUME NEW v \in (s + 1) .. e PROVE slots[v] > b
  <2>1. v \in Slots /\ InUse(v) /\ v \in Nat /\ s < v
    BY <1>3, <1>5, <1>6
  <2>2. slots[s] <= slots[v] /\ slots[v] \in Nat
    BY <1>4, <2>1, SlotsAreNumbers DEF InOrder, InUse
  <2>3. slots[v] # b
    BY <1>3, <2>1
  <2>4. QED BY <1>1, <1>3, <2>2, <2>3
<1>9. ASSUME e + 1 \in Slots, InUse(e + 1) PROVE slots[e + 1] = e + 1
  <2>1. slots[e + 1] <= e + 1 /\ slots[e + 1] \in Nat
    BY <1>9, SlotsAreNumbers DEF InOrder, InUse
  <2>2. CASE slots[e + 1] < e + 1
    <3>1. ASSUME NEW v \in (s + 1) .. (e + 1) PROVE InUse(v) /\ slots[v] < v
      <4>1. v \in (s + 1) .. e \/ v = e + 1
        BY <1>3, <1>5, <3>1
      <4>2. QED BY <1>6, <1>9, <2>2, <4>1
    <3>2. e + 1 > s
      BY <1>3, <1>5
    <3>3. e + 1 \in Away(s)
      BY <1>9, <3>1, <3>2 DEF Away
    <3>4. QED BY <1>5, <3>3
  <2>3. QED BY <1>5, <2>1, <2>2
<1>10. Hole(slots, b, s, e)
  <2>1. {s, e} \subseteq Slots /\ b <= s /\ s <= e /\ slots[s] = b
    BY <1>3, <1>4, <1>5
  <2>2. \A v \in b .. e : slots[v] # Free
    BY <1>7 DEF InUse
  <2>3. \A v \in (s + 1) .. e : slots[v] < v /\ slots[v] > b
    BY <1>6, <1>8
  <2>4. e + 1 \in Slots => slots[e + 1] = Free \/ slots[e + 1] = e + 1
    BY <1>9 DEF InUse
  <2>5. QED BY <2>1, <2>2, <2>3, <2>4 DEF Hole
<1>11. e - b < Cluster
  <2>1. b <= e /\ \A v \in b .. e : InUse(v)
    BY <1>1, <1>3, <1>4, <1>5, <1>7
  <2>2. QED BY <2>1, StretchShort
<1>12. ASSUME NEW v \in (b .. (e + 1)) \cap Slots PROVE v \in Zone(j)
  <2>1. v \in Slots /\ b <= v /\ v \in Nat /\ v <= e + 1
    BY <1>1, <1>5
  <2>2. ~Small(j)
    BY DEF Small
  <2>3. v - b <= Region
    BY <1>1, <1>2, <1>5, <1>11, <2>1
  <2>4. QED BY <1>1, <2>1, <2>2, <2>3, ZoneSpan
<1>13. ShiftDown(b) = Lowered(slots, s, e)
  BY <1>3, <1>5 DEF ShiftDown, Lowered
<1>14. QED BY <1>1, <1>10, <1>12, <1>13

-----------------------------------------------------------------------------
(* What a thread does leaves the calls of the others alone *)

LEMMA LocksOfType ==
    /\ Locks \subseteq Nat /\ IsFiniteSet(Locks) /\ NSlots \div Region + 1 \in Nat
    /\ \A j \in Jobs : LocksOf(j) \subseteq Locks /\ RegionOf(j.bucket) \in LocksOf(j)
<1>1. NSlots \div Region \in Nat /\ Region \in Nat \ {0} /\ NSlots \in Nat
  BY LockedAssumption
<1>2. Locks \subseteq Nat /\ IsFiniteSet(Locks)
  <2>1. 0 \in Int /\ NSlots \div Region + 1 \in Int
    BY <1>1
  <2>2. QED BY <2>1, FS_Interval DEF Locks
<1>3. ASSUME NEW j \in Jobs
      PROVE  LocksOf(j) \subseteq Locks /\ RegionOf(j.bucket) \in LocksOf(j)
  <2> DEFINE b == j.bucket
  <2> DEFINE r == RegionOf(b)
  <2>1. b \in Nat /\ b <= NSlots
    <3>1. b \in 0 .. (NSlots - 1)
      BY LockedAssumption DEF Jobs
    <3>2. QED BY <1>1, <3>1
  <2>2. r \in Nat /\ r <= NSlots \div Region
    <3>1. r \in Nat /\ RegionOf(NSlots) \in Nat /\ r <= RegionOf(NSlots)
      BY <1>1, <2>1, RegionGrows
    <3>2. QED BY <3>1 DEF RegionOf
  <2>3. ASSUME ReachesBack(b) PROVE r - 1 >= 0
    <3>1. Region >= 0 /\ Region <= b
      BY <1>1, <2>1, <2>3 DEF ReachesBack
    <3>2. RegionOf(Region) <= r
      BY <1>1, <2>1, <3>1, RegionGrows
    <3>3. RegionOf(Region) = 1
      BY <1>1 DEF RegionOf
    <3>4. QED BY <2>2, <3>2, <3>3
  <2> HIDE DEF r, b
  <2>4. r \in LocksOf(j) /\ \A l \in LocksOf(j) : l = r \/ l = r + 1 \/ (l = r - 1 /\ ReachesBack(b))
    BY DEF LocksOf, r, b
  <2>5. ASSUME NEW l \in LocksOf(j) PROVE l \in Locks
    <3> DEFINE m == NSlots \div Region
    <3>1. m \in Nat /\ Locks = 0 .. (m + 1) /\ r \in Nat /\ r <= m
      BY <1>1, <2>2 DEF Locks
    <3> HIDE DEF m
    <3>2. CASE l = r - 1 /\ ReachesBack(b)
      BY <2>3, <3>1, <3>2
    <3>3. CASE l = r \/ l = r + 1
      BY <3>1, <3>3
    <3>4. QED BY <2>4, <3>2, <3>3
  <2>6. QED BY <2>4, <2>5 DEF r, b
<1>4. QED BY <1>1, <1>2, <1>3

(* A thread moves to another stage of its call.                            *)
LEMMA CallMoves ==
    ASSUME CounterType, CallInv, NEW t \in Threads, NEW s \in Stages, NEW j \in Jobs \union {NoJob}, NEW a,
           stage' = [stage EXCEPT ![t] = s], job' = [job EXCEPT ![t] = j],
           at' = [at EXCEPT ![t] = a], lock' \in [Locks -> Threads \union {Nobody, Left}],
           \A u \in Threads \ {t} : Has(u)' = Has(u), InCall(t)'
    PROVE  CallInv'
<1>1. ASSUME NEW u \in Threads \ {t} PROVE InCall(u)'
  <2>1. stage'[u] = stage[u] /\ job'[u] = job[u] /\ at'[u] = at[u] /\ Has(u)' = Has(u)
    BY DEF CallInv, CounterType
  <2>2. InCall(u)
    BY DEF CallInv
  <2>3. QED BY <2>1, <2>2 DEF InCall, InSync, Occupied!InSync
<1>2. \A u \in Threads : InCall(u)'
  BY <1>1
<1>3. stage' \in [Threads -> Stages] /\ job' \in [Threads -> Jobs \union {NoJob}]
  BY DEF CallInv
<1>4. QED BY <1>2, <1>3 DEF CallInv

(* What is planned still fits when the slots of the zone are the same.     *)
LEMMA FitsStays ==
    ASSUME NEW t \in Threads, Fits(t), job[t] \in Jobs, job'[t] = job[t], plan'[t] = plan[t],
           \A v \in Zone(job[t]) : slots'[v] = slots[v]
    PROVE  Fits(t)'
<1> DEFINE j == job[t]
<1> DEFINE b == j.bucket
<1>1. b \in Nat /\ j.n \in {1, 2} /\ Slots \subseteq Nat
  BY SlotsAreNumbers DEF Jobs, Counts
<1>2. CASE j.kind = "insert"
  <2>1. PICK p, f, e \in Slots :
          /\ Gap(slots, b, j.n, p, f, e) /\ b .. e \subseteq Zone(j)
          /\ plan[t] = Raised(slots, b, j.n, p, f, e)
    BY <1>2 DEF Fits
  <2>2. p \in Nat /\ f \in Nat /\ e \in Nat /\ b <= p /\ p <= f /\ f <= e
    BY <1>1, <2>1 DEF Gap
  <2> HIDE DEF j, b
  <2>3. /\ \A v \in b .. (p - 1) : v \in b .. e
        /\ \A v \in p .. e : v \in b .. e
        /\ p \in b .. e
    BY <1>1, <2>2
  <2>4. \A v \in b .. e : slots'[v] = slots[v]
    BY <2>1 DEF j
  <2>5. Gap(slots', b, j.n, p, f, e)
    BY <2>1, <2>3, <2>4 DEF Gap
  <2>6. Raised(slots', b, j.n, p, f, e) = Raised(slots, b, j.n, p, f, e)
    <3>1. ASSUME NEW u \in p .. e, u >= p + j.n PROVE u - j.n \in b .. e /\ u - 1 \in b .. e
      BY <1>1, <2>2, <3>1
    <3>2. QED BY <1>1, <2>2, <2>4, <3>1 DEF Raised
  <2>7. QED BY <1>2, <2>1, <2>5, <2>6 DEF Fits, Zone, j, b
<1>3. CASE j.kind = "remove"
  <2>1. PICK s, e \in Slots :
          /\ Hole(slots, b, s, e) /\ (b .. (e + 1)) \cap Slots \subseteq Zone(j)
          /\ plan[t] = Lowered(slots, s, e)
    BY <1>3 DEF Fits
  <2>2. s \in Nat /\ e \in Nat /\ b <= s /\ s <= e
    BY <1>1, <2>1 DEF Hole
  <2>3. b \in Slots
    BY SlotsAreNumbers DEF Jobs
  <2> HIDE DEF j, b
  <2>4. \A v \in b .. e : v \in (b .. (e + 1)) \cap Slots
    BY <1>1, <2>2, <2>3, SlotsAreNumbers
  <2>5. \A v \in b .. e : slots'[v] = slots[v]
    BY <2>1, <2>4 DEF j
  <2>6. e + 1 \in Slots => slots'[e + 1] = slots[e + 1]
    BY <1>1, <2>1, <2>2 DEF j
  <2>7. s \in b .. e /\ \A v \in (s + 1) .. e : v \in b .. e
    BY <1>1, <2>2
  <2>8. Hole(slots', b, s, e)
    BY <2>1, <2>5, <2>6, <2>7 DEF Hole
  <2>9. Lowered(slots', s, e) = Lowered(slots, s, e)
    <3>1. \A u \in s .. e : u < e => u + 1 \in b .. e
      BY <1>1, <2>2
    <3>2. QED BY <2>5, <3>1 DEF Lowered
  <2>10. QED BY <1>3, <2>1, <2>8, <2>9 DEF Fits, Zone, j, b
<1>4. QED BY <1>2, <1>3 DEF Jobs

(* The slots and the plans are left alone.                                 *)
LEMMA SlotsStay ==
    ASSUME CallInv, SlotInv, UNCHANGED <<slots, plan, stored, added, crowded>>,
           \A u \in Threads : stage'[u] = "store" => stage[u] = "store" /\ job'[u] = job[u]
    PROVE  SlotInv'
<1>1. CASE crowded
  BY <1>1 DEF SlotInv
<1>2. CASE ~crowded
  <2>1. InOrder(slots)' /\ Counted'
    BY <1>2 DEF SlotInv, InOrder, Counted, With
  <2>2. ASSUME NEW u \in Threads, stage'[u] = "store" PROVE Fits(u)'
    <3>1. stage[u] = "store" /\ job'[u] = job[u] /\ job[u] \in Jobs
      BY <2>2 DEF CallInv, InCall
    <3>2. Fits(u)
      BY <1>2, <3>1 DEF SlotInv
    <3>3. QED BY <3>1, <3>2, FitsStays
  <2>3. QED BY <2>1, <2>2 DEF SlotInv
<1>3. QED BY <1>1, <1>2

-----------------------------------------------------------------------------
(* The steps of a call *)

LEMMA CallInsertKeeps ==
    ASSUME IInv, NEW t \in Threads, NEW j \in Jobs, CallInsert(t, j)
    PROVE  IInv'
<1>1. CounterInv' /\ CounterType
  BY SyncKeeps DEF IInv, CallInsert, CounterInv
<1>2. /\ stage[t] = "idle" /\ stage' = [stage EXCEPT ![t] = "check"]
      /\ job' = [job EXCEPT ![t] = j] /\ at' = [at EXCEPT ![t] = "sync"]
      /\ UNCHANGED <<slots, lock, plan, stored, crowded, added>>
  BY DEF CallInsert, Idle, Begins, FilterStays, Occupied!Sync
<1>3. stage'[t] = "check" /\ job'[t] = j /\ at'[t] = "sync" /\ Has(t)' = {}
  BY <1>1, <1>2 DEF IInv, CallInv, CounterType, InCall, Has
<1>4. InCall(t)'
  BY <1>3 DEF InCall
<1>5. CallInv'
  <2>1. "check" \in Stages /\ lock' \in [Locks -> Threads \union {Nobody, Left}]
    BY <1>2 DEF Stages, IInv, CallInv
  <2>2. \A u \in Threads \ {t} : Has(u)' = Has(u)
    BY <1>2 DEF Has
  <2>3. QED BY <1>1, <1>2, <1>4, <2>1, <2>2, CallMoves DEF IInv
<1>6. SlotInv'
  BY <1>2, <1>3, SlotsStay DEF IInv, CallInv
<1>7. QED BY <1>1, <1>5, <1>6 DEF IInv

(* The counter is as it was.                                               *)
LEMMA CounterStays == CounterInv /\ UNCHANGED counterVars => CounterInv'
BY DEF CounterInv, counterVars, CounterType, Conserved, SweptIsLate, FarIsCollected,
       InSync, Occupied!InSync, Swept, Sizes

LEMMA CallRemoveKeeps ==
    ASSUME IInv, NEW t \in Threads, NEW j \in Jobs, CallRemove(t, j)
    PROVE  IInv'
<1>1. CounterInv' /\ CounterType
  BY CounterStays DEF IInv, CallRemove, CounterInv
<1>2. /\ stage[t] = "idle" /\ stage' = [stage EXCEPT ![t] = "lock"]
      /\ job' = [job EXCEPT ![t] = j] /\ at' = [at EXCEPT ![t] = at[t]]
      /\ UNCHANGED <<slots, lock, plan, stored, crowded, added, at>>
  BY <1>1 DEF CallRemove, Idle, Begins, FilterStays, counterVars, CounterType
<1>3. stage'[t] = "lock" /\ job'[t] = j /\ at'[t] = at[t] /\ Has(t)' = {}
  BY <1>1, <1>2 DEF IInv, CallInv, CounterType, InCall, Has
<1>4. InCall(t)'
  <2>1. at[t] \notin {"collect", "give"} /\ ~InSync(t)
    BY <1>2 DEF IInv, CallInv, InCall
  <2>2. LocksOf(j) # {}
    BY LocksOfType
  <2>3. (LocksOf(job[t]))' = LocksOf(j)
    BY <1>3
  <2>4. QED BY <1>3, <2>1, <2>2, <2>3 DEF InCall, InSync, Occupied!InSync
<1>5. CallInv'
  <2>1. "lock" \in Stages /\ lock' \in [Locks -> Threads \union {Nobody, Left}]
    BY <1>2 DEF Stages, IInv, CallInv
  <2>2. \A u \in Threads \ {t} : Has(u)' = Has(u)
    BY <1>2 DEF Has
  <2>3. QED BY <1>1, <1>2, <1>4, <2>1, <2>2, CallMoves DEF IInv
<1>6. SlotInv'
  BY <1>2, <1>3, SlotsStay DEF IInv, CallInv
<1>7. QED BY <1>1, <1>5, <1>6 DEF IInv

(* A step inside the counter.                                              *)
LEMMA CountStepKeeps ==
    ASSUME IInv, NEW t \in Threads, CountStep(t)
    PROVE  IInv'
<1>1. CounterInv' /\ CounterType
  BY CollectKeeps, GiveKeeps, SyncTakeKeeps, SyncGiveKeeps DEF IInv, CountStep, CounterInv
<1>2. PICK a :
        /\ at' = [at EXCEPT ![t] = a]
        /\ \/ a \in {"give", "idle"} /\ at[t] \in {"collect", "give"}
           \/ a \in {"syncGive", "sync", "synced"} /\ InSync(t)
  BY DEF CountStep, Occupied!Collect, Occupied!Give, Occupied!SyncTake, Occupied!SyncGive,
         InSync, Occupied!InSync
<1>3. /\ stage' = [stage EXCEPT ![t] = stage[t]] /\ job' = [job EXCEPT ![t] = job[t]]
      /\ UNCHANGED <<stage, job, slots, lock, plan, stored, crowded, added>>
      /\ stage[t] \in Stages /\ job[t] \in Jobs \union {NoJob}
  BY DEF CountStep, FilterStays, IInv, CallInv, Occupied!Collect, Occupied!Give,
         Occupied!SyncTake, Occupied!SyncGive
<1>4. InCall(t)'
  <2>1. at'[t] = a /\ Has(t)' = Has(t) /\ InCall(t)
    BY <1>1, <1>2, <1>3 DEF CounterType, Has, IInv, CallInv
  <2>2. QED BY <1>2, <1>3, <2>1 DEF InCall, InSync, Occupied!InSync
<1>5. CallInv'
  <2>1. lock' \in [Locks -> Threads \union {Nobody, Left}]
    BY <1>3 DEF IInv, CallInv
  <2>2. \A u \in Threads \ {t} : Has(u)' = Has(u)
    BY <1>3 DEF Has
  <2>3. QED BY <1>1, <1>2, <1>3, <1>4, <2>1, <2>2, CallMoves DEF IInv
<1>6. SlotInv'
  BY <1>3, SlotsStay DEF IInv, CallInv
<1>7. QED BY <1>1, <1>5, <1>6 DEF IInv

LEMMA CheckKeeps ==
    ASSUME IInv, NEW t \in Threads, Check(t)
    PROVE  IInv'
<1>1. CounterInv' /\ CounterType
  BY ReadKeeps DEF IInv, Check, CounterInv
<1>2. PICK s \in {"idle", "lock"} : Goes(t, s)
  BY DEF Check
<1>3. /\ stage[t] = "check" /\ at' = [at EXCEPT ![t] = "idle"]
      /\ UNCHANGED <<slots, lock, plan, stored, crowded, added>>
  BY DEF Check, FilterStays, Occupied!Read
<1>4. PICK j \in Jobs \union {NoJob} :
        job' = [job EXCEPT ![t] = j] /\ (s = "idle" \/ (j = job[t] /\ j \in Jobs))
  <2>1. job = [job EXCEPT ![t] = job[t]] /\ job[t] \in Jobs
    BY <1>3 DEF IInv, CallInv, InCall
  <2>2. QED BY <1>2, <2>1 DEF Goes
<1>5. stage' = [stage EXCEPT ![t] = s]
  BY <1>2 DEF Goes
<1>6. stage'[t] = s /\ job'[t] = j /\ at'[t] = "idle" /\ Has(t)' = {}
  BY <1>1, <1>3, <1>4, <1>5 DEF IInv, CallInv, CounterType, InCall, Has
<1>7. InCall(t)'
  <2>1. s = "lock" => LocksOf(j) # {} /\ (LocksOf(job[t]))' = LocksOf(j)
    BY <1>4, <1>6, LocksOfType
  <2>2. QED BY <1>4, <1>6, <2>1 DEF InCall, InSync, Occupied!InSync
<1>8. CallInv'
  <2>1. s \in Stages /\ lock' \in [Locks -> Threads \union {Nobody, Left}]
    BY <1>3 DEF Stages, IInv, CallInv
  <2>2. \A u \in Threads \ {t} : Has(u)' = Has(u)
    BY <1>3 DEF Has
  <2>3. QED BY <1>1, <1>3, <1>4, <1>5, <1>7, <2>1, <2>2, CallMoves DEF IInv
<1>9. SlotInv'
  BY <1>3, <1>4, <1>5, <1>6, SlotsStay DEF IInv, CallInv
<1>10. QED BY <1>1, <1>8, <1>9 DEF IInv

LEMMA SyncCountersKeeps ==
    ASSUME IInv, NEW t \in Threads, SyncCounters(t) \/ Synced(t)
    PROVE  IInv'
<1>1. CounterInv' /\ CounterType
  BY SyncKeeps, ReadKeeps DEF IInv, SyncCounters, Synced, CounterInv
<1>2. PICK s \in {"idle", "sync"}, a \in {"idle", "sync"} :
        /\ stage' = [stage EXCEPT ![t] = s] /\ at' = [at EXCEPT ![t] = a]
        /\ s = "sync" <=> a = "sync"
  BY DEF SyncCounters, Synced, Begins, Goes, Occupied!Sync, Occupied!Read
<1>3. /\ stage[t] \in {"idle", "sync"}
      /\ UNCHANGED <<slots, lock, plan, stored, crowded, added>>
  BY DEF SyncCounters, Synced, FilterStays, Idle, Occupied!Sync, Occupied!Read
<1>4. PICK j \in Jobs \union {NoJob} : job' = [job EXCEPT ![t] = j]
  <2>1. job[t] \in Jobs \union {NoJob}
    BY DEF IInv, CallInv
  <2>2. QED BY <2>1 DEF SyncCounters, Synced, Begins, Goes
<1>5. stage'[t] = s /\ at'[t] = a /\ Has(t)' = {}
  BY <1>1, <1>2, <1>3 DEF IInv, CallInv, CounterType, InCall, Has
<1>6. InCall(t)'
  BY <1>2, <1>5 DEF InCall, InSync, Occupied!InSync
<1>7. CallInv'
  <2>1. s \in Stages /\ lock' \in [Locks -> Threads \union {Nobody, Left}]
    BY <1>3 DEF Stages, IInv, CallInv
  <2>2. \A u \in Threads \ {t} : Has(u)' = Has(u)
    BY <1>3 DEF Has
  <2>3. QED BY <1>1, <1>2, <1>4, <1>6, <2>1, <2>2, CallMoves DEF IInv
<1>8. SlotInv'
  BY <1>2, <1>3, <1>4, <1>5, SlotsStay DEF IInv, CallInv
<1>9. QED BY <1>1, <1>7, <1>8 DEF IInv

LEMMA LeaveOffKeeps ==
    ASSUME IInv, NEW t \in Threads, GiveUp(t)
    PROVE  IInv'
<1>1. CounterInv' /\ CounterType
  BY CounterStays DEF IInv, GiveUp, CounterInv
<1>2. PICK s \in {"idle", "unlock"} : Goes(t, s) /\ (s = "idle" <=> Has(t) = {})
  BY DEF GiveUp
<1>3. /\ stage[t] = "lock" /\ UNCHANGED <<slots, lock, plan, stored, crowded, added, at>>
      /\ at' = [at EXCEPT ![t] = at[t]]
  BY <1>1 DEF GiveUp, FilterStays, counterVars, CounterType
<1>4. PICK j \in Jobs \union {NoJob} : job' = [job EXCEPT ![t] = j]
  <2>1. job = [job EXCEPT ![t] = job[t]] /\ job[t] \in Jobs
    BY <1>3 DEF IInv, CallInv, InCall
  <2>2. QED BY <1>2, <2>1 DEF Goes
<1>5. stage' = [stage EXCEPT ![t] = s]
  BY <1>2 DEF Goes
<1>6. stage'[t] = s /\ at'[t] = at[t] /\ Has(t)' = Has(t)
  BY <1>1, <1>3, <1>5 DEF IInv, CallInv, CounterType, Has
<1>7. InCall(t)'
  <2>1. at[t] \notin {"collect", "give"} /\ ~InSync(t)
    BY <1>3 DEF IInv, CallInv, InCall
  <2>2. QED BY <1>2, <1>6, <2>1 DEF InCall, InSync, Occupied!InSync
<1>8. CallInv'
  <2>1. s \in Stages /\ lock' \in [Locks -> Threads \union {Nobody, Left}]
    BY <1>3 DEF Stages, IInv, CallInv
  <2>2. \A u \in Threads \ {t} : Has(u)' = Has(u)
    BY <1>3 DEF Has
  <2>3. QED BY <1>1, <1>3, <1>4, <1>5, <1>7, <2>1, <2>2, CallMoves DEF IInv
<1>9. SlotInv'
  BY <1>3, <1>4, <1>5, <1>6, SlotsStay DEF IInv, CallInv
<1>10. QED BY <1>1, <1>8, <1>9 DEF IInv

LEMMA TakeLockKeeps ==
    ASSUME IInv, NEW t \in Threads, TakeLock(t)
    PROVE  IInv'
<1>1. CounterInv' /\ CounterType
  BY CounterStays DEF IInv, TakeLock, CounterInv
<1>2. /\ stage[t] = "lock" /\ job[t] \in Jobs
      /\ UNCHANGED <<slots, plan, stored, crowded, added, at>>
      /\ at' = [at EXCEPT ![t] = at[t]]
  BY <1>1 DEF TakeLock, counterVars, CounterType, IInv, CallInv, InCall
<1>3. PICK l, s :
        /\ l = NextLock(t) /\ lock[l] = Nobody /\ lock' = [lock EXCEPT ![l] = t]
        /\ Goes(t, s) /\ s = IF LocksOf(job[t]) = Has(t) \union {l} THEN "look" ELSE "lock"
  BY DEF TakeLock
<1>4. Has(t) \subseteq LocksOf(job[t]) /\ Has(t) # LocksOf(job[t])
  BY <1>2 DEF IInv, CallInv, InCall
<1>5. l \in LocksOf(job[t]) /\ l \in Locks
  <2>1. LocksOf(job[t]) \ Has(t) \in SUBSET Nat /\ LocksOf(job[t]) \ Has(t) # {}
    BY <1>2, <1>4, LocksOfType
  <2>2. l \in LocksOf(job[t]) \ Has(t)
    BY <1>3, <2>1, MinIsLeast DEF NextLock
  <2>3. QED BY <1>2, <2>2, LocksOfType
<1>6. s \in {"look", "lock"} /\ stage' = [stage EXCEPT ![t] = s]
      /\ job' = [job EXCEPT ![t] = job[t]] /\ job' = job
  BY <1>3 DEF Goes, IInv, CallInv
<1>7. lock \in [Locks -> Threads \union {Nobody, Left}] /\ Nobody \notin Threads
  BY LockedAssumption DEF IInv, CallInv
<1>8. Has(t)' = Has(t) \union {l} /\ \A u \in Threads \ {t} : Has(u)' = Has(u)
  BY <1>3, <1>5, <1>7 DEF Has
<1>9. InCall(t)'
  <2>1. at[t] \notin {"collect", "give"} /\ ~InSync(t)
    BY <1>2 DEF IInv, CallInv, InCall
  <2>2. stage'[t] = s /\ at'[t] = at[t] /\ job'[t] = job[t]
        /\ (LocksOf(job[t]))' = LocksOf(job[t])
    BY <1>2, <1>6 DEF IInv, CallInv
  <2>3. QED BY <1>2, <1>3, <1>4, <1>5, <1>6, <1>8, <2>1, <2>2 DEF InCall, InSync, Occupied!InSync
<1>10. CallInv'
  <2>1. s \in Stages /\ lock' \in [Locks -> Threads \union {Nobody, Left}]
    BY <1>3, <1>5, <1>6, <1>7 DEF Stages
  <2>2. job[t] \in Jobs \union {NoJob}
    BY <1>2
  <2>3. QED BY <1>1, <1>2, <1>6, <1>8, <1>9, <2>1, <2>2, CallMoves DEF IInv
<1>11. SlotInv'
  BY <1>2, <1>6, SlotsStay DEF IInv, CallInv
<1>12. QED BY <1>1, <1>10, <1>11 DEF IInv

LEMMA GiveLockKeeps ==
    ASSUME IInv, NEW t \in Threads, GiveLock(t)
    PROVE  IInv'
<1>1. CounterInv' /\ CounterType
  BY CounterStays DEF IInv, GiveLock, CounterInv
<1>2. /\ stage[t] = "unlock" /\ at[t] = "idle"
      /\ UNCHANGED <<slots, plan, stored, crowded, added, at>>
      /\ at' = [at EXCEPT ![t] = at[t]]
  BY <1>1 DEF GiveLock, counterVars, CounterType
<1>3. PICK l, s :
        /\ l = Max(Has(t)) /\ lock' = [lock EXCEPT ![l] = Nobody]
        /\ Goes(t, s) /\ s = IF Cardinality(Has(t)) = 1 THEN "idle" ELSE "unlock"
  BY DEF GiveLock
<1>4. l \in Has(t) /\ l \in Locks /\ lock[l] = t
  <2>1. Has(t) \in SUBSET Locks /\ Has(t) # {}
    BY <1>2 DEF Has, IInv, CallInv, InCall
  <2>2. l \in Has(t)
    BY <1>3, <2>1, LocksOfType, MaxIsGreatest DEF Locks
  <2>3. QED BY <2>2 DEF Has
<1>5. s \in {"idle", "unlock"} /\ stage' = [stage EXCEPT ![t] = s]
  BY <1>3 DEF Goes
<1>6. PICK j \in Jobs \union {NoJob} : job' = [job EXCEPT ![t] = j]
  <2>1. job = [job EXCEPT ![t] = job[t]] /\ job[t] \in Jobs \union {NoJob}
    BY DEF IInv, CallInv
  <2>2. QED BY <1>3, <2>1 DEF Goes
<1>7. lock \in [Locks -> Threads \union {Nobody, Left}] /\ Nobody \notin Threads
  BY LockedAssumption DEF IInv, CallInv
<1>8. Has(t)' = Has(t) \ {l} /\ \A u \in Threads \ {t} : Has(u)' = Has(u)
  BY <1>3, <1>4, <1>7 DEF Has
<1>9. s = "idle" <=> Has(t) \ {l} = {}
  <2>1. IsFiniteSet(Has(t))
    BY LocksOfType, FS_Subset DEF Has
  <2>2. Has(t) = {l} => Cardinality(Has(t)) = 1
    BY FS_Singleton
  <2>3. Cardinality(Has(t)) = 1 => Has(t) = {l}
    BY <1>4, <2>1, FS_Singleton
  <2>4. QED BY <1>3, <1>4, <2>2, <2>3
<1>10. InCall(t)'
  <2>1. stage'[t] = s /\ at'[t] = "idle"
    BY <1>1, <1>2, <1>5 DEF IInv, CallInv, CounterType
  <2>2. QED BY <1>5, <1>8, <1>9, <2>1 DEF InCall, InSync, Occupied!InSync
<1>11. CallInv'
  <2>1. s \in Stages /\ lock' \in [Locks -> Threads \union {Nobody, Left}]
    BY <1>3, <1>5, <1>7 DEF Stages
  <2>2. QED BY <1>1, <1>2, <1>5, <1>6, <1>8, <1>10, <2>1, CallMoves DEF IInv
<1>12. SlotInv'
  BY <1>2, <1>5, <1>6, SlotsStay DEF IInv, CallInv
<1>13. QED BY <1>1, <1>11, <1>12 DEF IInv

LEMMA LookKeeps ==
    ASSUME IInv, NEW t \in Threads, Look(t)
    PROVE  IInv'
<1>1. CounterInv' /\ CounterType
  BY CounterStays DEF IInv, Look, CounterInv
<1> DEFINE j == job[t]
<1>2. /\ stage[t] = "look" /\ j \in Jobs /\ crowded' = (crowded \/ Crowded)
      /\ UNCHANGED <<slots, stored, added, at>>
      /\ at' = [at EXCEPT ![t] = at[t]] /\ DOMAIN plan = Threads
  BY <1>1 DEF Look, counterVars, CounterType, IInv, CallInv, InCall, SlotInv
<1>3. \/ /\ \/ j.kind = "insert" /\ Room(j) /\ plan' = [plan EXCEPT ![t] = ShiftUp(j.bucket, j.n)]
            \/ /\ j.kind = "remove" /\ HomeItems(j.bucket) # {}
               /\ plan' = [plan EXCEPT ![t] = ShiftDown(j.bucket)]
         /\ Goes(t, "store") /\ UNCHANGED lock
      \/ UNCHANGED plan /\ Goes(t, "idle") /\ Leave(t)
  BY DEF Look
<1> HIDE DEF j
<1>4. PICK s \in {"store", "idle"} :
        /\ Goes(t, s)
        /\ s = "store" => lock' = lock
        /\ s = "idle" => Leave(t)
  BY <1>3
<1>5. PICK i \in Jobs \union {NoJob} :
        job' = [job EXCEPT ![t] = i] /\ (s = "idle" \/ i = j)
  <2>1. job = [job EXCEPT ![t] = job[t]] /\ job[t] \in Jobs \union {NoJob}
    BY DEF IInv, CallInv
  <2>2. QED BY <1>4, <2>1 DEF Goes, j
<1>6. stage' = [stage EXCEPT ![t] = s] /\ stage'[t] = s /\ job'[t] = i /\ at'[t] = at[t]
  BY <1>1, <1>2, <1>4, <1>5 DEF Goes, IInv, CallInv, CounterType
<1>7. /\ \A u \in Threads \ {t} : Has(u)' = Has(u)
      /\ s = "store" => Has(t)' = Has(t)
      /\ s = "idle" => Has(t)' = {}
      /\ lock' \in [Locks -> Threads \union {Nobody, Left}]
  <2>1. lock \in [Locks -> Threads \union {Nobody, Left}] /\ Left \notin Threads
    BY LockedAssumption DEF IInv, CallInv
  <2>2. CASE s = "store"
    BY <1>4, <2>1, <2>2 DEF Has
  <2>3. CASE s = "idle"
    BY <1>4, <2>1, <2>3 DEF Has, Leave
  <2>4. QED BY <2>2, <2>3
<1>8. InCall(t)'
  <2>1. at[t] \notin {"collect", "give"} /\ ~InSync(t) /\ LocksOf(j) \subseteq Has(t)
    BY <1>2 DEF IInv, CallInv, InCall, j
  <2>2. (LocksOf(job[t]))' = LocksOf(i)
    BY <1>6
  <2>3. QED BY <1>2, <1>5, <1>6, <1>7, <2>1, <2>2 DEF InCall, InSync, Occupied!InSync
<1>9. CallInv'
  <2>1. s \in Stages
    BY DEF Stages
  <2>2. QED BY <1>1, <1>2, <1>5, <1>6, <1>7, <1>8, <2>1, CallMoves DEF IInv
<1>10. SlotInv'
  <2>1. DOMAIN plan' = Threads
    BY <1>2, <1>3
  <2>2. CASE crowded'
    BY <2>1, <2>2 DEF SlotInv
  <2>3. CASE ~crowded'
    <3>1. ~crowded /\ ~Crowded
      BY <1>2, <2>3
    <3>2. InOrder(slots) /\ InOrder(slots)' /\ Counted'
      BY <1>2, <3>1 DEF IInv, SlotInv, InOrder, Counted, With
    <3>3. ASSUME NEW u \in Threads, stage'[u] = "store" PROVE Fits(u)'
      <4>1. CASE u # t
        <5>1. stage[u] = "store" /\ job'[u] = job[u] /\ plan'[u] = plan[u] /\ job[u] \in Jobs
          BY <1>2, <1>3, <1>5, <1>6, <3>3, <4>1 DEF IInv, CallInv, InCall
        <5>2. Fits(u)
          BY <3>1, <5>1 DEF IInv, SlotInv
        <5>3. QED BY <1>2, <5>1, <5>2, FitsStays
      <4>2. CASE u = t
        <5>1. s = "store" /\ job'[t] = j
          BY <1>2, <1>5, <1>6, <3>3, <4>2
        <5>2. CASE j.kind = "insert" /\ Room(j) /\ plan' = [plan EXCEPT ![t] = ShiftUp(j.bucket, j.n)]
          <6>1. PICK p, f, e \in Slots :
                  /\ Gap(slots, j.bucket, j.n, p, f, e) /\ j.bucket .. e \subseteq Zone(j)
                  /\ ShiftUp(j.bucket, j.n) = Raised(slots, j.bucket, j.n, p, f, e)
            BY <1>2, <3>1, <3>2, <5>2, InsertFits
          <6>2. plan'[t] = Raised(slots, j.bucket, j.n, p, f, e)
            BY <1>2, <5>2, <6>1
          <6>3. QED BY <1>2, <4>2, <5>1, <5>2, <6>1, <6>2 DEF Fits, Zone
        <5>3. CASE j.kind = "remove" /\ HomeItems(j.bucket) # {}
                   /\ plan' = [plan EXCEPT ![t] = ShiftDown(j.bucket)]
          <6>1. PICK q, e \in Slots :
                  /\ Hole(slots, j.bucket, q, e)
                  /\ (j.bucket .. (e + 1)) \cap Slots \subseteq Zone(j)
                  /\ ShiftDown(j.bucket) = Lowered(slots, q, e)
            BY <1>2, <3>1, <3>2, <5>3, RemoveFits
          <6>2. plan'[t] = Lowered(slots, q, e)
            BY <1>2, <5>3, <6>1
          <6>3. QED BY <1>2, <4>2, <5>1, <5>3, <6>1, <6>2 DEF Fits, Zone
        <5>4. ~Goes(t, "idle")
          BY <1>6, <5>1 DEF Goes, IInv, CallInv
        <5>5. QED BY <1>3, <5>2, <5>3, <5>4
      <4>3. QED BY <4>1, <4>2
    <3>4. QED BY <2>1, <3>2, <3>3 DEF SlotInv
  <2>4. QED BY <2>2, <2>3
<1>11. QED BY <1>1, <1>9, <1>10 DEF IInv

(* What fits is stored: the order stays and the items are counted.         *)
LEMMA StoresWell ==
    ASSUME InOrder(slots), NEW t \in Threads, job[t] \in Jobs, Fits(t)
    PROVE  /\ DOMAIN plan[t] \subseteq Zone(job[t])
           /\ InOrder(After(slots, plan[t]))
           /\ \A B \in SUBSET Buckets :
                /\ Cardinality(With(slots, B)) \in Nat
                /\ Cardinality(With(After(slots, plan[t]), B)) = Cardinality(With(slots, B))
                     + IF job[t].bucket \in B THEN Change(job[t]) ELSE 0
<1> DEFINE j == job[t]
<1> DEFINE b == j.bucket
<1>1. b \in Buckets /\ b \in Nat /\ j.n \in {1, 2} /\ Slots \subseteq Nat
  BY SlotsAreNumbers DEF Jobs, Counts
<1>2. CASE j.kind = "insert"
  <2>1. PICK p, f, e \in Slots :
          /\ Gap(slots, b, j.n, p, f, e) /\ b .. e \subseteq Zone(j)
          /\ plan[t] = Raised(slots, b, j.n, p, f, e)
    BY <1>2 DEF Fits
  <2>2. Change(j) = j.n
    BY <1>2 DEF Change
  <2> HIDE DEF j, b
  <2>3. p .. e \subseteq b .. e
    BY <1>1, <2>1 DEF Gap
  <2>4. DOMAIN plan[t] \subseteq Zone(j)
    BY <2>1, <2>3 DEF Raised
  <2>5. InOrder(After(slots, plan[t]))
    BY <1>1, <2>1, RaiseOrder
  <2>6. ASSUME NEW B \in SUBSET Buckets
        PROVE  /\ Cardinality(With(slots, B)) \in Nat
               /\ Cardinality(With(After(slots, plan[t]), B))
                    = Cardinality(With(slots, B)) + IF b \in B THEN Change(j) ELSE 0
    <3> DEFINE n == j.n
    <3>1. n \in {1, 2} /\ Gap(slots, b, n, p, f, e) /\ n = Change(j)
          /\ plan[t] = Raised(slots, b, n, p, f, e)
      BY <1>1, <2>1, <2>2
    <3> HIDE DEF n
    <3>2. /\ Cardinality(With(slots, B)) \in Nat
          /\ Cardinality(With(After(slots, Raised(slots, b, n, p, f, e)), B))
               = Cardinality(With(slots, B)) + IF b \in B THEN n ELSE 0
      BY <1>1, <3>1, RaiseCount
    <3>3. QED BY <3>1, <3>2
  <2>7. QED BY <2>4, <2>5, <2>6 DEF j, b
<1>3. CASE j.kind = "remove"
  <2>1. PICK s, e \in Slots :
          /\ Hole(slots, b, s, e) /\ (b .. (e + 1)) \cap Slots \subseteq Zone(j)
          /\ plan[t] = Lowered(slots, s, e)
    BY <1>3 DEF Fits
  <2>2. Change(j) = -1
    BY <1>3 DEF Change
  <2> HIDE DEF j, b
  <2>3. s .. e \subseteq (b .. (e + 1)) \cap Slots
    BY <1>1, <2>1, SlotsAreNumbers DEF Hole
  <2>4. DOMAIN plan[t] \subseteq Zone(j)
    BY <2>1, <2>3 DEF Lowered
  <2>5. InOrder(After(slots, plan[t]))
    BY <1>1, <2>1, LowerOrder
  <2>6. ASSUME NEW B \in SUBSET Buckets
        PROVE  /\ Cardinality(With(slots, B)) \in Nat
               /\ Cardinality(With(After(slots, plan[t]), B))
                    = Cardinality(With(slots, B)) + IF b \in B THEN Change(j) ELSE 0
    <3>1. /\ Cardinality(With(slots, B)) \in Nat
          /\ Cardinality(With(After(slots, plan[t]), B))
               = Cardinality(With(slots, B)) - IF b \in B THEN 1 ELSE 0
      BY <1>1, <2>1, LowerCount
    <3>2. QED BY <2>2, <3>1
  <2>7. QED BY <2>4, <2>5, <2>6 DEF j, b
<1>4. QED BY <1>2, <1>3 DEF Jobs

(* Calls that look or store at the same time have no region in common.     *)
LEMMA Apart ==
    ASSUME CallInv, NEW t \in Threads, NEW u \in Threads \ {t},
           stage[t] \in {"look", "store"}, stage[u] \in {"look", "store"}
    PROVE  Zone(job[t]) \intersect Zone(job[u]) = {}
<1>1. LocksOf(job[t]) \subseteq Has(t) /\ LocksOf(job[u]) \subseteq Has(u)
  BY DEF CallInv, InCall
<1>2. QED BY <1>1 DEF Zone, Has

LEMMA StoreKeeps ==
    ASSUME IInv, NEW t \in Threads, NEW i \in Ids, Store(t, i)
    PROVE  IInv'
<1> DEFINE j == job[t]
<1>1. CounterType /\ stage[t] = "store" /\ job[t] \in Jobs /\ Change(j) \in Int
  BY DEF IInv, CounterInv, CallInv, InCall, Store, Change, Jobs, Counts
<1>2. CounterInv'
  BY <1>1, AddKeeps DEF IInv, Store
<1>3. /\ slots' = After(slots, plan[t]) /\ plan' = [plan EXCEPT ![t] = NoSlots]
      /\ stored' = [stored EXCEPT ![j.bucket] = stored[j.bucket] + Change(j)]
      /\ added' = added + Change(j) /\ lock' = lock /\ crowded' = crowded
      /\ stage' = [stage EXCEPT ![t] = "unlock"] /\ job' = [job EXCEPT ![t] = j] /\ job' = job
      /\ \E a : at' = [at EXCEPT ![t] = a]
      /\ at[t] = "idle"
  <2>1. at = [at EXCEPT ![t] = at[t]] /\ job = [job EXCEPT ![t] = job[t]]
    BY <1>1 DEF CounterType, IInv, CallInv
  <2>2. QED BY <2>1 DEF Store, Goes, After, Occupied!Add, Occupied!Call
<1> HIDE DEF j
<1>4. stage'[t] = "unlock" /\ Has(t)' = Has(t) /\ Has(t) # {}
  <2>1. LocksOf(job[t]) \subseteq Has(t) /\ RegionOf(job[t].bucket) \in LocksOf(job[t])
    BY <1>1, LocksOfType DEF IInv, CallInv, InCall
  <2>2. QED BY <1>3, <2>1 DEF Has, IInv, CallInv
<1>5. InCall(t)'
  <2>1. at'[t] \in {"idle", "collect"}
    BY <1>1 DEF Store, Occupied!Add, Occupied!Call, CounterType
  <2>2. QED BY <1>4, <2>1 DEF InCall, InSync, Occupied!InSync
<1>6. CallInv'
  <2>1. "unlock" \in Stages /\ j \in Jobs \union {NoJob}
        /\ lock' \in [Locks -> Threads \union {Nobody, Left}]
    BY <1>1, <1>3 DEF Stages, IInv, CallInv, j
  <2>2. \A u \in Threads \ {t} : Has(u)' = Has(u)
    BY <1>3 DEF Has
  <2>3. QED BY <1>1, <1>3, <1>5, <2>1, <2>2, CallMoves DEF IInv
<1>7. SlotInv'
  <2>1. DOMAIN plan' = Threads
    BY <1>3 DEF IInv, SlotInv
  <2>2. CASE crowded
    BY <1>3, <2>1, <2>2 DEF SlotInv
  <2>3. CASE ~crowded
    <3>1. InOrder(slots) /\ Counted /\ Fits(t)
      BY <1>1, <2>3 DEF IInv, SlotInv
    <3>2. /\ DOMAIN plan[t] \subseteq Zone(j)
          /\ InOrder(slots')
          /\ \A B \in SUBSET Buckets :
               /\ Cardinality(With(slots, B)) \in Nat
               /\ Cardinality(With(slots', B))
                    = Cardinality(With(slots, B)) + IF j.bucket \in B THEN Change(j) ELSE 0
      BY <1>1, <1>3, <3>1, StoresWell DEF j
    <3>3. j.bucket \in Buckets
      BY <1>1 DEF Jobs, j
    <3>4. Counted'
      <4>1. stored' \in [Buckets -> Int]
        BY <1>1, <1>3, <3>1, <3>3 DEF Counted
      <4>2. ASSUME NEW b \in Buckets PROVE Cardinality(With(slots', {b})) = stored'[b]
        <5>1. Cardinality(With(slots, {b})) = stored[b] /\ stored[b] \in Int
          BY <3>1 DEF Counted
        <5>2. Cardinality(With(slots', {b}))
                = Cardinality(With(slots, {b})) + IF j.bucket = b THEN Change(j) ELSE 0
          BY <3>2
        <5>3. stored'[b] = stored[b] + IF j.bucket = b THEN Change(j) ELSE 0
          BY <1>1, <1>3, <3>1, <3>3, <5>1 DEF Counted
        <5>4. QED BY <5>1, <5>2, <5>3
      <4>3. Cardinality(With(slots', Buckets)) = added'
        <5>1. Cardinality(With(slots', Buckets)) = Cardinality(With(slots, Buckets)) + Change(j)
          BY <3>2, <3>3
        <5>2. QED BY <1>3, <3>1, <5>1 DEF Counted
      <4>4. QED BY <4>1, <4>2, <4>3 DEF Counted, With
    <3>5. ASSUME NEW u \in Threads, stage'[u] = "store" PROVE Fits(u)'
      <4>1. u \in Threads \ {t} /\ stage[u] = "store" /\ job[u] \in Jobs
        BY <1>3, <1>4, <3>5 DEF IInv, CallInv, InCall
      <4>2. job'[u] = job[u] /\ plan'[u] = plan[u] /\ Fits(u)
        BY <1>3, <2>3, <4>1 DEF IInv, SlotInv
      <4>3. Zone(j) \intersect Zone(job[u]) = {}
        BY <1>1, <4>1, Apart DEF IInv, j
      <4>4. \A v \in Zone(job[u]) : slots'[v] = slots[v]
        <5>1. \A v \in Zone(job[u]) : v \in Slots /\ v \notin DOMAIN plan[t]
          BY <3>2, <4>3 DEF Zone
        <5>2. QED BY <1>3, <5>1 DEF After
      <4>5. QED BY <4>1, <4>2, <4>4, FitsStays
    <3>6. InOrder(slots)'
      BY <3>2 DEF InOrder
    <3>7. QED BY <2>1, <3>4, <3>5, <3>6 DEF SlotInv
  <2>4. QED BY <2>2, <2>3
<1>8. QED BY <1>2, <1>6, <1>7 DEF IInv

-----------------------------------------------------------------------------
(* The specification *)

LEMMA InitHolds == Init => IInv
<1> SUFFICES ASSUME Init PROVE IInv
  OBVIOUS
<1>1. CounterInv
  BY CounterInit DEF Init
<1>2. CallInv
  <2>1. NoJob \in Jobs \union {NoJob} /\ Nobody \notin Threads
    BY LockedAssumption
  <2>2. ASSUME NEW t \in Threads PROVE InCall(t)
    <3>1. stage[t] = "idle" /\ at[t] = "idle" /\ Has(t) = {}
      BY <2>1 DEF Init, Occupied!Init, Has
    <3>2. QED BY <3>1 DEF InCall, InSync, Occupied!InSync
  <2>3. QED BY <2>1, <2>2 DEF CallInv, Init, Stages
<1>3. SlotInv
  <2>1. \A B \in SUBSET Buckets : With(slots, B) = {}
    <3>1. Buckets \subseteq Int /\ Free \notin Int
      BY SlotsAreNumbers
    <3>2. QED BY <3>1 DEF With, Init
  <2>2. Counted
    BY <2>1, FS_EmptySet DEF Counted, Init, Occupied!Init
  <2>3. InOrder(slots)
    BY DEF InOrder, Init
  <2>4. QED BY <2>2, <2>3 DEF SlotInv, Init
<1>4. QED BY <1>1, <1>2, <1>3 DEF IInv

LEMMA StepKeeps == IInv /\ [Next]_vars => IInv'
<1> SUFFICES ASSUME IInv, [Next]_vars PROVE IInv'
  OBVIOUS
<1>1. CASE UNCHANGED vars
  <2>1. CounterInv' /\ UNCHANGED <<stage, job, lock, at, slots, plan, stored, added, crowded>>
    BY <1>1, CounterStays DEF vars, counterVars, IInv
  <2>2. CallInv'
    BY <2>1 DEF IInv, CallInv, InCall, Has, InSync, Occupied!InSync
  <2>3. SlotInv'
    BY <2>1, SlotsStay DEF IInv
  <2>4. QED BY <2>1, <2>2, <2>3 DEF IInv
<1>2. ASSUME NEW t \in Threads, NEW j \in Jobs, CallInsert(t, j) \/ CallRemove(t, j)
      PROVE  IInv'
  BY <1>2, CallInsertKeeps, CallRemoveKeeps
<1>3. ASSUME NEW t \in Threads, GiveUp(t) \/ SyncCounters(t) PROVE IInv'
  BY <1>3, LeaveOffKeeps, SyncCountersKeeps
<1>4. ASSUME NEW t \in Threads, Step(t) PROVE IInv'
  BY <1>4, CountStepKeeps, CheckKeeps, TakeLockKeeps, LookKeeps, StoreKeeps, GiveLockKeeps,
     SyncCountersKeeps DEF Step, Ids
<1>5. CASE Stopped
  BY <1>1, <1>5 DEF Stopped
<1>6. QED BY <1>1, <1>2, <1>3, <1>4, <1>5 DEF Next

(* In every behaviour, whatever the number of threads, locks and counters, *)
(* the parts of the invariant above hold.                                  *)
THEOREM Invariant == Spec => []IInv
<1>1. QED BY InitHolds, StepKeeps, PTL DEF Spec

LEMMA HandsType == CounterType => held \in [Threads -> Int] /\ local \in [Ids -> Int]
BY DEF CounterType

(* The local counters are off zero by no more than their sizes.            *)
LEMMA LocalBounded ==
    ASSUME CounterType
    PROVE  Balance(local, Ids) <= Total(Sizes, Ids) /\ -Balance(local, Ids) <= Total(Sizes, Ids)
<1>1. local \in [Ids -> Int] /\ Sizes \in [Ids -> Nat]
  BY SizesType DEF CounterType
<1>2. \A i \in Ids : local[i] <= Sizes[i] /\ -local[i] <= Sizes[i]
  BY <1>1 DEF Sizes, Size
<1>3. QED BY <1>1, <1>2, SetsFinite, BalanceBound

(* What pc_add() counted is in a local counter, the global one or the      *)
(* hands of a thread, however the calls of any number of threads           *)
(* interleave.                                                             *)
THEOREM Lossless == Spec => []NothingLost
<1>1. IInv => NothingLost
  <2> SUFFICES ASSUME IInv PROVE NothingLost
    OBVIOUS
  <2>1. held \in [Threads -> Int] /\ local \in [Ids -> Int] /\ Conserved
    BY HandsType DEF IInv, CounterInv
  <2>2. Occupied!SumFunction(local) = Balance(local, Ids)
        /\ Occupied!SumFunction(held) = Balance(held, Threads)
    BY <2>1, SetsFinite, SumOfAll
  <2>3. QED BY <2>1, <2>2 DEF NothingLost, Occupied!NothingLost, Conserved
<1>2. QED BY <1>1, Invariant, PTL

LEMMA SweepCatchesUp == IInv => SyncCatchesUp
<1> SUFFICES ASSUME IInv, NEW t \in Threads, at[t] = "synced"
             PROVE  Occupied!Size(added - global - Occupied!SumFunction(held)) <= late[t]
  BY DEF SyncCatchesUp, Occupied!SyncCatchesUp
<1>1. /\ held \in [Threads -> Int] /\ local \in [Ids -> Int] /\ Conserved /\ CounterType
      /\ global \in Int /\ added \in Int /\ late[t] \in Nat
  BY HandsType DEF IInv, CounterInv, CounterType
<1>2. Occupied!SumFunction(held) = Balance(held, Threads)
  BY <1>1, SetsFinite, SumOfAll
<1>3. Total(Sizes, Ids) <= late[t]
  <2>1. InSync(t) /\ Swept(t) = Ids
    BY DEF InSync, Occupied!InSync, Swept
  <2>2. QED BY <2>1 DEF IInv, CounterInv, SweptIsLate
<1>4. Balance(local, Ids) <= Total(Sizes, Ids) /\ -Balance(local, Ids) <= Total(Sizes, Ids)
  BY <1>1, LocalBounded
<1>5. /\ Balance(local, Ids) \in Int /\ Balance(held, Threads) \in Int
      /\ Total(Sizes, Ids) \in Nat
  BY <1>1, SetsFinite, SizesType, BalanceWithout, TotalCovers
<1>6. QED BY <1>1, <1>2, <1>3, <1>4, <1>5 DEF Conserved, Occupied!Size

(* After its pc_sync() a thread reads a global counter that lacks no more  *)
(* than was added meanwhile and is in the hands of others.                 *)
THEOREM CatchesUp == Spec => []SyncCatchesUp
BY SweepCatchesUp, Invariant, PTL

(* As long as no stretch of slots in use was longer than CLUSTER_SIZE, no  *)
(* thread shifts what another has just stored: each bucket has exactly the *)
(* items accepted and not removed, for any regions more than twice as long.*)
THEOREM Kept == Spec => []ItemsKept
<1>1. IInv => ItemsKept
  BY DEF IInv, SlotInv, Counted, With, ItemsKept, HomeItems
<1>2. QED BY <1>1, Invariant, PTL

LEMMA InUseIsAdded ==
    ASSUME IInv, ~crowded
    PROVE  Cardinality({s \in Slots : InUse(s)}) = added
<1>1. slots \in [Slots -> Buckets \union {Free}]
  BY DEF IInv, SlotInv, InOrder
<1>2. Buckets \subseteq Int /\ Free \notin Int
  BY SlotsAreNumbers
<1>3. {s \in Slots : InUse(s)} = With(slots, Buckets)
  BY <1>1, <1>2 DEF InUse, With
<1>4. QED BY <1>3 DEF IInv, SlotInv, Counted

(* While no thread is inside the global counter is off the slots in use by *)
(* no more than the threshold for each local counter: a sum beyond the     *)
(* threshold always has a thread about to collect it.                      *)
THEOREM IdleError == Spec => [](~crowded => IdleErrorBounded)
<1>1. ASSUME IInv, ~crowded, AllIdle
      PROVE  Occupied!Size(Cardinality({s \in Slots : InUse(s)}) - global)
               <= NumCounters * Threshold
  <2>1. /\ held \in [Threads -> Int] /\ local \in [Ids -> Int] /\ Conserved /\ CounterType
        /\ global \in Int /\ added \in Int /\ NumCounters \in Nat /\ Threshold \in Nat
    BY <1>1, HandsType, LockedAssumption DEF IInv, CounterInv, CounterType
  <2>2. Cardinality({s \in Slots : InUse(s)}) = added
    BY <1>1, InUseIsAdded
  <2>3. \A t \in Threads : at[t] \notin {"collect", "give"} /\ ~InSync(t)
    BY <1>1 DEF IInv, CallInv, InCall, AllIdle, Idle
  <2>4. Balance(held, Threads) = 0
    <3>1. \A t \in Threads : held[t] = 0
      BY <2>1, <2>3 DEF CounterType, InSync, Occupied!InSync
    <3>2. held \in [Threads -> {0}]
      BY <2>1, <3>1
    <3>3. QED BY <3>2, BalanceZero
  <2>5. added - global = Balance(local, Ids) /\ Balance(local, Ids) \in Int
    <3> DEFINE near == Balance(local, Ids)
    <3> DEFINE inHands == Balance(held, Threads)
    <3>1. near \in Int
      BY <2>1, SetsFinite, BalanceWithout
    <3>2. global + near + inHands = added
      BY <2>1 DEF Conserved
    <3>3. inHands = 0 /\ global \in Int /\ added \in Int
      BY <2>1, <2>4
    <3> HIDE DEF near, inHands
    <3>4. added - global = near /\ near \in Int
      BY <3>1, <3>2, <3>3
    <3>5. QED BY <3>4 DEF near
  <2>6. Occupied!Size(added - global) <= NumCounters * Threshold
    <3>1. ASSUME NEW i \in Ids PROVE Sizes[i] \in 0 .. Threshold
      <4>1. ~Far(local[i])
        BY <1>1, <2>3 DEF IInv, CounterInv, FarIsCollected
      <4>2. local[i] \in Int /\ Sizes[i] = Size(local[i])
        BY <2>1 DEF Sizes
      <4>3. QED BY <2>1, <4>1, <4>2 DEF Far, Size
    <3>2. Total(Sizes, Ids) <= NumCounters * Threshold
      BY <2>1, <3>1, SetsFinite, TotalBound
    <3>3. Total(Sizes, Ids) \in Nat /\ NumCounters * Threshold \in Nat
      BY <2>1, SetsFinite, SizesType, TotalCovers
    <3>4. Balance(local, Ids) <= Total(Sizes, Ids) /\ -Balance(local, Ids) <= Total(Sizes, Ids)
      BY <2>1, LocalBounded
    <3> DEFINE most == NumCounters * Threshold
    <3>5. Total(Sizes, Ids) <= most /\ most \in Nat
      BY <3>2, <3>3
    <3> DEFINE off == added - global
    <3>6. off = Balance(local, Ids) /\ off \in Int
      BY <2>1, <2>5
    <3> HIDE DEF most, off
    <3>7. off <= most /\ -off <= most
      BY <2>5, <3>3, <3>4, <3>5, <3>6
    <3>8. Occupied!Size(off) <= most
      BY <3>6, <3>7 DEF Occupied!Size
    <3>9. QED BY <3>8 DEF most, off
  <2>7. QED BY <2>2, <2>6
<1>2. IInv => (~crowded => IdleErrorBounded)
  BY <1>1 DEF IdleErrorBounded
<1>3. QED BY <1>2, Invariant, PTL

(* No step moves more than one thread.                                     *)
LEMMA OneMoves ==
    ASSUME IInv, Next, stage' # stage
    PROVE  \E u \in Threads :
              /\ \A t \in Threads \ {u} : stage'[t] = stage[t]
              /\ stage[u] = "check" /\ stage'[u] = "lock" => Check(u)
<1>1. stage \in [Threads -> Stages]
  BY DEF IInv, CallInv
<1>2. ASSUME NEW u \in Threads, NEW s, stage' = [stage EXCEPT ![u] = s]
      PROVE  \A t \in Threads \ {u} : stage'[t] = stage[t]
  BY <1>1, <1>2
<1>3. ASSUME NEW u \in Threads, NEW j \in Jobs, CallInsert(u, j) \/ CallRemove(u, j)
      PROVE  stage[u] = "idle" /\ \E s : stage' = [stage EXCEPT ![u] = s]
  BY <1>3 DEF CallInsert, CallRemove, Idle, Begins
<1>4. ASSUME NEW u \in Threads, GiveUp(u) \/ SyncCounters(u) \/ Synced(u) \/ TakeLock(u) \/ GiveLock(u)
      PROVE  stage[u] # "check" /\ \E s : stage' = [stage EXCEPT ![u] = s]
  BY <1>4 DEF GiveUp, SyncCounters, Idle, Synced, TakeLock, GiveLock, Goes, Begins
<1>5. ASSUME NEW u \in Threads, Look(u)
      PROVE  stage[u] # "check" /\ \E s : stage' = [stage EXCEPT ![u] = s]
  BY <1>5 DEF Look, Goes
<1>6. ASSUME NEW u \in Threads, NEW i, Store(u, i)
      PROVE  stage[u] # "check" /\ \E s : stage' = [stage EXCEPT ![u] = s]
  BY <1>6 DEF Store, Goes
<1>7. ASSUME NEW u \in Threads, Check(u) PROVE \E s : stage' = [stage EXCEPT ![u] = s]
  BY <1>7 DEF Check, Goes
<1>8. \A u \in Threads : ~CountStep(u)
  BY DEF CountStep
<1>9. ~Stopped
  BY DEF Stopped, vars
<1>10. PICK u \in Threads :
         /\ \E s : stage' = [stage EXCEPT ![u] = s]
         /\ stage[u] # "check" \/ Check(u)
  BY <1>3, <1>4, <1>5, <1>6, <1>7, <1>8, <1>9 DEF Next, Step
<1>11. QED BY <1>2, <1>10

(* A call goes on only if, but for what its read could not see, the slots  *)
(* in use were fewer than the limit.                                       *)
THEOREM Refused == Spec => FullIsRefused
<1> DEFINE seen(t) == Limit + late[t] + Occupied!Size(Occupied!SumFunction(held))
<1>1. ASSUME IInv, Next, NEW t \in Threads, ~crowded, stage[t] = "check", stage'[t] = "lock"
      PROVE  Cardinality({s \in Slots : InUse(s)}) < seen(t)
  <2>1. Check(t)
    BY <1>1, OneMoves
  <2>2. at[t] = "synced"
    BY <2>1 DEF Check, Occupied!Read
  <2>3. global < Limit
    <3>1. CASE global >= Limit
      <4>1. stage' = [stage EXCEPT ![t] = "idle"] /\ stage \in [Threads -> Stages]
        BY <1>1, <2>1, <3>1 DEF Check, Goes, IInv, CallInv
      <4>2. QED BY <1>1, <4>1
    <3>2. QED BY <1>1, <3>1, LockedAssumption DEF IInv, CounterInv, CounterType
  <2> DEFINE hands == Occupied!SumFunction(held)
  <2>4. hands \in Int
    <3>1. held \in [Threads -> Int]
      BY <1>1, HandsType DEF IInv, CounterInv
    <3>2. QED BY <3>1, SetsFinite, SumOfAll, BalanceWithout
  <2>5. Occupied!Size(added - global - hands) <= late[t]
    BY <1>1, <2>2, SweepCatchesUp DEF SyncCatchesUp, Occupied!SyncCatchesUp
  <2>6. added \in Int /\ global \in Int /\ late[t] \in Nat /\ Limit \in Nat
    BY <1>1, LockedAssumption DEF IInv, CounterInv, CounterType
  <2>7. Cardinality({s \in Slots : InUse(s)}) = added
    BY <1>1, InUseIsAdded
  <2> HIDE DEF hands
  <2>8. added < Limit + late[t] + Occupied!Size(hands)
    BY <2>3, <2>4, <2>5, <2>6 DEF Occupied!Size
  <2>9. QED BY <2>7, <2>8 DEF hands
<1>2. IInv /\ [Next]_vars =>
        [\A t \in Threads : ~crowded /\ stage[t] = "check" /\ stage'[t] = "lock" =>
            Cardinality({s \in Slots : InUse(s)}) < seen(t)]_vars
  BY <1>1
<1>3. QED BY <1>2, Invariant, PTL DEF Spec, FullIsRefused

-----------------------------------------------------------------------------
(* Locks given back *)

(* Slots past every bucket for a stretch of slots in use, an empty slot,   *)
(* another stretch and another empty slot.                                 *)
RoomPastBuckets == \A b \in Buckets : b + 2 * Cluster + 1 \in Slots

(* Threads that are to take an item out of a bucket.                       *)
Removers(b) ==
    {t \in Threads : stage[t] \in {"lock", "look", "store"}
                     /\ job[t].kind = "remove" /\ job[t].bucket = b}

(* The items of a bucket cover those promised and those being removed.     *)
PromisesCovered ==
    /\ promised \in [Buckets -> Nat] /\ stored \in [Buckets -> Int]
    /\ \A b \in Buckets : promised[b] + Cardinality(Removers(b)) <= stored[b]

ReturnInv ==
    /\ PromisesCovered
    /\ \A t \in Threads : stage[t] = "check" => job[t].kind = "insert"
    /\ crowded \/ \A l \in Locks : lock[l] # Left

LEMMA RemoversFinite == \A b : IsFiniteSet(Removers(b)) /\ Cardinality(Removers(b)) \in Nat
BY LockedAssumption, FS_Subset, FS_CardinalityType DEF Removers

(* One thread moves: the others that remove are the same.                  *)
LEMMA OthersRemove ==
    ASSUME CallInv, NEW t \in Threads, NEW s, NEW j,
           stage' = [stage EXCEPT ![t] = s], job' = [job EXCEPT ![t] = j]
    PROVE  /\ \A b : Removers(b)' \ {t} = Removers(b) \ {t}
           /\ \A b : t \in Removers(b)' <=>
                 s \in {"lock", "look", "store"} /\ j.kind = "remove" /\ j.bucket = b
           /\ \A u \in Threads \ {t} : stage'[u] = stage[u] /\ job'[u] = job[u]
           /\ stage'[t] = s /\ job'[t] = j
BY DEF CallInv, Removers

(* A thread that was not to remove an item still is not.                   *)
LEMMA FewerRemove ==
    ASSUME CallInv, ReturnInv, NEW t \in Threads, NEW s, NEW j,
           stage' = [stage EXCEPT ![t] = s], job' = [job EXCEPT ![t] = j],
           UNCHANGED <<promised, stored>>,
           s \in {"lock", "look", "store"} /\ j.kind = "remove" => t \in Removers(j.bucket),
           s = "check" => j.kind = "insert"
    PROVE  PromisesCovered' /\ \A u \in Threads : stage'[u] = "check" => job'[u].kind = "insert"
<1>1. /\ \A b : Removers(b)' \ {t} = Removers(b) \ {t}
      /\ \A b : t \in Removers(b)' <=>
            s \in {"lock", "look", "store"} /\ j.kind = "remove" /\ j.bucket = b
      /\ \A u \in Threads \ {t} : stage'[u] = stage[u] /\ job'[u] = job[u]
      /\ stage'[t] = s /\ job'[t] = j
  BY OthersRemove
<1>2. ASSUME NEW b \in Buckets PROVE promised[b] + Cardinality(Removers(b)') <= stored[b]
  <2>1. Removers(b)' \subseteq Removers(b)
    BY <1>1
  <2>2. Cardinality(Removers(b)') <= Cardinality(Removers(b)) /\ IsFiniteSet(Removers(b)')
    BY <2>1, RemoversFinite, FS_Subset
  <2>3. Cardinality(Removers(b)') \in Nat /\ Cardinality(Removers(b)) \in Nat
    BY <2>2, RemoversFinite, FS_CardinalityType
  <2>4. /\ promised[b] \in Nat /\ stored[b] \in Int
        /\ promised[b] + Cardinality(Removers(b)) <= stored[b]
    BY DEF ReturnInv, PromisesCovered
  <2>5. QED BY <2>2, <2>3, <2>4
<1>3. PromisesCovered'
  BY <1>2 DEF ReturnInv, PromisesCovered
<1>4. QED BY <1>1, <1>3 DEF ReturnInv

(* A removal is called for what is promised.                               *)
LEMMA RemovalCovered ==
    ASSUME IInv, ReturnInv, ~AbsentToo, NEW t \in Threads, NEW j \in Jobs, CallRemove(t, j)
    PROVE  ReturnInv'
<1> DEFINE b == j.bucket
<1>1. /\ stage[t] = "idle" /\ j.kind = "remove" /\ b \in Buckets /\ promised[b] > 0
      /\ stage' = [stage EXCEPT ![t] = "lock"] /\ job' = [job EXCEPT ![t] = j]
      /\ promised' = [promised EXCEPT ![b] = promised[b] - 1]
      /\ UNCHANGED <<stored, lock, crowded>>
  <2>1. promised[b] > 0 /\ promised[b] \in Nat
    BY DEF CallRemove, ReturnInv, PromisesCovered, Jobs
  <2>2. promised' = [promised EXCEPT ![b] = IF promised[b] = 0 THEN 0 ELSE promised[b] - 1]
    BY DEF CallRemove
  <2>3. promised' = [promised EXCEPT ![b] = promised[b] - 1]
    <3> HIDE DEF b
    <3>1. (IF promised[b] = 0 THEN 0 ELSE promised[b] - 1) = promised[b] - 1
      BY <2>1
    <3>2. QED BY <2>2, <3>1
  <2>4. QED BY <2>1, <2>3 DEF CallRemove, Idle, Begins, FilterStays, Jobs
<1>2. /\ \A c : Removers(c)' \ {t} = Removers(c) \ {t}
      /\ \A c : t \in Removers(c)' <=> b = c
      /\ \A u \in Threads \ {t} : stage'[u] = stage[u] /\ job'[u] = job[u]
      /\ stage'[t] = "lock"
  <2>1. CallInv
    BY DEF IInv
  <2>2. /\ \A c : Removers(c)' \ {t} = Removers(c) \ {t}
        /\ \A c : t \in Removers(c)' <=>
              "lock" \in {"lock", "look", "store"} /\ j.kind = "remove" /\ j.bucket = c
        /\ \A u \in Threads \ {t} : stage'[u] = stage[u] /\ job'[u] = job[u]
        /\ stage'[t] = "lock"
    BY <1>1, <2>1, OthersRemove
  <2>3. QED BY <1>1, <2>2
<1> HIDE DEF b
<1>3. \A c : t \notin Removers(c)
  BY <1>1 DEF Removers
<1>4. ASSUME NEW c \in Buckets PROVE promised'[c] + Cardinality(Removers(c)') <= stored[c]
  <2>1. /\ promised[c] \in Nat /\ stored[c] \in Int /\ Cardinality(Removers(c)) \in Nat
        /\ promised[c] + Cardinality(Removers(c)) <= stored[c]
    BY RemoversFinite DEF ReturnInv, PromisesCovered
  <2>2. CASE c = b
    <3>1. Removers(c)' = Removers(c) \union {t}
      BY <1>2, <1>3, <2>2
    <3>2. Cardinality(Removers(c)') = Cardinality(Removers(c)) + 1
      BY <1>3, <3>1, RemoversFinite, FS_AddElement
    <3>3. promised'[c] = promised[c] - 1
      BY <1>1, <2>2 DEF ReturnInv, PromisesCovered
    <3>4. QED BY <2>1, <3>2, <3>3
  <2>3. CASE c # b
    <3>1. Removers(c)' = Removers(c)
      BY <1>2, <1>3, <2>3
    <3>2. promised'[c] = promised[c]
      BY <1>1, <2>3 DEF ReturnInv, PromisesCovered
    <3>3. QED BY <2>1, <3>1, <3>2
  <2>4. QED BY <2>2, <2>3
<1>5. promised' \in [Buckets -> Nat]
  <2>1. promised[b] - 1 \in Nat
    BY <1>1 DEF ReturnInv, PromisesCovered
  <2>2. QED BY <1>1, <2>1 DEF ReturnInv, PromisesCovered
<1>6. PromisesCovered'
  BY <1>1, <1>4, <1>5 DEF ReturnInv, PromisesCovered
<1>7. QED BY <1>1, <1>2, <1>6 DEF ReturnInv

(* An item is stored or taken out: what covers the promises moves along.   *)
LEMMA StoreCovered ==
    ASSUME IInv, ReturnInv, NEW t \in Threads, NEW i \in Ids, Store(t, i)
    PROVE  ReturnInv'
<1> DEFINE j == job[t]
<1> DEFINE b == j.bucket
<1>1. /\ stage[t] = "store" /\ j \in Jobs /\ b \in Buckets
      /\ stage' = [stage EXCEPT ![t] = "unlock"] /\ job' = [job EXCEPT ![t] = j]
      /\ stored' = [stored EXCEPT ![b] = stored[b] + Change(j)]
      /\ promised' = [promised EXCEPT ![b] = IF j.kind = "insert" THEN @ + j.n ELSE @]
      /\ UNCHANGED <<lock, crowded>>
  <2>1. stage[t] = "store" /\ j \in Jobs /\ job = [job EXCEPT ![t] = job[t]]
    BY DEF Store, IInv, CallInv, InCall
  <2>2. QED BY <2>1 DEF Store, Goes, Jobs
<1>2. /\ \A c : Removers(c)' \ {t} = Removers(c) \ {t}
      /\ \A c : t \notin Removers(c)'
      /\ \A u \in Threads \ {t} : stage'[u] = stage[u] /\ job'[u] = job[u]
      /\ stage'[t] = "unlock"
  BY <1>1, OthersRemove DEF IInv
<1>3. \A c : t \in Removers(c) <=> j.kind = "remove" /\ c = b
  BY <1>1 DEF Removers
<1>4. \/ j.kind = "insert" /\ j.n \in Nat /\ Change(j) = j.n
      \/ j.kind = "remove" /\ Change(j) = -1
  BY <1>1 DEF Jobs, Counts, Change
<1> HIDE DEF b, j
<1>5. promised' \in [Buckets -> Nat] /\ stored' \in [Buckets -> Int]
  <2>1. /\ promised \in [Buckets -> Nat] /\ stored \in [Buckets -> Int]
        /\ Change(j) \in Int
    BY <1>4 DEF ReturnInv, PromisesCovered
  <2>2. promised' \in [Buckets -> Nat]
    BY <1>1, <1>4, <2>1
  <2>3. QED BY <1>1, <2>1, <2>2
<1>6. ASSUME NEW c \in Buckets PROVE promised'[c] + Cardinality(Removers(c)') <= stored'[c]
  <2>1. /\ promised[c] \in Nat /\ stored[c] \in Int /\ Cardinality(Removers(c)) \in Nat
        /\ promised[c] + Cardinality(Removers(c)) <= stored[c]
        /\ promised \in [Buckets -> Nat] /\ stored \in [Buckets -> Int]
    BY RemoversFinite DEF ReturnInv, PromisesCovered
  <2>2. CASE c # b
    <3>1. Removers(c)' = Removers(c)
      BY <1>2, <1>3, <2>2
    <3>2. promised'[c] = promised[c] /\ stored'[c] = stored[c]
      BY <1>1, <2>1, <2>2
    <3>3. QED BY <2>1, <3>1, <3>2
  <2>3. CASE c = b /\ j.kind = "insert"
    <3>1. Removers(c)' = Removers(c)
      BY <1>2, <1>3, <1>4, <2>3
    <3>2. promised'[c] = promised[c] + j.n /\ stored'[c] = stored[c] + j.n /\ j.n \in Nat
      BY <1>1, <1>4, <2>1, <2>3
    <3>3. QED BY <2>1, <3>1, <3>2
  <2>4. CASE c = b /\ j.kind = "remove"
    <3>1. Removers(c)' = Removers(c) \ {t} /\ t \in Removers(c)
      BY <1>2, <1>3, <2>4
    <3>2. Cardinality(Removers(c)') = Cardinality(Removers(c)) - 1
      BY <3>1, RemoversFinite, FS_RemoveElement
    <3>3. promised'[c] = promised[c] /\ stored'[c] = stored[c] + (-1)
      BY <1>1, <1>4, <2>1, <2>4
    <3>4. QED BY <2>1, <3>2, <3>3
  <2>5. QED BY <1>4, <2>2, <2>3, <2>4
<1>7. PromisesCovered'
  BY <1>5, <1>6 DEF PromisesCovered
<1>8. QED BY <1>1, <1>2, <1>7 DEF ReturnInv

(* From a slot on, an empty one within Cluster slots.                      *)
LEMMA EmptyNear ==
    ASSUME ~Crowded, NEW x \in Slots, x + Cluster \in Slots
    PROVE  /\ FreeFrom(x) # {} /\ Min(FreeFrom(x)) \in Nat
           /\ x <= Min(FreeFrom(x)) /\ Min(FreeFrom(x)) <= x + Cluster
<1>1. x \in Nat /\ Cluster \in Nat
  BY SlotsAreNumbers, LockedAssumption
<1>2. PICK u \in x .. (x + Cluster) : ~InUse(u)
  BY DEF Crowded
<1>3. u \in Slots /\ u \in Nat /\ x <= u /\ u <= x + Cluster
  BY <1>1, <1>2, SlotsAreNumbers
<1>4. u \in FreeFrom(x)
  BY <1>2, <1>3 DEF FreeFrom
<1>5. FreeFrom(x) \in SUBSET Slots
  BY DEF FreeFrom
<1>6. Min(FreeFrom(x)) \in FreeFrom(x) /\ Min(FreeFrom(x)) <= u
  BY <1>4, <1>5, LeastSlot
<1>7. Min(FreeFrom(x)) \in Nat /\ x <= Min(FreeFrom(x))
  BY <1>6, SlotsAreNumbers DEF FreeFrom
<1>8. QED BY <1>1, <1>3, <1>4, <1>6, <1>7

LEMMA RoomFound ==
    ASSUME RoomPastBuckets, ~Crowded, NEW j \in Jobs
    PROVE  Room(j)
<1> DEFINE b == j.bucket
<1> DEFINE f == Min(FreeFrom(b))
<1>1. /\ b \in Nat /\ b \in Slots /\ Cluster \in Nat /\ NSlots \in Nat
      /\ b + 2 * Cluster + 1 \in Slots
  BY SlotsAreNumbers, LockedAssumption DEF Jobs, RoomPastBuckets
<1>2. b + Cluster \in Slots
  BY <1>1 DEF Slots
<1>3. FreeFrom(b) # {} /\ f \in Nat /\ b <= f /\ f <= b + Cluster
  BY <1>1, <1>2, EmptyNear
<1> HIDE DEF f, b
<1>4. f + 1 \in Slots /\ (f + 1) + Cluster \in Slots
  BY <1>1, <1>3 DEF Slots
<1>5. FreeFrom(f + 1) # {}
  BY <1>4, EmptyNear
<1>6. QED BY <1>3, <1>5 DEF Room, FirstEmpty, f, b

(* Who looks finds the item it is to remove or the room it needs.          *)
LEMMA LookFinds ==
    ASSUME IInv, ReturnInv, RoomPastBuckets, NEW t \in Threads, Look(t), ~crowded'
    PROVE  lock' = lock
<1> DEFINE j == job[t]
<1> DEFINE b == j.bucket
<1>1. stage[t] = "look" /\ j \in Jobs /\ b \in Buckets /\ ~crowded /\ ~Crowded
  <2>1. stage[t] = "look" /\ j \in Jobs /\ ~crowded /\ ~Crowded
    BY DEF Look, IInv, CallInv, InCall
  <2>2. QED BY <2>1 DEF Jobs
<1>2. CASE j.kind = "insert"
  BY <1>1, <1>2, RoomFound DEF Look
<1>3. CASE j.kind = "remove"
  <2>1. t \in Removers(b)
    BY <1>1, <1>3 DEF Removers
  <2> HIDE DEF j, b
  <2>2. Cardinality(Removers(b)) >= 1
    BY <2>1, RemoversFinite, FS_EmptySet
  <2>3. Cardinality(HomeItems(b)) >= 1
    <3>1. /\ promised[b] \in Nat /\ stored[b] \in Int /\ Cardinality(Removers(b)) \in Nat
          /\ promised[b] + Cardinality(Removers(b)) <= stored[b]
      BY <1>1, RemoversFinite DEF ReturnInv, PromisesCovered
    <3>2. Cardinality(HomeItems(b)) = stored[b]
      BY <1>1 DEF IInv, SlotInv, Counted, With, HomeItems
    <3>3. QED BY <2>2, <3>1, <3>2
  <2>4. HomeItems(b) # {}
    BY <2>3, FS_EmptySet
  <2>5. QED BY <1>1, <1>3, <2>4 DEF Look, j, b
<1>4. QED BY <1>1, <1>2, <1>3 DEF Jobs

LEMMA ReturnInit == Init => ReturnInv
<1> SUFFICES ASSUME Init PROVE ReturnInv
  OBVIOUS
<1>1. \A b : Removers(b) = {}
  BY DEF Init, Removers
<1>2. PromisesCovered
  BY <1>1, FS_EmptySet DEF Init, PromisesCovered
<1>3. \A l \in Locks : lock[l] # Left
  BY LockedAssumption DEF Init
<1>4. QED BY <1>2, <1>3 DEF ReturnInv, Init

(* A step that asks for nothing, stores nothing and leaves no lock.        *)
LEMMA QuietStep ==
    ASSUME IInv, ReturnInv, NEW t \in Threads, NEW s, NEW j,
           stage' = [stage EXCEPT ![t] = s], job' = [job EXCEPT ![t] = j],
           UNCHANGED <<promised, stored>>,
           s \in {"lock", "look", "store"} /\ j.kind = "remove" => t \in Removers(j.bucket),
           s = "check" => j.kind = "insert",
           crowded => crowded',
           crowded' \/ \A l \in Locks : lock'[l] # Left \/ lock'[l] = lock[l]
    PROVE  ReturnInv'
<1>1. CallInv
  BY DEF IInv
<1>2. PromisesCovered' /\ \A u \in Threads : stage'[u] = "check" => job'[u].kind = "insert"
  BY <1>1, FewerRemove
<1>3. crowded' \/ \A l \in Locks : lock'[l] # Left
  BY DEF ReturnInv
<1>4. QED BY <1>2, <1>3 DEF ReturnInv

(* Where a thread goes, its arguments stay until it is idle.               *)
LEMMA GoesOn ==
    ASSUME IInv, NEW t \in Threads, NEW s, Goes(t, s)
    PROVE  /\ stage' = [stage EXCEPT ![t] = s]
           /\ job' = [job EXCEPT ![t] = IF s = "idle" THEN NoJob ELSE job[t]]
           /\ stage[t] \in {"lock", "look", "store"} /\ job[t].kind = "remove"
                => t \in Removers(job[t].bucket)
BY DEF Goes, IInv, CallInv, Removers

LEMMA CountStepReturns ==
    ASSUME IInv, ReturnInv, NEW t \in Threads, CountStep(t)
    PROVE  ReturnInv'
<1>1. /\ stage' = [stage EXCEPT ![t] = stage[t]] /\ job' = [job EXCEPT ![t] = job[t]]
      /\ UNCHANGED <<promised, stored, lock, crowded>>
  BY DEF CountStep, FilterStays, NoCall, IInv, CallInv
<1>2. stage[t] = "check" => job[t].kind = "insert"
  BY DEF ReturnInv
<1>3. stage[t] \in {"lock", "look", "store"} /\ job[t].kind = "remove"
        => t \in Removers(job[t].bucket)
  BY DEF Removers
<1>4. QED BY <1>1, <1>2, <1>3, QuietStep

LEMMA CallReturns ==
    ASSUME IInv, ReturnInv, NEW t \in Threads,
           (\E j \in Jobs : CallInsert(t, j)) \/ SyncCounters(t)
    PROVE  ReturnInv'
<1>1. ASSUME NEW j \in Jobs, CallInsert(t, j) PROVE ReturnInv'
  <2>1. /\ stage' = [stage EXCEPT ![t] = "check"] /\ job' = [job EXCEPT ![t] = j]
        /\ j.kind = "insert" /\ UNCHANGED <<promised, stored, lock, crowded>>
    BY <1>1 DEF CallInsert, Begins, FilterStays
  <2>2. QED BY <2>1, QuietStep
<1>2. CASE SyncCounters(t)
  <2>1. /\ stage' = [stage EXCEPT ![t] = "sync"] /\ job' = [job EXCEPT ![t] = job[t]]
        /\ UNCHANGED <<promised, stored, lock, crowded>>
    BY <1>2 DEF SyncCounters, Begins, FilterStays, NoCall
  <2>2. QED BY <2>1, QuietStep
<1>3. QED BY <1>1, <1>2

(* Steps on the way through a call.                                        *)
LEMMA PassReturns ==
    ASSUME IInv, ReturnInv, NEW t \in Threads,
           Check(t) \/ TakeLock(t) \/ GiveUp(t) \/ GiveLock(t) \/ Synced(t)
    PROVE  ReturnInv'
<1>1. /\ UNCHANGED <<promised, stored, crowded>>
      /\ stage[t] \in {"check", "lock", "unlock", "sync"}
  BY DEF Check, TakeLock, GiveUp, GiveLock, Synced, FilterStays, NoCall
<1>2. PICK s :
        /\ Goes(t, s)
        /\ s \in {"idle", "lock", "look", "unlock"}
        /\ s \in {"lock", "look"} => stage[t] \in {"check", "lock"}
  <2>1. CASE Check(t)
    BY <2>1 DEF Check
  <2>2. CASE TakeLock(t)
    <3>1. PICK r : Goes(t, r) /\ r \in {"look", "lock"} /\ stage[t] = "lock"
      BY <2>2 DEF TakeLock
    <3>2. QED BY <3>1
  <2>3. CASE GiveUp(t)
    BY <2>3 DEF GiveUp
  <2>4. CASE GiveLock(t)
    BY <2>4 DEF GiveLock
  <2>5. CASE Synced(t)
    BY <2>5 DEF Synced
  <2>6. QED BY <2>1, <2>2, <2>3, <2>4, <2>5
<1>3. \A l \in Locks : lock'[l] # Left \/ lock'[l] = lock[l]
  <2>1. Left \notin Threads /\ Left # Nobody /\ lock \in [Locks -> Threads \union {Nobody, Left}]
    BY LockedAssumption DEF IInv, CallInv
  <2>2. (\E l : lock' = [lock EXCEPT ![l] = t] \/ lock' = [lock EXCEPT ![l] = Nobody])
        \/ lock' = lock
    BY DEF Check, TakeLock, GiveUp, GiveLock, Synced, FilterStays
  <2>3. QED BY <2>1, <2>2
<1> DEFINE j == IF s = "idle" THEN NoJob ELSE job[t]
<1>4. /\ stage' = [stage EXCEPT ![t] = s] /\ job' = [job EXCEPT ![t] = j]
      /\ stage[t] \in {"lock", "look", "store"} /\ job[t].kind = "remove"
           => t \in Removers(job[t].bucket)
  BY <1>2, GoesOn
<1>5. s \in {"lock", "look", "store"} /\ j.kind = "remove" => t \in Removers(j.bucket)
  <2> SUFFICES ASSUME s \in {"lock", "look", "store"}, j.kind = "remove"
               PROVE  t \in Removers(j.bucket)
    OBVIOUS
  <2>1. j = job[t] /\ stage[t] \in {"check", "lock"}
    BY <1>2
  <2>2. stage[t] # "check"
    <3>1. stage[t] = "check" => job[t].kind = "insert"
      BY DEF ReturnInv
    <3>2. QED BY <2>1, <3>1
  <2>3. QED BY <1>4, <2>1, <2>2
<1>6. s # "check"
  BY <1>2
<1> HIDE DEF j
<1>7. QED BY <1>1, <1>3, <1>4, <1>5, <1>6, QuietStep

LEMMA LookReturns ==
    ASSUME IInv, ReturnInv, RoomPastBuckets, NEW t \in Threads, Look(t)
    PROVE  ReturnInv'
<1>1. PICK s \in {"store", "idle"} : Goes(t, s)
  BY DEF Look
<1>2. stage[t] = "look" /\ UNCHANGED <<promised, stored>> /\ (crowded => crowded')
  BY DEF Look, NoCall
<1>3. crowded' \/ lock' = lock
  BY LookFinds
<1> DEFINE j == IF s = "idle" THEN NoJob ELSE job[t]
<1>4. /\ stage' = [stage EXCEPT ![t] = s] /\ job' = [job EXCEPT ![t] = j]
      /\ stage[t] \in {"lock", "look", "store"} /\ job[t].kind = "remove"
           => t \in Removers(job[t].bucket)
  BY <1>1, GoesOn
<1>5. s \in {"lock", "look", "store"} /\ j.kind = "remove" => t \in Removers(j.bucket)
  BY <1>1, <1>2, <1>4
<1> HIDE DEF j
<1>6. QED BY <1>1, <1>2, <1>3, <1>4, <1>5, QuietStep

LEMMA ReturnKept ==
    ASSUME IInv, ReturnInv, ~AbsentToo, RoomPastBuckets, [Next]_vars
    PROVE  ReturnInv'
<1>1. CASE UNCHANGED vars
  BY <1>1 DEF vars, ReturnInv, PromisesCovered, Removers
<1>2. ASSUME NEW t \in Threads, NEW j \in Jobs, CallInsert(t, j) \/ CallRemove(t, j)
      PROVE  ReturnInv'
  BY <1>2, CallReturns, RemovalCovered
<1>3. ASSUME NEW t \in Threads, GiveUp(t) \/ SyncCounters(t) PROVE ReturnInv'
  BY <1>3, CallReturns, PassReturns
<1>4. ASSUME NEW t \in Threads, Step(t) PROVE ReturnInv'
  BY <1>4, CountStepReturns, PassReturns, LookReturns, StoreCovered DEF Step, Ids
<1>5. CASE Stopped
  BY <1>1, <1>5 DEF Stopped
<1>6. QED BY <1>1, <1>2, <1>3, <1>4, <1>5 DEF Next

(* No lock outlives the call that took it, where calls remove only what is *)
(* there, the slots go on past the buckets, and no stretch of slots in use *)
(* was longer than CLUSTER_SIZE: then every call finds its item or room.   *)
THEOREM Returned ==
    ASSUME ~AbsentToo, RoomPastBuckets
    PROVE  Spec => [](~crowded => LocksReturned)
<1>1. IInv /\ ReturnInv /\ [Next]_vars => ReturnInv'
  BY ReturnKept
<1>2. IInv /\ ReturnInv => (~crowded => LocksReturned)
  <2> SUFFICES ASSUME IInv, ReturnInv, ~crowded, NEW l \in Locks, lock[l] # Nobody
               PROVE  \E t \in Threads : l \in Has(t) /\ ~Idle(t)
    BY DEF LocksReturned
  <2>1. lock[l] \in Threads
    BY DEF IInv, CallInv, ReturnInv
  <2>2. l \in Has(lock[l])
    BY DEF Has
  <2>3. ~Idle(lock[l])
    BY <2>1, <2>2 DEF IInv, CallInv, InCall, Idle
  <2>4. QED BY <2>1, <2>2, <2>3
<1>3. QED BY <1>1, <1>2, ReturnInit, Invariant, PTL DEF Spec

=============================================================================
