--------------------------- MODULE CountersProofs ---------------------------
(***************************************************************************)
(* Lemmas about the operators of Counters, cited by name from the proof    *)
(* modules of the sketches.                                                *)
(***************************************************************************)
EXTENDS Counters, FiniteSetTheorems, FunctionTheorems, TLAPS

(* A saturating addition stays within the counter, never lowers it, raises *)
(* it by at most delta, and falls short of the sum only by stopping at     *)
(* maxc.                                                                   *)
LEMMA SatAddBounds ==
    ASSUME NEW maxc \in Nat, NEW counter \in 0..maxc, NEW delta \in 0..maxc
    PROVE  /\ SatAdd(counter, delta, maxc) \in 0..maxc
           /\ SatAdd(counter, delta, maxc) >= counter
           /\ SatAdd(counter, delta, maxc) <= counter + delta
           /\ SatAdd(counter, delta, maxc) = Lesser(counter + delta, maxc)
BY DEF SatAdd, Lesser

(* A floored subtraction stays within the counter, never raises it, and    *)
(* lowers it by at most delta.                                             *)
LEMMA FloorSubBounds ==
    ASSUME NEW maxc \in Nat, NEW counter \in 0..maxc, NEW delta \in Nat
    PROVE  /\ FloorSub(counter, delta) \in 0..maxc
           /\ FloorSub(counter, delta) <= counter
           /\ FloorSub(counter, delta) >= counter - delta
BY DEF FloorSub

(* Every nonempty set of naturals has a least element, and Min returns it. *)
LEMMA MinIsLeast ==
    ASSUME NEW S \in SUBSET Nat, S # {}
    PROVE  /\ Min(S) \in S
           /\ \A n \in S : Min(S) <= n
<1>1. PICK m \in S : \A n \in S : ~ (n < m)
  <2>1. PICK m \in S : \A n \in S : <<n, m>> \notin OpToRel(<, Nat)
    BY NatLessThanWellFounded, WFMin
  <2>2. \A n \in S : ~ (n < m)
    BY <2>1 DEF OpToRel
  <2>3. QED BY <2>2
<1>2. \A n \in S : m <= n
  BY <1>1
<1>3. \E x \in S : \A y \in S : x =< y
  BY <1>2
<1>4. QED BY <1>3 DEF Min

(* A nonempty set of naturals that do not exceed b has a largest element,  *)
(* and Max returns it: reflect it in b and take the least element.         *)
LEMMA MaxIsGreatest ==
    ASSUME NEW b \in Nat, NEW S \in SUBSET (0..b), S # {}
    PROVE  /\ Max(S) \in S
           /\ \A n \in S : n <= Max(S)
<1> DEFINE T == {b - n : n \in S}
<1>1. T \in SUBSET Nat /\ T # {}
  <2>1. \A n \in S : b - n \in Nat
    OBVIOUS
  <2>2. PICK n \in S : TRUE
    OBVIOUS
  <2>3. b - n \in T
    OBVIOUS
  <2>4. QED BY <2>1, <2>3
<1>2. Min(T) \in T /\ \A t \in T : Min(T) <= t
  BY <1>1, MinIsLeast
<1>3. PICK m \in S : Min(T) = b - m
  BY <1>2
<1>4. \A n \in S : n <= m
  <2> TAKE n \in S
  <2>1. b - n \in T OBVIOUS
  <2>2. b - m <= b - n BY <2>1, <1>2, <1>3
  <2>3. QED BY <2>2
<1>5. \E x \in S : \A y \in S : x >= y
  BY <1>4
<1>6. QED BY <1>5 DEF Max

(* MinOf is one of the values of the row and bounds all of them.           *)
LEMMA MinOfLeast ==
    ASSUME NEW f, DOMAIN f # {}, \A i \in DOMAIN f : f[i] \in Nat
    PROVE  /\ \E i \in DOMAIN f : MinOf(f) = f[i]
           /\ \A i \in DOMAIN f : MinOf(f) <= f[i]
           /\ MinOf(f) \in Nat
<1> DEFINE S == {f[i] : i \in DOMAIN f}
<1>1. S \in SUBSET Nat /\ S # {}
  OBVIOUS
<1>2. Min(S) \in S /\ \A n \in S : Min(S) <= n
  BY <1>1, MinIsLeast
<1>3. QED BY <1>2 DEF MinOf

(* When every value of a row rises, by at most up, so does the smallest.   *)
LEMMA MinOfMoves ==
    ASSUME NEW I, I # {}, NEW f \in [I -> Nat], NEW g \in [I -> Nat], NEW up \in Nat,
           \A i \in I : f[i] <= g[i] /\ g[i] <= f[i] + up
    PROVE  MinOf(f) <= MinOf(g) /\ MinOf(g) <= MinOf(f) + up
<1>1. PICK i \in I : MinOf(f) = f[i]
  BY MinOfLeast
<1>2. PICK j \in I : MinOf(g) = g[j]
  BY MinOfLeast
<1>3. MinOf(f) <= f[j] /\ MinOf(g) <= g[i]
  BY MinOfLeast
<1>4. f[i] \in Nat /\ f[j] \in Nat /\ g[i] \in Nat /\ g[j] \in Nat
  OBVIOUS
<1>5. QED BY <1>1, <1>2, <1>3, <1>4

(* MaxOf is one of the values of the row and bounds all of them.           *)
LEMMA MaxOfGreatest ==
    ASSUME NEW b \in Nat, NEW f, DOMAIN f # {},
           \A i \in DOMAIN f : f[i] \in 0..b
    PROVE  /\ \E i \in DOMAIN f : MaxOf(f) = f[i]
           /\ \A i \in DOMAIN f : f[i] <= MaxOf(f)
           /\ MaxOf(f) \in 0..b
<1> DEFINE S == {f[i] : i \in DOMAIN f}
<1>1. S \in SUBSET (0..b) /\ S # {}
  OBVIOUS
<1>2. Max(S) \in S /\ \A n \in S : n <= Max(S)
  BY <1>1, MaxIsGreatest
<1>3. QED BY <1>2 DEF MaxOf

(* The slot decomposition the sketches use: a column below wl * k is the   *)
(* slot c % k of the bucket c \div k (get_k_w's mask and shift).           *)
LEMMA SlotOfColumn ==
    ASSUME NEW wl \in Nat \ {0}, NEW k \in Nat \ {0}, NEW c \in 0 .. (k * wl - 1)
    PROVE  /\ c \div k \in 0 .. (wl - 1)
           /\ c % k \in 0 .. (k - 1)
           /\ c = (c \div k) * k + (c % k)
<1>1. /\ c % k \in 0 .. (k - 1)
      /\ c \div k \in Int
      /\ c = (c \div k) * k + (c % k)
  OBVIOUS
<1>2. QED BY <1>1

(* Quotient and remainder are unique, and they exist.                      *)
LEMMA QuotientIs ==
    ASSUME NEW m \in Nat \ {0}, NEW n \in Nat, NEW q \in Nat, NEW r \in 0 .. (m - 1),
           n = m * q + r
    PROVE  n \div m = q /\ n % m = r
<1>1. n \div m = q
  OBVIOUS
<1>2. n % m = n - m * (n \div m)
  OBVIOUS
<1>3. m * q \in Int
  OBVIOUS
<1>4. QED BY <1>1, <1>2, <1>3

LEMMA QuotientOf ==
    ASSUME NEW m \in Nat \ {0}, NEW n \in Nat
    PROVE  /\ n \div m \in Nat /\ n % m \in 0 .. (m - 1)
           /\ m * (n \div m) + (n % m) = n /\ m * (n \div m) \in Nat
OBVIOUS

-----------------------------------------------------------------------------
(* Totals *)

(* The tokens of a finite set of keys are a finite set.                    *)
LEMMA TokensFinite ==
    ASSUME NEW S, IsFiniteSet(S), NEW n, \A x \in S : n[x] \in Nat
    PROVE  IsFiniteSet(Tokens(n, S))
<1> DEFINE heap == [x \in S |-> {x} \X (1 .. n[x])]
<1> DEFINE heaps == {{x} \X (1 .. n[x]) : x \in S}
<1>1. heap \in Surjection(S, heaps)
  <2>1. heap \in [S -> heaps]
    OBVIOUS
  <2>2. \A t \in heaps : \E s \in S : heap[s] = t
    OBVIOUS
  <2>3. QED BY <2>1, <2>2, Fun_IsSurj
<1>2. IsFiniteSet(heaps)
  BY <1>1, FS_Surjection
<1>3. \A h \in heaps : IsFiniteSet(h)
  <2> SUFFICES ASSUME NEW x \in S PROVE IsFiniteSet({x} \X (1 .. n[x]))
    OBVIOUS
  <2>1. IsFiniteSet({x}) BY FS_Singleton
  <2>2. IsFiniteSet(1 .. n[x])
    <3>1. 1 \in Int /\ n[x] \in Int OBVIOUS
    <3>2. QED BY <3>1, FS_Interval
  <2>3. QED BY <2>1, <2>2, FS_Product
<1>4. QED BY <1>2, <1>3, FS_UNION DEF Tokens

(* The tokens of x numbered above lo, delta of them.                       *)
Heap(x, lo, delta) == {x} \X (lo + 1 .. lo + delta)

(* A heap has as many tokens as it was given.                              *)
LEMMA OwnTokens ==
    ASSUME NEW x, NEW lo \in Nat, NEW delta \in Nat
    PROVE  /\ IsFiniteSet(Heap(x, lo, delta))
           /\ Cardinality(Heap(x, lo, delta)) = delta
<1>1. IsFiniteSet({x}) /\ Cardinality({x}) = 1
  BY FS_Singleton
<1>2. lo + 1 \in Int /\ lo + delta \in Int
  OBVIOUS
<1>3. /\ IsFiniteSet(lo + 1 .. lo + delta)
      /\ Cardinality(lo + 1 .. lo + delta) =
            IF lo + 1 > lo + delta THEN 0 ELSE (lo + delta) - (lo + 1) + 1
  BY <1>2, FS_Interval
<1>4. Cardinality(lo + 1 .. lo + delta) = delta
  BY <1>3
<1>5. /\ IsFiniteSet({x} \X (lo + 1 .. lo + delta))
      /\ Cardinality({x} \X (lo + 1 .. lo + delta)) =
           Cardinality({x}) * Cardinality(lo + 1 .. lo + delta)
  BY <1>1, <1>3, FS_Product
<1>6. QED BY <1>1, <1>4, <1>5 DEF Heap

(* Giving delta more to a member of S adds delta to the total of S.        *)
LEMMA TotalAdd ==
    ASSUME NEW S, IsFiniteSet(S), NEW n, \A y \in S : n[y] \in Nat,
           NEW x \in S, NEW delta \in Nat,
           NEW m, \A y \in S : m[y] = IF y = x THEN n[x] + delta ELSE n[y]
    PROVE  Total(m, S) = Total(n, S) + delta
<1> DEFINE new == Heap(x, n[x], delta)
<1>1. Tokens(m, S) = Tokens(n, S) \cup new
  <2>1. ASSUME NEW t \in Tokens(m, S) PROVE t \in Tokens(n, S) \cup new
    <3>1. PICK y \in S : t \in {y} \X (1 .. m[y])
      BY <2>1 DEF Tokens
    <3>2. CASE t \in {y} \X (1 .. n[y])
      BY <3>2 DEF Tokens
    <3>3. CASE t \notin {y} \X (1 .. n[y])
      <4>1. y = x BY <3>1, <3>3
      <4>2. t[2] \in 1 .. n[x] + delta /\ t = <<x, t[2]>>
        BY <3>1, <4>1
      <4>3. t[2] \notin 1 .. n[x]
        BY <3>3, <4>1, <4>2
      <4>4. t[2] \in n[x] + 1 .. n[x] + delta
        BY <4>2, <4>3
      <4>5. QED BY <4>2, <4>4 DEF Heap
    <3>4. QED BY <3>2, <3>3
  <2>2. ASSUME NEW t \in Tokens(n, S) PROVE t \in Tokens(m, S)
    <3>1. PICK y \in S : t \in {y} \X (1 .. n[y])
      BY <2>2 DEF Tokens
    <3>2. n[y] \in Nat /\ n[y] <= m[y] /\ m[y] \in Nat
      OBVIOUS
    <3>3. t \in {y} \X (1 .. m[y])
      BY <3>1, <3>2
    <3>4. QED BY <3>3 DEF Tokens
  <2>3. ASSUME NEW t \in new PROVE t \in Tokens(m, S)
    <3>1. t \in {x} \X (1 .. m[x])
      <4>1. m[x] = n[x] + delta /\ n[x] \in Nat OBVIOUS
      <4>2. QED BY <4>1, <2>3 DEF Heap
    <3>2. QED BY <3>1 DEF Tokens
  <2>4. QED BY <2>1, <2>2, <2>3
<1>2. Tokens(n, S) \cap new = {}
  <2> SUFFICES ASSUME NEW t \in Tokens(n, S), t \in new PROVE FALSE
    OBVIOUS
  <2>1. PICK y \in S : t \in {y} \X (1 .. n[y])
    BY DEF Tokens
  <2>2. y = x /\ t[2] \in 1 .. n[x] /\ t[2] \in n[x] + 1 .. n[x] + delta
    BY <2>1 DEF Heap
  <2>3. n[x] \in Nat OBVIOUS
  <2>4. QED BY <2>2, <2>3
<1>3. IsFiniteSet(Tokens(n, S))
  BY TokensFinite
<1>4. IsFiniteSet(new) /\ Cardinality(new) = delta
  <2>1. n[x] \in Nat OBVIOUS
  <2>2. QED BY <2>1, OwnTokens
<1>5. Cardinality(Tokens(n, S) \cup new) =
        Cardinality(Tokens(n, S)) + Cardinality(new) - Cardinality(Tokens(n, S) \cap new)
  BY <1>3, <1>4, FS_Union
<1>6. Cardinality(Tokens(n, S)) \in Nat
  BY <1>3, FS_CardinalityType
<1>7. Cardinality(Tokens(n, S) \cap new) = 0
  BY <1>2, FS_EmptySet
<1>8. Cardinality(Tokens(m, S)) = Cardinality(Tokens(n, S)) + delta
  BY <1>1, <1>4, <1>5, <1>6, <1>7
<1>9. QED BY <1>8 DEF Total

(* The total of S depends on the counts of the members of S only.          *)
LEMMA TotalSame ==
    ASSUME NEW S, NEW n, NEW m, \A y \in S : m[y] = n[y]
    PROVE  Total(m, S) = Total(n, S)
<1>1. Tokens(m, S) = Tokens(n, S)
  BY DEF Tokens
<1>2. QED BY <1>1 DEF Total

(* The total of nothing at all is zero.                                    *)
LEMMA TotalZero ==
    ASSUME NEW S, NEW n, \A y \in S : n[y] = 0
    PROVE  Total(n, S) = 0
<1>1. \A y \in S : 1 .. n[y] = {}
  OBVIOUS
<1>2. Tokens(n, S) = {}
  BY <1>1 DEF Tokens
<1>3. QED BY <1>2, FS_EmptySet DEF Total

(* A total is a natural number, at least the count of each member.         *)
LEMMA TotalCovers ==
    ASSUME NEW S, IsFiniteSet(S), NEW n, \A y \in S : n[y] \in Nat
    PROVE  /\ Total(n, S) \in Nat
           /\ \A x \in S : n[x] <= Total(n, S)
<1>1. IsFiniteSet(Tokens(n, S))
  BY TokensFinite
<1>2. Total(n, S) \in Nat
  BY <1>1, FS_CardinalityType DEF Total
<1>3. ASSUME NEW x \in S PROVE n[x] <= Total(n, S)
  <2>1. Heap(x, 0, n[x]) \subseteq Tokens(n, S)
    BY DEF Heap, Tokens
  <2>2. Cardinality(Heap(x, 0, n[x])) = n[x]
    <3>1. n[x] \in Nat /\ 0 \in Nat BY <1>3
    <3>2. QED BY <3>1, OwnTokens
  <2>3. Cardinality(Heap(x, 0, n[x])) <= Total(n, S)
    BY <1>1, <2>1, FS_Subset DEF Total
  <2>4. QED BY <2>2, <2>3
<1>4. QED BY <1>2, <1>3

(* More members do not make a total smaller.                               *)
LEMMA TotalMono ==
    ASSUME NEW T, IsFiniteSet(T), NEW S \in SUBSET T, NEW n, \A y \in T : n[y] \in Nat
    PROVE  Total(n, S) <= Total(n, T)
<1>1. IsFiniteSet(Tokens(n, T))
  BY TokensFinite
<1>2. Tokens(n, S) \subseteq Tokens(n, T)
  BY DEF Tokens
<1>3. QED BY <1>1, <1>2, FS_Subset DEF Total

(* Giving delta more to one key adds delta to the total of a set of keys   *)
(* when the key is a member, and nothing when it is not.                   *)
LEMMA TotalMoves ==
    ASSUME NEW S, IsFiniteSet(S), NEW n, \A y \in S : n[y] \in Nat,
           NEW x, NEW delta \in Nat,
           NEW m, \A y \in S : m[y] = IF y = x THEN n[x] + delta ELSE n[y]
    PROVE  Total(m, S) = IF x \in S THEN Total(n, S) + delta ELSE Total(n, S)
<1>1. CASE x \in S
  BY <1>1, TotalAdd
<1>2. CASE x \notin S
  BY <1>2, TotalSame
<1>3. QED BY <1>1, <1>2

(* Nor do larger counts.                                                   *)
LEMMA TotalRises ==
    ASSUME NEW S, IsFiniteSet(S), NEW n, NEW m, \A y \in S : m[y] \in Nat,
           \A y \in S : n[y] \in Nat /\ n[y] <= m[y]
    PROVE  Total(n, S) <= Total(m, S)
<1>1. IsFiniteSet(Tokens(m, S))
  BY TokensFinite
<1>2. ASSUME NEW y \in S PROVE 1 .. n[y] \subseteq 1 .. m[y]
  OBVIOUS
<1>3. Tokens(n, S) \subseteq Tokens(m, S)
  BY <1>2 DEF Tokens
<1>4. QED BY <1>1, <1>3, FS_Subset DEF Total

(* One member less takes its count away from the total.                    *)
LEMMA TotalWithout ==
    ASSUME NEW S, IsFiniteSet(S), NEW n, \A y \in S : n[y] \in Nat, NEW x \in S
    PROVE  Total(n, S) = Total(n, S \ {x}) + n[x]
<1> DEFINE own == Heap(x, 0, n[x])
<1> DEFINE rest == Tokens(n, S \ {x})
<1>1. Tokens(n, S) = rest \cup own
  BY DEF Tokens, Heap
<1>2. rest \cap own = {}
  BY DEF Tokens, Heap
<1>3. IsFiniteSet(rest)
  <2>1. IsFiniteSet(S \ {x}) BY FS_RemoveElement
  <2>2. QED BY <2>1, TokensFinite
<1>4. IsFiniteSet(own) /\ Cardinality(own) = n[x]
  <2>1. n[x] \in Nat /\ 0 \in Nat OBVIOUS
  <2>2. QED BY <2>1, OwnTokens
<1>5. Cardinality(rest \cup own) =
        Cardinality(rest) + Cardinality(own) - Cardinality(rest \cap own)
  BY <1>3, <1>4, FS_Union
<1>6. Cardinality(rest) \in Nat /\ Cardinality(rest \cap own) = 0
  BY <1>2, <1>3, FS_CardinalityType, FS_EmptySet
<1>7. QED BY <1>1, <1>4, <1>5, <1>6 DEF Total

-----------------------------------------------------------------------------
(* Sums of integers *)

(* What the members of a row of integers have too much, and too little.    *)
Credit(f) == [x \in DOMAIN f |-> IF f[x] > 0 THEN f[x] ELSE 0]
Debt(f)   == [x \in DOMAIN f |-> IF f[x] < 0 THEN -f[x] ELSE 0]
Balance(f, S) == Total(Credit(f), S) - Total(Debt(f), S)

(* Credits and debts are natural numbers, and their difference is the      *)
(* value.                                                                  *)
LEMMA CreditAndDebt ==
    ASSUME NEW f, NEW S \in SUBSET DOMAIN f, \A x \in S : f[x] \in Int
    PROVE  \A x \in S : /\ Credit(f)[x] \in Nat /\ Debt(f)[x] \in Nat
                        /\ Credit(f)[x] - Debt(f)[x] = f[x]
BY DEF Credit, Debt

(* The balance of nothing is zero; one member less takes its value away.   *)
LEMMA BalanceWithout ==
    ASSUME NEW f, NEW S \in SUBSET DOMAIN f, IsFiniteSet(S), \A x \in S : f[x] \in Int
    PROVE  /\ Balance(f, S) \in Int
           /\ Balance(f, {}) = 0
           /\ \A x \in S : Balance(f, S) = f[x] + Balance(f, S \ {x})
<1>1. \A x \in S : /\ Credit(f)[x] \in Nat /\ Debt(f)[x] \in Nat
                   /\ Credit(f)[x] - Debt(f)[x] = f[x]
  BY CreditAndDebt
<1>2. Total(Credit(f), S) \in Nat /\ Total(Debt(f), S) \in Nat
  BY <1>1, TotalCovers
<1>3. Total(Credit(f), {}) = 0 /\ Total(Debt(f), {}) = 0
  BY TotalZero
<1>4. ASSUME NEW x \in S PROVE Balance(f, S) = f[x] + Balance(f, S \ {x})
  <2>1. /\ Total(Credit(f), S) = Total(Credit(f), S \ {x}) + Credit(f)[x]
        /\ Total(Debt(f), S) = Total(Debt(f), S \ {x}) + Debt(f)[x]
    BY <1>1, TotalWithout
  <2>2. IsFiniteSet(S \ {x})
    BY FS_RemoveElement
  <2>3. Total(Credit(f), S \ {x}) \in Nat /\ Total(Debt(f), S \ {x}) \in Nat
    BY <1>1, <2>2, TotalCovers
  <2>4. QED BY <1>1, <2>1, <2>3 DEF Balance
<1>5. QED BY <1>2, <1>3, <1>4 DEF Balance

(* The equation of the recursive function that SumFunctionOnSet folds S    *)
(* with.                                                                   *)
Pick(T) == CHOOSE x \in T : TRUE
SumsUp(h, f, S) ==
    h = [T \in SUBSET S |-> IF T = {} THEN 0 ELSE f[Pick(T)] + h[T \ {Pick(T)}]]

(* The balances solve that equation, and are its only solution: take a     *)
(* smallest set on which another solution differs.                         *)
LEMMA SumsUpOnce ==
    ASSUME NEW f, NEW S \in SUBSET DOMAIN f, IsFiniteSet(S), \A x \in S : f[x] \in Int
    PROVE  /\ SumsUp([T \in SUBSET S |-> Balance(f, T)], f, S)
           /\ \A h : SumsUp(h, f, S) => h[S] = Balance(f, S)
<1>1. ASSUME NEW T \in SUBSET S, T # {}
      PROVE  /\ IsFiniteSet(T) /\ Pick(T) \in T /\ T \ {Pick(T)} \in SUBSET S
             /\ Balance(f, T) = f[Pick(T)] + Balance(f, T \ {Pick(T)})
  <2>1. IsFiniteSet(T) BY FS_Subset
  <2>2. Pick(T) \in T BY <1>1 DEF Pick
  <2>3. T \in SUBSET DOMAIN f /\ \A x \in T : f[x] \in Int OBVIOUS
  <2>4. QED BY <2>1, <2>2, <2>3, BalanceWithout
<1>2. Balance(f, {}) = 0
  BY BalanceWithout
<1>3. SumsUp([T \in SUBSET S |-> Balance(f, T)], f, S)
  BY <1>1, <1>2 DEF SumsUp
<1>4. ASSUME NEW h, SumsUp(h, f, S), h[S] # Balance(f, S) PROVE FALSE
  <2> DEFINE off == {T \in SUBSET S : h[T] # Balance(f, T)}
  <2> DEFINE sizes == {Cardinality(T) : T \in off}
  <2>1. \A T \in SUBSET S : IsFiniteSet(T) /\ Cardinality(T) \in Nat
    BY FS_Subset, FS_CardinalityType
  <2>2. sizes \in SUBSET Nat /\ sizes # {}
    BY <2>1, <1>4
  <2>3. PICK T \in off : \A V \in off : Cardinality(T) <= Cardinality(V)
    <3>1. Min(sizes) \in sizes /\ \A n \in sizes : Min(sizes) <= n
      BY <2>2, MinIsLeast
    <3>2. PICK T \in off : Min(sizes) = Cardinality(T)
      BY <3>1
    <3>3. \A V \in off : Cardinality(V) \in sizes
      OBVIOUS
    <3>4. QED BY <3>1, <3>2, <3>3
  <2>4. T # {}
    BY <1>2, <1>4 DEF SumsUp
  <2>5. h[T] = f[Pick(T)] + h[T \ {Pick(T)}]
    BY <2>4, <1>4 DEF SumsUp
  <2>6. T \ {Pick(T)} \in off
    BY <1>1, <2>4, <2>5
  <2>7. Cardinality(T \ {Pick(T)}) = Cardinality(T) - 1
    BY <1>1, <2>4, FS_RemoveElement
  <2>8. QED BY <2>1, <2>3, <2>6, <2>7
<1>5. QED BY <1>3, <1>4

(* The fold of the library computes the balance.                           *)
LEMMA SumIsBalance ==
    ASSUME NEW f, NEW S \in SUBSET DOMAIN f, IsFiniteSet(S), \A x \in S : f[x] \in Int
    PROVE  SumFunctionOnSet(f, S) = Balance(f, S)
<1> DEFINE h == CHOOSE h : SumsUp(h, f, S)
<1>1. SumFunctionOnSet(f, S) = h[S]
  BY DEF SumFunctionOnSet, FoldFunctionOnSet, MapThenFoldSet, SumsUp, Pick
<1>2. SumsUp(h, f, S)
  BY SumsUpOnce
<1>3. QED BY <1>1, <1>2, SumsUpOnce

(* A balance depends on the values of its members only.                    *)
LEMMA BalanceSame ==
    ASSUME NEW f, NEW g, NEW S \in SUBSET DOMAIN f, S \in SUBSET DOMAIN g,
           \A x \in S : g[x] = f[x]
    PROVE  Balance(g, S) = Balance(f, S)
<1>1. \A x \in S : Credit(g)[x] = Credit(f)[x] /\ Debt(g)[x] = Debt(f)[x]
  BY DEF Credit, Debt
<1>2. QED BY <1>1, TotalSame DEF Balance

(* Changing one value changes the balance by as much.                      *)
LEMMA BalanceMoves ==
    ASSUME NEW I, IsFiniteSet(I), NEW f \in [I -> Int], NEW x \in I,
           NEW g \in [I -> Int], \A y \in I \ {x} : g[y] = f[y]
    PROVE  Balance(g, I) = Balance(f, I) - f[x] + g[x]
<1>1. Balance(f, I) = f[x] + Balance(f, I \ {x})
  BY BalanceWithout
<1>2. Balance(g, I) = g[x] + Balance(g, I \ {x})
  BY BalanceWithout
<1>3. Balance(g, I \ {x}) = Balance(f, I \ {x})
  BY BalanceSame
<1>4. Balance(f, I \ {x}) \in Int
  <2>1. IsFiniteSet(I \ {x}) BY FS_RemoveElement
  <2>2. QED BY <2>1, BalanceWithout
<1>5. QED BY <1>1, <1>2, <1>3, <1>4

(* A row of zeros balances.                                                *)
LEMMA BalanceZero ==
    ASSUME NEW I, NEW f \in [I -> {0}]
    PROVE  Balance(f, I) = 0
<1>1. \A x \in I : Credit(f)[x] = 0 /\ Debt(f)[x] = 0
  BY DEF Credit, Debt
<1>2. QED BY <1>1, TotalZero DEF Balance

(* A balance is no further from zero than the sizes of the values add up   *)
(* to.                                                                     *)
LEMMA BalanceBound ==
    ASSUME NEW I, IsFiniteSet(I), NEW f \in [I -> Int], NEW n \in [I -> Nat],
           \A x \in I : f[x] <= n[x] /\ -f[x] <= n[x]
    PROVE  Balance(f, I) <= Total(n, I) /\ -Balance(f, I) <= Total(n, I)
<1>1. \A x \in I : /\ Credit(f)[x] \in Nat /\ Credit(f)[x] <= n[x]
                   /\ Debt(f)[x] \in Nat /\ Debt(f)[x] <= n[x]
  BY DEF Credit, Debt
<1>2. Total(Credit(f), I) <= Total(n, I) /\ Total(Debt(f), I) <= Total(n, I)
  BY <1>1, TotalRises
<1>3. /\ Total(Credit(f), I) \in Nat /\ Total(Debt(f), I) \in Nat
      /\ Total(n, I) \in Nat
  BY <1>1, TotalCovers
<1>4. QED BY <1>2, <1>3 DEF Balance

(* Counts of at most b each add up to at most b for each member.           *)
LEMMA TotalBound ==
    ASSUME NEW S, IsFiniteSet(S), NEW b \in Nat, NEW n, \A x \in S : n[x] \in 0..b
    PROVE  Total(n, S) <= Cardinality(S) * b
<1>1. IsFiniteSet(1..b) /\ Cardinality(1..b) = b
  <2>1. 1 \in Int /\ b \in Int OBVIOUS
  <2>2. QED BY <2>1, FS_Interval
<1>2. IsFiniteSet(S \X (1..b)) /\ Cardinality(S \X (1..b)) = Cardinality(S) * Cardinality(1..b)
  BY <1>1, FS_Product
<1>3. Tokens(n, S) \subseteq S \X (1..b)
  BY DEF Tokens
<1>4. QED BY <1>1, <1>2, <1>3, FS_Subset DEF Total
=============================================================================
