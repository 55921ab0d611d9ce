------------------------------- MODULE SFV1 -------------------------------
(***************************************************************************)
(* The two-level sketch of sfsketch/sketch.c as SF_V1 configures it: the   *)
(* slim array has hash functions of its own (hash_l), the fat array is     *)
(* f_K times as wide, every insertion updates both, queries read the slim  *)
(* array, and nothing is deleted.                                          *)
(***************************************************************************)
EXTENDS Counters

CONSTANTS
    Keys,    \* the keys of the trace
    D,       \* number of rows of each array
    WL,      \* slim counters per row
    WR,      \* fat counters per row, (size_t)(f_K*WL)
    MaxC,    \* the largest value of a counter
    Hash,    \* Hash[key][row], the value of hash(d, str, len)
    HashL,   \* HashL[key][row], the value of hash_l(d, str, len)
    Deltas,  \* the deltas a request carries
    Limit    \* bound on the count of a key (bounds the model only)

Rows  == 0 .. (D - 1)
Cols  == 0 .. (WR - 1)
LCols == 0 .. (WL - 1)

ASSUME SizesAssumption ==
    /\ D \in Nat \ {0} /\ WL \in Nat \ {0} /\ WR \in Nat \ {0} /\ MaxC \in Nat
ASSUME HashAssumption ==
    /\ Hash \in [Keys -> [Rows -> Nat]]
    /\ HashL \in [Keys -> [Rows -> Nat]]
ASSUME DeltaAssumption == Deltas \subseteq 0..MaxC
ASSUME KeysAssumption == IsFiniteSet(Keys)

VARIABLES
    fat,     \* sketch.right->counts
    slim,    \* sketch.left->counts
    count    \* history: the true count of every key

vars == <<fat, slim, count>>

Col(x, d)  == Hash[x][d] % WR
LCol(x, d) == HashL[x][d] % WL

FatCounters(f, x)  == [d \in Rows |-> f[d][Col(x, d)]]
SlimCounters(s, x) == [d \in Rows |-> s[d][LCol(x, d)]]

Query(x) == MinOf(SlimCounters(slim, x))

-----------------------------------------------------------------------------
Init ==
    /\ fat  = [d \in Rows |-> [c \in Cols |-> 0]]
    /\ slim = [d \in Rows |-> [w \in LCols |-> 0]]
    /\ count = [x \in Keys |-> 0]

(* The fat array after inc_r().                                            *)
IncR(x, delta) ==
    [d \in Rows |-> [fat[d] EXCEPT ![Col(x, d)] = SatAdd(@, delta, MaxC)]]

(* The slim array with x's counters below goal raised to it.               *)
Raised(x, goal) ==
    [d \in Rows |-> [slim[d] EXCEPT ![LCol(x, d)] = IF @ < goal THEN goal ELSE @]]

(* Mutations: the slim counters go straight to the fat estimate; they      *)
(* always grow by delta; the early return compares with the fat estimate   *)
(* of before the insertion.                                                *)
IncLToFat(f, x, delta) == Raised(x, MinOf(FatCounters(f, x)))
IncLAlwaysAdds(f, x, delta) ==
    Raised(x, Lesser(MinOf(SlimCounters(slim, x)) + delta, MaxC))
IncLStaleTest(f, x, delta) ==
    IF MinOf(SlimCounters(slim, x)) >= MinOf(FatCounters(fat, x)) THEN slim
    ELSE IncLToFat(f, x, delta)

(* The slim array after inc_l(), given the fat array f that inc_r() left:  *)
(* minr is sketch.aux_minr.                                                *)
IncL(f, x, delta) ==
    LET minr == MinOf(FatCounters(f, x))
        minl == MinOf(SlimCounters(slim, x))
        goal == IF minr - delta <= minl THEN minr ELSE minl + delta
    IN  IF minl >= minr THEN slim ELSE Raised(x, goal)

Inc(x, delta) ==
    /\ count[x] + delta <= Limit
    /\ fat' = IncR(x, delta)
    /\ slim' = IncL(fat', x, delta)
    /\ count' = [count EXCEPT ![x] = @ + delta]

Next == \E x \in Keys, delta \in Deltas : Inc(x, delta)

Spec == Init /\ [][Next]_vars

-----------------------------------------------------------------------------
(* Properties *)

TypeOK ==
    /\ fat \in [Rows -> [Cols -> 0..MaxC]]
    /\ slim \in [Rows -> [LCols -> 0..MaxC]]
    /\ count \in [Keys -> Nat]

(* The answer to a query is never below the count of the key, although     *)
(* inc_l() leaves the slim array alone whenever its estimate already       *)
(* reaches the fat one, and otherwise raises it by less than delta.        *)
OneSided == \A x \in Keys : Query(x) >= Lesser(count[x], MaxC)

(* No slim counter exceeds what the fat array estimates for some key that  *)
(* maps to it.                                                             *)
SlimBackedByFat ==
    \A d \in Rows, w \in LCols :
        slim[d][w] > 0 =>
            \E x \in Keys : /\ LCol(x, d) = w
                            /\ slim[d][w] <= MinOf(FatCounters(fat, x))

(* The sketch implements FrequencyEstimator, which bounds how far an       *)
(* insertion moves the answer for any key, and never becomes lossy.        *)
Estimator == INSTANCE FrequencyEstimator WITH
                 estimate <- [x \in Keys |-> Query(x)], cut <- FALSE, lossy <- FALSE
ImplementsEstimator == Estimator!Spec
=============================================================================
