------------------------------- MODULE SFV2 -------------------------------
(***************************************************************************)
(* The two-level sketch of sfsketch/sketch.c as SF_V2 configures it: every *)
(* update of the fat array also updates the slim one, which alone answers  *)
(* queries, and a key can be deleted.                                      *)
(*                                                                         *)
(* maxArray is SF_SET_MAX_COUNTERS_ARRAY.  Without it (as committed) an    *)
(* insertion raises the slim counters conservatively, towards the          *)
(* smallest fat counter of the key; with it every slim counter the key     *)
(* maps to becomes the largest fat counter of its bucket.  A deletion      *)
(* lowers slim counters to the largest fat counter in both.                *)
(***************************************************************************)
EXTENDS Counters

CONSTANTS
    Keys, D, WL, ExpK, MaxC, Hash, Deltas,   \* as in SFFinal
    Limit      \* bound on the count of a key (bounds the model only)

Rows == 0 .. (D - 1)
K    == 2^ExpK
WR   == K * WL
Cols == 0 .. (WR - 1)
Buckets == 0 .. (WL - 1)

ASSUME SizesAssumption ==
    /\ D \in Nat \ {0} /\ WL \in Nat \ {0} /\ K \in Nat \ {0} /\ MaxC \in Nat
ASSUME HashAssumption == Hash \in [Keys -> [Rows -> Nat]]
ASSUME DeltaAssumption == Deltas \subseteq 0..MaxC
ASSUME KeysAssumption == IsFiniteSet(Keys)

VARIABLES
    maxArray,  \* whether SF_SET_MAX_COUNTERS_ARRAY was defined in the build
    fat,       \* sketch.right->counts
    slim,      \* sketch.left->counts
    aborted,   \* an assert of inc_l() or dec_l() has failed
    count,     \* history: the true count of every key
    cut,       \* history: an addition has been cut at MaxC
    lossy      \* history: a deletion has followed a cut

vars == <<maxArray, fat, slim, aborted, count, cut, lossy>>

-----------------------------------------------------------------------------
(* Reading *)

Col(x, d)      == Hash[x][d] % WR
BucketOf(x, d) == Col(x, d) \div K

BucketRow(r, w) == [i \in 0 .. (K - 1) |-> r[w * K + i]]

FatCounters(f, x)  == [d \in Rows |-> f[d][Col(x, d)]]
SlimCounters(s, x) == [d \in Rows |-> s[d][BucketOf(x, d)]]

Query(x) == MinOf(SlimCounters(slim, x))    \* query() is query_slim()

(* sketch.auxis[d].c: the largest fat counter of x's bucket after an update *)
AuxC(f, x) == [d \in Rows |-> MaxOf(BucketRow(f[d], BucketOf(x, d)))]

-----------------------------------------------------------------------------
(* Operations *)

Init ==
    /\ maxArray \in BOOLEAN
    /\ fat  = [d \in Rows |-> [c \in Cols |-> 0]]
    /\ slim = [d \in Rows |-> [w \in Buckets |-> 0]]
    /\ aborted = FALSE
    /\ count = [x \in Keys |-> 0]
    /\ cut = FALSE
    /\ lossy = FALSE

(* Mutation: the limit is forgotten. *)
IncRUnlimited(x, delta) ==
    [d \in Rows |-> [fat[d] EXCEPT ![Col(x, d)] = @ + delta]]

(* The fat array after inc_r().                                            *)
IncR(x, delta) ==
    [d \in Rows |-> [fat[d] EXCEPT ![Col(x, d)] = SatAdd(@, delta, MaxC)]]

(* The slim array with x's counters below target raised to it.             *)
Raised(x, target) ==
    [d \in Rows |-> [slim[d] EXCEPT ![BucketOf(x, d)] =
                        IF @ < target[d] THEN target[d] ELSE @]]

(* The slim array after inc_l() without MAX_COUNTERS_ARRAY, given the fat  *)
(* array f that inc_r() left: the smallest slim counter of x moves towards *)
(* aux_minr by at most delta, and pulls the others up to its new value.    *)
IncLMin(f, x, delta) ==
    LET minr == MinOf(FatCounters(f, x))
        minl == MinOf(SlimCounters(slim, x))
        goal == IF minr - delta <= minl THEN minr ELSE minl + delta
    IN  IF minl >= minr THEN slim ELSE Raised(x, [d \in Rows |-> goal])

Inc(x, delta) ==
    /\ ~aborted
    /\ count[x] + delta <= Limit
    /\ fat' = IncR(x, delta)
    /\ IF maxArray
       THEN /\ aborted' = \E d \in Rows : SlimCounters(slim, x)[d] > AuxC(fat', x)[d]
            /\ slim' = Raised(x, AuxC(fat', x))
       ELSE /\ aborted' = FALSE
            /\ slim' = IncLMin(fat', x, delta)
    /\ count' = [count EXCEPT ![x] = @ + delta]
    /\ cut' = (cut \/ \E d \in Rows : fat[d][Col(x, d)] + delta > MaxC)
    /\ UNCHANGED <<lossy, maxArray>>

(* Mutation: one row too few is lowered. *)
DecRShort(x, delta) ==
    [d \in Rows |-> [fat[d] EXCEPT ![Col(x, d)] =
                        IF d = D - 1 THEN @ ELSE FloorSub(@, delta)]]

DecR(x, delta) ==
    [d \in Rows |-> [fat[d] EXCEPT ![Col(x, d)] = FloorSub(@, delta)]]

(* Mutations: a deletion leaves the slim array alone; it lowers the slim   *)
(* counters to the key's own fat counters and not to the bucket's largest. *)
DecLForgotten(f, x) == slim
DecLToOwnCounter(f, x) ==
    [d \in Rows |-> [slim[d] EXCEPT ![BucketOf(x, d)] =
                        Lesser(@, FatCounters(f, x)[d])]]

DecL(f, x) ==
    [d \in Rows |-> [slim[d] EXCEPT ![BucketOf(x, d)] =
                        IF @ > AuxC(f, x)[d] THEN AuxC(f, x)[d] ELSE @]]

(* A trace deletes no more of a key than it has inserted                   *)
(* (bench_update_gen.cc tracks every value and skips such a decrement).    *)
Dec(x, delta) ==
    /\ ~aborted
    /\ count[x] >= delta
    /\ fat' = DecR(x, delta)
    /\ aborted' = \E d \in Rows : SlimCounters(slim, x)[d] > AuxC(fat', x)[d] + delta
    /\ slim' = DecL(fat', x)
    /\ count' = [count EXCEPT ![x] = @ - delta]
    /\ lossy' = (lossy \/ cut)
    /\ UNCHANGED <<cut, maxArray>>

Next == \E x \in Keys, delta \in Deltas : Inc(x, delta) \/ Dec(x, delta)

Spec == Init /\ [][Next]_vars

-----------------------------------------------------------------------------
(* Properties *)

TypeOK ==
    /\ maxArray \in BOOLEAN
    /\ fat \in [Rows -> [Cols -> 0..MaxC]]
    /\ slim \in [Rows -> [Buckets -> 0..MaxC]]
    /\ aborted \in BOOLEAN
    /\ count \in [Keys -> Nat]
    /\ cut \in BOOLEAN
    /\ lossy \in BOOLEAN

(* The asserts of inc_l() and dec_l() never fail: a slim counter is never  *)
(* further above its bucket than the update in progress explains.          *)
NoAssertFails == ~aborted

(* A slim counter never exceeds the largest fat counter of its bucket,     *)
(* whatever was inserted into or deleted from the bucket since it was set. *)
SlimWithinBucket ==
    \A d \in Rows, w \in Buckets : slim[d][w] <= MaxOf(BucketRow(fat[d], w))

(* With MAX_COUNTERS_ARRAY the incrementally maintained slim array is at   *)
(* every moment what compose_slim() of SF_FINAL would compute.             *)
SlimIsBucketMax ==
    maxArray => \A d \in Rows, w \in Buckets : slim[d][w] = MaxOf(BucketRow(fat[d], w))

(* Until something is deleted after a cut, every fat counter is the sum of *)
(* the counts of the keys of its column, cut at MaxC: no deletion is ever  *)
(* floored at zero, and no update reaches a wrong counter.                 *)
FatIsExactLoad ==
    ~lossy => \A d \in Rows, c \in Cols :
        fat[d][c] = Lesser(Total(count, {x \in Keys : Col(x, d) = c}), MaxC)

(* The answer to a query is never below the count of the key, although     *)
(* deletions of other keys lower the counters it shares with them.         *)
OneSided == ~lossy => \A x \in Keys : Query(x) >= Lesser(count[x], MaxC)

(* The sketch implements FrequencyEstimator: see there for the bounds on   *)
(* how far one update may move any key's answer.                           *)
Estimator == INSTANCE FrequencyEstimator WITH
                 estimate <- [x \in Keys |-> Query(x)]
ImplementsEstimator == Estimator!Spec
=============================================================================
