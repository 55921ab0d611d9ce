------------------------------ MODULE SFFinal ------------------------------
(***************************************************************************)
(* The two-level sketch of sfsketch/sketch.c as SF_FINAL configures it:    *)
(* updates touch only the large "fat" array, compose_slim() derives the    *)
(* small "slim" array from it on demand, and a switch chooses the array    *)
(* that answers queries.                                                   *)
(*                                                                         *)
(* A key hashes to one column of each fat row; K = 2^exp_K neighbouring    *)
(* fat columns form a bucket, and the slim row has one counter per bucket. *)
(***************************************************************************)
EXTENDS Counters

CONSTANTS
    Keys,      \* the keys of the trace
    D,         \* number of rows
    WL,        \* slim counters per row
    ExpK,      \* log2 of the number of fat columns in a bucket
    MaxC,      \* the largest value of a counter (max_c)
    Hash,      \* Hash[key][row], the value of hash(d, str, len)
    Deltas,    \* the deltas a request carries
    Limit      \* bound on what is added to one key (bounds the model only)

Rows == 0 .. (D - 1)
K    == 2^ExpK                 \* K = 1 << exp_K
WR   == K * WL                 \* sketch.WR = K*WL
Cols == 0 .. (WR - 1)
Buckets == 0 .. (WL - 1)

ASSUME SizesAssumption ==
    /\ D \in Nat \ {0} /\ WL \in Nat \ {0} /\ K \in Nat \ {0} /\ MaxC \in Nat
ASSUME HashAssumption == Hash \in [Keys -> [Rows -> Nat]]
ASSUME DeltaAssumption == Deltas \subseteq 0..MaxC
ASSUME KeysAssumption == IsFiniteSet(Keys)

VARIABLES
    fat,          \* sketch.right->counts
    slim,         \* sketch.left->counts
    querySketch,  \* query_sketch: the array query() reads
    inserted,     \* history: what inc() was given, by key
    deleted,      \* history: what dec() was given, by key
    composed,     \* history: <<inserted, deleted>> at the last compose_slim()
    fresh         \* history: fat has not changed since then

vars == <<fat, slim, querySketch, inserted, deleted, composed, fresh>>
history == <<inserted, deleted, composed, fresh>>

-----------------------------------------------------------------------------
(* Reading *)

Col(x, d)      == Hash[x][d] % WR
BucketOf(x, d) == Col(x, d) \div K       \* w >> exp_K

(* Mutation: the loop over a bucket stops one counter early. *)
BucketRowShort(r, w) == [i \in 0 .. (K - 2) |-> r[w * K + i]]

(* The counters of bucket w of fat row r, in the order of the loop over i. *)
BucketRow(r, w) == [i \in 0 .. (K - 1) |-> r[w * K + i]]

FatCounters(f, x)  == [d \in Rows |-> f[d][Col(x, d)]]
SlimCounters(s, x) == [d \in Rows |-> s[d][BucketOf(x, d)]]

FatQuery(x)  == MinOf(FatCounters(fat, x))
SlimQuery(x) == MinOf(SlimCounters(slim, x))
Query(x)     == IF querySketch = "LEFT" THEN SlimQuery(x) ELSE FatQuery(x)

-----------------------------------------------------------------------------
(* Operations *)

Init ==
    /\ fat  = [d \in Rows |-> [c \in Cols |-> 0]]
    /\ slim = [d \in Rows |-> [w \in Buckets |-> 0]]
    /\ querySketch = "LEFT"
    /\ inserted = [x \in Keys |-> 0]
    /\ deleted  = [x \in Keys |-> 0]
    /\ composed = <<inserted, deleted>>
    /\ fresh = TRUE

(* Mutation: the limit is forgotten. *)
IncROnlyUnlimited(x, delta) ==
    fat' = [d \in Rows |-> [fat[d] EXCEPT ![Col(x, d)] = @ + delta]]

IncROnly(x, delta) ==
    fat' = [d \in Rows |->
               [fat[d] EXCEPT ![Col(x, d)] = SatAdd(@, delta, MaxC)]]

(* dec_r_only() repeats the addition of inc_r_only(): under SF_FINAL a     *)
(* delete adds to the counters it should lower.                            *)
DecROnly(x, delta) ==
    fat' = [d \in Rows |->
               [fat[d] EXCEPT ![Col(x, d)] = SatAdd(@, delta, MaxC)]]

Inc(x, delta) ==
    /\ inserted[x] + delta <= Limit
    /\ IncROnly(x, delta)
    /\ inserted' = [inserted EXCEPT ![x] = @ + delta]
    /\ fresh' = FALSE
    /\ UNCHANGED <<slim, querySketch, deleted, composed>>

Dec(x, delta) ==
    /\ deleted[x] + delta <= Limit
    /\ DecROnly(x, delta)
    /\ deleted' = [deleted EXCEPT ![x] = @ + delta]
    /\ fresh' = FALSE
    /\ UNCHANGED <<slim, querySketch, inserted, composed>>

ComposeSlim ==
    /\ slim' = [d \in Rows |-> [w \in Buckets |-> MaxOf(BucketRow(fat[d], w))]]
    /\ composed' = <<inserted, deleted>>
    /\ fresh' = TRUE
    /\ UNCHANGED <<fat, querySketch, inserted, deleted>>

SetQuerySlim ==
    /\ querySketch' = "LEFT"
    /\ UNCHANGED <<fat, slim, history>>

SetQueryFat ==
    /\ querySketch' = "RIGHT"
    /\ UNCHANGED <<fat, slim, history>>

Next ==
    \/ \E x \in Keys, delta \in Deltas : Inc(x, delta)
    \/ \E x \in Keys, delta \in Deltas : Dec(x, delta)
    \/ ComposeSlim
    \/ SetQuerySlim
    \/ SetQueryFat

Spec == Init /\ [][Next]_vars

-----------------------------------------------------------------------------
(* Properties *)

TypeOK ==
    /\ fat \in [Rows -> [Cols -> 0..MaxC]]
    /\ slim \in [Rows -> [Buckets -> 0..MaxC]]
    /\ querySketch \in {"LEFT", "RIGHT"}
    /\ inserted \in [Keys -> Nat]
    /\ deleted \in [Keys -> Nat]
    /\ composed \in [Keys -> Nat] \X [Keys -> Nat]
    /\ fresh \in BOOLEAN

(* What the keys of column c of row d have been given, in the history      *)
(* <<ins, del>>; a delete counts as much as an insert (see DecROnly).      *)
Load(ins, del, d, c) ==
    LET here == {x \in Keys : Col(x, d) = c}
    IN  Total(ins, here) + Total(del, here)

(* Every fat counter is the sum of what the keys of its column were given, *)
(* cut at MaxC once and never below: saturating additions in any order and *)
(* any split commute.  (inc_r_only, dec_r_only)                            *)
FatIsExactLoad ==
    \A d \in Rows, c \in Cols :
        fat[d][c] = Lesser(Load(inserted, deleted, d, c), MaxC)

(* Every slim counter is the largest saturated load its bucket had when    *)
(* compose_slim() last ran, whatever was added since.                      *)
SlimIsSnapshot ==
    \A d \in Rows, w \in Buckets :
        slim[d][w] = MaxOf([i \in 0 .. (K - 1) |->
                        Lesser(Load(composed[1], composed[2], d, w * K + i), MaxC)])

(* The answer of query_fat() is never below the net count of the key, nor  *)
(* the saturation point: the one-sided error the sketch is used for.       *)
FatOneSided ==
    \A x \in Keys : FatQuery(x) >= Lesser(inserted[x] - deleted[x], MaxC)

(* The answer of query_slim() covers the net count the key had at the last *)
(* compose_slim(): a switch to the slim array loses only later updates.    *)
SlimOneSided ==
    \A x \in Keys : SlimQuery(x) >= Lesser(composed[1][x] - composed[2][x], MaxC)

(* Switching queries to a freshly composed slim array never lowers an      *)
(* answer: the slim error is the fat error plus that of the merge.         *)
FreshSlimDominatesFat ==
    fresh => \A x \in Keys : SlimQuery(x) >= FatQuery(x)

(* "decrease by one" (sketch.h:92): deleting a key never raises an answer. *)
DecNeverRaises ==
    [][\A x \in Keys, delta \in Deltas :
          Dec(x, delta) => \A y \in Keys : FatQuery(y)' <= FatQuery(y)]_vars
=============================================================================
