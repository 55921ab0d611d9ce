------------------------------ MODULE CMSketch ------------------------------
(***************************************************************************)
(* The Count-Min sketch of cmsketch/cmsketch.cpp: one array of counters,   *)
(* every insertion adds to and every deletion subtracts from one counter   *)
(* in each row.  getCounter() and setCounter() are those of PackedCounters *)
(* with words of 32 bits.                                                  *)
(***************************************************************************)
EXTENDS Counters

CONSTANTS
    Keys,        \* the keys of the trace
    D,           \* d, rows
    W,           \* w, counters per row
    MaxCounter,  \* maxCounter, at least every delta
    Hash,        \* Hash[key][row], the value of h[row].run(str, len)
    Deltas,      \* the deltas a request carries
    Limit        \* bound on the count of a key (bounds the model only)

Rows == 0 .. (D - 1)
Cols == 0 .. (W - 1)

VARIABLES
    table,   \* count[i][j]
    count,   \* history: the true count of every key
    cut,     \* history: an addition has been cut at MaxCounter
    lossy    \* history: a deletion has followed a cut or was not of what is there

vars == <<table, count, cut, lossy>>

Pos(x, i) == Hash[x][i] % W

QueryPoint(x) == MinOf([i \in Rows |-> table[i][Pos(x, i)]])

Init ==
    /\ table = [i \in Rows |-> [j \in Cols |-> 0]]
    /\ count = [x \in Keys |-> 0]
    /\ cut = FALSE
    /\ lossy = FALSE

Insert(x, r) ==
    /\ count[x] + r <= Limit
    /\ table' = [i \in Rows |-> [table[i] EXCEPT ![Pos(x, i)] = SatAdd(@, r, MaxCounter)]]
    /\ count' = [count EXCEPT ![x] = @ + r]
    /\ cut' = (cut \/ \E i \in Rows : table[i][Pos(x, i)] + r > MaxCounter)
    /\ UNCHANGED lossy

(* (r >= counter) ? 0 : (counter - r)                                      *)
Delete_(x, r) ==
    /\ table' = [i \in Rows |-> [table[i] EXCEPT ![Pos(x, i)] = FloorSub(@, r)]]
    /\ count' = [count EXCEPT ![x] = @ - r]
    /\ lossy' = (lossy \/ cut \/ count[x] < r)
    /\ UNCHANGED cut

Next == \E x \in Keys, r \in Deltas : Insert(x, r) \/ Delete_(x, r)

Spec == Init /\ [][Next]_vars
=============================================================================
