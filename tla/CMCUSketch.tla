----------------------------- MODULE CMCUSketch -----------------------------
(***************************************************************************)
(* The conservative-update sketch of cmcusketch/cmcusketch.cpp: an         *)
(* insertion raises only the counters that are below the new estimate of   *)
(* the key, so nothing can be deleted.                                     *)
(***************************************************************************)
EXTENDS Counters

CONSTANTS Keys, D, W, MaxCounter, Hash, Deltas, Limit    \* as in CMSketch

Rows == 0 .. (D - 1)
Cols == 0 .. (W - 1)

VARIABLES
    table,   \* count[i][j]
    count    \* history: the true count of every key

vars == <<table, count>>

Pos(x, i)   == Hash[x][i] % W
Auxis(x)    == [i \in Rows |-> table[i][Pos(x, i)]]    \* auxis[i].c
QueryPoint(x) == MinOf(Auxis(x))

Init ==
    /\ table = [i \in Rows |-> [j \in Cols |-> 0]]
    /\ count = [x \in Keys |-> 0]

(* Counters below the smallest of the new values are raised to it.         *)
Insert(x, r) ==
    /\ count[x] + r <= Limit
    /\ LET min == MinOf([i \in Rows |-> SatAdd(Auxis(x)[i], r, MaxCounter)])
       IN  table' = [i \in Rows |-> [table[i] EXCEPT ![Pos(x, i)] = IF min > @ THEN min ELSE @]]
    /\ count' = [count EXCEPT ![x] = @ + r]

Next == \E x \in Keys, r \in Deltas : Insert(x, r)

Spec == Init /\ [][Next]_vars
=============================================================================
