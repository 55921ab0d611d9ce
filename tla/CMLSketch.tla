------------------------------ MODULE CMLSketch ------------------------------
(***************************************************************************)
(* The Count-Min-Log sketch of cmlsketch/cmlsketch.cpp: a counter holds    *)
(* the logarithm of a count.  A unit inserted raises the smallest counters *)
(* of its key by one with probability b^(-c), c being their value.  The    *)
(* random decision is a nondeterministic choice, except that b^0 = 1       *)
(* exceeds every random number: the first unit of a key always counts.     *)
(***************************************************************************)
EXTENDS Counters

CONSTANTS
    Keys, D, W, MaxCounter, Hash, Deltas, Limit,    \* as in CMSketch
    Cap                                             \* limit, in 1..MaxCounter

Rows == 0 .. (D - 1)
Cols == 0 .. (W - 1)

VARIABLES
    table,   \* count[i][j]
    count    \* history: the true count of every key

vars == <<table, count>>

Pos(x, i)     == Hash[x][i] % W
LogCounter(x) == MinOf([i \in Rows |-> table[i][Pos(x, i)]])    \* c of queryPoint()

Init ==
    /\ table = [i \in Rows |-> [j \in Cols |-> 0]]
    /\ count = [x \in Keys |-> 0]

(* Mutation: the units that the decision turned down are made up for. *)
ReachableTwice(c, r) == {c + 2 * r}

(* Where r rounds of the loop over k can leave the smallest counter.       *)
Reachable(c, r) ==
    {g \in c .. (c + r) : (g > c => g <= Cap) /\ (c = 0 /\ r > 0 => g > 0)}

Insert(x, r) ==
    /\ count[x] + r <= Limit
    /\ \E g \in Reachable(LogCounter(x), r) :
          table' = [i \in Rows |-> [table[i] EXCEPT ![Pos(x, i)] = IF @ < g THEN g ELSE @]]
    /\ count' = [count EXCEPT ![x] = @ + r]

Next == \E x \in Keys, r \in Deltas : Insert(x, r)

Spec == Init /\ [][Next]_vars
=============================================================================
