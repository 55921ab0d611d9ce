------------------------------- MODULE CSketch -------------------------------
(***************************************************************************)
(* The Count sketch of csketch/countSketch.cpp: a second hash function     *)
(* gives every key a sign in every row, counters are signed, and a query   *)
(* answers the median over the rows of the counter times the sign.         *)
(***************************************************************************)
EXTENDS Counters

CONSTANTS
    Keys, D, W, Hash, Deltas, Limit,   \* as in CMSketch
    MaxNum,                            \* maxNum, at least every delta
    Sign                               \* Sign[key][row], t: -1 or 1

Rows == 0 .. (D - 1)
Cols == 0 .. (W - 1)

VARIABLES
    s,        \* s[i * wNum + j]
    count,    \* history: the true count of every key
    clipped   \* history: an update has been cut at maxNum or -maxNum

vars == <<s, count, clipped>>

Pos(x, i)   == Hash[x][i] % W
Seen(x, i)  == Sign[x][i] * s[i][Pos(x, i)]          \* tt, and ss[i] of query()

(* std::nth_element at dNum >> 1                                           *)
CSQuery(x) ==
    CHOOSE m \in {Seen(x, i) : i \in Rows} :
        /\ Cardinality({i \in Rows : Seen(x, i) < m}) <= D \div 2
        /\ Cardinality({i \in Rows : Seen(x, i) <= m}) > D \div 2

Init ==
    /\ s = [i \in Rows |-> [j \in Cols |-> 0]]
    /\ count = [x \in Keys |-> 0]
    /\ clipped = FALSE

Inc(x, delta) ==
    /\ count[x] + delta <= Limit
    /\ s' = [i \in Rows |-> [s[i] EXCEPT ![Pos(x, i)] =
                IF MaxNum - delta < Seen(x, i) THEN MaxNum * Sign[x][i]
                ELSE @ + delta * Sign[x][i]]]
    /\ clipped' = (clipped \/ \E i \in Rows : Seen(x, i) + delta > MaxNum)
    /\ count' = [count EXCEPT ![x] = @ + delta]

(* Mutation: the sign of the row is not applied. *)
DecUnsigned(x, delta) ==
    /\ s' = [i \in Rows |-> [s[i] EXCEPT ![Pos(x, i)] = @ - delta]]
    /\ count' = [count EXCEPT ![x] = @ - delta]
    /\ UNCHANGED clipped

Dec(x, delta) ==
    /\ s' = [i \in Rows |-> [s[i] EXCEPT ![Pos(x, i)] =
                IF MaxNum - delta < -Seen(x, i) THEN -MaxNum * Sign[x][i]
                ELSE @ - delta * Sign[x][i]]]
    /\ clipped' = (clipped \/ \E i \in Rows : Seen(x, i) - delta < -MaxNum)
    /\ count' = [count EXCEPT ![x] = @ - delta]

Next == \E x \in Keys, delta \in Deltas : Inc(x, delta) \/ Dec(x, delta)

Spec == Init /\ [][Next]_vars
=============================================================================
