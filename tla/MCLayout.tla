------------------------------ MODULE MCLayout ------------------------------
(* The two layouts of the counters in memory, either one at a time: the    *)
(* vector path on buckets of two columns instead of sixteen, for every fat *)
(* array that holds its own small number in each cell of one bucket and    *)
(* zeros elsewhere, or distinct numbers everywhere in one of two orders;   *)
(* and a packed row, where words of 8 bits and ints of 4 stand for 64 and  *)
(* 32.                                                                     *)
EXTENDS ComposeSSE

CONSTANTS W, IntBits, BitsC, N, Deltas     \* see PackedCounters

ASSUME WidthAssumption ==
    /\ W \in Nat \ {0} /\ BitsC \in 1..W /\ IntBits \in 1..W
    /\ N \in Nat \ {0} /\ Deltas \subseteq Nat

VARIABLES words, plain

packedVars == <<words, plain>>

Packed == INSTANCE PackedCounters

MCCols(wl) == 0 .. (K * wl - 1)
Cell(wl, r, c) == 1 + r * K * wl + c
Spot(wl, r, c, v) ==
    [q \in Rows |-> [e \in MCCols(wl) |-> IF q = r /\ e = c THEN v ELSE 0]]
MCInputs(wl) ==
    {Spot(wl, r, c, v) : r \in Rows, c \in MCCols(wl), v \in 1..2}
    \cup {[q \in Rows |-> [e \in MCCols(wl) |-> Cell(wl, q, e)]],
          [q \in Rows |-> [e \in MCCols(wl) |-> 1000 - Cell(wl, q, e)]]}

(* The vector path has nothing to do. *)
Composed ==
    /\ WL = 1 /\ d = D /\ w = 0
    /\ fat = [r \in Rows |-> [c \in MCCols(1) |-> 0]]
    /\ left = [p \in LBlock |-> 0]

MCInit == Packed!Init /\ (Init \/ Composed)
MCNext ==
    \/ StoreGroup /\ UNCHANGED packedVars
    \/ WL = 1 /\ Packed!Next /\ UNCHANGED vars
    \/ d = D /\ UNCHANGED <<vars, packedVars>>
MCSpec == MCInit /\ [][MCNext]_<<vars, packedVars>>

PackedIsPlain == Packed!PackedIsPlain
=============================================================================
