----------------------------- MODULE ComposeSSE -----------------------------
(***************************************************************************)
(* The vector path of compose_slim() (sketch.c), taken when bits_c = 32    *)
(* and K = 16: it reads both arrays as uint32_t, four slim counters at a   *)
(* time, and must store what the portable loop stores.                     *)
(*                                                                         *)
(* Two 32-bit counters share a 64-bit word, the first in its upper half    *)
(* (get_cpt_c), which on a little-endian machine is the second uint32_t of *)
(* the word: counter c of a row is half c of the row with the lowest bit   *)
(* of c flipped.                                                           *)
(***************************************************************************)
EXTENDS Counters

CONSTANTS
    D,         \* rows
    Widths,    \* the numbers of slim counters per row (option -w)
    K,         \* fat counters per bucket (16 in the code)
    Junk,      \* what memory past the fat array holds
    Inputs(_)  \* fat arrays to compose, by row and column, for a width

ASSUME SizesAssumption ==
    /\ D \in Nat \ {0} /\ Widths \subseteq Nat \ {0} /\ K \in Nat \ {0} /\ K % 2 = 0

VARIABLES
    WL,       \* sketch.WL
    fat,      \* the fat array, by row and column
    left,     \* the slim array as uint32_t's
    d, w      \* the loop counters; the loop has ended when d = D

vars == <<WL, fat, left, d, w>>

Rows     == 0 .. (D - 1)
Cols     == 0 .. (K * WL - 1)
RHalves  == 2 * ((K * WL + 1) \div 2)       \* uint32_t's in a fat row
LHalves  == 2 * ((WL + 1) \div 2)           \* and in a slim row
LBlock   == 0 .. (D * LHalves - 1)          \* rows lie one after the other

Flip(c) == IF c % 2 = 0 THEN c + 1 ELSE c - 1

(* pright[b] in row r, which may run on into the following rows and beyond. *)
Right(r, b) ==
    LET row == r + b \div RHalves
        c   == Flip(b % RHalves)
    IN  IF row < D /\ c \in Cols THEN fat[row][c] ELSE Junk

(* Mutation: the lanes are filled in the order of the buckets. *)
LaneUnswapped(r, v, lane) == MaxOf([i \in 0 .. (K - 1) |-> Right(r, (v + lane) * K + i)])

(* One of the four lanes arry[i][0..3], reduced over i with _mm_max_epu32: *)
(* lane l is filled from the bucket with the lowest bit of l flipped.      *)
Lane(r, v, lane) == MaxOf([i \in 0 .. (K - 1) |-> Right(r, (v + Flip(lane)) * K + i)])

Init ==
    /\ WL \in Widths
    /\ fat \in Inputs(WL)
    /\ left = [p \in LBlock |-> 0]
    /\ d = 0
    /\ w = 0

(* One pass of the loop over w: four lanes stored at pleft + w.            *)
StoreGroup ==
    /\ d < D
    /\ LET at(lane) == d * LHalves + w + lane
       IN  left' = [p \in LBlock |->
                       IF p \in at(0) .. at(3) THEN Lane(d, w, p - at(0)) ELSE left[p]]
    /\ IF w + 4 < WL THEN w' = w + 4 /\ d' = d
                     ELSE w' = 0 /\ d' = d + 1
    /\ UNCHANGED <<WL, fat>>

Done == d = D /\ UNCHANGED vars

Next == StoreGroup \/ Done

Spec == Init /\ [][Next]_vars

-----------------------------------------------------------------------------
(* get_lc() on the result, and the portable loop of compose_slim()         *)
LeftCounter(r, v) == left[r * LHalves + Flip(v)]
Portable(r, v)    == MaxOf([i \in 0 .. (K - 1) |-> fat[r][v * K + i]])

(* When the loop ends, every slim counter is the largest fat counter of    *)
(* its bucket, as in the portable loop: the halves swapped on reading are  *)
(* swapped back on storing, and what a row stores past its own end is      *)
(* overwritten by the next row.                                            *)
FastEqualsPortable ==
    d = D => \A r \in Rows, v \in 0 .. (WL - 1) : LeftCounter(r, v) = Portable(r, v)
=============================================================================
