-------------------------- MODULE UpdateComparison --------------------------
(***************************************************************************)
(* One trace of insertions and deletions replayed through three programs:  *)
(* the SF_V2 sketch, a Count-Min sketch as large as the slim array, and a  *)
(* Count sketch with signed counters.                                      *)
(***************************************************************************)
EXTENDS SFV2

CONSTANTS
    MaxNum,    \* the largest absolute value of a counter of the Count sketch
    Sign       \* its signs, Sign[key][row]

ASSUME SignAssumption ==
    MaxNum \in Nat /\ Deltas \subseteq 0..MaxNum /\ Sign \in [Keys -> [Rows -> {-1, 1}]]

VARIABLES
    cm, cmCut, cmLossy,    \* the state of the Count-Min sketch
    cs, clipped            \* the state of the Count sketch

CM == INSTANCE CMSketch WITH table <- cm, cut <- cmCut, lossy <- cmLossy,
                             W <- WL, MaxCounter <- MaxC,
                             Hash <- [x \in Keys |-> [d \in Rows |-> BucketOf(x, d)]]
CS == INSTANCE CSketch WITH s <- cs, W <- WR

allVars == <<vars, cm, cmCut, cmLossy, cs, clipped>>

CompareInit == Init /\ CM!Init /\ CS!Init

CompareNext ==
    \E x \in Keys, delta \in Deltas :
       \/ Inc(x, delta) /\ CM!Insert(x, delta) /\ CS!Inc(x, delta)
       \/ Dec(x, delta) /\ CM!Delete_(x, delta) /\ CS!Dec(x, delta)

CompareSpec == CompareInit /\ [][CompareNext]_allVars

-----------------------------------------------------------------------------
(* Properties *)

(* The slim array is never less accurate than a Count-Min sketch of its    *)
(* size that is given the same trace, deletions included, until the latter *)
(* has lost a deletion to a cut.                                           *)
SlimWithinCM ==
    ~cmLossy => \A d \in Rows, w \in Buckets : slim[d][w] <= cm[d][w]

(* Until a counter of the Count sketch is clipped it is the signed sum of  *)
(* its keys' counts, in whatever order they came and went.                 *)
SignedSumExact ==
    ~clipped => \A d \in Rows, c \in Cols :
        LET On(sign) == {x \in Keys : Col(x, d) = c /\ Sign[x][d] = sign}
        IN  cs[d][c] = Total(count, On(1)) - Total(count, On(-1))
=============================================================================
