-------------------------- MODULE MCInsertComparison --------------------------
(* Two rows of two slim and three fat counters.                            *)
EXTENDS InsertComparison, TLC
CONSTANTS a, b, c

(* Fat: a and b share a counter in row 0, b and c in row 1.                *)
MCHash  == a :> (0 :> 4 @@ 1 :> 0) @@ b :> (0 :> 1 @@ 1 :> 5) @@ c :> (0 :> 2 @@ 1 :> 2)
(* Slim: b and c share a counter in row 0, a and c in row 1.               *)
MCHashL == a :> (0 :> 2 @@ 1 :> 1) @@ b :> (0 :> 1 @@ 1 :> 0) @@ c :> (0 :> 3 @@ 1 :> 3)
MCDeltas == {0, 1, 2, 3}
=============================================================================
