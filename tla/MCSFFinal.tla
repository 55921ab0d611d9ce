----------------------------- MODULE MCSFFinal -----------------------------
(* Small instances of SFFinal: two rows of two buckets of two columns.     *)
EXTENDS SFFinal, TLC
CONSTANTS a, b, c

(* a and b share a fat column in row 0; a and c share a bucket but not a   *)
(* column there; in row 1 b and c share a column and a is alone.  Values   *)
(* beyond WR exercise the modulo.                                          *)
MCHash == a :> (0 :> 4 @@ 1 :> 3) @@ b :> (0 :> 0 @@ 1 :> 5) @@ c :> (0 :> 1 @@ 1 :> 1)
MCDeltas == {0, 1, 2}
=============================================================================
