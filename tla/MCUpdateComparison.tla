-------------------------- MODULE MCUpdateComparison --------------------------
(* Three rows of two buckets of two columns.                               *)
EXTENDS UpdateComparison, TLC
CONSTANTS a, b, c

(* a and b share a fat column in row 0; a and c share a bucket but not a   *)
(* column there; in row 1 b and c share a column and a is alone; in row 2  *)
(* all share the bucket, and a and c the column.                           *)
MCHash == a :> (0 :> 4 @@ 1 :> 3 @@ 2 :> 0) @@ b :> (0 :> 0 @@ 1 :> 5 @@ 2 :> 1)
          @@ c :> (0 :> 1 @@ 1 :> 1 @@ 2 :> 4)
MCSign == a :> (0 :> 1 @@ 1 :> 1 @@ 2 :> -1) @@ b :> (0 :> -1 @@ 1 :> 1 @@ 2 :> 1)
          @@ c :> (0 :> 1 @@ 1 :> -1 @@ 2 :> -1)
MCDeltas == {1, 2}
=============================================================================
