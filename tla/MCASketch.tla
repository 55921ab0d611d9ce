------------------------------ MODULE MCASketch ------------------------------
(* Four keys, a filter of two slots and two rows of two counters: a shares *)
(* a counter with b and c in row 0, and with d in row 1.                   *)
EXTENDS ASketch, TLC
CONSTANTS a, b, c, d

MCHash == a :> (0 :> 0 @@ 1 :> 3) @@ b :> (0 :> 2 @@ 1 :> 0)
          @@ c :> (0 :> 0 @@ 1 :> 0) @@ d :> (0 :> 1 @@ 1 :> 1)
=============================================================================
