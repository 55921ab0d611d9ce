------------------------------ MODULE Counters ------------------------------
(***************************************************************************)
(* The arithmetic every sketch of this repository is built from: counters  *)
(* that stop at max_c on the way up (sketch.c, inc_r) and at zero on the   *)
(* way down (sketch.c, dec_r), the smallest counter of a key's row of      *)
(* counters, which is every query's answer, and the largest counter of a   *)
(* bucket, which is what a slim counter stands for.                        *)
(***************************************************************************)
EXTENDS Integers, FiniteSetsExt

(***************************************************************************)
(* ((max_c - delta) > counter) ? (counter + delta) : max_c.  The C         *)
(* expression is in size_t; the subtraction is the integer one as long as  *)
(* delta <= max_c, which the modules that use SatAdd assume by name.       *)
(* PackedCounters models what happens when it is not.                      *)
(***************************************************************************)
SatAdd(counter, delta, maxc) ==
    IF maxc - delta > counter THEN counter + delta ELSE maxc

(* (counter > delta) ? (counter -= delta) : (counter = 0) *)
FloorSub(counter, delta) == IF counter > delta THEN counter - delta ELSE 0

Lesser(a, b) == IF a <= b THEN a ELSE b

(* What the loops "if (min > counter) min = counter" and                   *)
(* "if (max < counter) max = counter" leave behind, over a row of values.  *)
MinOf(f) == Min({f[i] : i \in DOMAIN f})
MaxOf(f) == Max({f[i] : i \in DOMAIN f})

(***************************************************************************)
(* The sum of n[x] over the members x of S, counted as a set of tokens:    *)
(* n[x] tokens for each x.  It specifies what a counter shared by the keys *)
(* of S has been given.                                                    *)
(***************************************************************************)
Tokens(n, S) == UNION {{x} \X (1 .. n[x]) : x \in S}
Total(n, S)  == Cardinality(Tokens(n, S))
=============================================================================
