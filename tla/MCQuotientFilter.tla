-------------------------- MODULE MCQuotientFilter --------------------------
(* Small filters: four slots of three bits, in blocks of two.              *)
EXTENDS QuotientFilter

(* Two hashes of one bucket, 0 and 3 with the special remainder 0 among    *)
(* them, and one each of the next bucket and of the last.                  *)
MCHashes == {0, 3, 8 + 7}
MCMaxCount == 0 :> 4 @@ 3 :> 10 @@ 15 :> 2
MCOther  == InsertAll(NewFilter(4, 3, FALSE), <<[hash |-> 3, count |-> 2], [hash |-> 15, count |-> 1]>>)
=============================================================================
