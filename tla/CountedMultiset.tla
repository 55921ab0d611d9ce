-------------------------- MODULE CountedMultiset --------------------------
(***************************************************************************)
(* What the counting quotient filter promises (cqfilter/gqf.h): a count    *)
(* for every hash, changed for one hash at a time by insertions and        *)
(* removals and for all by a reset, and by nothing else.                   *)
(***************************************************************************)
EXTENDS Integers

CONSTANT Hashes

VARIABLE counts

Init == counts = [h \in Hashes |-> 0]

OthersKeep(h) == \A g \in Hashes \ {h} : counts'[g] = counts[g]

(* qf_insert(), qf_set_count() to more: the count of one hash grows.       *)
Increase(h) == OthersKeep(h) /\ counts'[h] > counts[h]

(* qf_remove(), qf_delete_key_value(), qf_set_count() to less              *)
Decrease(h) == OthersKeep(h) /\ counts'[h] < counts[h]

Reset == counts' = [h \in Hashes |-> 0]

Next == (\E h \in Hashes : Increase(h) \/ Decrease(h)) \/ Reset

Spec == Init /\ [][Next]_counts
=============================================================================
