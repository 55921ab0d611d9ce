------------------------- MODULE FrequencyEstimator -------------------------
(***************************************************************************)
(* What a frequency sketch of this repository promises, without rows,      *)
(* hashes or counters: an estimate for every key that                      *)
(*   - is never below the key's true count (nor below maximum MaxC, when   *)
(*     the count is above it),                                             *)
(*   - does not fall when a key is added, nor rise by more than the amount *)
(*     added, whichever key was added,                                     *)
(*   - does not rise when a key is removed, nor fall by more than the      *)
(*     amount removed.                                                     *)
(* A counter that has been cut at MaxC has forgotten by how much, so the   *)
(* first promise ends with the first removal after a cut.                  *)
(***************************************************************************)
EXTENDS Counters

CONSTANTS Keys, MaxC, Deltas

VARIABLES
    count,      \* the true count of every key
    estimate,   \* the answer to a query, by key
    cut,        \* some addition has been cut at MaxC
    lossy       \* something has been removed after a cut

vars == <<count, estimate, cut, lossy>>

Init ==
    /\ count = [x \in Keys |-> 0]
    /\ estimate = [x \in Keys |-> 0]
    /\ cut = FALSE
    /\ lossy = FALSE

Covered == \A x \in Keys : estimate[x] >= Lesser(count[x], MaxC)

Add(x, delta) ==
    /\ count' = [count EXCEPT ![x] = @ + delta]
    /\ estimate' \in [Keys -> 0..MaxC]
    /\ \A y \in Keys : /\ estimate'[y] >= estimate[y]
                       /\ estimate'[y] <= estimate[y] + delta
    /\ cut' \in {cut, TRUE}
    /\ lossy' = lossy
    /\ lossy' \/ Covered'

Remove(x, delta) ==
    /\ count[x] >= delta
    /\ count' = [count EXCEPT ![x] = @ - delta]
    /\ estimate' \in [Keys -> 0..MaxC]
    /\ \A y \in Keys : /\ estimate'[y] <= estimate[y]
                       /\ estimate'[y] >= estimate[y] - delta
    /\ cut' = cut
    /\ lossy' = (lossy \/ cut)
    /\ lossy' \/ Covered'

Next ==
    \E x \in Keys, delta \in Deltas : Add(x, delta) \/ Remove(x, delta)

Spec == Init /\ [][Next]_vars
=============================================================================
