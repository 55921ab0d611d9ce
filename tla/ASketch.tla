------------------------------ MODULE ASketch ------------------------------
(***************************************************************************)
(* The augmented sketch of asketch/ASketch.h: a small filter that counts   *)
(* the keys it holds exactly, in front of a sketch that counts the others. *)
(* A key whose estimate in the sketch beats the smallest count in the      *)
(* filter takes that slot; the key it drives out takes to the sketch only  *)
(* what it was given while it was in the filter.                           *)
(***************************************************************************)
EXTENDS Counters

CONSTANTS
    Keys,     \* the keys of the trace, all but the empty string
    None,     \* the empty string, which marks a free slot
    D, W,     \* d rows of w counters
    FilterSize,   \* FILTER_SIZE
    MaxCnt,   \* MAX_CNT, the value at which a counter is left alone
    Top,      \* 1 << 30, from which minima are searched for
    Hash,     \* Hash[key][row], the value of bobhash[row]->run()
    Limit     \* bound on the count of a key (bounds the model only)

Rows  == 0 .. (D - 1)
Cols  == 0 .. (W - 1)
Slots == 0 .. (FilterSize - 1)

ASSUME ASketchAssumption ==
    /\ None \notin Keys /\ IsFiniteSet(Keys)
    /\ D \in Nat \ {0} /\ W \in Nat \ {0} /\ MaxCnt \in Nat /\ Top \in Nat
    /\ MaxCnt < Top /\ FilterSize \in Nat \ {0}
    /\ Hash \in [Keys -> [Rows -> Nat]]

VARIABLES
    items,       \* the key in each slot of the filter
    newCount,    \* new_count: the count of the key, as far as it is known
    oldCount,    \* old_count: the part of it the sketch holds already
    counter,     \* the counters of the sketch
    count,       \* history: the true count of every key
    skipped      \* history: a counter at MaxCnt has been left alone

vars == <<items, newCount, oldCount, counter, count, skipped>>

Pos(x, d) == Hash[x][d] % W
Held(x)   == {i \in Slots : items[i] = x}
Free      == Held(None)

Cells(c, x) == [d \in Rows |-> c[d][Pos(x, d)]]

(* The sketch c after n has been added to the counters of x that are not   *)
(* at MaxCnt; the sum is not compared with MaxCnt.                         *)
Added(c, x, n) ==
    [d \in Rows |-> [c[d] EXCEPT ![Pos(x, d)] = IF @ # MaxCnt THEN @ + n ELSE @]]

Skips(c, x) == \E d \in Rows : Cells(c, x)[d] = MaxCnt

Query(x) ==
    IF Held(x) # {} THEN newCount[Min(Held(x))] ELSE Min({Top, MinOf(Cells(counter, x))})

-----------------------------------------------------------------------------
Init ==
    /\ items = [i \in Slots |-> None]
    /\ newCount = [i \in Slots |-> 0]
    /\ oldCount = [i \in Slots |-> 0]
    /\ counter = [d \in Rows |-> [j \in Cols |-> 0]]
    /\ count = [x \in Keys |-> 0]
    /\ skipped = FALSE

Count(x) == count[x] < Limit /\ count' = [count EXCEPT ![x] = @ + 1]

(* The key is in the filter.                                               *)
InsertHeld(x) ==
    /\ Held(x) # {}
    /\ newCount' = [newCount EXCEPT ![Min(Held(x))] = @ + 1]
    /\ UNCHANGED <<items, oldCount, counter, skipped>>

(* A slot is free: the key has never been seen.                            *)
InsertFree(x) ==
    /\ Held(x) = {} /\ Free # {}
    /\ items' = [items EXCEPT ![Min(Free)] = x]
    /\ newCount' = [newCount EXCEPT ![Min(Free)] = 1]
    /\ oldCount' = [oldCount EXCEPT ![Min(Free)] = 0]
    /\ UNCHANGED <<counter, skipped>>

(* The estimate of x after its insertion: the smallest of the counters     *)
(* that have been incremented, and Top when none has.                      *)
Estimate(x) ==
    Min({Top} \cup {Cells(counter, x)[d] + 1 :
                       d \in {e \in Rows : Cells(counter, x)[e] # MaxCnt}})

MinValue == Min({Top} \cup {newCount[i] : i \in Slots})
Victim   == LET least == {i \in Slots : newCount[i] < Top /\ newCount[i] = MinValue}
            IN  IF least = {} THEN 0 ELSE Min(least)

(* Mutation: all of the victim's count goes to the sketch, with what the   *)
(* sketch already had.                                                     *)
WriteBackAll(c, i) == Added(c, items[i], newCount[i])

(* The sketch c after the key of slot i has been driven out.               *)
WriteBack(c, i) ==
    LET temp == newCount[i] - oldCount[i]
    IN  IF temp > 0 THEN Added(c, items[i], temp) ELSE c

WriteBackSkips(c, i) == newCount[i] > oldCount[i] /\ Skips(c, items[i])

(* Mutation: the key starts at one, as it does in a free slot. *)
AdmitAtOne(x, i) ==
    /\ items' = [items EXCEPT ![i] = x]
    /\ newCount' = [newCount EXCEPT ![i] = 1]
    /\ oldCount' = [oldCount EXCEPT ![i] = 0]

Admit(x, i) ==
    /\ items' = [items EXCEPT ![i] = x]
    /\ newCount' = [newCount EXCEPT ![i] = Estimate(x)]
    /\ oldCount' = [oldCount EXCEPT ![i] = Estimate(x)]

InsertMissing(x) ==
    /\ Held(x) = {} /\ Free = {}
    /\ LET grown == Added(counter, x, 1)
       IN  IF Estimate(x) > MinValue
           THEN /\ Admit(x, Victim)
                /\ counter' = WriteBack(grown, Victim)
                /\ skipped' = (skipped \/ Skips(counter, x) \/ WriteBackSkips(grown, Victim))
           ELSE /\ counter' = grown
                /\ skipped' = (skipped \/ Skips(counter, x))
                /\ UNCHANGED <<items, newCount, oldCount>>

Insert(x) == Count(x) /\ (InsertHeld(x) \/ InsertFree(x) \/ InsertMissing(x))

Next == \E x \in Keys : Insert(x)

Spec == Init /\ [][Next]_vars

-----------------------------------------------------------------------------
(* Properties *)

(* The part of the count of x that only the filter knows.                  *)
Pending(x) ==
    IF Held(x) = {} THEN 0 ELSE newCount[Min(Held(x))] - oldCount[Min(Held(x))]

Here(d, c) == {x \in Keys : Pos(x, d) = c}

(* However often keys enter, leave and enter the filter again, nothing is  *)
(* lost or counted twice: a counter of the sketch holds what its keys were *)
(* given, except what is still pending in the filter.                      *)
NothingLost ==
    ~skipped => \A d \in Rows, c \in Cols :
        counter[d][c] = Total([x \in Keys |-> count[x] - Pending(x)], Here(d, c))

(* An answer is never below the count of its key, nor below MaxCnt when    *)
(* the count is beyond it, even when counters have been left alone.        *)
OneSided == \A x \in Keys : Query(x) >= Lesser(count[x], MaxCnt)

(* An answer never exceeds that of the sketch without the filter, which    *)
(* would count every key of a column in it.                                *)
WithinCountMin ==
    ~skipped => \A x \in Keys :
        Query(x) <= MinOf([d \in Rows |-> Total(count, Here(d, Pos(x, d)))])
=============================================================================
