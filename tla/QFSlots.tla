------------------------------ MODULE QFSlots ------------------------------
(***************************************************************************)
(* The slots of the counting quotient filter (cqfilter/gqf.c, first half). *)
(*                                                                         *)
(* A hash is a bucket and a remainder.  The remainders of a bucket lie in  *)
(* increasing order in a run of consecutive slots, each followed by its    *)
(* count in an encoding of its own; a run starts at its bucket or, when    *)
(* that slot is taken, right after the run before it.  Two bits per slot   *)
(* tell which buckets have a run and which slots end one, and every block  *)
(* of B slots keeps how far earlier runs reach into it (its offset), so    *)
(* that the end of a run is found without looking at earlier blocks.       *)
(*                                                                         *)
(* A filter is a record; the bit vectors are sets of indices.              *)
(***************************************************************************)
EXTENDS Integers, Sequences, FiniteSets, TLC

CONSTANTS
    B,          \* QF_SLOTS_PER_BLOCK, 64 in the code
    OffsetMax,  \* BITMASK(8*sizeof(offset)), 255 in the code
    Slack       \* xnslots - nslots, 10*sqrt(nslots) in the code

ASSUME SlotsAssumption ==
    /\ B \in Nat \ {0} /\ OffsetMax \in Nat \ {0} /\ Slack \in Nat \ {0}

XNSlots(q) == q.nslots + Slack
NBlocks(q) == (XNSlots(q) + B - 1) \div B
Size(q)    == NBlocks(q) * B                  \* slots in memory
Base(q)    == 2 ^ q.rbits                     \* values of a slot

(* The blocks of a filter after qf_init().                                 *)
EmptyFilter(nslots, rbits) ==
    LET blocks == (nslots + Slack + B - 1) \div B
    IN  [nslots |-> nslots, rbits |-> rbits, occupieds |-> {}, runends |-> {},
         slots  |-> [i \in 0 .. (blocks * B - 1) |-> 0],
         offset |-> [b \in 0 .. (blocks - 1) |-> 0]]

-----------------------------------------------------------------------------
(* Reading the metadata bits and the slots *)

IsRunend(q, i)   == i \in q.runends
IsOccupied(q, i) == i \in q.occupieds

(* Past the last block nothing is stored; what is read there is not used.  *)
GetSlot(q, i) == IF i \in DOMAIN q.slots THEN q.slots[i] ELSE 0

SetSlot(q, i, v) == [q EXCEPT !.slots[i] = v]

BlockStart(i) == B * (i \div B)

(* bitrank(occupieds, i % B): buckets with a run, in the block of i, up to i. *)
OccupiedRank(q, i) == Cardinality(q.occupieds \cap (BlockStart(i) .. i))

(* bitselectv() and the loop over the following blocks in run_end(): the   *)
(* rank-th element (from 0) of a bit vector, at or after `from'.           *)
Select(S, from, rank) ==
    CHOOSE j \in S : j >= from /\ Cardinality(S \cap (from .. (j - 1))) = rank

(* run_end() with block_offset(): where the last run of a bucket up to     *)
(* `bucket' ends.  An offset at its limit may be larger than it says and   *)
(* is computed from the end of the last run of the block before.           *)
RunEnd(q, bucket) ==
    LET runEnd[x \in Nat] ==
          LET first  == BlockStart(x)
              stored == q.offset[x \div B]
              off    == IF stored < OffsetMax THEN stored ELSE runEnd[first - 1] - first + 1
              rank   == OccupiedRank(q, x)
              end    == Select(q.runends, first + off, rank - 1)
          IN  IF rank = 0
              THEN IF off <= x % B THEN x ELSE first + off - 1
              ELSE IF end < x THEN x ELSE end
    IN  runEnd[bucket]

RunStart(q, bucket) == IF bucket = 0 THEN 0 ELSE RunEnd(q, bucket - 1) + 1

(* How many slots from i on are taken, at the least.                       *)
OffsetLowerBound(q, i) ==
    LET off   == q.offset[i \div B]
        ended == Cardinality(q.runends \cap ((BlockStart(i) + off) .. (i - 1)))
    IN  IF off <= i % B THEN OccupiedRank(q, i) - ended
        ELSE off - (i % B) + OccupiedRank(q, i)

IsEmpty(q, i) == OffsetLowerBound(q, i) = 0

MightBeEmpty(q, i) == ~IsOccupied(q, i) /\ ~IsRunend(q, i)

(* Past the last block every slot counts as empty: the caller refuses any  *)
(* slot from xnslots on.                                                   *)
FindFirstEmptySlot(q, from) ==
    LET find[i \in Nat] ==
          IF i >= Size(q) THEN i
          ELSE LET taken == OffsetLowerBound(q, i)
               IN  IF taken = 0 THEN i ELSE find[i + taken]
    IN  find[from]

(* The next n empty slots, in increasing order.                            *)
NextEmptySlots(q, from, n) ==
    LET find[k \in 0..n] ==
          IF k = 0 THEN << >>
          ELSE LET before == find[k - 1]
                   start  == IF k = 1 THEN from ELSE before[k - 1] + 1
               IN  Append(before, FindFirstEmptySlot(q, start))
    IN  find[n]

-----------------------------------------------------------------------------
(* Making room *)

(* shift_slots() and shift_runends(), called for the stretches between the *)
(* empty slots, the last stretch first: what lies at `first' or later      *)
(* moves by as many places as there are empty slots ahead of it.           *)
ShiftInto(q, first, empties) ==
    LET n     == Len(empties)
        last  == empties[n]
        Moves(i)  == Cardinality({k \in 1..n : empties[k] > i})
        moving    == (first .. last) \ {empties[k] : k \in 1..n}
        Source(j) == {i \in moving : i + Moves(i) = j}
        Moved(j)  == CHOOSE i \in Source(j) : TRUE
    IN  [q EXCEPT
          !.slots   = [j \in DOMAIN q.slots |->
                         IF j \in first .. last /\ Source(j) # {} THEN q.slots[Moved(j)]
                         ELSE q.slots[j]],
          !.runends = (q.runends \ (first .. last))
                        \cup {i + Moves(i) : i \in moving \cap q.runends}]

SetRunend(q, i)   == [q EXCEPT !.runends = @ \cup {i}]
ClearRunend(q, i) == [q EXCEPT !.runends = @ \ {i}]

(* Mutation: blocks that hold some of the empty slots are not looked at.   *)
GrowOffsetsAlike(q, bucket, empties) ==
    [q EXCEPT !.offset = [b \in DOMAIN q.offset |->
        IF b \notin (bucket \div B + 1) .. (empties[Len(empties)] \div B) THEN q.offset[b]
        ELSE IF q.offset[b] + Len(empties) < OffsetMax
        THEN q.offset[b] + Len(empties) ELSE OffsetMax]]

(* Every block between the bucket and the last slot filled is reached by   *)
(* as many slots more as were filled in it or after it.                    *)
GrowOffsets(q, bucket, empties) ==
    LET n == Len(empties)
        Filled(b) == Cardinality({k \in 1..n : empties[k] \div B >= b})
    IN  [q EXCEPT !.offset = [b \in DOMAIN q.offset |->
           IF b \notin (bucket \div B + 1) .. (empties[n] \div B) THEN q.offset[b]
           ELSE IF q.offset[b] + Filled(b) < OffsetMax THEN q.offset[b] + Filled(b)
           ELSE OffsetMax]]

(* set_slot() for consecutive slots.                                       *)
SetSlots(q, from, values) ==
    [q EXCEPT !.slots = [i \in DOMAIN q.slots |->
        IF i \in from .. (from + Len(values) - 1) THEN values[i - from + 1] ELSE q.slots[i]]]

(* Put `values' over the `noverwrites' slots from `at' on and into the      *)
(* empty slots given.  The operation tells whether the values are a new    *)
(* run (0), the end of a run (1) or within one (2).                        *)
Place(q, operation, bucket, at, values, noverwrites, empties) ==
    LET last    == at + Len(values) - 1
        shifted == ShiftInto(q, at + noverwrites, empties)
        inner   == [shifted EXCEPT !.runends = @ \ ((at + noverwrites) .. (last - 1))]
        ended   == CASE operation = 0 -> SetRunend(inner, last)
                     [] operation = 1 -> SetRunend(ClearRunend(inner, at + noverwrites - 1), last)
                     [] operation = 2 -> ClearRunend(inner, last)
    IN  SetSlots(GrowOffsets(ended, bucket, empties), at, values)

(* insert_replace_slots_and_shift_remainders_and_runends_and_offsets()     *)
InsertReplace(q, operation, bucket, at, values, noverwrites) ==
    LET ninserts == Len(values) - noverwrites
        empties  == NextEmptySlots(q, at + noverwrites, ninserts)
    IN  IF ninserts = 0 THEN [ok |-> TRUE, q |-> SetSlots(q, at, values)]
        ELSE IF empties[ninserts] >= XNSlots(q) THEN [ok |-> FALSE, q |-> q]
        ELSE [ok |-> TRUE, q |-> Place(q, operation, bucket, at, values, noverwrites, empties)]

-----------------------------------------------------------------------------
(* Closing the gap after a removal *)

(* The loop that moves slots back, run by run: a function from the slots   *)
(* written to the slot each is read from, or to -1 when it is cleared.  A  *)
(* run is not moved in front of its bucket; the slots before the bucket    *)
(* are cleared, the end of a run among them included.                      *)
ShiftBack(q, firstSlot, firstDistance, firstBucket) ==
    LET NextBucket(bucket, limit) ==
          CHOOSE c \in (bucket + 1) .. (bucket + 1 + limit) :
              /\ c >= limit \/ IsOccupied(q, c)
              /\ \A d \in (bucket + 1) .. (c - 1) : d < limit /\ ~IsOccupied(q, d)
        back[slot \in Nat, distance \in Nat, current \in Nat, cleared \in BOOLEAN] ==
          LET bucket == IF ~cleared /\ IsRunend(q, slot + distance - 1)
                        THEN NextBucket(current, slot + distance) ELSE current
          IN  CASE distance = 0 -> << >>
                [] distance > 0 /\ bucket <= slot ->
                     (slot :> slot + distance) @@ back[slot + 1, distance, bucket, FALSE]
                [] distance > 0 /\ slot < bucket /\ bucket <= slot + distance ->
                     back[bucket, slot + distance - bucket, bucket, TRUE]
                         @@ [i \in slot .. (slot + distance - 1) |-> -1]
                [] OTHER -> << >>
    IN  back[firstSlot, firstDistance, firstBucket, FALSE]

(* How far the runs reach past the end of a block, which is the offset of  *)
(* the next one.                                                           *)
Reach(q, b) == RunEnd(q, B * b + B - 1) - (B * b + B - 1)

(* The offsets of the following blocks, up to the first one that is right. *)
(* The new offset is cut to the width of the field.                        *)
RenewOffsets(q, fromBlock) ==
    LET renew[b \in Nat, offset \in [DOMAIN q.offset -> Int]] ==
          LET reach == Reach([q EXCEPT !.offset = offset], b)
          IN  IF b + 1 \notin DOMAIN offset \/ offset[b + 1] = reach THEN offset
              ELSE renew[b + 1, [offset EXCEPT ![b + 1] = reach % (OffsetMax + 1)]]
    IN  [q EXCEPT !.offset = renew[fromBlock, q.offset]]

ShiftedBack(q, from) ==
    [q EXCEPT
      !.slots   = [i \in DOMAIN @ |-> IF i \notin DOMAIN from THEN @[i]
                                      ELSE IF from[i] = -1 THEN 0 ELSE GetSlot(q, from[i])],
      !.runends = {i \in 0 .. (Size(q) - 1) : IF i \in DOMAIN from THEN from[i] \in @ ELSE i \in @}]

(* The n values over the old ones take over the end of the run; if there   *)
(* are none the end goes to the counter before, unless that is the start   *)
(* of the run.                                                             *)
RunendMoved(q, bucket, at, n, oldLength) ==
    IF ~IsRunend(q, at + oldLength - 1) THEN q
    ELSE IF n > 0 THEN SetRunend(q, at + n - 1)
    ELSE IF at > bucket /\ ~IsRunend(q, at - 1) THEN SetRunend(q, at - 1) ELSE q

(* remove_replace_slots_and_shift_remainders_and_runends_and_offsets():    *)
(* put `values' over the `oldLength' slots from `at' on and close the gap. *)
RemoveReplace(q, onlyItem, bucket, at, values, oldLength) ==
    LET n          == Len(values)
        Vacated(r) == IF onlyItem /\ n = 0 THEN [r EXCEPT !.occupieds = @ \ {bucket}] ELSE r
        Closed(r)  == ShiftedBack(r, ShiftBack(r, at + n, oldLength - n, bucket))
        written    == RunendMoved(SetSlots(q, at, values), bucket, at, n, oldLength)
    IN  IF oldLength > n THEN RenewOffsets(Vacated(Closed(written)), bucket \div B) ELSE written

-----------------------------------------------------------------------------
(* Counters: the slots of a remainder that has been inserted c times *)

(* The digits of a number, the first one first: a digit is neither zero    *)
(* nor the remainder.                                                      *)
CounterDigits(rbits, rem, number) ==
    LET base == IF rem = 0 THEN 2 ^ rbits - 1 ELSE 2 ^ rbits - 2
        Digit(d) == IF rem # 0 /\ d + 1 >= rem THEN d + 2 ELSE d + 1
        digits[m \in Nat] ==
            (IF m < base THEN << >> ELSE digits[m \div base]) \o <<Digit(m % base)>>
    IN  digits[number]

(* Digits go between two copies of the remainder; a first one above the    *)
(* remainder is preceded by a zero, so that a descent after a remainder    *)
(* marks a count.                                                          *)
Framed(rem, code) ==
    IF rem = 0 THEN <<0>> \o code \o <<0, 0>>
    ELSE <<rem>> \o (IF Head(code) >= rem THEN <<0>> ELSE << >>) \o code \o <<rem>>

(* encode_counter()                                                        *)
EncodeCounter(rbits, rem, c) ==
    CASE c <= 2 -> [i \in 1..c |-> rem]
      [] c = 3  -> <<rem, 0, rem>>
      [] c > 3  -> Framed(rem, CounterDigits(rbits, rem, IF rem = 0 THEN c - 4 ELSE c - 3))

(* A counter in the slots from start to end.                               *)
Counted(rem, count, start, end) == [rem |-> rem, count |-> count, start |-> start, end |-> end]

(* The value of a digit of a counter of a remainder.                       *)
DigitValue(rem, d) ==
    LET skipped == IF d > rem THEN d - 1 ELSE d
    IN  IF skipped # 0 /\ rem # 0 THEN skipped - 1 ELSE skipped

(* The digits from slot i up to the next copy of the remainder or the end  *)
(* of the run: their value, and the slot where they stop.                  *)
ReadDigits(q, rem, i) ==
    LET base == Base(q) - (IF rem # 0 THEN 2 ELSE 1)
        read[end \in Nat, c \in Nat] ==
          IF GetSlot(q, end) = rem \/ IsRunend(q, end) THEN [value |-> c, stop |-> end]
          ELSE read[end + 1, c * base + DigitValue(rem, GetSlot(q, end))]
    IN  read[i, 0]

LongCounter(q, rem, start, digits) ==
    IF rem # 0 THEN Counted(rem, digits.value + 3, start, digits.stop)
    ELSE IF IsRunend(q, digits.stop) \/ GetSlot(q, digits.stop + 1) # 0 THEN Counted(0, 1, start, start)
    ELSE Counted(0, digits.value + 4, start, digits.stop + 1)

(* decode_counter()                                                        *)
DecodeCounter(q, i) ==
    LET rem   == GetSlot(q, i)
        digit == GetSlot(q, i + 1)
        third == GetSlot(q, i + 2)
    IN  IF IsRunend(q, i) THEN Counted(rem, 1, i, i)
        ELSE IF IsRunend(q, i + 1) \/ (rem # 0 /\ digit >= rem)
        THEN IF digit = rem THEN Counted(rem, 2, i, i + 1) ELSE Counted(rem, 1, i, i)
        ELSE IF digit = 0 /\ third = rem THEN Counted(rem, 3, i, i + 2)
        ELSE IF rem = 0 /\ digit = 0 THEN Counted(0, 2, i, i + 1)
        ELSE LongCounter(q, rem, i, ReadDigits(q, rem, i + 1))
=============================================================================
