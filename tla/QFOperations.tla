---------------------------- MODULE QFOperations ----------------------------
(***************************************************************************)
(* The operations of the counting quotient filter (cqfilter/gqf.c, second  *)
(* half).  First those on its slots: insert1(), insert(), _remove(), the   *)
(* queries and the iterator.  One that changes the filter gives the        *)
(* changed filter, its return code and the calls of modify_metadata() it   *)
(* makes, in order.  Then the calls of a user of the filter.               *)
(***************************************************************************)
EXTENDS QFSlots, SequencesExt

NoSpace == -1         \* QF_NO_SPACE
Absent  == -1         \* what _remove() returns for a hash that is not there
DoesntExist == -3     \* QF_DOESNT_EXIST

Bucket(q, hash)    == hash \div Base(q)
Remainder(q, hash) == hash % Base(q)

Distinct(n) == <<"ndistinct", n>>
Occupied(n) == <<"noccupied", n>>
Elts(n)     == <<"nelts", n>>

Result(q, ret, adds) == [q |-> q, ret |-> ret, adds |-> adds]

SetOccupied(q, bucket) == [q EXCEPT !.occupieds = @ \cup {bucket}]

FirstFrom(S) == CHOOSE i \in S : \A j \in S : i <= j

(* The first item of a run whose bucket and slot were empty.               *)
InHomeSlot(q, bucket, rem) == SetOccupied(SetRunend(SetSlot(q, bucket, rem), bucket), bucket)

-----------------------------------------------------------------------------
(* insert1(): insert one item *)

(* Where the counter of remainder 0 ends, if the run starts with one.      *)
ZeroTerminator(q, start, runEnd) ==
    LET zero == FirstFrom({t \in (start + 1) .. (runEnd + 1) : t >= runEnd \/ GetSlot(q, t) = 0})
    IN  IF GetSlot(q, start) # 0 THEN start
        ELSE IF zero < runEnd /\ GetSlot(q, zero + 1) = 0 THEN zero + 1
        ELSE IF start < runEnd /\ GetSlot(q, start + 1) = 0 THEN start + 1
        ELSE start

(* Skip over the counters of smaller remainders.                           *)
SkipSmaller(q, from, rem, runEnd) ==
    LET skip[s \in Nat] ==
          IF GetSlot(q, s) >= rem \/ s > runEnd THEN s
          ELSE IF s < runEnd /\ GetSlot(q, s + 1) < GetSlot(q, s)
          THEN skip[1 + FirstFrom({t \in (s + 2) .. (s + 2 + runEnd) :
                                     t >= runEnd \/ GetSlot(q, t) = GetSlot(q, s)})]
          ELSE skip[s + 1]
    IN  skip[from]

(* Add one to a digit: the next value that is neither zero nor the         *)
(* remainder.  A zero in front of a counter counts as its smallest digit.  *)
NextDigit(q, digit, rem) ==
    LET first   == IF rem = 1 THEN 2 ELSE 1
        raised  == ((IF digit = 0 THEN first ELSE digit) + 1) % Base(q)
        skipped == IF raised = 0 THEN first % Base(q)
                   ELSE IF raised = rem THEN (raised + 1) % Base(q) ELSE raised
    IN  [digit |-> IF skipped = 0 THEN 1 ELSE skipped, carry |-> raised = 0 \/ skipped = 0]

(* The carry loop, from the last digit of the counter that starts at       *)
(* `start': the filter, the slot before the last one changed, and the      *)
(* digit and the carry left.                                               *)
Increment(q, last, start, rem) ==
    LET up(i) == NextDigit(q, GetSlot(q, i), rem)
        chain[i \in Nat] ==
          IF up(i).carry /\ i - 1 > start
          THEN [chain[i - 1] EXCEPT !.q = SetSlot(@, i, up(i).digit)]
          ELSE [q |-> SetSlot(q, i, up(i).digit), before |-> i - 1,
                digit |-> up(i).digit, carry |-> up(i).carry]
    IN  chain[last]

(* What insert1() decides for a bucket that has a run: the operation, the  *)
(* slot and the value to insert, and whether the remainder is a new one.   *)
(* Operation -1: the counter has been increased in place.                  *)
PlanAt(q, s, zeros, runEnd, rem) ==
    LET next  == GetSlot(q, s + 1)
        last  == FirstFrom({i \in (s + 1) .. (s + 1 + Size(q)) : GetSlot(q, i + 1) = rem})
        inc   == Increment(q, last, s, rem)
        Plan(op, at, value, new) == [q |-> q, op |-> op, at |-> at, value |-> value, new |-> new]
    IN  CASE s > runEnd -> Plan(1, s, rem, TRUE)
          [] s <= runEnd /\ GetSlot(q, s) # rem -> Plan(2, s, rem, TRUE)
          [] OTHER ->
               IF s = runEnd \/ (rem > 0 /\ next > rem) \/ (rem = 0 /\ zeros = s)
               THEN Plan(2, s, rem, FALSE)                    \* one instance
               ELSE IF (rem > 0 /\ next = rem) \/ (rem = 0 /\ zeros = s + 1)
               THEN Plan(2, s + 1, 0, FALSE)                  \* two instances
               ELSE IF rem = 0 /\ zeros = s + 2
               THEN Plan(2, s + 1, 1, FALSE)                  \* three zeros
               ELSE IF inc.before = s /\ (inc.carry \/ (rem # 0 /\ inc.digit >= rem))
               THEN [Plan(2, s + 1, IF inc.carry THEN 2 ELSE 0, FALSE) EXCEPT !.q = inc.q]
               ELSE [Plan(-1, s, 0, FALSE) EXCEPT !.q = inc.q]

PlanFrom(q, start, zeros, runEnd, rem) ==
    PlanAt(q, SkipSmaller(q, IF GetSlot(q, start) = 0 /\ rem # 0 THEN zeros + 1 ELSE start, rem, runEnd),
           zeros, runEnd, rem)

PlanInsert1(q, bucket, rem, runEnd) ==
    LET start == RunStart(q, bucket)
    IN  IF IsOccupied(q, bucket)
        THEN PlanFrom(q, start, ZeroTerminator(q, start, runEnd), runEnd, rem)
        ELSE [q |-> q, op |-> 0, at |-> runEnd + 1, value |-> rem, new |-> TRUE]

(* Carry the plan out, with the first empty slot after the run.            *)
CarryOut(plan, bucket, empty) ==
    LET new == IF plan.new THEN <<Distinct(1)>> ELSE << >>
    IN  IF plan.op = -1 THEN Result(plan.q, 0, new \o <<Elts(1)>>)
        ELSE IF empty >= XNSlots(plan.q) THEN Result(plan.q, NoSpace, new)
        ELSE Result(SetOccupied(Place(plan.q, plan.op, bucket, plan.at, <<plan.value>>, 0, <<empty>>), bucket),
                    plan.at - bucket, new \o <<Occupied(1), Elts(1)>>)

Insert1(q, hash) ==
    LET bucket == Bucket(q, hash)
        rem    == Remainder(q, hash)
        runEnd == RunEnd(q, bucket)
    IN  IF IsEmpty(q, bucket)
        THEN Result(InHomeSlot(q, bucket, rem), 0, <<Distinct(1), Occupied(1), Elts(1)>>)
        ELSE CarryOut(PlanInsert1(q, bucket, rem, runEnd), bucket, FindFirstEmptySlot(q, runEnd + 1))

-----------------------------------------------------------------------------
(* insert() and _remove() *)

(* The counters of a run, one decoded after the other.                     *)
RunCounters(q, bucket) ==
    LET from[at \in [rem : Nat, count : Nat, start : Nat, end : Nat]] ==
          <<at>> \o (IF IsRunend(q, at.end) THEN << >> ELSE from[DecodeCounter(q, at.end + 1)])
    IN  IF IsOccupied(q, bucket) THEN from[DecodeCounter(q, RunStart(q, bucket))] ELSE << >>

(* The first counter that is not smaller than the remainder, or the last.  *)
CounterIn(counters, rem) ==
    counters[FirstFrom({i \in DOMAIN counters : counters[i].rem >= rem} \cup {Len(counters)})]

FindCounter(q, bucket, rem) == CounterIn(RunCounters(q, bucket), rem)

(* Where the counter goes: the operation, the slot, the count to encode    *)
(* and how many slots are written over.                                    *)
Spot(op, slot, n, over) == [op |-> op, slot |-> slot, n |-> n, over |-> over]

SpotInRun(q, at, rem, c) ==
    IF at.rem < rem THEN Spot(1, at.end + 1, c, 0)
    ELSE IF at.rem > rem THEN Spot(2, at.start, c, 0)
    ELSE Spot(IF IsRunend(q, at.end) THEN 1 ELSE 2, at.start, at.count + c, at.end - at.start + 1)

(* Mutation: the slots written over are counted again. *)
StoredAllNew(q, new, bucket, spot, length, c) ==
    IF ~new.ok THEN Result(q, NoSpace, << >>)
    ELSE Result(SetOccupied(new.q, bucket), spot.slot - bucket,
                <<Occupied(length)>>
                  \o (IF spot.over = 0 THEN <<Distinct(1)>> ELSE << >>) \o <<Elts(c)>>)

Stored(q, new, bucket, spot, length, c) ==
    IF ~new.ok THEN Result(q, NoSpace, << >>)
    ELSE Result(SetOccupied(new.q, bucket), spot.slot - bucket,
                <<Occupied(length - spot.over)>>
                  \o (IF spot.over = 0 THEN <<Distinct(1)>> ELSE << >>) \o <<Elts(c)>>)

InsertCode(q, bucket, spot, code, c) ==
    Stored(q, InsertReplace(q, spot.op, bucket, spot.slot, code, spot.over), bucket, spot, Len(code), c)

InsertEncoded(q, bucket, rem, spot, c) ==
    InsertCode(q, bucket, spot, EncodeCounter(q.rbits, rem, spot.n), c)

(* insert() into a slot that is taken.                                     *)
InsertShifting(q, hash, c) ==
    LET bucket == Bucket(q, hash)
        rem    == Remainder(q, hash)
    IN  InsertEncoded(q, bucket, rem,
                      IF IsOccupied(q, bucket) THEN SpotInRun(q, FindCounter(q, bucket, rem), rem, c)
                      ELSE Spot(0, RunStart(q, bucket), c, 0), c)

AfterOne(rest) == Result(rest.q, 0, <<Distinct(1), Occupied(1), Elts(1)>> \o rest.adds)

(* insert(): an empty slot takes one item and the rest goes the other way; *)
(* what becomes of the rest is not looked at.                              *)
Insert(q, hash, c) ==
    LET bucket == Bucket(q, hash)
        empty  == MightBeEmpty(q, bucket) /\ RunEnd(q, bucket) = bucket
        home   == InHomeSlot(q, bucket, Remainder(q, hash))
    IN  IF ~empty THEN InsertShifting(q, hash, c)
        ELSE AfterOne(IF c = 1 THEN Result(home, 0, << >>) ELSE InsertShifting(home, hash, c - 1))

(* Mutation: a counter that shrinks keeps its slots. *)
ShrinkInPlace(q, bucket, at, code, c) ==
    Result(SetSlots(q, at.start, code), 0, <<Elts(-c)>>)

(* The new counter takes the place of the old one, and the elements        *)
(* counted go down by what was asked for, however many there were.         *)
Shrink(q, bucket, at, code, c) ==
    LET only   == at.start = RunStart(q, bucket) /\ IsRunend(q, at.end)
        length == at.end - at.start + 1
        freed  == length - Len(code)
    IN  Result(RemoveReplace(q, only, bucket, at.start, code, length), freed,
               <<Occupied(-freed)>> \o (IF code = << >> THEN <<Distinct(-1)>> ELSE << >>)
                 \o <<Elts(-c)>>)

RemoveFound(q, bucket, at, rem, c) ==
    IF at.rem # rem THEN Result(q, Absent, << >>)
    ELSE Shrink(q, bucket, at, EncodeCounter(q.rbits, rem, IF c > at.count THEN 0 ELSE at.count - c), c)

(* _remove()                                                               *)
RemoveItems(q, hash, c) ==
    LET bucket == Bucket(q, hash)
        rem    == Remainder(q, hash)
    IN  IF ~IsOccupied(q, bucket) THEN Result(q, Absent, << >>)
        ELSE RemoveFound(q, bucket, FindCounter(q, bucket, rem), rem, c)

-----------------------------------------------------------------------------
(* Queries *)

FirstOf(counters, rem) ==
    LET hits == {i \in DOMAIN counters : counters[i].rem = rem}
    IN  IF hits = {} THEN Counted(rem, 0, DoesntExist, DoesntExist) ELSE counters[FirstFrom(hits)]

(* The counter of a hash: the whole run is searched, in whatever order.    *)
CounterOf(q, hash) == FirstOf(RunCounters(q, Bucket(q, hash)), Remainder(q, hash))

(* qf_count_key_value()                                                    *)
CountOf(q, hash) == CounterOf(q, hash).count

(* qf_get_unique_index(): the slot where the counter of a hash starts.     *)
UniqueIndex(q, hash) == CounterOf(q, hash).start

-----------------------------------------------------------------------------
(* The iterator: the bucket it is in and the slot of its entry *)

AtEnd(q, it) == it.current >= XNSlots(q)

(* The start of the run of the first occupied bucket from `bucket' on.     *)
RunFrom(q, bucket) ==
    LET next == {b \in q.occupieds : b >= bucket}
        run  == FirstFrom(next)
    IN  IF next = {} THEN [run |-> XNSlots(q), current |-> XNSlots(q)]
        ELSE [run |-> run, current |-> RunStart(q, run)]

(* qf_iterator_from_position(): when the position has no run, the position *)
(* itself is taken for the number of the block to go on from.              *)
IteratorFromPosition(q, position) ==
    RunFrom(q, IF IsOccupied(q, position) THEN position ELSE B * position)

(* qf_iterator_key_value(): when no entry of the hash's own run is as      *)
(* large, the search goes on from the start of the hash's block.           *)
IteratorFrom(q, hash) ==
    LET larger == SelectSeq(RunCounters(q, Bucket(q, hash)), LAMBDA at : at.rem >= Remainder(q, hash))
    IN  IF larger # << >> THEN [run |-> Bucket(q, hash), current |-> Head(larger).start]
        ELSE RunFrom(q, BlockStart(Bucket(q, hash)))

(* qfi_get_hash(), and the slot the entry is in                            *)
EntryAt(q, it) ==
    LET at == DecodeCounter(q, it.current)
    IN  [hash |-> it.run * Base(q) + at.rem, count |-> at.count, slot |-> it.current]

(* Mutation: the next run is taken to start where this one ends. *)
NextAdjacent(q, it) ==
    LET end == DecodeCounter(q, it.current).end
        run == RunFrom(q, it.run + 1).run
    IN  IF IsRunend(q, end) THEN [run |-> run, current |-> end + 1]
        ELSE [it EXCEPT !.current = end + 1]

(* qfi_next(): the next entry of the run, or the next run: right after     *)
(* this one, or at its own bucket when that is later.                      *)
NextEntry(q, it) ==
    LET end   == DecodeCounter(q, it.current).end
        later == {b \in q.occupieds : b > it.run}
        run   == FirstFrom(later)
    IN  IF ~IsRunend(q, end) THEN [it EXCEPT !.current = end + 1]
        ELSE IF later = {} THEN [run |-> XNSlots(q), current |-> XNSlots(q)]
        ELSE [run |-> run, current |-> IF end + 1 < run THEN run ELSE end + 1]

(* What an iterator sees from a position to the end.                       *)
EntriesFrom(q, first) ==
    LET walk[it \in [run : Nat, current : Nat]] ==
          IF AtEnd(q, it) THEN << >> ELSE <<EntryAt(q, it)>> \o walk[NextEntry(q, it)]
    IN  walk[first]

Entries(q) == EntriesFrom(q, IteratorFromPosition(q, 0))
-----------------------------------------------------------------------------
(***************************************************************************)
(* The exported functions.  A filter is its slots, the auto_resize flag    *)
(* and three partitioned counters, used here by one thread and so with one *)
(* local counter each.  Keys are hashes already (QF_KEY_IS_HASH), the      *)
(* values have no bits.                                                    *)
(*                                                                         *)
(* A call gives the filter after it (f), what it returns (ret), whether    *)
(* the item went in beyond the cutoff (far), and whether the call left     *)
(* what is modelled (beyond): it would have had to resize a filter that    *)
(* has nothing to iterate over or too few bits for another halving.        *)
(***************************************************************************)

CONSTANTS
    Threshold,   \* threshold of the counters, 100 in the code
    Cutoff       \* DISTANCE_FROM_HOME_SLOT_CUTOFF, 1000 in the code

ASSUME CallsAssumption == Threshold \in Nat /\ Cutoff \in Nat

Counter == [global |-> 0, local |-> 0]

(* qf_malloc(): qf_init() on fresh memory, taken to be zero.               *)
NewFilter(nslots, rbits, auto) ==
    [q |-> EmptyFilter(nslots, rbits), auto |-> auto,
     nelts |-> Counter, ndistinct |-> Counter, noccupied |-> Counter]

(* modify_metadata(): pc_add() by the only thread.                         *)
PcAdd(pc, n) ==
    LET sum == pc.local + n
    IN  IF sum > Threshold \/ sum < -Threshold
        THEN [global |-> pc.global + sum, local |-> 0] ELSE [pc EXCEPT !.local = sum]

PcSync(pc) == [global |-> pc.global + pc.local, local |-> 0]

Done(f, result) ==
    FoldLeft(LAMBDA g, a : [g EXCEPT ![a[1]] = PcAdd(@, a[2])], [f EXCEPT !.q = result.q], result.adds)

SyncOccupied(f) == [f EXCEPT !.noccupied = PcSync(@)]

(* The count is unsigned: below zero it is larger than any limit.          *)
Full(f) == f.noccupied.global < 0 \/ 20 * f.noccupied.global >= 19 * f.q.nslots

Try(f, r) == [f |-> Done(f, r), ret |-> r.ret]

TryInsert(f, hash, c) == Try(f, IF c = 1 THEN Insert1(f.q, hash) ELSE Insert(f.q, hash, c))

(* Whether an item went in as near its bucket as it should.                *)
Near(try) == try.ret # NoSpace /\ try.ret <= Cutoff

Call(f, ret, far, beyond) == [f |-> f, ret |-> ret, far |-> far, beyond |-> beyond]

Answered(try) == Call(try.f, try.ret, FALSE, FALSE)

TriedFixed(try) ==
    IF Near(try) THEN Answered(try)
    ELSE Call(SyncOccupied(try.f), NoSpace, try.ret > Cutoff, FALSE)

(* qf_insert() into a filter that is not to be resized.                    *)
InsertFixed(f, hash, c) ==
    LET g == SyncOccupied(f)
    IN  IF Full(g) THEN Call(g, NoSpace, FALSE, FALSE)
        ELSE IF c = 0 THEN Call(g, 0, FALSE, FALSE)
        ELSE TriedFixed(TryInsert(g, hash, c))

-----------------------------------------------------------------------------
(* Resizing *)

MinBits == 2    \* bits of the slots below which nothing is halved (bounds the model only)

Copyable(f) == f.q.occupieds # {} /\ f.q.rbits > MinBits

(* The copy loop: every entry of one filter goes into another, up to the   *)
(* first that is refused.                                                  *)
Copy(old, new) ==
    FoldLeft(LAMBDA r, e : IF r.ret < 0 THEN r ELSE InsertFixed(r.f, e.hash, e.count),
             Call(new, 0, FALSE, FALSE), Entries(old.q))

(* qf_resize_malloc() to twice the slots.  A copy that is refused leaves   *)
(* the filter as it was; with auto_resize it would be resized in turn,     *)
(* which is beyond the model.                                              *)
Resized(f, copy) ==
    IF copy.ret < 0 THEN Call(f, NoSpace, FALSE, f.auto)
    ELSE Call(copy.f, Len(Entries(f.q)), FALSE, FALSE)

Resize(f) ==
    IF ~Copyable(f) THEN Call(f, NoSpace, FALSE, TRUE)
    ELSE Resized(f, Copy(f, NewFilter(2 * f.q.nslots, f.q.rbits - 1, f.auto)))

(* Mutation: what went in far from home is inserted once more. *)
RetryRepeats(try, grown, hash, c) ==
    IF grown.ret < 0 THEN [grown EXCEPT !.far = try.ret > Cutoff]
    ELSE Answered(TryInsert(grown.f, hash, c))

(* After the resize an item that did not fit is tried once more, one that  *)
(* went in far from home is not.                                           *)
Retry(try, grown, hash, c) ==
    IF grown.ret < 0 THEN [grown EXCEPT !.far = try.ret > Cutoff]
    ELSE IF try.ret > Cutoff THEN Call(grown.f, try.ret, TRUE, FALSE)
    ELSE Answered(TryInsert(grown.f, hash, c))

GrowAndRetry(try, hash, c) ==
    IF Near(try) THEN Answered(try)
    ELSE Retry(try, Resize(SyncOccupied(try.f)), hash, c)

WithRoom(room, hash, c) ==
    IF room.ret < 0 THEN room
    ELSE IF c = 0 THEN [room EXCEPT !.ret = 0]
    ELSE GrowAndRetry(TryInsert(room.f, hash, c), hash, c)

(* qf_insert(): with auto_resize, a filter that is full is resized first   *)
(* and one that the item did not fit into, or fitted far from home,        *)
(* afterwards.                                                             *)
InsertCall(f, hash, c) ==
    LET g == SyncOccupied(f)
    IN  IF ~f.auto THEN InsertFixed(f, hash, c)
        ELSE WithRoom(IF Full(g) THEN Resize(g) ELSE Call(g, 0, FALSE, FALSE), hash, c)

-----------------------------------------------------------------------------
(* Removing and setting *)

(* qf_remove()                                                             *)
RemoveCall(f, hash, c) ==
    IF c = 0 THEN Call(f, 1, FALSE, FALSE) ELSE Answered(Try(f, RemoveItems(f.q, hash, c)))

(* qf_delete_key_value()                                                   *)
DeleteCall(f, hash) == RemoveCall(f, hash, CountOf(f.q, hash))

(* qf_set_count(): setting a count to zero does nothing.                   *)
SetCountCall(f, hash, c) ==
    LET Change(now) == IF c = now THEN Call(f, 0, FALSE, FALSE)
                       ELSE IF c > now THEN InsertCall(f, hash, c - now)
                       ELSE RemoveCall(f, hash, now - c)
    IN  IF c = 0 THEN Call(f, 0, FALSE, FALSE) ELSE Change(CountOf(f.q, hash))

(* qf_reset(): the local counters keep what they hold.                     *)
ResetCall(f) ==
    [f EXCEPT !.q = EmptyFilter(@.nslots, @.rbits), !.nelts.global = 0,
              !.ndistinct.global = 0, !.noccupied.global = 0]

-----------------------------------------------------------------------------
(* Operations on several filters.  None of them is empty. *)

InsertAll(f, entries) ==
    FoldLeft(LAMBDA g, e : InsertFixed(g, e.hash, e.count).f, f, entries)

(* Mutation: of two entries with the same hash one is taken. *)
MergedOnce(a, b) ==
    LET order[i \in Nat, j \in Nat] ==
          CASE i > Len(a) -> SubSeq(b, j, Len(b))
            [] i <= Len(a) /\ j > Len(b) -> SubSeq(a, i, Len(a))
            [] i <= Len(a) /\ j <= Len(b) ->
                 IF a[i].hash < b[j].hash THEN <<a[i]>> \o order[i + 1, j]
                 ELSE <<b[j]>> \o order[IF a[i].hash = b[j].hash THEN i + 1 ELSE i, j + 1]
    IN  order[1, 1]

(* Two lists of entries in the order of their hashes.                      *)
Merged(a, b) ==
    LET order[i \in Nat, j \in Nat] ==
          CASE i > Len(a) -> SubSeq(b, j, Len(b))
            [] i <= Len(a) /\ j > Len(b) -> SubSeq(a, i, Len(a))
            [] i <= Len(a) /\ j <= Len(b) ->
                 IF a[i].hash < b[j].hash THEN <<a[i]>> \o order[i + 1, j]
                 ELSE <<b[j]>> \o order[i, j + 1]
    IN  order[1, 1]

(* qf_merge()                                                              *)
Merge(fa, fb, fc) == InsertAll(fc, Merged(Entries(fa.q), Entries(fb.q)))

(* Always the smallest of the entries next in line, of the first list that *)
(* has it.                                                                 *)
MultiMerged(lines) ==
    LET order[at \in [DOMAIN lines -> Nat]] ==
          LET waiting == {k \in DOMAIN lines : at[k] <= Len(lines[k])}
              Next(k)  == lines[k][at[k]].hash
              first    == CHOOSE k \in waiting : \A j \in waiting :
                              Next(k) < Next(j) \/ (Next(k) = Next(j) /\ k <= j)
          IN  IF waiting = {} THEN << >>
              ELSE <<lines[first][at[first]]>> \o order[[at EXCEPT ![first] = @ + 1]]
    IN  order[[k \in DOMAIN lines |-> 1]]

(* qf_multi_merge()                                                        *)
MultiMerge(fs, fr) == InsertAll(fr, MultiMerged([k \in DOMAIN fs |-> Entries(fs[k].q)]))

(* total_size_in_bytes: 17 bytes of metadata and the slots, per block.     *)
Bytes(f) == NBlocks(f.q) * (17 + (B * f.q.rbits) \div 8)

(* The filter that is iterated over is the larger one, or the second.      *)
Larger(fa, fb)  == IF Bytes(fa) > Bytes(fb) THEN fa ELSE fb
Smaller(fa, fb) == IF Bytes(fa) > Bytes(fb) THEN fb ELSE fa

(* qf_inner_product()                                                      *)
InnerProduct(fa, fb) ==
    FoldLeft(LAMBDA acc, e : acc + e.count * CountOf(Smaller(fa, fb).q, e.hash), 0,
             Entries(Larger(fa, fb).q))

(* qf_intersect(): the counts are those of the filter iterated over.       *)
Intersect(fa, fb, fr) ==
    InsertAll(fr, SelectSeq(Entries(Larger(fa, fb).q),
                            LAMBDA e : CountOf(Smaller(fa, fb).q, e.hash) > 0))
=============================================================================
