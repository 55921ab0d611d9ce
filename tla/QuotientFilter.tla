--------------------------- MODULE QuotientFilter ---------------------------
(***************************************************************************)
(* One counting quotient filter (cqfilter/gqf.c) in the hands of one       *)
(* caller, who may make any sequence of calls.                             *)
(***************************************************************************)
EXTENDS QFOperations

CONSTANTS
    NSlots, RBits,   \* slots and bits of a slot of the new filter
    Hashes,          \* the hashes of the caller's keys
    Amounts,         \* counts inserted, removed or set
    Other,           \* a second filter, for the operations on two
    MaxCount,        \* bound on the count of each hash (bounds the model only)
    MaxExcess        \* bound on how much too much is removed (bounds the model only)

ASSUME FilterAssumption ==
    /\ NSlots \in Nat \ {0} /\ RBits \in Nat \ {0, 1} /\ MaxCount \in [Hashes -> Nat] /\ MaxExcess \in Nat
    /\ Hashes \subseteq 0 .. (NSlots * 2 ^ RBits - 1)
    /\ Amounts \subseteq Nat

VARIABLES
    f,          \* the filter
    promised,   \* history: what the replies so far say the counts are
    miscounted, \* history: a reset left local counters, or more was removed than there was
    astray,     \* history: a removal while a run reached further than an offset can say
    counts      \* history: what qf_count_key_value() answers for each hash

vars == <<f, promised, miscounted, astray, counts>>

Init ==
    /\ f = NewFilter(NSlots, RBits, FALSE)
    /\ promised = [h \in Hashes |-> 0]
    /\ miscounted = FALSE /\ astray = FALSE
    /\ counts = [h \in Hashes |-> 0]

(* How many slots of block b the runs of earlier buckets take.             *)
Spill(q, b) ==
    LET before == Cardinality({i \in q.occupieds : i < B * b})
        end    == Select(q.runends, 0, before - 1)
    IN  IF before = 0 \/ end < B * b THEN 0 ELSE end + 1 - B * b

OffsetsFit(q) == \A b \in 0 .. (NBlocks(q) - 1) : Spill(q, b) <= OffsetMax

(* A resized filter has counters of its own.                               *)
Grows(call, h, c) ==
    /\ ~call.beyond
    /\ f' = call.f
    /\ promised' = IF call.ret >= 0 \/ call.far THEN [promised EXCEPT ![h] = @ + c] ELSE promised
    /\ miscounted' = (miscounted /\ call.f.q.nslots = f.q.nslots)
    /\ UNCHANGED astray

Shrinks(call, h, n) ==
    /\ f' = call.f
    /\ promised' = [promised EXCEPT ![h] = n]
    /\ astray' = ~OffsetsFit(f.q)

InsertItems(h, c) ==
    /\ promised[h] + c <= MaxCount[h]
    /\ Grows(InsertCall(f, h, c), h, c)

SetCountTo(call, h, c) ==
    \/ promised[h] <= c /\ Grows(call, h, c - promised[h])
    \/ c < promised[h] /\ Shrinks(call, h, c) /\ UNCHANGED miscounted

SetCount(h, c) ==
    /\ 0 < c /\ c <= MaxCount[h]
    /\ SetCountTo(SetCountCall(f, h, c), h, c)

(* More than there is is removed only from a filter whose counters are     *)
(* right (bounds the model only).                                          *)
RemoveSome(h, c) ==
    LET tooMuch == promised[h] > 0 /\ c > promised[h]
    IN  /\ c > 0
        /\ tooMuch => ~miscounted /\ c - promised[h] <= MaxExcess
        /\ Shrinks(RemoveCall(f, h, c), h, IF c > promised[h] THEN 0 ELSE promised[h] - c)
        /\ miscounted' = (miscounted \/ tooMuch)

DeleteKey(h) ==
    /\ Shrinks(DeleteCall(f, h), h, 0)
    /\ UNCHANGED miscounted

(* A reset leaves at most the number of slots behind, in a filter whose     *)
(* counters are right (bounds the model only).                             *)
ResetFilter ==
    /\ ~miscounted /\ f.nelts.local = 0 /\ f.ndistinct.local = 0
    /\ f' = ResetCall(f)
    /\ promised' = [h \in Hashes |-> 0]
    /\ miscounted' = (f.noccupied.local # 0)
    /\ UNCHANGED astray

(* qf_resize_malloc() called for twice the slots                           *)
ResizeFilter ==
    /\ ~Resize(f).beyond
    /\ f' = Resize(f).f
    /\ miscounted' = (miscounted /\ f'.q.nslots = f.q.nslots)
    /\ UNCHANGED <<promised, astray>>

SetAutoResize(enabled) ==
    /\ f' = [f EXCEPT !.auto = enabled]
    /\ UNCHANGED <<promised, miscounted, astray>>

(* qf_sync_counters()                                                      *)
SyncCounters ==
    /\ f' = [f EXCEPT !.nelts = PcSync(@), !.ndistinct = PcSync(@), !.noccupied = PcSync(@)]
    /\ UNCHANGED <<promised, miscounted, astray>>

Change ==
    \/ \E h \in Hashes, c \in Amounts :
          InsertItems(h, c) \/ SetCount(h, c) \/ RemoveSome(h, c)
    \/ \E h \in Hashes : DeleteKey(h)
    \/ ResetFilter \/ ResizeFilter \/ SyncCounters
    \/ \E enabled \in BOOLEAN : SetAutoResize(enabled)

Answers(q) == [h \in Hashes |-> CountOf(q, h)]

(* What becomes of a filter after such a removal is not followed: the      *)
(* functions of QFSlots are for offsets that are right (bounds the model   *)
(* only).                                                                  *)
Stops == astray /\ UNCHANGED vars

Next ==
    \/ ~astray /\ Change /\ counts' = Answers(f'.q)
    \/ Stops

Spec == Init /\ [][Next]_vars

-----------------------------------------------------------------------------
(* Properties *)

(* qf_count_key_value() answers for every hash what the replies to earlier *)
(* calls said, whatever else has been shifted, grown, closed up or         *)
(* resized in between: an insertion that was accepted or that only went in *)
(* too far from home counts in full, and one that was refused not at all.  *)
(* This ends with the first removal made while a run reached further into  *)
(* a block than the offset of the block can say.                           *)
CountsAsPromised == ~astray => counts = promised

(* gqf.h: a query returns "the number of times key has been inserted" (and *)
(* not removed), in every state.                                           *)
CountsExact == counts = promised

(* A call moves the count of its own hash only, and a resize of none, up   *)
(* to such a removal.                                                      *)
Multiset == INSTANCE CountedMultiset
ImplementsMultiset == Multiset!Init /\ [][~astray' => Multiset!Next]_counts

(* The offset of a block, which insertions raise and removals recompute,   *)
(* says how far earlier runs reach into the block, up to its limit, and    *)
(* every run has one end; up to such a removal, which compares the offset  *)
(* stored with the distance and cuts the one it writes to a byte.          *)
OffsetsExact ==
    ~astray =>
        /\ Cardinality(f.q.occupieds) = Cardinality(f.q.runends)
        /\ \A b \in DOMAIN f.q.offset :
              f.q.offset[b] = IF Spill(f.q, b) < OffsetMax THEN Spill(f.q, b) ELSE OffsetMax

(* Where an iterator that is asked to start at a hash does start: with it  *)
(* or the next larger one of its bucket, and where the bucket has none,    *)
(* with the first hash of the block, be that smaller or not.               *)
StartsAt(q, h, present) ==
    IF \E g \in present : g >= h /\ Bucket(q, g) = Bucket(q, h)
    THEN h ELSE BlockStart(Bucket(q, h)) * Base(q)

(* An iterator from the start meets every hash with a count once, in       *)
(* increasing order, with the count a query gives and in the slot          *)
(* qf_get_unique_index() names, so that a resize copies all of them; one   *)
(* that starts at a hash meets those from StartsAt() on and no other.      *)
IterationComplete ==
    ~astray /\ f.q.occupieds # {} =>
        LET entries == Entries(f.q)
            Seen(es) == {e.hash : e \in ToSet(es)}
            present  == {h \in Hashes : promised[h] > 0}
        IN  /\ \A i, j \in DOMAIN entries : i < j => entries[i].hash < entries[j].hash
            /\ Seen(entries) = present
            /\ \A e \in ToSet(entries) :
                  e.count = promised[e.hash] /\ e.slot = UniqueIndex(f.q, e.hash)
            /\ \A h \in Hashes :
                  Seen(EntriesFrom(f.q, IteratorFrom(f.q, h)))
                      = {g \in present : g >= StartsAt(f.q, h, present)}

SlotsTaken(q) == Cardinality(UNION {RunStart(q, b) .. RunEnd(q, b) : b \in q.occupieds})

(* The three counters with what is in their local parts agree with the     *)
(* slots through insertions, carries, shifts, refusals and resizes, until  *)
(* more is removed than there was or a reset leaves something in the local *)
(* parts; the counters of a resized filter agree again.                    *)
CountersAccount ==
    LET Value(pc) == pc.global + pc.local
        present   == {h \in Hashes : promised[h] > 0}
    IN  ~miscounted /\ ~astray =>
            /\ Value(f.nelts) = SumFunction(promised)
            /\ Value(f.ndistinct) = Cardinality(present)
            /\ Value(f.noccupied) = SlotsTaken(f.q)

(* The operations on two filters do not look at the counters of these, so  *)
(* one state of the counters is enough.                                    *)
Settled ==
    /\ ~miscounted /\ ~astray /\ ~f.auto
    /\ \A pc \in {f.nelts, f.ndistinct, f.noccupied} : pc.local = 0

(* Merging adds the counts, a product sums the products of the counts, and *)
(* an intersection keeps the hashes of both with the larger filter's       *)
(* counts, which filter is iterated over and which is looked up in.        *)
SetOperationsAgree ==
    Settled /\ f.q.occupieds # {} =>
        LET Mine(h)  == CountOf(f.q, h)
            Their(h) == CountOf(Other.q, h)
            new      == NewFilter(8 * NSlots, RBits, FALSE)
            merged   == Merge(f, Other, new)
            multi    == MultiMerge(<<Other, f, Other>>, new)
            both     == Intersect(f, Other, new)
        IN  /\ \A h \in Hashes : CountOf(merged.q, h) = Mine(h) + Their(h)
            /\ \A h \in Hashes : CountOf(multi.q, h) = Mine(h) + 2 * Their(h)
            /\ \A h \in Hashes : CountOf(both.q, h) =
                  IF Mine(h) * Their(h) = 0 THEN 0 ELSE CountOf(Larger(f, Other).q, h)
            /\ InnerProduct(f, Other) = SumFunction([h \in Hashes |-> Mine(h) * Their(h)])
=============================================================================
