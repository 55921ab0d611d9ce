--------------------------- MODULE PackedCounters ---------------------------
(***************************************************************************)
(* The packing of counters of bits_c bits into size_t words (sketch.c,     *)
(* get_cpt_c and set_cpt_c), and the updates that go through it.           *)
(*                                                                         *)
(* A word, and the value of a counter, is the set of the positions of its  *)
(* one bits: | is union, & is intersection, a shift moves the positions    *)
(* and drops those that leave the word.  Counters are laid out from the    *)
(* most significant bit of word 0 on; one may lie across two words.        *)
(*                                                                         *)
(* The widths are scaled down together: W stands for the 64 bits of        *)
(* size_t, IntBits for the 32 bits of int.                                 *)
(***************************************************************************)
EXTENDS Counters

CONSTANTS
    W,        \* bits of a word, MAX_BITS_C
    IntBits,  \* bits of an int
    BitsC,    \* bits of a counter, bits_c
    N,        \* counters in the row
    Deltas    \* the deltas a request carries

Positions == 0 .. (W - 1)
Length    == (N * BitsC + (W - 1)) \div W
MaxBits   == 0 .. (BitsC - 1)                  \* the set bits of max_c
MaxC      == 2^BitsC - 1

VARIABLES
    words,    \* counts[d], one row of packed counters
    plain     \* history: the row as an array of saturating counters

vars == <<words, plain>>

-----------------------------------------------------------------------------
(* Words *)

Bits(n)  == {p \in Positions : (n \div 2^p) % 2 = 1}       \* n modulo 2^W
Value(s) == SumSet({2^p : p \in s})

ShiftL(s, n) == {p + n : p \in s} \cap Positions
ShiftR(s, n) == {p - n : p \in s} \cap Positions

-----------------------------------------------------------------------------
(* Layout of counter w *)

LBit(w)   == w * BitsC
HBit(w)   == LBit(w) + BitsC
LIndex(w) == LBit(w) \div W
HIndex(w) == (HBit(w) - 1) \div W
HGap(w)   == (HIndex(w) + 1) * W - HBit(w)
LGap(w)   == HIndex(w) * W - LBit(w)

GetCptC(w) ==
    IF LIndex(w) = HIndex(w)
    THEN ShiftR(words[HIndex(w)], HGap(w)) \cap MaxBits
    ELSE (ShiftR(words[HIndex(w)], HGap(w)) \cup ShiftL(words[LIndex(w)], W - HGap(w)))
            \cap MaxBits

(* The word (~0 << lgap): ~0 is an int.  Shifting an int by its width or   *)
(* more is undefined; a build shifts by lgap modulo the width (the x86     *)
(* instruction) or by lgap (where the compiler widens the operand first).  *)
KeepMasks(lgap) ==
    IF lgap < IntBits THEN {lgap .. (W - 1)}
    ELSE {lgap .. (W - 1), (lgap % IntBits) .. (W - 1)}

(* Mutation: the part of a counter in the lower word is not written. *)
SetCptCOneWord(w, val) ==
    words' = [words EXCEPT
                 ![HIndex(w)] = (@ \ ShiftL(MaxBits, HGap(w))) \cup ShiftL(val, HGap(w))]

SetCptC(w, val) ==
    LET h == HIndex(w)
        l == LIndex(w)
        high == (words[h] \ ShiftL(MaxBits, HGap(w))) \cup ShiftL(val, HGap(w))
    IN  IF l < h
        THEN \E keep \in KeepMasks(LGap(w)) :
                words' = [words EXCEPT
                            ![h] = high,
                            ![l] = (@ \cap keep) \cup ShiftR(val, W - HGap(w))]
        ELSE words' = [words EXCEPT ![h] = high]

-----------------------------------------------------------------------------
Init ==
    /\ words = [i \in 0 .. (Length - 1) |-> {}]
    /\ plain = [w \in 0 .. (N - 1) |-> 0]

(* ((max_c - delta) > counter) ? (counter + delta) : max_c, in size_t.     *)
Inc(w, delta) ==
    LET counter == Value(GetCptC(w))
        room    == Value(Bits(2^W + MaxC - delta))
        sum     == IF room > counter THEN Bits(counter + delta) ELSE MaxBits
    IN  /\ SetCptC(w, sum)
        /\ plain' = [plain EXCEPT ![w] = Lesser(@ + delta, MaxC)]

(* (counter > delta) ? (counter -= delta) : (counter = 0) *)
Dec(w, delta) ==
    LET difference == Bits(FloorSub(Value(GetCptC(w)), delta))
    IN  /\ SetCptC(w, difference)
        /\ plain' = [plain EXCEPT ![w] = FloorSub(@, delta)]

Next == \E w \in 0 .. (N - 1), delta \in Deltas : Inc(w, delta) \/ Dec(w, delta)

Spec == Init /\ [][Next]_vars

-----------------------------------------------------------------------------
(* Properties *)

(* The packed row is an array of independent saturating counters: reading  *)
(* a counter back gives what its own updates make of it, whichever words   *)
(* it lies in and whatever its neighbours were set to.                     *)
PackedIsPlain == \A w \in 0 .. (N - 1) : Value(GetCptC(w)) = plain[w]
=============================================================================
