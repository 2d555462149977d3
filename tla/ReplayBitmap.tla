---------------------------- MODULE ReplayBitmap ----------------------------
(***************************************************************************)
(* The anti-replay bitmap of pkg/protocol/session.go as pure operators.    *)
(*                                                                         *)
(* A ReplayWindow holds the largest sequence number it has accepted and a  *)
(* bitmap of two machine words.  Bit b of word w stands for the number     *)
(* maxSeq - (w * WordBits + b).  A word is the set of the positions of its *)
(* one-bits, so a shift that pushes bits out of the word loses them, as it *)
(* does on a uint64.                                                       *)
(*                                                                         *)
(* The code has WordBits = 64 and counters up to 2^64 - 1.  No subtraction *)
(* of CheckAndSet can wrap: each one is guarded by the comparison of its   *)
(* operands, which is why counters are plain natural numbers here.         *)
(***************************************************************************)
EXTENDS Integers

CONSTANTS WordBits,    \* width of a bitmap word
          MaxCounter   \* largest value of a packet counter

ASSUME WordBitsAssumption == WordBits \in Nat \ {0}
ASSUME MaxCounterAssumption == MaxCounter \in Nat

Counters == 0 .. MaxCounter

Bits == 0 .. WordBits - 1

\* const WindowSize = 128, two words of 64
WindowSize == 2 * WordBits

Bitmaps == [0 .. 1 -> SUBSET Bits]

Windows == [maxSeq : Counters, bitmap : Bitmaps]

EmptyBitmap == [w \in 0 .. 1 |-> {}]

\* the zero value of the Go struct
EmptyWindow == [maxSeq |-> 0, bitmap |-> EmptyBitmap]

\* word << n and word >> n
Shl(word, n) == {b \in Bits : b - n \in word}

Shr(word, n) == {b \in Bits : b + n \in word}

-----------------------------------------------------------------------------
(* Plausible slips in the shifts and in the tests, for the mutants of      *)
(* PROJECT.json.                                                           *)

SlideWithoutCarry(bitmap, diff) ==
    IF diff >= WindowSize THEN EmptyBitmap
    ELSE IF diff >= WordBits
         THEN [EmptyBitmap EXCEPT ![1] = Shl(bitmap[0], diff - WordBits)]
    ELSE [w \in 0 .. 1 |-> Shl(bitmap[w], diff)]

SlideKeepsAll(bitmap, diff) ==
    IF diff >= WindowSize THEN bitmap
    ELSE IF diff >= WordBits
         THEN [EmptyBitmap EXCEPT ![1] = Shl(bitmap[0], diff - WordBits)]
    ELSE [w \in 0 .. 1 |->
             IF w = 1 THEN Shl(bitmap[1], diff) \cup Shr(bitmap[0], WordBits - diff)
                      ELSE Shl(bitmap[0], diff)]

SetBitWithoutModulo(bitmap, diff) ==
    [bitmap EXCEPT ![diff \div WordBits] = @ \cup {diff}]

SlideClearsTooEarly(bitmap, diff) ==
    IF diff >= WordBits THEN EmptyBitmap
    ELSE [w \in 0 .. 1 |->
             IF w = 1 THEN Shl(bitmap[1], diff) \cup Shr(bitmap[0], WordBits - diff)
                      ELSE Shl(bitmap[0], diff)]

-----------------------------------------------------------------------------
\* The bitmap after maxSeq has grown by diff, before the new bit is set.
Slide(bitmap, diff) ==
    IF diff >= WindowSize THEN EmptyBitmap
    ELSE IF diff >= WordBits
         THEN [EmptyBitmap EXCEPT ![1] = Shl(bitmap[0], diff - WordBits)]
    ELSE [w \in 0 .. 1 |->
             IF w = 1 THEN Shl(bitmap[1], diff) \cup Shr(bitmap[0], WordBits - diff)
                      ELSE Shl(bitmap[0], diff)]

\* rw.bitmap[diff / 64] & (1 << (diff % 64)) != 0
BitIsSet(bitmap, diff) == (diff % WordBits) \in bitmap[diff \div WordBits]

SetBit(bitmap, diff) ==
    [bitmap EXCEPT ![diff \div WordBits] = @ \cup {diff % WordBits}]

\* The number is one of the WindowSize numbers the bitmap has a bit for.
InWindow(rw, seq) == rw.maxSeq - seq \in 0 .. WindowSize - 1

\* CheckAndSet returns true: the number is ahead of the window, or inside it
\* with its bit clear.
IsFresh(rw, seq) ==
    \/ seq > rw.maxSeq
    \/ /\ InWindow(rw, seq)
       /\ ~ BitIsSet(rw.bitmap, rw.maxSeq - seq)

\* The window CheckAndSet leaves behind when it returns true.  When it
\* returns false it changes nothing.
Accept(rw, seq) ==
    IF seq > rw.maxSeq
    THEN [maxSeq |-> seq,
          bitmap |-> SetBit(Slide(rw.bitmap, seq - rw.maxSeq), 0)]
    ELSE [rw EXCEPT !.bitmap = SetBit(@, rw.maxSeq - seq)]
=============================================================================
