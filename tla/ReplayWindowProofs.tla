------------------------- MODULE ReplayWindowProofs -------------------------
(***************************************************************************)
(* The replay window implements AntiReplay, for words of any width and any *)
(* number of calls.                                                        *)
(*                                                                         *)
(* First, what the operators of ReplayBitmap compute.  The lemmas hide the *)
(* two words: with them a window is a set of bits indexed by the distance  *)
(* from maxSeq, and no later proof expands Slide, SetBit or BitIsSet.      *)
(* Then the inductive invariant, IInv: the bitmap is the set of accepted   *)
(* numbers, cut to the window.                                             *)
(***************************************************************************)
EXTENDS ReplayWindow, TLAPS

(***************************************************************************)
(* The word and the bit of a distance: diff / 64 and diff % 64 of          *)
(* session.go, lines 60-61, for a distance inside the window.              *)
(***************************************************************************)
LEMMA WordAndBit ==
    ASSUME NEW d \in 0 .. WindowSize - 1
    PROVE  /\ d < WordBits => d \div WordBits = 0 /\ d % WordBits = d
           /\ d >= WordBits => d \div WordBits = 1 /\ d % WordBits = d - WordBits
  BY WordBitsAssumption DEF WindowSize

(***************************************************************************)
(* The bit of a distance is in the low word for distances below WordBits,  *)
(* in the high word above.                                                 *)
(***************************************************************************)
LEMMA BitOfDistance ==
    ASSUME NEW bm \in Bitmaps, NEW d \in 0 .. WindowSize - 1
    PROVE  BitIsSet(bm, d) <=> IF d < WordBits THEN d \in bm[0]
                                               ELSE d - WordBits \in bm[1]
  BY WordAndBit, WordBitsAssumption DEF BitIsSet, WindowSize

(***************************************************************************)
(* rw.bitmap[word] |= (1 << bit) sets that bit and no other (line 67).     *)
(***************************************************************************)
LEMMA SetBitSets ==
    ASSUME NEW bm \in Bitmaps, NEW d \in 0 .. WindowSize - 1
    PROVE  /\ SetBit(bm, d) \in Bitmaps
           /\ \A e \in 0 .. WindowSize - 1 :
                 BitIsSet(SetBit(bm, d), e) <=> (e = d \/ BitIsSet(bm, e))
  <1>1. d \div WordBits \in 0 .. 1 /\ d % WordBits \in Bits
    BY WordAndBit, WordBitsAssumption DEF WindowSize, Bits
  <1>2. SetBit(bm, d) \in Bitmaps
    BY <1>1 DEF SetBit, Bitmaps
  <1>3. ASSUME NEW e \in 0 .. WindowSize - 1
        PROVE  BitIsSet(SetBit(bm, d), e) <=> (e = d \/ BitIsSet(bm, e))
    <2>1. BitIsSet(SetBit(bm, d), e) <=>
            IF e < WordBits THEN e \in SetBit(bm, d)[0]
                            ELSE e - WordBits \in SetBit(bm, d)[1]
      BY <1>2, BitOfDistance
    <2>2. BitIsSet(bm, e) <=> IF e < WordBits THEN e \in bm[0]
                                              ELSE e - WordBits \in bm[1]
      BY BitOfDistance
    <2>3. CASE d < WordBits
      <3>1. SetBit(bm, d) = [bm EXCEPT ![0] = bm[0] \cup {d}]
        BY <2>3, WordAndBit DEF SetBit
      <3> QED
        BY <2>3, <2>1, <2>2, <3>1, WordBitsAssumption DEF WindowSize, Bitmaps
    <2>4. CASE d >= WordBits
      <3>1. SetBit(bm, d) = [bm EXCEPT ![1] = bm[1] \cup {d - WordBits}]
        BY <2>4, WordAndBit DEF SetBit
      <3> QED
        BY <2>4, <2>1, <2>2, <3>1, WordBitsAssumption DEF WindowSize, Bitmaps
    <2> QED
      BY <2>3, <2>4, WordBitsAssumption DEF WindowSize
  <1> QED
    BY <1>2, <1>3

(***************************************************************************)
(* The three branches of lines 40-49 are one shift of the whole bitmap by  *)
(* diff: nothing is lost at the boundary of the words, nothing stale is    *)
(* kept, and what leaves the window is dropped.                            *)
(***************************************************************************)
LEMMA SlideShifts ==
    ASSUME NEW bm \in Bitmaps, NEW diff \in Nat \ {0}
    PROVE  /\ Slide(bm, diff) \in Bitmaps
           /\ \A e \in 0 .. WindowSize - 1 :
                 BitIsSet(Slide(bm, diff), e) <=>
                    (e >= diff /\ BitIsSet(bm, e - diff))
  <1>1. Slide(bm, diff) \in Bitmaps
    BY DEF Slide, Bitmaps, EmptyBitmap, Shl, Shr
  <1>2. ASSUME NEW e \in 0 .. WindowSize - 1
        PROVE  BitIsSet(Slide(bm, diff), e) <=>
                  (e >= diff /\ BitIsSet(bm, e - diff))
    <2>0. bm[0] \subseteq Bits /\ bm[1] \subseteq Bits
      BY DEF Bitmaps
    <2>1. BitIsSet(Slide(bm, diff), e) <=>
            IF e < WordBits THEN e \in Slide(bm, diff)[0]
                            ELSE e - WordBits \in Slide(bm, diff)[1]
      BY <1>1, BitOfDistance
    <2>2. e >= diff => (BitIsSet(bm, e - diff) <=>
                          IF e - diff < WordBits
                          THEN e - diff \in bm[0]
                          ELSE e - diff - WordBits \in bm[1])
      BY BitOfDistance, WordBitsAssumption DEF WindowSize
    <2>3. CASE diff >= WindowSize
      <3>1. Slide(bm, diff)[0] = {} /\ Slide(bm, diff)[1] = {}
        BY <2>3 DEF Slide, EmptyBitmap
      <3> QED
        BY <2>3, <2>1, <3>1, WordBitsAssumption DEF WindowSize
    <2>4. CASE diff < WindowSize /\ diff >= WordBits
      <3>1. /\ Slide(bm, diff)[0] = {}
            /\ Slide(bm, diff)[1] = Shl(bm[0], diff - WordBits)
        BY <2>4, WordBitsAssumption DEF Slide, EmptyBitmap, WindowSize
      <3> QED
        BY <2>4, <2>0, <2>1, <2>2, <3>1, WordBitsAssumption
        DEF WindowSize, Shl, Bits
    <2>5. CASE diff < WordBits
      <3>1. /\ Slide(bm, diff)[0] = Shl(bm[0], diff)
            /\ Slide(bm, diff)[1] =
                  Shl(bm[1], diff) \cup Shr(bm[0], WordBits - diff)
        BY <2>5, WordBitsAssumption DEF Slide, WindowSize
      <3> QED
        BY <2>5, <2>0, <2>1, <2>2, <3>1, WordBitsAssumption
        DEF WindowSize, Shl, Shr, Bits
    <2> QED
      BY <2>3, <2>4, <2>5, WordBitsAssumption DEF WindowSize
  <1> QED
    BY <1>1, <1>2

(***************************************************************************)
(* What CheckAndSet leaves behind when it returns true: maxSeq is the      *)
(* larger of the two numbers, and for every number the new window covers,  *)
(* its bit is set if it is the accepted number or was set before.          *)
(***************************************************************************)
LEMMA AcceptSetsOneBit ==
    ASSUME NEW win \in Windows, NEW seq \in Counters, IsFresh(win, seq)
    PROVE  /\ Accept(win, seq) \in Windows
           /\ Accept(win, seq).maxSeq = IF seq > win.maxSeq THEN seq
                                                           ELSE win.maxSeq
           /\ \A s \in Counters :
                 InWindow(Accept(win, seq), s) =>
                    (BitIsSet(Accept(win, seq).bitmap,
                              Accept(win, seq).maxSeq - s) <=>
                       \/ s = seq
                       \/ /\ s <= win.maxSeq
                          /\ BitIsSet(win.bitmap, win.maxSeq - s))
  <1> DEFINE new == Accept(win, seq)
  <1>1. win.maxSeq \in Counters /\ win.bitmap \in Bitmaps
    BY DEF Windows
  <1>2. Counters \subseteq Nat /\ seq \in Nat /\ win.maxSeq \in Nat
    BY <1>1, MaxCounterAssumption DEF Counters
  <1>3. CASE seq > win.maxSeq
    <2> DEFINE diff == seq - win.maxSeq
               slid == Slide(win.bitmap, diff)
    <2>1. diff \in Nat \ {0}
      BY <1>1, <1>2, <1>3
    <2>2. /\ slid \in Bitmaps
          /\ \A e \in 0 .. WindowSize - 1 :
                BitIsSet(slid, e) <=> (e >= diff /\ BitIsSet(win.bitmap, e - diff))
      BY <1>1, <2>1, SlideShifts
    <2>3. 0 \in 0 .. WindowSize - 1
      BY WordBitsAssumption DEF WindowSize
    <2>4. /\ SetBit(slid, 0) \in Bitmaps
          /\ \A e \in 0 .. WindowSize - 1 :
                BitIsSet(SetBit(slid, 0), e) <=> (e = 0 \/ BitIsSet(slid, e))
      BY <2>2, <2>3, SetBitSets
    <2>5. new = [maxSeq |-> seq, bitmap |-> SetBit(slid, 0)]
      BY <1>3 DEF Accept
    <2>6. ASSUME NEW s \in Counters, InWindow(new, s)
          PROVE  BitIsSet(new.bitmap, new.maxSeq - s) <=>
                    s = seq \/ (s <= win.maxSeq /\ BitIsSet(win.bitmap, win.maxSeq - s))
      <3>1. seq - s \in 0 .. WindowSize - 1
        BY <2>5, <2>6 DEF InWindow
      <3>2. BitIsSet(new.bitmap, new.maxSeq - s) <=>
               (seq - s = 0 \/ (seq - s >= diff /\ BitIsSet(win.bitmap, (seq - s) - diff)))
        BY <2>2, <2>4, <2>5, <3>1
      <3>3. s \in Nat
        BY <1>2
      <3>4. (seq - s) - diff = win.maxSeq - s
        BY <1>2, <3>3
      <3>5. (seq - s = 0 <=> s = seq) /\ (seq - s >= diff <=> s <= win.maxSeq)
        BY <1>2, <3>3
      <3> QED
        BY <3>2, <3>4, <3>5
    <2> QED
      BY <1>3, <2>4, <2>5, <2>6 DEF Windows
  <1>4. CASE ~ (seq > win.maxSeq)
    <2> DEFINE d == win.maxSeq - seq
    <2>1. d \in 0 .. WindowSize - 1
      BY <1>4 DEF IsFresh, InWindow
    <2>2. /\ SetBit(win.bitmap, d) \in Bitmaps
          /\ \A e \in 0 .. WindowSize - 1 :
                BitIsSet(SetBit(win.bitmap, d), e) <=> (e = d \/ BitIsSet(win.bitmap, e))
      BY <1>1, <2>1, SetBitSets
    <2>3. new = [win EXCEPT !.bitmap = SetBit(win.bitmap, d)]
      BY <1>4 DEF Accept
    <2>4. new.maxSeq = win.maxSeq /\ new.bitmap = SetBit(win.bitmap, d)
      BY <2>3 DEF Windows
    <2>5. new \in Windows
      BY <2>2, <2>3 DEF Windows
    <2>6. ASSUME NEW s \in Counters, InWindow(new, s)
          PROVE  BitIsSet(new.bitmap, new.maxSeq - s) <=>
                    s = seq \/ (s <= win.maxSeq /\ BitIsSet(win.bitmap, win.maxSeq - s))
      <3>1. win.maxSeq - s \in 0 .. WindowSize - 1
        BY <2>4, <2>6 DEF InWindow
      <3>2. BitIsSet(new.bitmap, new.maxSeq - s) <=>
               (win.maxSeq - s = d \/ BitIsSet(win.bitmap, win.maxSeq - s))
        BY <2>2, <2>4, <3>1
      <3>3. (win.maxSeq - s = d <=> s = seq) /\ s <= win.maxSeq
        BY <1>2, <3>1
      <3> QED
        BY <3>2, <3>3
    <2> QED
      BY <1>4, <2>4, <2>5, <2>6
  <1> QED
    BY <1>3, <1>4

(***************************************************************************)
(* The three facts a session rests on: an accepted number is not fresh any *)
(* more, no later acceptance makes a number fresh again, and a number that *)
(* stops being fresh is the accepted one or has left the window.           *)
(***************************************************************************)
LEMMA AcceptIsForGood ==
    ASSUME NEW win \in Windows, NEW seq \in Counters, IsFresh(win, seq)
    PROVE  /\ ~ IsFresh(Accept(win, seq), seq)
           /\ \A s \in Counters : IsFresh(Accept(win, seq), s) => IsFresh(win, s)
           /\ \A s \in Counters :
                 IsFresh(win, s) /\ ~ IsFresh(Accept(win, seq), s) =>
                    s = seq \/ seq - s >= WindowSize
  <1> DEFINE new == Accept(win, seq)
  <1>1. /\ new \in Windows
        /\ new.maxSeq = IF seq > win.maxSeq THEN seq ELSE win.maxSeq
        /\ \A s \in Counters : InWindow(new, s) =>
              (BitIsSet(new.bitmap, new.maxSeq - s) <=>
                 s = seq \/ (s <= win.maxSeq /\ BitIsSet(win.bitmap, win.maxSeq - s)))
    BY AcceptSetsOneBit
  <1>2. Counters \subseteq Nat /\ win.maxSeq \in Nat /\ new.maxSeq \in Nat /\ seq \in Nat
    BY <1>1, MaxCounterAssumption DEF Counters, Windows
  <1>3. ~ IsFresh(new, seq)
    <2>1. ~ (seq > new.maxSeq)
      BY <1>1, <1>2
    <2>2. InWindow(new, seq) => BitIsSet(new.bitmap, new.maxSeq - seq)
      BY <1>1
    <2> QED
      BY <2>1, <2>2 DEF IsFresh
  <1>4. ASSUME NEW s \in Counters, IsFresh(new, s)
        PROVE  IsFresh(win, s)
    <2>1. s \in Nat /\ new.maxSeq >= win.maxSeq
      BY <1>1, <1>2
    <2>2. CASE s > new.maxSeq
      BY <1>2, <2>1, <2>2 DEF IsFresh
    <2>3. CASE InWindow(new, s) /\ ~ BitIsSet(new.bitmap, new.maxSeq - s)
      <3>1. s = seq \/ s > win.maxSeq \/ ~ BitIsSet(win.bitmap, win.maxSeq - s)
        BY <1>1, <1>2, <2>1, <2>3
      <3>2. s <= win.maxSeq => InWindow(win, s)
        BY <1>2, <2>1, <2>3, WordBitsAssumption DEF InWindow, WindowSize
      <3> QED
        BY <1>2, <2>1, <3>1, <3>2 DEF IsFresh
    <2> QED
      BY <1>4, <2>2, <2>3 DEF IsFresh
  <1>5. ASSUME NEW s \in Counters, IsFresh(win, s), ~ IsFresh(new, s), s # seq
        PROVE  seq - s >= WindowSize
    <2>1. s \in Nat /\ s <= new.maxSeq
      BY <1>2, <1>5 DEF IsFresh
    <2>2. ~ InWindow(new, s)
      <3> SUFFICES ASSUME InWindow(new, s) PROVE FALSE
        OBVIOUS
      <3>1. BitIsSet(new.bitmap, new.maxSeq - s)
        BY <1>5 DEF IsFresh
      <3>2. s <= win.maxSeq /\ BitIsSet(win.bitmap, win.maxSeq - s)
        BY <1>1, <1>5, <3>1
      <3> QED
        BY <1>2, <1>5, <2>1, <3>2 DEF IsFresh
    <2>3. new.maxSeq - s >= WindowSize
      BY <1>2, <2>1, <2>2, WordBitsAssumption DEF InWindow, WindowSize
    <2>4. CASE seq > win.maxSeq
      BY <1>1, <2>3, <2>4
    <2>5. CASE ~ (seq > win.maxSeq)
      <3>1. new.maxSeq = win.maxSeq
        BY <1>1, <2>5
      <3>2. InWindow(win, s)
        BY <1>2, <1>5, <2>1, <3>1 DEF IsFresh
      <3> QED
        BY <2>2, <3>1, <3>2 DEF InWindow
    <2> QED
      BY <2>4, <2>5
  <1> QED
    BY <1>3, <1>4, <1>5

-----------------------------------------------------------------------------
(* The window                                                              *)

(***************************************************************************)
(* The zero value of the struct remembers nothing.                         *)
(***************************************************************************)
LEMMA InitIInv == Init => IInv
  <1> SUFFICES ASSUME Init PROVE IInv
    OBVIOUS
  <1>1. TypeOK
    BY MaxCounterAssumption
    DEF Init, TypeOK, EmptyWindow, EmptyBitmap, Windows, Bitmaps, Counters
  <1>2. TopIsLargest
    BY DEF Init, TopIsLargest
  <1>3. BitmapIsHistory
    <2>1. rw.bitmap \in Bitmaps /\ rw.bitmap[0] = {} /\ rw.bitmap[1] = {}
      BY <1>1 DEF Init, TypeOK, Windows, EmptyWindow, EmptyBitmap
    <2>2. \A d \in 0 .. WindowSize - 1 : ~ BitIsSet(rw.bitmap, d)
      BY <2>1, BitOfDistance
    <2> QED
      BY <2>2 DEF Init, BitmapIsHistory, InWindow
  <1> QED
    BY <1>1, <1>2, <1>3 DEF IInv

(***************************************************************************)
(* Under the invariant the test of CheckAndSet is the abstract one: never  *)
(* accepted, and less than WindowSize behind the top.                      *)
(***************************************************************************)
LEMMA FreshIsUnplayedInTime ==
    ASSUME IInv, NEW seq \in Counters
    PROVE  IsFresh(rw, seq) <=> (Abstract!Unplayed(seq) /\ Abstract!InTime(seq))
  <1>1. seq \in Nat /\ rw.maxSeq \in Nat
    BY MaxCounterAssumption DEF IInv, TypeOK, Windows, Counters
  <1>2. CASE seq > rw.maxSeq
    <2>1. seq \notin accepted
      BY <1>1, <1>2 DEF IInv, TopIsLargest, TypeOK, Counters
    <2>2. rw.maxSeq - seq < WindowSize
      BY <1>1, <1>2, WordBitsAssumption DEF WindowSize
    <2> QED
      BY <1>2, <2>1, <2>2 DEF IsFresh, Abstract!Unplayed, Abstract!InTime
  <1>3. CASE ~ (seq > rw.maxSeq)
    <2>1. InWindow(rw, seq) <=> rw.maxSeq - seq < WindowSize
      BY <1>1, <1>3, WordBitsAssumption DEF InWindow, WindowSize
    <2>2. InWindow(rw, seq) =>
             (BitIsSet(rw.bitmap, rw.maxSeq - seq) <=> seq \in accepted)
      BY DEF IInv, BitmapIsHistory
    <2> QED
      BY <1>3, <2>1, <2>2 DEF IsFresh, Abstract!Unplayed, Abstract!InTime
  <1> QED
    BY <1>2, <1>3

(***************************************************************************)
(* A call that returns true keeps the invariant.                           *)
(***************************************************************************)
LEMMA AcceptKeepsIInv ==
    ASSUME IInv, NEW seq \in Counters, CheckAndSetTrue(seq)
    PROVE  IInv'
  <1>1. rw \in Windows /\ accepted \subseteq Counters /\ IsFresh(rw, seq)
    BY DEF IInv, TypeOK, CheckAndSetTrue
  <1>2. rw' = Accept(rw, seq) /\ accepted' = accepted \cup {seq}
    BY DEF CheckAndSetTrue
  <1>3. /\ rw' \in Windows
        /\ rw'.maxSeq = IF seq > rw.maxSeq THEN seq ELSE rw.maxSeq
        /\ \A s \in Counters : InWindow(rw', s) =>
              (BitIsSet(rw'.bitmap, rw'.maxSeq - s) <=>
                 s = seq \/ (s <= rw.maxSeq /\ BitIsSet(rw.bitmap, rw.maxSeq - s)))
    BY <1>1, <1>2, AcceptSetsOneBit
  <1>4. Counters \subseteq Nat /\ rw.maxSeq \in Nat /\ rw'.maxSeq \in Nat
    BY <1>1, <1>3, MaxCounterAssumption DEF Windows, Counters
  <1>5. TypeOK'
    BY <1>1, <1>2, <1>3 DEF TypeOK, CheckAndSetTrue
  <1>6. TopIsLargest'
    <2>1. accepted' # {}
      BY <1>2
    <2>2. \A s \in accepted' : s <= rw'.maxSeq
      BY <1>1, <1>2, <1>3, <1>4 DEF IInv, TopIsLargest
    <2>3. rw'.maxSeq \in accepted'
      <3>1. CASE seq > rw.maxSeq
        BY <3>1, <1>2, <1>3
      <3>2. CASE ~ (seq > rw.maxSeq) /\ accepted # {}
        BY <3>2, <1>2, <1>3 DEF IInv, TopIsLargest
      <3>3. CASE ~ (seq > rw.maxSeq) /\ accepted = {}
        <4>1. rw.maxSeq = 0
          BY <3>3 DEF IInv, TopIsLargest, EmptyWindow
        <4> QED
          BY <3>3, <4>1, <1>2, <1>3, <1>4
      <3> QED
        BY <3>1, <3>2, <3>3
    <2> QED
      BY <2>1, <2>2, <2>3 DEF TopIsLargest
  <1>7. BitmapIsHistory'
    <2> SUFFICES ASSUME NEW s \in Counters, InWindow(rw', s)
                 PROVE  BitIsSet(rw'.bitmap, rw'.maxSeq - s) <=> s \in accepted'
      BY DEF BitmapIsHistory
    <2>1. s <= rw.maxSeq => InWindow(rw, s)
      BY <1>3, <1>4, WordBitsAssumption DEF InWindow, WindowSize
    <2>2. s <= rw.maxSeq =>
             (BitIsSet(rw.bitmap, rw.maxSeq - s) <=> s \in accepted)
      BY <2>1 DEF IInv, BitmapIsHistory
    <2>3. s \in accepted => s <= rw.maxSeq
      BY DEF IInv, TopIsLargest
    <2> QED
      BY <1>2, <1>3, <2>2, <2>3
  <1> QED
    BY <1>5, <1>6, <1>7 DEF IInv

(***************************************************************************)
(* A call that returns false, or no call at all, keeps the invariant.      *)
(***************************************************************************)
LEMMA IdleKeepsIInv ==
    ASSUME IInv, UNCHANGED <<rw, accepted>>,
           UNCHANGED last \/ (\E seq \in Counters : last' = [seq |-> seq, ok |-> FALSE])
    PROVE  IInv'
  <1>1. TypeOK'
    <2>1. CASE UNCHANGED last
      BY <2>1 DEF IInv, TypeOK
    <2>2. CASE \E seq \in Counters : last' = [seq |-> seq, ok |-> FALSE]
      BY <2>2 DEF IInv, TypeOK
    <2> QED
      BY <2>1, <2>2
  <1>2. TopIsLargest' /\ BitmapIsHistory'
    BY DEF IInv, TopIsLargest, BitmapIsHistory, InWindow
  <1> QED
    BY <1>1, <1>2 DEF IInv

(***************************************************************************)
(* Every step of the window keeps the invariant.                           *)
(***************************************************************************)
LEMMA NextIInv == IInv /\ [Next]_vars => IInv'
  <1> SUFFICES ASSUME IInv, [Next]_vars PROVE IInv'
    OBVIOUS
  <1>1. ASSUME NEW seq \in Counters, CheckAndSetTrue(seq) PROVE IInv'
    BY <1>1, AcceptKeepsIInv
  <1>2. ASSUME NEW seq \in Counters, CheckAndSetFalse(seq) PROVE IInv'
    BY <1>2, IdleKeepsIInv DEF CheckAndSetFalse
  <1>3. CASE UNCHANGED vars
    BY <1>3, IdleKeepsIInv DEF vars
  <1> QED
    BY <1>1, <1>2, <1>3 DEF Next

(***************************************************************************)
(* In every reachable state the bitmap is exactly the history of accepted  *)
(* numbers inside the window.                                              *)
(***************************************************************************)
THEOREM WindowInvariant == Spec => []IInv
  BY InitIInv, NextIInv, PTL DEF Spec

(***************************************************************************)
(* The bitmap of CheckAndSet never forgets a number inside the window and  *)
(* never remembers one that was not accepted, whatever the jumps.          *)
(***************************************************************************)
THEOREM BitmapCorrect == Spec => []BitmapIsHistory
  <1>1. IInv => BitmapIsHistory
    BY DEF IInv
  <1> QED
    BY <1>1, WindowInvariant, PTL

(***************************************************************************)
(* Type correctness: no shift leaves a bit outside its word.               *)
(***************************************************************************)
THEOREM TypeCorrect == Spec => []TypeOK
  <1>1. IInv => TypeOK
    BY DEF IInv
  <1> QED
    BY <1>1, WindowInvariant, PTL

(***************************************************************************)
(* Refinement: every call of CheckAndSet answers what the set of played    *)
(* numbers answers, so session.go implements AntiReplay.                   *)
(***************************************************************************)
THEOREM Refinement == Spec => ImplementsAntiReplay
  <1>1. Init => Abstract!Init
    BY DEF Init, EmptyWindow, Abstract!Init, Abstract!NoCall
  <1>2. IInv /\ [Next]_vars => [Abstract!Next]_(Abstract!vars)
    <2> SUFFICES ASSUME IInv, [Next]_vars
                 PROVE  Abstract!Next \/ UNCHANGED Abstract!vars
      OBVIOUS
    <2>1. ASSUME NEW seq \in Counters, CheckAndSetTrue(seq)
          PROVE  Abstract!Admit(seq)
      <3>1. rw \in Windows /\ IsFresh(rw, seq) /\ rw' = Accept(rw, seq)
        BY <2>1 DEF IInv, TypeOK, CheckAndSetTrue
      <3>2. rw'.maxSeq = IF seq > rw.maxSeq THEN seq ELSE rw.maxSeq
        BY <3>1, AcceptSetsOneBit
      <3>3. Abstract!Unplayed(seq) /\ Abstract!InTime(seq)
        BY <3>1, FreshIsUnplayedInTime
      <3> QED
        BY <2>1, <3>2, <3>3 DEF CheckAndSetTrue, Abstract!Admit
    <2>2. ASSUME NEW seq \in Counters, CheckAndSetFalse(seq)
          PROVE  Abstract!Refuse(seq)
      <3>1. ~ (Abstract!Unplayed(seq) /\ Abstract!InTime(seq))
        BY <2>2, FreshIsUnplayedInTime DEF CheckAndSetFalse
      <3> QED
        BY <2>2, <3>1 DEF CheckAndSetFalse, Abstract!Refuse
    <2>3. CASE UNCHANGED vars
      BY <2>3 DEF vars, Abstract!vars
    <2> QED
      BY <2>1, <2>2, <2>3 DEF Next, Abstract!Next
  <1> QED
    BY <1>1, <1>2, WindowInvariant, PTL DEF Spec, ImplementsAntiReplay, Abstract!Spec
=============================================================================
