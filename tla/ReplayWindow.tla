---------------------------- MODULE ReplayWindow ----------------------------
(***************************************************************************)
(* The ReplayWindow type of pkg/protocol/session.go, lines 26-69: one      *)
(* window and any sequence of calls to CheckAndSet.  The method runs under *)
(* rw.mu from its first to its last line, so a call is one step.           *)
(***************************************************************************)
EXTENDS ReplayBitmap

VARIABLES rw,        \* the struct: maxSeq and bitmap
          accepted,  \* history: every number a call has returned true for
          last       \* history: the last call and its answer

vars == <<rw, accepted, last>>

Init ==
    /\ rw = EmptyWindow
    /\ accepted = {}
    /\ last = [seq |-> 0, ok |-> FALSE]

CheckAndSetTrue(seq) ==
    /\ IsFresh(rw, seq)
    /\ rw' = Accept(rw, seq)
    /\ accepted' = accepted \cup {seq}
    /\ last' = [seq |-> seq, ok |-> TRUE]

CheckAndSetFalse(seq) ==
    /\ ~ IsFresh(rw, seq)
    /\ last' = [seq |-> seq, ok |-> FALSE]
    /\ UNCHANGED <<rw, accepted>>

Next == \E seq \in Counters : CheckAndSetTrue(seq) \/ CheckAndSetFalse(seq)

Spec == Init /\ [][Next]_vars

-----------------------------------------------------------------------------
\* The struct keeps its shape: a shift never leaves a bit outside its word
\* and maxSeq stays a counter.
TypeOK ==
    /\ rw \in Windows
    /\ accepted \subseteq Counters
    /\ last \in [seq : Counters, ok : BOOLEAN]

\* Nothing accepted is ahead of maxSeq, and until something is accepted the
\* struct is the zero value.
TopIsLargest ==
    /\ \A s \in accepted : s <= rw.maxSeq
    /\ accepted = {} => rw = EmptyWindow
    /\ accepted # {} => rw.maxSeq \in accepted

\* The bitmap remembers exactly the accepted numbers that are still inside
\* the window: however far CheckAndSet jumps, and across the boundary of the
\* two words, a bit is set if and only if the number it stands for was
\* accepted.
BitmapIsHistory ==
    \A s \in Counters :
        InWindow(rw, s) => (BitIsSet(rw.bitmap, rw.maxSeq - s) <=> s \in accepted)

\* The strengthening under which every step is checked: the inductive
\* invariant of the refinement proof.
IInv == TypeOK /\ TopIsLargest /\ BitmapIsHistory

\* Two words and their shifts implement the set of played numbers: every
\* call of CheckAndSet answers what AntiReplay answers.
Abstract == INSTANCE AntiReplay
                WITH top <- rw.maxSeq, played <- accepted, verdict <- last

ImplementsAntiReplay == Abstract!Spec
=============================================================================
