----------------------------- MODULE AntiReplay -----------------------------
(***************************************************************************)
(* What an anti-replay window promises, without words, shifts or masks.    *)
(*                                                                         *)
(* A number is accepted exactly when it was never accepted before and is   *)
(* less than WindowSize behind the largest number accepted so far.  This   *)
(* is the comment on CheckAndSet, "returns true if sequence number is      *)
(* valid and unplayed, false if replayed or too old", read as a            *)
(* specification.                                                          *)
(***************************************************************************)
EXTENDS Integers

CONSTANTS WindowSize, Counters

VARIABLES top,       \* the largest number accepted, 0 before the first
          played,    \* every number accepted so far
          verdict    \* the last call: its argument and its answer

vars == <<top, played, verdict>>

NoCall == [seq |-> 0, ok |-> FALSE]

Init ==
    /\ top = 0
    /\ played = {}
    /\ verdict = NoCall

Unplayed(seq) == seq \notin played

InTime(seq) == top - seq < WindowSize

Admit(seq) ==
    /\ Unplayed(seq)
    /\ InTime(seq)
    /\ played' = played \cup {seq}
    /\ top' = IF seq > top THEN seq ELSE top
    /\ verdict' = [seq |-> seq, ok |-> TRUE]

Refuse(seq) ==
    /\ ~ (Unplayed(seq) /\ InTime(seq))
    /\ verdict' = [seq |-> seq, ok |-> FALSE]
    /\ UNCHANGED <<top, played>>

Next == \E seq \in Counters : Admit(seq) \/ Refuse(seq)

Spec == Init /\ [][Next]_vars
=============================================================================
