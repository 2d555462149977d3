------------------------------ MODULE MCSession ------------------------------
(* Instance of Session for TLC.  Goroutines of one side are alike.         *)
EXTENDS Session, TLC

Symmetry == Permutations(Senders) \cup Permutations(Receivers)
=============================================================================
