----------------------------- MODULE MCTLSServer -----------------------------
(* Instances of TLSServer for TLC: connections from one address or from    *)
(* several.                                                                *)
EXTENDS TLSServer

CONSTANTS k1, k2, k3

\* k1 and k2 come from one address, one after the other
OneReused == [c \in Conns |-> IF c = k3 THEN "b" ELSE "a"]
AllDistinct == [c \in Conns |-> IF c = k1 THEN "a" ELSE IF c = k2 THEN "b" ELSE "c"]
=============================================================================
