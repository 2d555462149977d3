------------------------------- MODULE Channel -------------------------------
(***************************************************************************)
(* What one direction of a session promises to the two ends of the tunnel, *)
(* whatever the network does to the datagrams between them: a counter, the *)
(* AEAD nonce, seals at most one packet, and a packet is handed to the     *)
(* other side at most once and only if it was sealed.  Delivery itself is  *)
(* not promised, and neither is order.                                     *)
(***************************************************************************)
EXTENDS Integers

CONSTANT Counters

VARIABLES sealings,    \* how many packets were sealed under a counter
          deliveries   \* how many packets with a counter were handed over

vars == <<sealings, deliveries>>

Init ==
    /\ sealings = [c \in Counters |-> 0]
    /\ deliveries = [c \in Counters |-> 0]

SealOnce(c) ==
    /\ sealings[c] = 0
    /\ sealings' = [sealings EXCEPT ![c] = 1]
    /\ UNCHANGED deliveries

DeliverOnce(c) ==
    /\ sealings[c] = 1
    /\ deliveries[c] = 0
    /\ deliveries' = [deliveries EXCEPT ![c] = 1]
    /\ UNCHANGED sealings

Next == \E c \in Counters : SealOnce(c) \/ DeliverOnce(c)

Spec == Init /\ [][Next]_vars
=============================================================================
