------------------------------- MODULE MCServer -------------------------------
(* Instances of Server for TLC: one or two clients, on the UDP and the TLS *)
(* transport.                                                              *)
EXTENDS Server

CONSTANTS c1, c2, udp, tls

\* c1 over UDP, c2 over TLS
MCVia == [c \in Clients |-> IF c = c1 THEN udp ELSE tls]

\* addresses of their own, and c1 at the default address
OwnIPs == [c \in Clients |-> IF c = c1 THEN "10.8.0.3" ELSE "10.8.0.4"]
FirstAtDefault == [c \in Clients |-> IF c = c1 THEN "10.8.0.2" ELSE "10.8.0.4"]
=============================================================================
