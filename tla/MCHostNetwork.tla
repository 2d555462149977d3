---------------------------- MODULE MCHostNetwork ----------------------------
(* Instances of HostNetwork for TLC: two servers, one in test mode, another *)
(* host in each half of the IPv4 address space and one with IPv6, and two   *)
(* names of TUN devices.                                                    *)
EXTENDS HostNetwork

CONSTANTS s1, s2, lo, h1, h2, h6

Names == Permutations(TunNames)

MCHalf == [a \in Servers \cup Hosts |-> IF a \in {s1, h1} THEN "low" ELSE "high"]

\* The failures that can matter to the properties: on Linux those of the
\* rules, on macOS all but that of setting the resolvers.
MCFailing ==
    [s \in Systems |-> IF s = "linux" THEN {"insert", "append", "delete"}
                       ELSE {"gateway", "addRoute", "delRoute", "load", "startFilter", "flush"}]
NoneFails == [s \in Systems |-> {}]
AppendFails == [s \in Systems |-> {"append"}]
=============================================================================
