------------------------------- MODULE MCNoise -------------------------------
(* Instance of Noise for TLC: two attempts of one client and one of        *)
(* another.                                                                *)
EXTENDS Noise

CONSTANTS a1, a2, a3, alice, bob

MCAttempts == {a1, a2, a3}
MCStaticOf == [a \in MCAttempts |-> IF a = a3 THEN bob ELSE alice]
=============================================================================
