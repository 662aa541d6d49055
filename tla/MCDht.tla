------------------------------- MODULE MCDht -------------------------------
(* Constants of Dht for TLC: two devices that announce and look up.         *)
EXTENDS Dht

CONSTANTS a, b
=============================================================================
