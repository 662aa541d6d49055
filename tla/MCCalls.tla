------------------------------ MODULE MCCalls ------------------------------
(* Constants of Calls for TLC: a and b use the terminal, q the Qt client.   *)
EXTENDS Calls

CONSTANTS a, b, q
=============================================================================
