------------------------------ MODULE MCLinks ------------------------------
(* Constants of Links for TLC: a peer without the channel's password, and a *)
(* window, a limit and a clock small enough to be filled, met and read.     *)
EXTENDS Links

CONSTANTS a, b, key

Closed == [n \in Node |-> TRUE]
OnlyB  == [n \in Node |-> IF n = b THEN key ELSE NoToken]
===========================================================================
