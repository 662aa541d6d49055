------------------------- MODULE MCReliableChannel -------------------------
(* Constants of ReliableChannel for TLC: a sends, b answers.                *)
EXTENDS ReliableChannel

CONSTANTS a, b, t1, t2

Kinds     == [p \in Peer |-> IF p = a THEN ChannelKind ELSE {"ReliableOrdered"}]
SendsTwo  == [p \in Peer |-> IF p = a THEN 2 ELSE 0]
=============================================================================
