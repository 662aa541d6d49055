---------------------------- MODULE MCTransports ----------------------------
(* Constants of Transports for TLC: two peers of a mesh without a password; *)
(* and a page and a chat client, with two invites.                          *)
EXTENDS Transports

CONSTANTS a, b, i, j

Open     == [n \in Node |-> FALSE]
NoTokens == [n \in Node |-> NoToken]
=============================================================================
