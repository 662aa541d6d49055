---------------------------- MODULE MCSessions ----------------------------
(* Constants of Sessions for TLC: two nodes with a channel password, one of *)
(* which dials, and two peers of which a has the lower id.                  *)
EXTENDS Sessions

CONSTANTS a, b, password

Order  == [n \in Peer |-> IF n = a THEN 1 ELSE 2]
Closed == [n \in Node |-> TRUE]
Joint  == [n \in Node |-> password]
===========================================================================
