------------------------------- MODULE MCNat -------------------------------
(* Constants of Nat for TLC: the mesh sends to one peer while the keepalive *)
(* sends to the relay itself; node a punches with two ports and twice, node *)
(* b with one and once.                                                     *)
EXTENDS Nat

CONSTANTS a, b, port1, port2

Configured == [n \in Node |-> IF n = a THEN {port1, port2} ELSE {port1}]
Times      == [n \in Node |-> IF n = a THEN 2 ELSE 1]
=============================================================================
