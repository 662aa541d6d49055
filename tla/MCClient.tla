------------------------------ MODULE MCClient ------------------------------
(* Constants of Client for TLC: one device that trusts nobody new, with     *)
(* voice detection and a free port for each join, and one that rejects the  *)
(* peer u with its unexpected key, with push to talk and a port of its own. *)
EXTENDS Client

CONSTANTS u, v

Devices ==
    {[anyport |-> TRUE, gate |-> "vad", tofu |-> FALSE, reject |-> FALSE],
     [anyport |-> FALSE, gate |-> "ptt", tofu |-> TRUE, reject |-> TRUE]}
=============================================================================
