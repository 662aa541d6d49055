---------------------------- MODULE MCRendezvous ----------------------------
(* Constants of Rendezvous for TLC: two connectors and a listener, or two   *)
(* mesh nodes.  Only one connector has a relay, the other learns the        *)
(* listener's address from the DHT and lists whom it accepts.               *)
EXTENDS Rendezvous

CONSTANTS c, d, l, m, n

Parties == {{c, d, l}, {m, n}}
Remotes == [p \in Party |-> CASE p = c -> <<l>> [] p = d -> <<>>
                              [] p = l -> <<>> [] p = m -> <<n>> [] p = n -> <<m>>]
Tries   == [p \in Mesh |-> IF p = m THEN 2 ELSE 1]
FromDht == [p \in Connector |-> IF p = d THEN {l} ELSE {}]
Relays  == [p \in Connector |-> IF p = c THEN 1 ELSE 0]
Listed  == [p \in Party |-> CASE p = d -> {l} [] p = n -> {l} [] OTHER -> {}]
=============================================================================
