------------------------------ MODULE MCPeers ------------------------------
(* Constants of Peers for TLC: a and b reach the relay hub, and each other  *)
(* only by a hole punch; peers that take either codec, one that takes PCM16 *)
(* only, and an application that prefers PCM16, an experimental codec or    *)
(* nothing; and two devices that look each other up in the DHT.             *)
EXTENDS Peers

CONSTANTS a, b, hub

ViaRelay == {{a, hub}, {b, hub}}
Starts   == {ViaRelay, {{a, hub}}}

Announced == {{"Opus", "PCM16"}, {"PCM16", "Experimental"}}
Preferred == {<<>>, <<"PCM16", "Opus">>, <<"Experimental", "Opus">>}
=============================================================================
