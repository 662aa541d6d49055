------------------------------- MODULE Peers -------------------------------
(***************************************************************************)
(* What a device makes of the others in its channel: it looks for them in  *)
(* the DHT (Dht), has routes to those that have joined it (Routing) and a  *)
(* codec for all of them (Codecs).  The SDK hands what it has found to the *)
(* mesh, and the handlers of Join and Hello set the tables of the other    *)
(* two in turn; none reads what another has set, so that they are explored *)
(* apart.                                                                  *)
(***************************************************************************)
EXTENDS Dht, Routing, Codecs

VARIABLE matter      \* "lookup", "routes" or "codecs"

peersVars == <<dhtVars, vars, codecVars, matter>>

PeersInit ==
    /\ matter \in {"lookup", "routes", "codecs"}
    /\ DhtInit
    /\ Init
    /\ CodecInit
    /\ matter # "codecs" => wish = <<>>

PeersNext ==
    \/ /\ matter = "lookup" /\ DhtNext
       /\ UNCHANGED <<vars, codecVars, matter>>
    \/ /\ matter = "routes" /\ Next
       /\ UNCHANGED <<dhtVars, codecVars, matter>>
    \/ /\ matter = "codecs" /\ CodecNext
       /\ UNCHANGED <<dhtVars, vars, matter>>

PeersSpec == PeersInit /\ [][PeersNext]_peersVars
=============================================================================
