----------------------------- MODULE Transports -----------------------------
(***************************************************************************)
(* The two ways in which Rift's frames travel: over UDP, in the sessions   *)
(* of the mesh (MeshLink), and between browsers over the WebSocket relay   *)
(* (WebChat).  No program has both, so that they are explored apart.       *)
(***************************************************************************)
EXTENDS MeshLink, WebChat

VARIABLE transport      \* "udp" or "websocket"

transportsVars == <<vars, webVars, transport>>

TransportsInit ==
    /\ transport \in {"udp", "websocket"}
    /\ Init
    /\ WebInit

TransportsNext ==
    \/ /\ transport = "udp" /\ Next
       /\ UNCHANGED <<webVars, transport>>
    \/ /\ transport = "websocket" /\ WebNext
       /\ UNCHANGED <<vars, transport>>

TransportsSpec == TransportsInit /\ [][TransportsNext]_transportsVars
=============================================================================
