------------------------------- MODULE Links -------------------------------
(***************************************************************************)
(* Two views of a link between two nodes: how it comes about and stays in  *)
(* step (MeshLink), and what a node measures of it once it is there        *)
(* (LinkStats).  handle_packet runs through both, the measurement between  *)
(* the decryption and handle_frame; neither reads the state of the other,  *)
(* so that they are explored apart.                                        *)
(***************************************************************************)
EXTENDS MeshLink, LinkStats

VARIABLE view      \* "link" or "measure"

linksVars == <<vars, measureVars, view>>

LinksInit ==
    /\ view \in {"link", "measure"}
    /\ Init
    /\ MeasureInit
    /\ view = "link" => ~overRelay

LinksNext ==
    \/ /\ view = "link" /\ Next
       /\ UNCHANGED <<measureVars, view>>
    \/ /\ view = "measure" /\ MeasureNext
       /\ UNCHANGED <<vars, view>>

LinksSpec == LinksInit /\ [][LinksNext]_linksVars
=============================================================================
