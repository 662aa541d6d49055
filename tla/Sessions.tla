------------------------------ MODULE Sessions ------------------------------
(***************************************************************************)
(* The two sessions that a pair of nodes sets up one above the other: that *)
(* of the packet layer between two addresses (MeshLink), and the key that  *)
(* the two peers agree on once they have met (E2ee).  They share no table; *)
(* what the second needs of the first is a stream of frames, so that they  *)
(* are explored apart, both with the fairness of the runtime.              *)
(***************************************************************************)
EXTENDS MeshLink, E2ee

VARIABLE layer       \* "packets" or "peers"

sessionVars == <<vars, secretVars, layer>>

SessionsInit ==
    /\ layer \in {"packets", "peers"}
    /\ Init
    /\ SecretInit

SessionsNext ==
    \/ /\ layer = "packets" /\ Next
       /\ UNCHANGED <<secretVars, layer>>
    \/ /\ layer = "peers" /\ SecretNext
       /\ UNCHANGED <<vars, layer>>

SessionsSpec ==
    SessionsInit /\ [][SessionsNext]_sessionVars /\ Fairness /\ SecretFairness
=============================================================================
