-------------------------------- MODULE Nat --------------------------------
(***************************************************************************)
(* NAT traversal of a node: enable_nat allocates a relay, asks for public  *)
(* addresses and publishes what it has found as candidates.  The mesh then *)
(* sends through the relay, or punches holes to peers.  The two uses share *)
(* neither sockets nor tables and are explored apart from each other.      *)
(***************************************************************************)
EXTENDS TurnRelay, HolePunch

CONSTANT Self      \* the node whose relay this is

ASSUME NatAssumption == Self \in Node

VARIABLES
    used,          \* "gather", then "relay"; or "punch"
    candidates     \* what the node tells its peers: [type, port, priority]

natVars == <<turnVars, punchVars, used, candidates>>

NatInit ==
    /\ TurnInit /\ PunchInit
    /\ used \in {"gather", "punch"}
    /\ used = "punch" => ~demands
    /\ used = "gather" => public = Bindable
    /\ candidates = {}

\* build_ice_candidates: the mesh's own address, the public ones, the relay's.
IceCandidates(local, srflx, relays) ==
    {[type |-> "Host", port |-> p, priority |-> 100] : p \in local} \cup
    {[type |-> "Srflx", port |-> p, priority |-> 90] : p \in srflx} \cup
    {[type |-> "Relay", port |-> p, priority |-> 70] : p \in relays}

Relays == IF alloc.st = "relay" THEN {Own} ELSE {}

\* enable_nat, after the allocation has ended in one way or the other.
EnableNat ==
    /\ used = "gather" /\ alloc.st \in {"relay", "failed"}
    /\ candidates' = IceCandidates({"mesh"}, public[Self], Relays)
    /\ used' = "relay"
    /\ UNCHANGED <<turnVars, punchVars>>

NatNext ==
    \/ EnableNat
    \/ /\ used = "gather" /\ AllocationNext
       /\ UNCHANGED <<punchVars, used, candidates>>
    \/ /\ used = "relay" /\ RelayNext
       /\ UNCHANGED <<punchVars, used, candidates>>
    \/ /\ used = "punch" /\ PunchNext
       /\ UNCHANGED <<turnVars, used, candidates>>

NatSpec == NatInit /\ [][NatNext]_natVars /\ PunchFair
=============================================================================
