----------------------------- MODULE HolePunch -----------------------------
(***************************************************************************)
(* Hole punching of rift-nat between nodes behind NATs: attempt_hole_punch *)
(* binds every configured port that is free and gives each socket a task   *)
(* of its own, which sends to every address of the peer at each tick and   *)
(* stops at the first datagram that comes from one of them.  The first     *)
(* socket to get that far is handed to the mesh, which dials through it.   *)
(*                                                                         *)
(* A NAT keeps a port's public number and lets through what comes from an  *)
(* address its node has sent to.  The network may lose MaxLoss datagrams.  *)
(* In the network a datagram is in a set: two of a kind under way between  *)
(* the same sockets are one.                                               *)
(***************************************************************************)
EXTENDS Naturals, FiniteSets

CONSTANTS
    Node,
    Port,
    Bindable,      \* the configured ports of each node, without the mesh's own
    MaxAttempts,   \* bound: attempts of each node
    MaxLoss        \* bound: datagrams that are lost

ASSUME PunchAssumption ==
    /\ IsFiniteSet(Node) /\ IsFiniteSet(Port)
    /\ Bindable \in [Node -> SUBSET Port]
    /\ MaxAttempts \in [Node -> Nat] /\ MaxLoss \in Nat

Address == Node \X Port

VARIABLES
    public,        \* the ports of a node that a STUN server answered for
    sock,          \* sock[n][p]: [st, at] and the address it stopped at
    attempt,       \* the attempts a node has begun
    result,        \* how the last of them ended
    done,          \* done[n]: attempts whose flag is set
    opened,        \* <<from, to>> that have been sent to through a NAT
    net,           \* datagrams on their way
    lost

punchVars == <<public, sock, attempt, result, done, opened, net, lost>>

Free    == [st |-> "free"]
Punch(k) == [st |-> "punch", at |-> k]

\* Each port is bound for one request to each server and closed again; which
\* of them come back with an address is up to the servers.  A node nobody
\* answers offers an address that its peers cannot use.
Mapped(n) == SUBSET Bindable[n]
Gathered  == {f \in [Node -> SUBSET Port] : \A n \in Node : f[n] \in Mapped(n)}

PunchInit ==
    /\ public \in Gathered
    /\ sock = [n \in Node |-> [p \in Port |-> Free]]
    /\ attempt = [n \in Node |-> 0]
    /\ result = [n \in Node |-> "none"]
    /\ done = [n \in Node |-> {}]
    /\ opened = {} /\ net = {} /\ lost = 0

-----------------------------------------------------------------------------
Others(n) == Node \ {n}

\* build_target_addrs: each address of the peer, and its host with the ports
\* of all of them.
Targets(n) == {<<m, p>> \in Others(n) \X Port : p \in public[m]}

Datagram(kind, from, to) == [kind |-> kind, from |-> from, to |-> to]

\* A datagram that is sent opens the NAT for its answers.
Sent(msgs) ==
    /\ net' = net \cup msgs
    /\ opened' = opened \cup {<<d.from, d.to>> : d \in msgs}

FreePorts(n) == {p \in Bindable[n] : sock[n][p].st = "free"}

Begin(n) ==
    /\ result[n] # "running" /\ attempt[n] < MaxAttempts[n]
    /\ attempt' = [attempt EXCEPT ![n] = attempt[n] + 1]
    /\ IF FreePorts(n) = {}
       THEN /\ result' = [result EXCEPT ![n] = "no_local_ports"]
            /\ UNCHANGED sock
       ELSE /\ result' = [result EXCEPT ![n] = "running"]
            /\ sock' = [sock EXCEPT ![n] = [p \in Port |->
                           IF p \in FreePorts(n) THEN Punch(attempt[n] + 1) ELSE sock[n][p]]]
    /\ UNCHANGED <<public, done, opened, net, lost>>

\* Mutant: the tasks of an attempt do not tell one another.
Alone(n, p) ==
    /\ sock[n][p].st = "punch"
    /\ Sent({Datagram("syn", <<n, p>>, to) : to \in Targets(n)})
    /\ UNCHANGED <<public, sock, attempt, result, done, lost>>

\* A tick of a socket's task: it stops if another one of its attempt is done.
Tick(n, p) ==
    /\ sock[n][p].st = "punch"
    /\ IF sock[n][p].at \in done[n]
       THEN /\ sock' = [sock EXCEPT ![n][p] = Free]
            /\ UNCHANGED <<opened, net>>
       ELSE /\ Sent({Datagram("syn", <<n, p>>, to) : to \in Targets(n)})
            /\ UNCHANGED sock
    /\ UNCHANGED <<public, attempt, result, done, lost>>

\* Mutant: nothing is sent back, because the peer will tick again.
NoReplies(d) == {}

\* What is sent back to a datagram.
Replies(d) == IF d.kind \in {"syn", "ack"} THEN {Datagram("ack", d.to, d.from)} ELSE {}

\* A datagram for the socket of a task.  Any that comes from the peer counts,
\* the first message of its handshake included.
Receive(n, p, d) ==
    /\ d.to = <<n, p>> /\ <<d.to, d.from>> \in opened
    /\ sock[n][p].st = "punch"
    /\ LET k == sock[n][p].at IN
       IF k \in done[n]
       THEN /\ sock' = [sock EXCEPT ![n][p] = Free]
            /\ net' = net \ {d}
            /\ UNCHANGED <<done, opened>>
       ELSE IF d.from \notin Targets(n)
       THEN /\ net' = net \ {d}
            /\ UNCHANGED <<sock, done, opened>>
       ELSE /\ sock' = [sock EXCEPT ![n][p] = [st |-> "stopped", at |-> k, remote |-> d.from]]
            /\ done' = [done EXCEPT ![n] = done[n] \cup {k}]
            /\ net' = (net \ {d}) \cup Replies(d)
            /\ opened' = opened \cup {<<r.from, r.to>> : r \in Replies(d)}
    /\ UNCHANGED <<public, attempt, result, lost>>

\* A datagram for a socket that is the mesh's or nobody's any more, or that a
\* NAT holds back.
Discard(n, p, d) ==
    /\ d.to = <<n, p>>
    /\ sock[n][p].st \in {"free", "mesh"} \/ <<d.to, d.from>> \notin opened
    /\ net' = net \ {d}
    /\ UNCHANGED <<public, sock, attempt, result, done, opened, lost>>

\* The task offers its socket: the attempt takes the first one, and the mesh
\* dials through it; an attempt that has ended drops it.
Offer(n, p) ==
    /\ sock[n][p].st = "stopped"
    /\ IF sock[n][p].at = attempt[n] /\ result[n] = "running"
       THEN /\ result' = [result EXCEPT ![n] = "success"]
            /\ sock' = [sock EXCEPT ![n][p] = [st |-> "mesh", remote |-> sock[n][p].remote]]
            /\ Sent({Datagram("handshake", <<n, p>>, sock[n][p].remote)})
       ELSE /\ sock' = [sock EXCEPT ![n][p] = Free]
            /\ UNCHANGED <<result, opened, net>>
    /\ UNCHANGED <<public, attempt, done, lost>>

\* The flag stays as it is, so that the tasks go on and keep their ports.
Timeout(n) ==
    /\ result[n] = "running"
    /\ result' = [result EXCEPT ![n] = "timeout"]
    /\ UNCHANGED <<public, sock, attempt, done, opened, net, lost>>

Lose(d) ==
    /\ lost < MaxLoss /\ d \in net
    /\ net' = net \ {d} /\ lost' = lost + 1
    /\ UNCHANGED <<public, sock, attempt, result, done, opened>>

Socket(n, p) ==
    \/ Tick(n, p) \/ Offer(n, p)
    \/ \E d \in net : Receive(n, p, d) \/ Discard(n, p, d)

PunchNext ==
    \/ \E n \in Node : Begin(n) \/ Timeout(n)
    \/ \E n \in Node, p \in Port : Socket(n, p)
    \/ \E d \in net : Lose(d)

Hear(n, p) == Offer(n, p) \/ \E d \in net : Receive(n, p, d)

\* Ticks come again and again, and a socket's task reads what has arrived and
\* makes its offer.  Nobody has to begin, and the time an attempt is given may
\* be long or short.
PunchFair == \A n \in Node, p \in Port : /\ WF_punchVars(Tick(n, p))
                                         /\ WF_punchVars(Hear(n, p))

PunchSpec == PunchInit /\ [][PunchNext]_punchVars /\ PunchFair

-----------------------------------------------------------------------------
\* The attempt has a socket at an address that the other node sends to.
Reachable(n) ==
    /\ attempt[n] = 1 /\ result[n] = "running"
    /\ \E p \in public[n] : sock[n][p] = Punch(1)

Met(n) == result[n] = "success" \/ attempt[n] > 1

\* Two first attempts that are under way at the same time end with a socket
\* on both sides, unless one of them is given too little time, although each
\* side stops sending when it has heard from the other, and although one
\* datagram is lost (attempt_hole_punch).
PunchesMeet ==
    (\A n \in Node : Reachable(n)) ~>
        \/ \A n \in Node : Met(n)
        \/ \E n \in Node : result[n] = "timeout"

\* After a success the ports that the mesh was not handed are free again for
\* the next peer; an attempt that runs out of time keeps them (Timeout).
PortsReturn ==
    \A n \in Node :
       (attempt[n] = 1 /\ result[n] = "success") ~>
           \A p \in Bindable[n] : \/ sock[n][p].st \in {"free", "mesh"}
                                  \/ sock[n][p].at > 1
=============================================================================
