-------------------------------- MODULE Dht --------------------------------
(***************************************************************************)
(* Discovery over the DHT (crates/rift-dht): each device runs a swarm task *)
(* that answers the announcements and lookups of the SDK's two loops with  *)
(* what becomes of libp2p's queries.  One lookup is a query for providers  *)
(* of the channel and then a query per provider for its record; the task   *)
(* has a table of queries and one of lookups.                              *)
(*                                                                         *)
(* One channel is modelled, since keys of two channels never meet.  Of     *)
(* libp2p only what it stores and how its queries may end is modelled: it  *)
(* reports the providers that the nodes it asks know of, a few or none of  *)
(* them at a time, and a query may fail.                                   *)
(***************************************************************************)
EXTENDS Integers, FiniteSets

CONSTANTS
    Device,        \* the devices in the channel, named by their Rift peer id
    MaxSwarms,     \* bound: DHT nodes that are started
    MaxAnnounces,  \* bound: announcements
    MaxAsked       \* bound: lookups

ASSUME DhtAssumption ==
    /\ IsFiniteSet(Device)
    /\ MaxSwarms \in Nat /\ MaxAnnounces \in Nat /\ MaxAsked \in Nat

Swarm == 1..MaxSwarms   \* libp2p peer ids: each DhtHandle::new generates one

VARIABLES
    swarm,       \* swarm[d]: the DHT node of device d, 0 while it runs none
    records,     \* external: keys under which the DHT has a record
    providers,   \* external: DHT nodes that provide the channel
    puts,        \* pending_put, by device
    queries,     \* pending_lookup: [by, ask, key]
    lookups,     \* lookups: [by, ask, pending, results], and as history
                 \* published when it began and whether all has gone well
    published,   \* history: devices whose announcement has succeeded
    answer,      \* history: the last answer to a lookup
    swarms, announces, asked

dhtVars == <<swarm, records, providers, puts, queries, lookups, published, answer,
             swarms, announces, asked>>

DhtInit ==
    /\ swarm = [d \in Device |-> 0]
    /\ records = {} /\ providers = {}
    /\ puts = {} /\ queries = {} /\ lookups = {}
    /\ published = {}
    /\ answer = [results |-> {}, due |-> FALSE]
    /\ swarms = 0 /\ announces = 0 /\ asked = 0

ChannelKey == [of |-> "channel", id |-> 0]

\* peer_record_key: where a device puts its record.
PeerRecordKey(d) == [of |-> "rift peer", id |-> d]

\* peer_record_key_from_peer: where a lookup expects the record of a provider.
PeerRecordKeyFromPeer(n) == [of |-> "libp2p peer", id |-> n]

-----------------------------------------------------------------------------
\* DhtHandle::new, with the key pair of a node that was never seen before.
StartSwarm(d) ==
    /\ swarm[d] = 0 /\ swarms < MaxSwarms
    /\ swarms' = swarms + 1
    /\ swarm' = [swarm EXCEPT ![d] = swarms + 1]
    /\ UNCHANGED <<records, providers, puts, queries, lookups, published, answer, announces,
                   asked>>

\* The process of d ends; what it has stored elsewhere outlives it.
Quit(d) ==
    /\ swarm[d] # 0
    /\ swarm' = [swarm EXCEPT ![d] = 0]
    /\ puts' = puts \ {d}
    /\ queries' = {q \in queries : q.by # d}
    /\ lookups' = {l \in lookups : l.by # d}
    /\ published' = published \ {d}
    /\ UNCHANGED <<records, providers, answer, swarms, announces, asked>>

\* The SDK announces itself on joining and every 30 seconds, but waits for the
\* answer to the last announcement.
MayAnnounce(d) == swarm[d] # 0 /\ d \notin puts

\* Its other loop has one lookup at a time; what is found is dialled.
MayLookUp(d) == swarm[d] # 0 /\ \A l \in lookups : l.by # d

\* Command::Announce.  The local store may refuse the record; the node becomes
\* a provider anyway.
Announce(d) ==
    /\ MayAnnounce(d)
    /\ announces < MaxAnnounces
    /\ announces' = announces + 1
    /\ \/ /\ puts' = puts \union {d}
          /\ records' = records \union {PeerRecordKey(d)}
       \/ UNCHANGED <<puts, records>>
    /\ providers' = providers \union {swarm[d]}
    /\ UNCHANGED <<swarm, queries, lookups, published, answer, swarms, asked>>

\* PutRecord(Ok) or PutRecord(Err)
PutEnds(d) ==
    /\ d \in puts
    /\ puts' = puts \ {d}
    /\ published' \in {published, published \union {d}}
    /\ UNCHANGED <<swarm, records, providers, queries, lookups, answer, swarms, announces, asked>>

\* Command::Lookup
Lookup(d) ==
    /\ MayLookUp(d)
    /\ asked < MaxAsked
    /\ asked' = asked + 1
    /\ queries' = queries \union {[by |-> d, ask |-> asked + 1, key |-> ChannelKey]}
    /\ lookups' = lookups \union {[by |-> d, ask |-> asked + 1, pending |-> 0, results |-> {},
                                   published |-> published \ {d}, well |-> TRUE]}
    /\ UNCHANGED <<swarm, records, providers, puts, published, answer, swarms, announces>>

-----------------------------------------------------------------------------
Asker(q) == CHOOSE l \in lookups : l.ask = q.ask

\* The lookup has become as: without pending queries it leaves the table, and
\* its caller gets the results, none of them with an error.
Progress(l, as, results) ==
    /\ lookups' = (lookups \ {l}) \union (IF as.pending = 0 THEN {} ELSE {as})
    /\ answer' = IF as.pending = 0
                 THEN [results |-> results, due |-> as.well /\ as.published # {}]
                 ELSE answer

\* FoundProviders, the first report of the query: the later ones find its
\* entry gone.  The providers are those that one DHT node knows of.
FoundProviders(q) ==
    /\ q.key = ChannelKey
    /\ \E found \in SUBSET providers :
          LET all == \A d \in Asker(q).published : swarm[d] \in found
          IN  /\ queries' = (queries \ {q}) \union
                    {[q EXCEPT !.key = PeerRecordKeyFromPeer(n)] : n \in found}
              /\ Progress(Asker(q), [Asker(q) EXCEPT !.pending = Cardinality(found),
                                                     !.well = all], {})
    /\ UNCHANGED <<swarm, records, providers, puts, published, swarms, announces, asked>>

\* GetProviders ends without a provider, or with an error.
NoProviders(q) ==
    /\ q.key = ChannelKey
    /\ queries' = queries \ {q}
    /\ Progress(Asker(q), [Asker(q) EXCEPT !.well = FALSE], {})
    /\ UNCHANGED <<swarm, records, providers, puts, published, swarms, announces, asked>>

\* One query less is pending; zero is not passed.
Fewer(n) == IF n > 0 THEN n - 1 ELSE 0

\* Mutant: a record that is not there is not counted.
Mutant_Counted(l, q) ==
    IF q.key \in records
    THEN [l EXCEPT !.pending = Fewer(@), !.results = @ \union {q.key}]
    ELSE l

\* FoundRecord, or FinishedWithNoAdditionalRecord
Counted(l, q) ==
    [l EXCEPT !.pending = Fewer(@), !.results = @ \union ({q.key} \intersect records)]

GetRecordEnds(q) ==
    /\ q.key # ChannelKey
    /\ queries' = queries \ {q}
    /\ Progress(Asker(q), Counted(Asker(q), q), Counted(Asker(q), q).results)
    /\ UNCHANGED <<swarm, records, providers, puts, published, swarms, announces, asked>>

\* GetRecord(Err), the record not being found among them.  If it is the last
\* one, the caller gets the error and nothing of what has been found.
GetRecordFails(q) ==
    /\ q.key # ChannelKey
    /\ queries' = queries \ {q}
    /\ Progress(Asker(q), [Asker(q) EXCEPT !.pending = Fewer(@), !.well = @ /\ q.key \notin records],
                {})
    /\ UNCHANGED <<swarm, records, providers, puts, published, swarms, announces, asked>>

DhtNext ==
    \/ \E d \in Device :
          \/ StartSwarm(d)
          \/ Quit(d)
          \/ Announce(d)
          \/ PutEnds(d)
          \/ Lookup(d)
    \/ \E q \in queries :
          \/ FoundProviders(q)
          \/ NoProviders(q)
          \/ GetRecordEnds(q)
          \/ GetRecordFails(q)

DhtSpec == DhtInit /\ [][DhtNext]_dhtVars

-----------------------------------------------------------------------------
DhtTypeOK ==
    /\ swarm \in [Device -> Swarm \union {0}]
    /\ providers \subseteq Swarm
    /\ puts \subseteq Device /\ published \subseteq Device
    /\ swarms \in 0..MaxSwarms
    /\ announces \in 0..MaxAnnounces
    /\ asked \in 0..MaxAsked

Awaited(l) == {q \in queries : q.ask = l.ask}

\* Nobody waits for ever for a lookup: each one in the table is either at its
\* query for providers or counts exactly the record queries that have yet to
\* end, so that the last of them answers it; and no query is left of a lookup
\* that was answered (pending_lookup and LookupState.pending of the swarm
\* task, over providers found in part, failures and restarts).
LookupsCanEnd ==
    /\ \A l \in lookups :
          \/ /\ l.pending = 0
             /\ \E q \in queries : q.key = ChannelKey /\ Awaited(l) = {q}
          \/ /\ l.pending = Cardinality(Awaited(l)) /\ l.pending > 0
             /\ \A q \in Awaited(l) : q.key # ChannelKey
    /\ \A q \in queries : \E l \in lookups : l.ask = q.ask /\ l.by = q.by

\* "Lookup all peers advertising a given channel" (the comment on
\* DhtHandle::lookup): when somebody else had announced itself before, the
\* first report named all who had, and no query failed that had a record to
\* find, the caller gets at least one peer.
LookupFindsPeers == answer.due => answer.results # {}
=============================================================================
