--------------------------- MODULE OrderedStream ---------------------------
(***************************************************************************)
(* What the mesh's packet layer promises the layers above it: each         *)
(* direction of a session is a stream of frames.  The sender appends to    *)
(* it, the receiver takes frames off it in order and one at a time, and    *)
(* may at any point stop for ever (a lost datagram ends the stream).       *)
(***************************************************************************)
EXTENDS Naturals, Sequences, SequencesExt

CONSTANT Stream   \* the directions of the sessions there may be

VARIABLES
    sent,   \* sent[k]: the frames sent on k
    got     \* got[k]: the frames the receiver of k has taken

Init ==
    /\ sent = [k \in Stream |-> <<>>]
    /\ got  = [k \in Stream |-> <<>>]

Take(k) ==
    /\ Len(got[k]) < Len(sent[k])
    /\ got' = [got EXCEPT ![k] = Append(@, sent[k][Len(@) + 1])]

(* One step of a node: it may take a frame off one stream, and may send on  *)
(* any of its own.                                                          *)
Next ==
    /\ DOMAIN sent' = Stream
    /\ \A k \in Stream : IsPrefix(sent[k], sent'[k])
    /\ got' = got \/ \E k \in Stream : Take(k)

Spec == Init /\ [][Next]_<<sent, got>>
=============================================================================
