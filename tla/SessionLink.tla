----------------------------- MODULE SessionLink ----------------------------
(***************************************************************************)
(* Session implements Link.  A message of Link is a SUB frame in the       *)
(* buffer of its receiver or on the wire; once the receiver is connected   *)
(* it stands for what the receiver will make of it, and before for what    *)
(* the sender meant, so that a message that is routed to another           *)
(* subprotocol, or with another code, is not the message that was sent.    *)
(***************************************************************************)
EXTENDS Session, Filter

Opened == {p \in Sides : "connect" \in peer[p].emitted}
Shutdown == {p \in Sides : peer[p].closed} \cup dead
Deaf == {p \in Sides : peer[p].closed /\ data[p] = <<>>} \cup dead

\* What the Peer s makes of a SUB frame.
Understood(s, f) ==
    IF "connect" \notin s.emitted THEN f.meant
    ELSE LET c == CHOOSE c \in Routed(s.protocols, f.code) : TRUE
         IN  [cap |-> c, code |-> f.code - Offset(s.protocols, c)]

\* The SUB frames of s.
SubFrames(s) == Kept(s, {k \in DOMAIN s : s[k].kind = "SUB"})

Underway(p) ==
    LET subs == SubFrames(Coming(p))
    IN  [k \in DOMAIN subs |-> Understood(peer[p], subs[k])]

SentMessages == UNION {{[cap |-> c, code |-> code] : code \in Codes[c]} : c \in DOMAIN Codes}

L == INSTANCE Link WITH Messages <- SentMessages,
                        opened   <- Opened,
                        closed   <- Shutdown,
                        deaf     <- Deaf,
                        queue    <- [p \in Sides |-> Underway(p)]

\* Every step of two Peers is a step of Link or changes nothing in it: the
\* chunks, the ticks, the handshake, PINGs and DISCONNECTs neither lose, nor
\* double, nor reorder, nor misroute a message, and none arrives before
\* 'connect' or leaves after the Peer has closed.
ImplementsLink == L!LinkSpec

\* A message that was sent is handled, or its receiver closes.
MessagesArrive == L!Arrives

\* A Peer that is up closes when the other has closed or is gone, be it told
\* so, cut off, or left without PONGs.
PeersPart == L!Parts
=============================================================================
