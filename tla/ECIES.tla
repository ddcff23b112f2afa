-------------------------------- MODULE ECIES -------------------------------
(***************************************************************************)
(* The encrypted stream of a connection (src/src/rlpx/ecies.ts, mac.ts)    *)
(* and the read loop that cuts it into packets (src/src/rlpx/peer.ts).     *)
(* Bytes are counted, their values are symbols: a key is the pair that     *)
(* shares it, a hash is what was hashed, and what is encrypted reads as    *)
(* garbage without the key or at another position of the key stream.       *)
(***************************************************************************)
EXTENDS Bytes, SequencesExt

CONSTANTS
    Pads,       \* lengths of the random padding of AUTH and ACK
    HelloSize,  \* length of the message HELLO
    Sizes,      \* lengths of the messages after it, the code among them
    MaxFrames   \* frames that a side sends, its HELLO among them

\* A length that the first three bytes of a header can say.
Sayable(size) == Len(int2buffer(size)) <= 3

ASSUME PadsAssumption   == Pads \subseteq 100..250
ASSUME SizesAssumption  == Sizes \cup {HelloSize} \subseteq Nat \ {0} /\ Sayable(HelloSize)
ASSUME FramesAssumption == MaxFrames \in Nat \ {0}

Sides    == {"dialer", "listener"}
Other(p) == IF p = "dialer" THEN "listener" ELSE "dialer"

VARIABLES
    rightKey,   \* the dialer knows the key of the listener
    side,       \* the Peer and the ECIES of each side, see NewSide
    stream,     \* stream[p]: packets that p has not consumed
    arrived,    \* arrived[p]: bytes of them in _socketData
    sent,       \* messages that each side has sent
    read,       \* messages that each side has read
    damaged     \* a packet was altered on its way

vars == <<rightKey, side, stream, arrived, sent, read, damaged>>

Garbage == [n |-> 0, size |-> 0]

-----------------------------------------------------------------------------
(* AUTH and ACK *)

\* A public key of 65 bytes, an IV of 16 and a tag of 32.
overheadLength == 113

\* Lengths of their RLP: a signature, an id, a nonce and a version; an
\* ephemeral key, a nonce and a version.
RLPLength(kind) == IF kind = "AUTH" THEN 169 ELSE 102

\* _encryptMessage: only the owner of the key reads it, and the tag covers it.
Encrypted(kind, first, len, content) ==
    [kind |-> kind, first |-> first, len |-> len, content |-> content, tag |-> content]

\* The length and the message.  A length of one byte would be read together
\* with the first byte of the public key.
EIP8(kind, pad, content) ==
    LET size == RLPLength(kind) + pad + overheadLength
        sharedMacData == int2buffer(size)
    IN  Encrypted(kind, SubSeq(sharedMacData \o <<4>>, 1, 2), Len(sharedMacData) + size, content)

\* What p puts in, for the key of another side: its nonce and its ephemeral
\* key stand for p.
Content(p, for) == [from |-> p, for |-> for]

Auth(pad) == EIP8("AUTH", pad, Content("dialer", IF rightKey THEN "listener" ELSE "nobody"))
Ack(pad)  == EIP8("ACK", pad, Content("listener", "dialer"))

-----------------------------------------------------------------------------
(* Keys and MACs *)

None  == <<>>
NoMAC == [secret |-> [shared |-> {}, nonces |-> None], seed |-> None, log |-> None]

\* A MAC is what was put into it, and so is its digest.
MAC(secret, nonce, data) == [secret |-> secret, seed |-> <<nonce, data>>, log |-> None]
Updated(mac, cipher)     == [mac EXCEPT !.log = Append(@, cipher)]

\* Mutant: each side puts its own nonce first.
nonceMaterial_OwnFirst(p, s, incoming) == <<p, s.remote>>

nonceMaterial(p, s, incoming) == IF incoming THEN <<p, s.remote>> ELSE <<s.remote, p>>

\* Mutant: both MACs of a side begin with its own nonce.
_setupFrame_OwnNonce(p, s, remoteData, incoming) ==
    LET secret == [shared |-> {p, s.remote}, nonces |-> nonceMaterial(p, s, incoming)]
    IN  [s EXCEPT !.ingressMac = MAC(secret, p, remoteData), !.egressMac = MAC(secret, p, s.initMsg)]

_setupFrame(p, s, remoteData, incoming) ==
    LET secret == [shared |-> {p, s.remote}, nonces |-> nonceMaterial(p, s, incoming)]
    IN  [s EXCEPT !.ingressMac = MAC(secret, p, remoteData),
                  !.egressMac  = MAC(secret, s.remote, s.initMsg)]

-----------------------------------------------------------------------------
(* Frames *)

\* Whole blocks of the cipher.
Blocks(size) == 16 * ((size + 15) \div 16)

\* The first three bytes of the header.
SizeField(size) == buffer2int(SubSeq(zfill(int2buffer(size), 3), 1, 3))

Cipher(s, position, plain) == [secret |-> s.egressMac.secret, position |-> position, plain |-> plain]

\* One of two writes of a message.
Piece(kind, len, cipher, mac) ==
    [kind |-> kind, first |-> None, len |-> len, content |-> cipher, tag |-> mac]

\* createHeader and createBody, and the MAC after each of them.
Frame(s, message) ==
    LET header == Cipher(s, s.egressAes, SizeField(message.size))
        body   == Cipher(s, s.egressAes + 16, message)
        mac1   == Updated(s.egressMac, header)
        mac2   == Updated(mac1, body)
    IN  <<Piece("Header", 32, header, mac1),
          Piece("Body", Blocks(message.size) + 16, body, mac2)>>

\* Decryption at the position of the reader.
Plain(s, cipher, garbage) ==
    IF cipher.secret = s.ingressMac.secret /\ cipher.position = s.ingressAes
    THEN cipher.plain ELSE garbage

-----------------------------------------------------------------------------
(***************************************************************************)
(* state: _state, or "lost" in a read loop that never ends, because it     *)
(* meets the same error in every round.  next: _nextPacketSize.  gotEIP8:  *)
(* the length of AUTH or ACK was read.  tick: the callback of nextTick.    *)
(* remote: whose nonce and ephemeral key came.  Aes: positions in the key  *)
(* stream.                                                                 *)
(***************************************************************************)
NewSide(p) ==
    [state |-> IF p = "dialer" THEN "Ack" ELSE "Auth",
     next |-> IF p = "dialer" THEN 210 ELSE 307,
     gotEIP8 |-> FALSE, tick |-> "none", remote |-> "nobody", bodySize |-> 0,
     initMsg |-> None, remoteInitMsg |-> None,
     ingressMac |-> NoMAC, egressMac |-> NoMAC, ingressAes |-> 0, egressAes |-> 0]

\* The constructor of the dialer sends AUTH.
Init ==
    /\ rightKey \in BOOLEAN
    /\ \E pad \in Pads :
         /\ stream = [dialer |-> <<>>, listener |-> <<Auth(pad)>>]
         /\ side = [dialer |-> [NewSide("dialer") EXCEPT !.initMsg = Auth(pad)],
                    listener |-> NewSide("listener")]
    /\ arrived = [p \in Sides |-> 0]
    /\ sent = [p \in Sides |-> <<>>]
    /\ read = [p \in Sides |-> <<>>]
    /\ damaged = FALSE

-----------------------------------------------------------------------------
(* The read loop *)

\* There are bytes for another round in this state.
Reading(p, state) == side[p].state = state /\ arrived[p] >= side[p].next

\* The loop is not running.
Idle(p) == side[p].state # "lost" /\ arrived[p] < side[p].next

\* The bytes of this round are one packet, from its first to its last.
Whole(p) == Head(stream[p]).len = side[p].next

\* Mutant: the bytes are counted after _nextPacketSize was set for the header.
Consume_NextSize(p) ==
    /\ stream' = [stream EXCEPT ![p] = Tail(@)]
    /\ arrived' = [arrived EXCEPT ![p] = @ - 32]

Consume(p) ==
    /\ stream' = [stream EXCEPT ![p] = Tail(@)]
    /\ arrived' = [arrived EXCEPT ![p] = @ - side[p].next]

\* The first round of AUTH or ACK.
ReadLength(p) ==
    /\ \E state \in {"Auth", "Ack"} : Reading(p, state)
    /\ ~side[p].gotEIP8
    /\ side' = [side EXCEPT ![p].gotEIP8 = TRUE,
                            ![p].next = buffer2int(Head(stream[p]).first) + 2]
    /\ UNCHANGED <<rightKey, stream, arrived, sent, read, damaged>>

\* _decryptMessage gets through, and what it finds can be parsed.
Decrypts(p, message) == message.content.for = p /\ message.tag = message.content

\* parseAuthPlain.
AfterAuth(s, auth) == [s EXCEPT !.remote = auth.content.from, !.remoteInitMsg = auth]

_handleAuth(p) ==
    LET auth == Head(stream[p])
    IN  /\ Reading(p, "Auth") /\ side[p].gotEIP8
        /\ Whole(p) /\ Decrypts(p, auth)
        /\ side' = [side EXCEPT ![p] = [AfterAuth(@, auth) EXCEPT
                        !.state = "Header", !.next = 32, !.tick = "ack"]]
        /\ Consume(p)
        /\ UNCHANGED <<rightKey, sent, read, damaged>>

\* Mutant: parseAckPlain sets up no frames.
AfterAck_NoFrames(p, ack) ==
    [side[p] EXCEPT !.remote = ack.content.from]

\* parseAckPlain.
AfterAck(p, ack) ==
    _setupFrame(p, [side[p] EXCEPT !.remote = ack.content.from], ack, FALSE)

_handleAck(p) ==
    LET ack == Head(stream[p])
    IN  /\ Reading(p, "Ack") /\ side[p].gotEIP8
        /\ Whole(p) /\ Decrypts(p, ack)
        /\ side' = [side EXCEPT ![p] = [AfterAck(p, ack) EXCEPT
                        !.state = "Header", !.next = 32, !.tick = "hello"]]
        /\ Consume(p)
        /\ UNCHANGED <<rightKey, sent, read, damaged>>

\* Mutant: a wrong MAC is logged and no more.
Verified_Logged(p, piece) == side[p].ingressMac # NoMAC

\* There are keys, and the MAC that was computed is the one that came.
Verified(p, piece) ==
    /\ side[p].ingressMac # NoMAC
    /\ Whole(p)
    /\ Updated(side[p].ingressMac, piece.content) = piece.tag

\* The MAC and the cipher after a piece whose text has this length.
Advanced(s, piece, length) ==
    [s EXCEPT !.ingressMac = Updated(@, piece.content), !.ingressAes = @ + length]

\* Mutant: a message of whole blocks is followed by one more.
BodyLength_Always(size) == size + 32 - (size % 16)

BodyLength(size) == size + 16 + (IF size % 16 > 0 THEN 16 - (size % 16) ELSE 0)

_handleHeader(p) ==
    LET header == Head(stream[p])
        size == Plain(side[p], header.content, 1)
    IN  /\ Reading(p, "Header") /\ Verified(p, header)
        /\ side' = [side EXCEPT ![p] = [Advanced(@, header, 16) EXCEPT
                        !.state = "Body", !.bodySize = size, !.next = BodyLength(size)]]
        /\ Consume(p)
        /\ UNCHANGED <<rightKey, sent, read, damaged>>

\* The message goes on to the Peer, see Session, as long as its size says.
_handleBody(p) ==
    LET body == Head(stream[p])
        message == Plain(side[p], body.content, Garbage)
    IN  /\ Reading(p, "Body") /\ Verified(p, body)
        /\ side' = [side EXCEPT ![p] = [Advanced(@, body, @.next - 16) EXCEPT
                        !.state = "Header", !.bodySize = 0, !.next = 32]]
        /\ read' = [read EXCEPT ![p] = Append(@, [message EXCEPT !.size = side[p].bodySize])]
        /\ Consume(p)
        /\ UNCHANGED <<rightKey, sent, damaged>>

\* What the round throws, or what it finds missing, is the same in the next.
Lose(p) ==
    /\ \/ \E state \in {"Auth", "Ack"} : Reading(p, state) /\ side[p].gotEIP8
          /\ ~(Whole(p) /\ Decrypts(p, Head(stream[p])))
       \/ \E state \in {"Header", "Body"} : Reading(p, state)
          /\ ~Verified(p, Head(stream[p]))
    /\ side' = [side EXCEPT ![p].state = "lost"]
    /\ UNCHANGED <<rightKey, stream, arrived, sent, read, damaged>>

Round(p) ==
    \/ ReadLength(p)
    \/ _handleAuth(p)
    \/ _handleAck(p)
    \/ _handleHeader(p)
    \/ _handleBody(p)
    \/ Lose(p)

-----------------------------------------------------------------------------
(* What a side sends *)

\* _sendMessage, on behalf of the side s, after what goes in front.
Sends(p, s, size, before) ==
    LET message == [n |-> Len(sent[p]) + 1, size |-> size]
        frame == Frame(s, message)
    IN  /\ sent' = [sent EXCEPT ![p] = Append(@, message)]
        /\ stream' = [stream EXCEPT ![Other(p)] = @ \o before \o frame]
        /\ side' = [side EXCEPT ![p] = [s EXCEPT !.egressMac = frame[2].tag, !.tick = "none",
                                                 !.egressAes = @ + 16 + Blocks(size)]]

\* _sendAck: ACK and HELLO.
SendAck(p) ==
    /\ Idle(p) /\ side[p].tick = "ack"
    /\ \E pad \in Pads :
         LET s == [side[p] EXCEPT !.initMsg = Ack(pad), !.state = "Header", !.next = 32]
         IN  Sends(p, _setupFrame(p, s, s.remoteInitMsg, TRUE), HelloSize, <<Ack(pad)>>)
    /\ UNCHANGED <<rightKey, arrived, read, damaged>>

SendHello(p) ==
    /\ Idle(p) /\ side[p].tick = "hello"
    /\ Sends(p, side[p], HelloSize, <<>>)
    /\ UNCHANGED <<rightKey, arrived, read, damaged>>

\* The subprotocols and the Peer itself, when there are keys.
SendMessage(p) ==
    /\ Idle(p) /\ side[p].tick = "none" /\ side[p].egressMac # NoMAC
    /\ Len(sent[p]) < MaxFrames
    /\ \E size \in Sizes : Sends(p, side[p], size, <<>>)
    /\ UNCHANGED <<rightKey, arrived, read, damaged>>

-----------------------------------------------------------------------------
(* The socket *)

\* Bytes of the first k packets.
BytesOf(packets, k) ==
    LET bytes[j \in 0..Len(packets)] == IF j = 0 THEN 0 ELSE bytes[j - 1] + packets[j].len
    IN  bytes[k]

UpTo(p, k) == BytesOf(stream[p], k)

\* Where a chunk may end: with a packet, with what the loop waits for, or a
\* byte before that.
Cuts(p) ==
    LET ends == {UpTo(p, k) : k \in DOMAIN stream[p]}
    IN  {n \in ends \cup {side[p].next, side[p].next - 1} :
            arrived[p] < n /\ n <= UpTo(p, Len(stream[p]))}

Arrive(p) ==
    /\ Idle(p) /\ side[p].tick = "none"
    /\ \E n \in Cuts(p) : arrived' = [arrived EXCEPT ![p] = n]
    /\ UNCHANGED <<rightKey, side, stream, sent, read, damaged>>

\* No key, of the other side or of the connection, gave this.
Altered(packet) ==
    IF packet.kind \in {"AUTH", "ACK"} THEN [packet EXCEPT !.content.from = "nobody"]
    ELSE [packet EXCEPT !.content.secret = NoMAC.secret]

\* One packet is altered on its way, beyond its length.
Damage(p) ==
    /\ ~damaged
    /\ \E k \in DOMAIN stream[p] :
         /\ UpTo(p, k) > arrived[p]
         /\ stream' = [stream EXCEPT ![p][k] = Altered(@)]
    /\ damaged' = TRUE
    /\ UNCHANGED <<rightKey, side, arrived, sent, read>>

-----------------------------------------------------------------------------
Next ==
    \E p \in Sides :
        \/ Round(p)
        \/ SendAck(p)
        \/ SendHello(p)
        \/ SendMessage(p)
        \/ Arrive(p)
        \/ Damage(p)

Spec == Init /\ [][Next]_vars

\* TCP delivers, and a process that is not stuck goes on.
Fairness ==
    \A p \in Sides :
        /\ WF_vars(Arrive(p))
        /\ WF_vars(Round(p))
        /\ WF_vars(SendAck(p))
        /\ WF_vars(SendHello(p))

FairSpec == Spec /\ Fairness

-----------------------------------------------------------------------------
(* Properties *)

Ready(p) == side[p].ingressMac # NoMAC

\* The state of a side and its buffer are within their bounds.
TypeOK ==
    \A p \in Sides :
        /\ side[p].state \in {"Auth", "Ack", "Header", "Body", "lost"}
        /\ side[p].tick \in {"none", "ack", "hello"}
        /\ side[p].next \in Nat /\ side[p].next >= 17
        /\ side[p].bodySize \in Nat
        /\ Ready(p) = (side[p].egressMac # NoMAC)
        /\ arrived[p] \in 0..UpTo(p, Len(stream[p]))
        /\ Len(sent[p]) <= MaxFrames

\* A message whose size does not fit into three bytes was sent to p.
TooLong(p) == \E k \in DOMAIN sent[Other(p)] : ~Sayable(sent[Other(p)][k].size)

\* The loop cuts the stream where the packets end: what it waits for is the
\* packet that comes next, neither more nor less, and never more than that
\* while it waits for the length of AUTH or ACK, whose smallest padding it
\* counts on.
Aligned ==
    \A p \in Sides :
        LET s == side[p]
        IN  stream[p] # <<>> /\ s.state # "lost" /\ ~TooLong(p) /\ ~damaged =>
                IF s.gotEIP8 THEN Whole(p) ELSE s.next <= Head(stream[p]).len

\* No frame is there to be read before there are keys: the listener has none
\* until the nextTick after AUTH, and the dialer reads HELLO in the very
\* chunk that ends ACK.
KeysBeforeFrames ==
    \A p \in Sides : side[p].state = "Header" /\ ~Ready(p) => stream[p] = <<>>

\* The MAC that p reads with is the one that the other side writes with, but for
\* the packets between them, and p is in the key stream where the first of them
\* was written, or the next will be: two secrets, two directions and every
\* message that came before agree.
DirectionsMatch ==
    \A p \in Sides :
        LET r == side[p].ingressMac
            w == side[Other(p)].egressMac
            between == [k \in DOMAIN stream[p] |-> stream[p][k].content]
        IN  Ready(p) /\ Ready(Other(p)) /\ ~damaged /\ side[p].state \in {"Header", "Body"} =>
                /\ [r EXCEPT !.log = @ \o between] = w
                /\ side[p].ingressAes = IF between = <<>> THEN side[Other(p)].egressAes
                                         ELSE between[1].position

\* What is read is what was sent, from the first message on and in order,
\* even if a packet was altered.
ReadAsSent == \A p \in Sides : IsPrefix(read[p], sent[Other(p)])

\* Nothing went wrong that the code has no answer to.
Sound == rightKey /\ ~damaged /\ \A p \in Sides : ~TooLong(p)

\* The dialer that knows the key gets its HELLO through, the listener too,
\* and every message after them is read.
MessagesRead ==
    /\ <>(~Sound \/ \A p \in Sides : read[p] # <<>>)
    /\ \A p \in Sides : read[p] # sent[Other(p)] ~> ~Sound \/ read[p] = sent[Other(p)]
=============================================================================
