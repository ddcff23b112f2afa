------------------------------ MODULE Session -------------------------------
(***************************************************************************)
(* The two Peers (src/src/rlpx/peer.ts) of one TCP connection, from AUTH   *)
(* to 'close'.                                                             *)
(*                                                                         *)
(* A 'data' callback of a socket is many steps here, one per pass of the   *)
(* loop of _onSocketData, but no other callback of that Peer comes between *)
(* them, nor before the process.nextTick callback that they have left; see *)
(* Idle.  The other Peer is another process and goes on meanwhile.  A      *)
(* header and its body are one frame: a frame of which a part is missing   *)
(* waits in _socketData, which changes nothing.                            *)
(***************************************************************************)
EXTENDS Capabilities, Sequences

CONSTANTS
    Setups,         \* what a connection is made of, see setup
    Codes,          \* Codes[c]: codes that the application sends on c
    TimeoutFirst,   \* options.timeout < PING_INTERVAL
    MaxSub          \* bound of the model: MaxSub[p] subprotocol messages of p

Sides    == {"dialer", "listener"}
Other(p) == IF p = "dialer" THEN "listener" ELSE "dialer"

\* Both Peers run this code, where a subprotocol in one version has one length.
ASSUME SetupsAssumption ==
    \A s \in Setups :
        /\ s.caps \in [Sides -> SUBSET Capability]
        /\ \A p, q \in Sides : \A c \in s.caps[p], d \in s.caps[q] :
              c.name = d.name /\ c.version = d.version => c = d

ASSUME CodesAssumption ==
    \A s \in Setups : \A p \in Sides : \A c \in s.caps[p] :
        c \in DOMAIN Codes /\ Codes[c] \subseteq Nat

Reasons == {"useless", "refused", "requested", "timeout", "protocol", "subprotocol"}

VARIABLES
    setup,  \* caps: the capabilities of each Peer; filters: the Peers whose
            \* remoteClientIdFilter matches the other; rightId: the dialer
            \* knows the id of the node it has reached
    peer,   \* the two Peers
    data,   \* data[p]: _socketData, in frames; not empty in a data callback
    wire,   \* wire[p]: frames on their way to p
    dead,   \* processes that have stopped
    sent    \* sent[p]: number of subprotocol messages that p has sent

vars == <<setup, peer, data, wire, dead, sent>>

(***************************************************************************)
(* A Peer.  mode: _state, where "frames" is Header or Body, and "lost" a   *)
(* parser that has left its input in place, so that the loop finds the     *)
(* same bytes for ever.  tick: the nextTick callback that is due.  we:     *)
(* _disconnectWe.  ending: the timer that will call socket.end().  ended:  *)
(* socket.end() has been called; gone: the socket has emitted 'close'.     *)
(* emitted: the events that the Peer has emitted.                          *)
(***************************************************************************)
Message == [cap : Capability, code : Nat]

PeerState ==
    [mode : {"auth", "ack", "frames", "lost"}, tick : {"none", "ack", "hello"},
     weHello : BOOLEAN, hello : BOOLEAN, protocols : SUBSET Capability,
     connected : BOOLEAN, pinging : BOOLEAN, waiting : BOOLEAN,
     closed : BOOLEAN, reason : Reasons \cup {"none"}, we : {"unset", "we", "they"},
     ending : BOOLEAN, ended : BOOLEAN, gone : BOOLEAN,
     emitted : SUBSET {"connect", "close"}]

NewPeer(mode) ==
    [mode |-> mode, tick |-> "none", weHello |-> FALSE, hello |-> FALSE,
     protocols |-> {}, connected |-> FALSE, pinging |-> FALSE, waiting |-> FALSE,
     closed |-> FALSE, reason |-> "none", we |-> "unset",
     ending |-> FALSE, ended |-> FALSE, gone |-> FALSE, emitted |-> {}]

Plain(kind)   == [kind |-> kind]
Bye(reason)   == [kind |-> "DISCONNECT", reason |-> reason]
Sub(code, m)  == [kind |-> "SUB", code |-> code, meant |-> m]

Init ==
    /\ setup \in Setups
    /\ peer = [dialer |-> NewPeer("ack"), listener |-> NewPeer("auth")]
    /\ data = [p \in Sides |-> <<>>]
    /\ wire = [dialer |-> <<>>, listener |-> <<Plain("AUTH")>>]
    /\ dead = {}
    /\ sent = [p \in Sides |-> 0]

\* A callback of p may start.
Idle(p) ==
    p \notin dead /\ ~peer[p].gone /\ data[p] = <<>> /\ peer[p].tick = "none"

\* p writes frames; a socket that is closed, or whose process is gone, reads
\* none of them.
Write(p, frames) ==
    wire' = IF peer[Other(p)].gone \/ Other(p) \in dead THEN wire
            ELSE [wire EXCEPT ![Other(p)] = @ \o frames]

-----------------------------------------------------------------------------
(* Disconnecting *)

\* Mutants: DISCONNECT on a closed Peer; a Peer that never ends its socket.
Disconnected_Again(s, reason) ==
    [s EXCEPT !.closed = TRUE, !.reason = reason, !.we = "we", !.ending = TRUE]
Disconnected_NoEnd(s, reason) ==
    IF s.closed THEN s ELSE [s EXCEPT !.closed = TRUE, !.reason = reason, !.we = "we"]

\* _sendDisconnect on a Peer s: what it becomes.
Disconnected(s, reason) ==
    IF s.closed THEN s
    ELSE [s EXCEPT !.closed = TRUE, !.reason = reason, !.we = "we", !.ending = TRUE]

\* Mutant: DISCONNECT is written on a closed Peer.
Farewell_Again(s, reason) == <<Bye(reason)>>

\* What _sendDisconnect writes.
Farewell(s, reason) == IF s.closed THEN <<>> ELSE <<Bye(reason)>>

\* p calls disconnect().
Disconnect(p, reason) ==
    /\ peer' = [peer EXCEPT ![p] = Disconnected(@, reason)]
    /\ Write(p, Farewell(peer[p], reason))

\* s emits 'connect'; RLPx may refuse the connection at once.
Connected(s, refuse) ==
    LET t == [s EXCEPT !.emitted = @ \cup {"connect"}]
    IN  IF refuse THEN Disconnected(t, "refused") ELSE t

ByeIf(s, refuse) == IF refuse THEN Farewell(s, "refused") ELSE <<>>

-----------------------------------------------------------------------------
(* The loop of _onSocketData *)

\* Mutant: the last message of a chunk waits for the next chunk.
Reads_NotLast(p, mode, kind) ==
    /\ p \notin dead
    /\ data[p] # <<>>
    /\ peer[p].mode = mode
    /\ Head(data[p]).kind = kind
    /\ kind = "SUB" => Len(data[p]) > 1

\* A pass of the loop of p, for a frame of this kind.
Reads(p, mode, kind) ==
    /\ p \notin dead
    /\ data[p] # <<>>
    /\ peer[p].mode = mode
    /\ Head(data[p]).kind = kind

Consume(p) == data' = [data EXCEPT ![p] = Tail(@)]

\* An AUTH for another node's key cannot be decrypted: parseAuthEIP8 throws
\* before anything is consumed.
ReadAuth(p) ==
    /\ Reads(p, "auth", "AUTH")
    /\ IF setup.rightId
       THEN /\ peer' = [peer EXCEPT ![p].mode = "frames", ![p].tick = "ack"]
            /\ Consume(p)
       ELSE /\ peer' = [peer EXCEPT ![p].mode = "lost"]
            /\ UNCHANGED data
    /\ UNCHANGED <<setup, wire, dead, sent>>

ReadAck(p) ==
    /\ Reads(p, "ack", "ACK")
    /\ peer' = [peer EXCEPT ![p].mode = "frames", ![p].tick = "hello"]
    /\ Consume(p)
    /\ UNCHANGED <<setup, wire, dead, sent>>

\* Mutant: 'connect' after our own HELLO alone.
Greeted_OursOnly(s) == s.weHello

\* 'connect' needs both HELLOs.
Greeted(s) == s.hello /\ s.weHello

ReadHello(p, refuse) ==
    LET shared == IF p \in setup.filters THEN {}
                  ELSE Shared(setup.caps[p], setup.caps[Other(p)])
        heard  == [peer[p] EXCEPT !.hello = TRUE, !.protocols = shared]
        up     == [heard EXCEPT !.connected = TRUE, !.pinging = TRUE]
    IN  /\ Reads(p, "frames", "HELLO")
        /\ refuse => shared # {} /\ Greeted(heard)
        /\ peer' = [peer EXCEPT ![p] =
                      IF shared = {} THEN Disconnected(heard, "useless")
                      ELSE IF Greeted(heard) THEN Connected(up, refuse) ELSE up]
        /\ Write(p, IF shared = {} THEN Farewell(heard, "useless") ELSE ByeIf(up, refuse))
        /\ Consume(p)
        /\ UNCHANGED <<setup, dead, sent>>

\* DISCONNECT carries the reason itself and not a list of it, so payload[0]
\* is a number, whose element [0] is undefined: no reason is heard.  Reason 0
\* is encoded as nothing; payload[0] is then undefined, and asking for its
\* length throws after _closed is set.
ReadDisconnect(p) ==
    LET told == [peer[p] EXCEPT !.closed = TRUE]
    IN  /\ Reads(p, "frames", "DISCONNECT")
        /\ peer' = [peer EXCEPT ![p] =
                      IF Head(data[p]).reason = "requested" THEN told
                      ELSE [told EXCEPT !.we = "they", !.reason = "none", !.ended = TRUE]]
        /\ Consume(p)
        /\ UNCHANGED <<setup, wire, dead, sent>>

\* _handleBody finds a handler for the frame f.
Routable(s, f) ==
    /\ s.hello
    /\ f.kind = "SUB" => Routed(s.protocols, f.code) # {}

ReadPing(p) ==
    /\ Reads(p, "frames", "PING")
    /\ Routable(peer[p], Head(data[p]))
    /\ Write(p, IF peer[p].closed THEN <<>> ELSE <<Plain("PONG")>>)
    /\ Consume(p)
    /\ UNCHANGED <<setup, peer, dead, sent>>

ReadPong(p) ==
    /\ Reads(p, "frames", "PONG")
    /\ Routable(peer[p], Head(data[p]))
    /\ peer' = [peer EXCEPT ![p].waiting = FALSE]
    /\ Consume(p)
    /\ UNCHANGED <<setup, wire, dead, sent>>

\* A message goes to its subprotocol, which may throw, and from there to the
\* application, which may call disconnect().
ReadSub(p, outcome) ==
    /\ Reads(p, "frames", "SUB")
    /\ Routable(peer[p], Head(data[p]))
    /\ IF outcome = "fine" THEN UNCHANGED <<peer, wire>> ELSE Disconnect(p, outcome)
    /\ Consume(p)
    /\ UNCHANGED <<setup, dead, sent>>

\* A frame without a handler gets DISCONNECT, and _handleBody returns before
\* it consumes the frame: the loop will read its body as a header, for ever.
ReadUnroutable(p) ==
    \E kind \in {"PING", "PONG", "SUB"} :
        /\ Reads(p, "frames", kind)
        /\ ~Routable(peer[p], Head(data[p]))
        /\ peer' = [peer EXCEPT ![p] = [Disconnected(@, "protocol") EXCEPT !.mode = "lost"]]
        /\ Write(p, Farewell(peer[p], "protocol"))
        /\ UNCHANGED <<setup, data, dead, sent>>

Read(p) ==
    \/ ReadAuth(p)
    \/ ReadAck(p)
    \/ \E refuse \in BOOLEAN : ReadHello(p, refuse)
    \/ ReadDisconnect(p)
    \/ ReadPing(p)
    \/ ReadPong(p)
    \/ \E outcome \in {"fine", "subprotocol", "requested"} : ReadSub(p, outcome)
    \/ ReadUnroutable(p)

\* The nextTick callback: _sendAck, which sends HELLO too, or _sendHello.
Tick(p, refuse) ==
    LET s     == peer[p]
        idle  == [s EXCEPT !.tick = "none"]
        hailed == [idle EXCEPT !.weHello = TRUE]
    IN  /\ p \notin dead
        /\ data[p] = <<>>
        /\ s.tick # "none"
        /\ refuse => ~s.closed /\ Greeted(hailed)
        /\ IF s.closed
           THEN /\ peer' = [peer EXCEPT ![p] = idle]
                /\ UNCHANGED wire
           ELSE /\ peer' = [peer EXCEPT ![p] = IF Greeted(hailed) THEN Connected(hailed, refuse)
                                               ELSE hailed]
                /\ Write(p, (IF s.tick = "ack" THEN <<Plain("ACK")>> ELSE <<>>)
                              \o <<Plain("HELLO")>> \o ByeIf(hailed, refuse))
        /\ UNCHANGED <<setup, data, dead, sent>>

-----------------------------------------------------------------------------
(* The socket *)

\* Mutant: a closed Peer handles what it receives.
Appended_Closed(s, frames) == frames

\* A closed Peer drops what it receives.
Appended(s, frames) == IF s.closed THEN <<>> ELSE frames

\* 'data': TCP delivers some of the frames.
Receive(p) ==
    /\ Idle(p)
    /\ \E n \in 1..Len(wire[p]) :
         /\ data' = [data EXCEPT ![p] = Appended(peer[p], SubSeq(wire[p], 1, n))]
         /\ wire' = [wire EXCEPT ![p] = SubSeq(@, n + 1, Len(@))]
    /\ UNCHANGED <<setup, peer, dead, sent>>

\* _onSocketClose.
Closed(s) ==
    [s EXCEPT !.gone = TRUE, !.ended = TRUE, !.closed = TRUE,
              !.pinging = FALSE, !.waiting = FALSE,
              !.emitted = IF s.connected THEN @ \cup {"close"} ELSE @]

\* 'close' once the other side has ended and all that it sent has been read.
SocketClose(p) ==
    /\ Idle(p)
    /\ peer[Other(p)].ended
    /\ wire[p] = <<>>
    /\ peer' = [peer EXCEPT ![p] = Closed(@)]
    /\ UNCHANGED <<setup, data, wire, dead, sent>>

\* The connection breaks: 'error' and 'close'.
Break(p) ==
    /\ Idle(p)
    /\ peer' = [peer EXCEPT ![p] = Closed(@)]
    /\ wire' = [wire EXCEPT ![p] = <<>>]
    /\ UNCHANGED <<setup, data, dead, sent>>

\* The process of p stops, and its host with it: no FIN is sent.
Crash(p) ==
    /\ p \notin dead
    /\ dead' = dead \cup {p}
    /\ UNCHANGED <<setup, peer, data, wire, sent>>

-----------------------------------------------------------------------------
(* Timers and the application *)

\* Mutant: a PING without a timeout.
Asked_NoTimeout(s) == s

\* A PING sets the timeout anew.
Asked(s) == [s EXCEPT !.waiting = TRUE]

\* The interval of PINGs.
Ping(p) ==
    /\ Idle(p)
    /\ peer[p].pinging
    /\ ~peer[p].closed
    /\ TimeoutFirst => ~peer[p].waiting
    /\ \A k \in DOMAIN wire[Other(p)] : wire[Other(p)][k].kind # "PING"   \* bound
    /\ peer' = [peer EXCEPT ![p] = Asked(@)]
    /\ Write(p, <<Plain("PING")>>)
    /\ UNCHANGED <<setup, data, dead, sent>>

\* The timeout comes only if it is before the next PING.
PingTimeout(p) ==
    /\ Idle(p)
    /\ peer[p].waiting
    /\ TimeoutFirst
    /\ Disconnect(p, "timeout")
    /\ UNCHANGED <<setup, data, dead, sent>>

\* socket.end(), 2 s after DISCONNECT was sent.
End(p) ==
    /\ Idle(p)
    /\ peer[p].ending
    /\ peer' = [peer EXCEPT ![p].ending = FALSE, ![p].ended = TRUE]
    /\ UNCHANGED <<setup, data, wire, dead, sent>>

\* The application, which got the Peer from 'connect', disconnects it.
Leave(p) ==
    /\ Idle(p)
    /\ "connect" \in peer[p].emitted
    /\ Disconnect(p, "requested")
    /\ UNCHANGED <<setup, data, dead, sent>>

\* Mutant: a closed Peer sends.
MaySend_Closed(s) == "connect" \in s.emitted

\* The application has got the Peer s, and _sendMessage will send on it.
MaySend(s) == "connect" \in s.emitted /\ ~s.closed

\* The application sends a message of the subprotocol c.
Send(p, c, code) ==
    /\ Idle(p)
    /\ MaySend(peer[p])
    /\ Sendable(c, code)
    /\ sent[p] < MaxSub[p]
    /\ sent' = [sent EXCEPT ![p] = @ + 1]
    /\ Write(p, <<Sub(Offset(peer[p].protocols, c) + code, [cap |-> c, code |-> code])>>)
    /\ UNCHANGED <<setup, peer, data, dead>>

Next ==
    \E p \in Sides :
        \/ Read(p)
        \/ \E refuse \in BOOLEAN : Tick(p, refuse)
        \/ Receive(p)
        \/ SocketClose(p)
        \/ Break(p)
        \/ Crash(p)
        \/ Ping(p)
        \/ PingTimeout(p)
        \/ End(p)
        \/ Leave(p)
        \/ \E c \in peer[p].protocols : \E code \in Codes[c] : Send(p, c, code)

Spec == Init /\ [][Next]_vars

\* A process that is alive runs its callbacks and its timers, and TCP delivers
\* what was written.
FairSpec ==
    /\ Spec
    /\ \A p \in Sides :
         /\ WF_vars(Read(p))
         /\ WF_vars(\E refuse \in BOOLEAN : Tick(p, refuse))
         /\ WF_vars(Receive(p))
         /\ WF_vars(SocketClose(p))
         /\ WF_vars(Ping(p))
         /\ WF_vars(PingTimeout(p))
         /\ WF_vars(End(p))

-----------------------------------------------------------------------------
(* Properties *)

Frame == [kind : {"AUTH", "ACK", "HELLO", "PING", "PONG"}]
         \cup [kind : {"DISCONNECT"}, reason : Reasons]
         \cup [kind : {"SUB"}, code : Nat, meant : Message]

TypeOK ==
    /\ setup \in Setups
    /\ peer \in [Sides -> PeerState]
    /\ data \in [Sides -> Seq(Frame)]
    /\ wire \in [Sides -> Seq(Frame)]
    /\ dead \subseteq Sides
    /\ sent \in [Sides -> Nat]

\* Frames that p has not handled yet, in the order in which they were sent.
Coming(p) == data[p] \o wire[p]

\* CHANGELOG.md: "Only send connect event after both HELLO msgs are exchanged".
\* The nextTick that sends HELLO, the HELLO of the remote in the same chunk as
\* its ACK, and the order of 'connect' and of the first message all matter:
\* a message reaches a subprotocol only after 'connect', and 'close' comes
\* only to a Peer that was connected.
StartInOrder ==
    \A p \in Sides :
        LET s == peer[p]
        IN  /\ "connect" \in s.emitted => s.hello /\ s.weHello /\ s.protocols # {}
            /\ "close" \in s.emitted => "connect" \in s.emitted
            /\ Reads(p, "frames", "SUB") /\ Routable(s, Head(data[p]))
                  => "connect" \in s.emitted

\* The two Peers, each from its own list and from the other's HELLO, number
\* the messages alike: every message on its way will be handed to the
\* subprotocol, with the code, that the sender meant.
RoutedAsSent ==
    \A p \in Sides : \A k \in DOMAIN Coming(p) :
        LET f  == Coming(p)[k]
            at == Routed(peer[p].protocols, f.code)
        IN  f.kind = "SUB" /\ "connect" \in peer[p].emitted =>
              /\ at = {f.meant.cap}
              /\ f.code - Offset(peer[p].protocols, f.meant.cap) = f.meant.code

\* A Peer says goodbye once, and nothing after it, though a chunk that it is
\* handling goes on after disconnect() and its timers are still set.
LastIsDisconnect ==
    \A p \in Sides : \A k \in DOMAIN Coming(p) :
        Coming(p)[k].kind = "DISCONNECT" => k = Len(Coming(p))

\* Only one side is told that the other has disconnected, and that other
\* holds that it did so itself, though both can send DISCONNECT at the same
\* time, and one of them while it handles a chunk that holds the other's.
OneDisconnects ==
    \A p \in Sides : peer[p].we = "they" => peer[Other(p)].we = "we"

\* The loop of p's data callback has met a frame that it does not consume:
\* it never ends, and nothing else of p's process gets a turn.
Stuck(p) == peer[p].mode = "lost"

\* A Peer that has sent DISCONNECT ends its socket, 2 s later, if its process
\* is not stuck.
DisconnectEnds ==
    \A p \in Sides : peer[p].we = "we" ~> peer[p].ended \/ Stuck(p) \/ p \in dead

\* When a DISCONNECT was sent, both sockets are closed in the end.
BothClose ==
    \A p \in Sides :
        peer[p].closed ~> \/ \A q \in Sides : peer[q].gone
                         \/ \E q \in Sides : Stuck(q) \/ q \in dead

\* peer.ts: "Send DISCONNECT message", and then the socket is ended.  Without
\* the exception that DisconnectEnds makes: a Peer that has turned the other
\* away is rid of it.
TurnedAwayIsCutOff ==
    \A p \in Sides : peer[p].we = "we" ~> peer[p].ended \/ p \in dead
=============================================================================
