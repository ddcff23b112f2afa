-------------------------------- MODULE RLPx --------------------------------
(***************************************************************************)
(* The connection manager of one node (src/src/rlpx/rlpx.ts): the table of *)
(* peers, the queue of discovered nodes that wait for a slot, and every    *)
(* callback of a TCP socket, of a Peer and of the discovery table that     *)
(* changes them.                                                           *)
(*                                                                         *)
(* JavaScript runs a callback to its end, so a callback is one step; what  *)
(* interleaves is their order.  A socket is a handle in Conns; a handle    *)
(* whose socket has closed can be given to a new socket.  The protocol     *)
(* that takes a connected socket to the 'connect' event of its Peer is     *)
(* abstracted to the step EmitConnect.                                     *)
(***************************************************************************)
EXTENDS Naturals, Sequences, FiniteSets, Functions, Filter

CONSTANTS
    Nodes,      \* identities of the nodes that this one hears of
    Self,       \* its own identity; a discovered node may have it
    Conns,      \* handles of TCP sockets
    NoId,       \* the identity of an inbound peer that has not said HELLO
    Free,       \* what peers[i] holds when the table has no entry for i
    MaxPeers,   \* options.maxPeers
    MaxQueue    \* bound of the model: length of the queue of nodes

ASSUME MaxPeersAssumption == MaxPeers \in Nat \ {0}
ASSUME NodesAssumption    == IsFiniteSet(Nodes) /\ NoId \notin Nodes
ASSUME FreeAssumption     == Free \notin [conn : Conns, isPeer : BOOLEAN]

VARIABLES
    alive,      \* the server exists: destroy() has not been called
    peers,      \* _peers: identity -> Free, a raw socket or a Peer
    queue,      \* _peersQueue; an item is ready when its ts has passed
    seen,       \* _peersLRU: identities that discovery has announced once
    sock,       \* the sockets, each with the Peer on top of it
    app         \* identities the application holds to be connected, from
                \* the events peer:added and peer:removed

vars == <<alive, peers, queue, seen, sock, app>>

(***************************************************************************)
(* A socket.  kind: a dial of the application or of _connectToPeer, which  *)
(* is "outbound" once connect()'s promise is settled; an accepted socket;  *)
(* an accepted socket that found the table full.  phase: TCP connect under *)
(* way, promise rejected with the socket still open, RLPx handshake,       *)
(* 'connect' emitted.  closing: who sent DISCONNECT, and whether the       *)
(* remote's reason was TOO_MANY_PEERS.                                     *)
(***************************************************************************)
Kinds    == {"app", "auto", "outbound", "inbound", "excess"}
Phases   == {"unused", "dialing", "rejected", "handshake", "up"}
Closings == {"none", "we", "they", "tooMany"}

Socket == [phase : Phases, kind : Kinds, rid : Nodes \cup {NoId},
           closing : Closings, announced : BOOLEAN]

Closed == [phase |-> "unused", kind |-> "inbound", rid |-> NoId,
           closing |-> "none", announced |-> FALSE]

Opened(phase, kind, id) ==
    [Closed EXCEPT !.phase = phase, !.kind = kind, !.rid = id]

Outbound(c) == sock[c].kind \in {"app", "auto", "outbound"}
Unused      == {c \in Conns : sock[c].phase = "unused"}

Entry == [conn : Conns, isPeer : BOOLEAN]
Item  == [id : Nodes, ready : BOOLEAN]

RawSocket(c) == [conn |-> c, isPeer |-> FALSE]
PeerOn(c)    == [conn |-> c, isPeer |-> TRUE]

Taken(table)     == {i \in Nodes : table[i] # Free}
OpenSlots(table) == IF Cardinality(Taken(table)) < MaxPeers
                    THEN MaxPeers - Cardinality(Taken(table)) ELSE 0

HasPeer(i) == peers[i] # Free /\ peers[i].isPeer

Init ==
    /\ alive = TRUE
    /\ peers = [i \in Nodes |-> Free]
    /\ queue = <<>>
    /\ seen = {}
    /\ sock = [c \in Conns |-> Closed]
    /\ app = {}

-----------------------------------------------------------------------------
(* The queue *)

Without(q, i) == Kept(q, {k \in DOMAIN q : q[k].id # i})

Queued(i) == \E k \in DOMAIN queue : queue[k].id = i

\* Bound of the model: items that are, or will be when a refused socket
\* closes, in the queue.
QueueHasRoom ==
    Len(queue) + Cardinality({c \in Conns : sock[c].closing = "tooMany"}) < MaxQueue

(***************************************************************************)
(* _refillConnections filters the queue.  The pass reaches an item with    *)
(* the slots that the dials of the items before it have left; it keeps an  *)
(* item when no slot is left or its time has not come, otherwise it drops  *)
(* the item and calls connect(), which throws for a node that already has  *)
(* an entry and opens a socket for any other.                              *)
(***************************************************************************)
DialedBy(table, k) ==
    {i \in Nodes \ Taken(table) : \E j \in 1..k : queue[j].id = i /\ queue[j].ready}

\* Mutants: a refill that ignores the slots, and one that spares one.
ReachedWithSlot_NoCheck(table) == Len(queue)
ReachedWithSlot_SpareOne(table) ==
    Cardinality({k \in DOMAIN queue :
                    Cardinality(DialedBy(table, k - 1)) + 1 < OpenSlots(table)})

ReachedWithSlot(table) ==
    Cardinality({k \in DOMAIN queue :
                    Cardinality(DialedBy(table, k - 1)) < OpenSlots(table)})

Dialed(table) == DialedBy(table, ReachedWithSlot(table))

\* Mutant: the time of an item is not looked at before the item is dropped.
Refilled_DropDelayed(table) ==
    Kept(queue, {k \in DOMAIN queue : k > ReachedWithSlot(table)})

Refilled(table) ==
    Kept(queue, {k \in DOMAIN queue : k > ReachedWithSlot(table) \/ ~queue[k].ready})

\* f gives a new socket to each identity that a step dials.
WithDials(table, f) ==
    [i \in Nodes |-> IF i \in DOMAIN f THEN RawSocket(f[i]) ELSE table[i]]

WithSockets(socks, f) ==
    [c \in Conns |-> IF \E i \in DOMAIN f : f[i] = c
                     THEN Opened("dialing", "auto", CHOOSE i \in DOMAIN f : f[i] = c)
                     ELSE socks[c]]

-----------------------------------------------------------------------------
(* Calls of the application *)

\* connect(): the synchronous part, up to the await.
Connect(i, c) ==
    /\ alive
    /\ peers[i] = Free
    /\ OpenSlots(peers) > 0
    /\ c \in Unused
    /\ peers' = [peers EXCEPT ![i] = RawSocket(c)]
    /\ sock' = [sock EXCEPT ![c] = Opened("dialing", "app", i)]
    /\ UNCHANGED <<alive, queue, seen, app>>

\* disconnect(): only a Peer is told; _sendDisconnect does nothing on a Peer
\* that is closing already.
Disconnect(i) ==
    /\ HasPeer(i)
    /\ sock[peers[i].conn].closing = "none"
    /\ sock' = [sock EXCEPT ![peers[i].conn].closing = "we"]
    /\ UNCHANGED <<alive, peers, queue, seen, app>>

\* destroy(): stops the refill timer and the server, disconnects the Peers of
\* the table; the raw sockets of the table stay.
Destroy ==
    /\ alive
    /\ alive' = FALSE
    /\ sock' = [c \in Conns |->
                  IF sock[c].closing = "none" /\ \E i \in Nodes : peers[i] = PeerOn(c)
                  THEN [sock[c] EXCEPT !.closing = "we"] ELSE sock[c]]
    /\ UNCHANGED <<peers, queue, seen, app>>

-----------------------------------------------------------------------------
(* Events of a socket *)

\* The TCP connection of a dial is up: deferred.resolve, then _onConnect.
Established(c) ==
    /\ sock[c].phase = "dialing"
    /\ sock' = [sock EXCEPT ![c].phase = "handshake", ![c].kind = "outbound"]
    /\ UNCHANGED <<alive, peers, queue, seen, app>>

\* 'error' or the timeout of a dial: connect() rejects, the socket and its
\* entry stay.  _connectToPeer bans the node on ECONNRESET and on a timeout;
\* if the node was in the discovery table, peer:removed clears it from the
\* queue.
DialRejected(c, dropped) ==
    /\ sock[c].phase = "dialing"
    /\ dropped => sock[c].kind = "auto"
    /\ sock' = [sock EXCEPT ![c].phase = "rejected", ![c].kind = "outbound"]
    /\ queue' = IF dropped THEN Without(queue, sock[c].rid) ELSE queue
    /\ UNCHANGED <<alive, peers, seen, app>>

\* The server's 'connection' event: _onConnect with no peerId.  Capacity is
\* checked here, not when the handshake ends.
Accept(c) ==
    /\ alive
    /\ c \in Unused
    /\ sock' = [sock EXCEPT ![c] =
                  Opened("handshake",
                         IF OpenSlots(peers) = 0 THEN "excess" ELSE "inbound", NoId)]
    /\ UNCHANGED <<alive, peers, queue, seen, app>>

\* Mutant: no ALREADY_CONNECTED.
Refused_SelfOnly(i) == i = Self

\* The two refusals of the 'connect' listener: SAME_IDENTITY, ALREADY_CONNECTED.
Refused(i) == i = Self \/ HasPeer(i)

\* Mutant: an inbound Peer does not take over the identity in HELLO.
RemoteId_NotTaken(c, helloId) == sock[c].rid

\* The identity of a Peer that has accepted a HELLO: an inbound Peer takes the
\* one in HELLO, an outbound Peer has insisted on the one it dialed.
RemoteId(c, helloId) == helloId

\* The Peer emits 'connect' after both HELLOs, for the remote identity i.
\* next is what follows HELLO in the same chunk of data: nothing, or the
\* remote's DISCONNECT, which the parse loop still handles.
EmitConnect(c, i, next) ==
    LET listed == ~Refused(i)
    IN  /\ sock[c].phase = "handshake"
        /\ sock[c].kind # "excess"
        /\ Outbound(c) => i = sock[c].rid
        /\ next = "tooMany" => QueueHasRoom
        /\ sock' = [sock EXCEPT ![c].phase = "up",
                                ![c].rid = RemoteId(c, i),
                                ![c].announced = listed,
                                ![c].closing = IF next = "none" /\ ~listed THEN "we" ELSE next]
        /\ peers' = IF listed THEN [peers EXCEPT ![i] = PeerOn(c)] ELSE peers
        /\ app' = IF listed THEN app \cup {i} ELSE app
        /\ UNCHANGED <<alive, queue, seen>>

\* A dial can find HELLO and DISCONNECT in one chunk with ACK.  Its own HELLO,
\* put off to the next tick, is then not sent and 'connect' not emitted, but
\* the Peer has got its HELLO and will emit 'close'.
DisconnectBeforeConnect(c, reason) ==
    /\ sock[c].phase = "handshake"
    /\ Outbound(c)
    /\ reason = "tooMany" => QueueHasRoom
    /\ sock' = [sock EXCEPT ![c].phase = "up", ![c].closing = reason]
    /\ UNCHANGED <<alive, peers, queue, seen, app>>

\* The 'connect' of a socket accepted when the table was full: TOO_MANY_PEERS.
\* _onConnect has set no other listener, so nobody asks for its identity.
TurnAway(c) ==
    /\ sock[c].phase = "handshake"
    /\ sock[c].kind = "excess"
    /\ sock' = [sock EXCEPT ![c].phase = "up", ![c].closing = "we"]
    /\ UNCHANGED <<alive, peers, queue, seen, app>>

\* A ping timeout or a protocol error: the Peer sends DISCONNECT.
PeerGivesUp(c) ==
    /\ sock[c].phase = "up"
    /\ sock[c].closing = "none"
    /\ sock' = [sock EXCEPT ![c].closing = "we"]
    /\ UNCHANGED <<alive, peers, queue, seen, app>>

\* DISCONNECT from the remote, for any reason.
RemoteDisconnect(c, reason) ==
    /\ sock[c].phase = "up"
    /\ sock[c].closing = "none"
    /\ reason = "tooMany" => QueueHasRoom
    /\ sock' = [sock EXCEPT ![c].closing = reason]
    /\ UNCHANGED <<alive, peers, queue, seen, app>>

\* Mutant: the close of a Peer whose entry is gone tells nobody.
Reported_Listed(c) ==
    sock[c].phase = "up" /\ sock[c].kind # "excess" /\ peers[sock[c].rid] # Free

\* The Peer emits 'close' if it got its HELLO; _onConnect listens to it unless
\* it returned early.
Reported(c) == sock[c].phase = "up" /\ sock[c].kind # "excess"

\* Mutants: a 'close' listener that does not free the entry.
AfterConnectClose_Keeps(c) == peers
AfterPeerClose_Keeps(c, table) == table

\* The table after the 'close' listener of connect(), before its refill.
AfterConnectClose(c) ==
    IF Outbound(c) THEN [peers EXCEPT ![sock[c].rid] = Free] ELSE peers

\* The table after the 'close' listener of the Peer.
AfterPeerClose(c, table) ==
    IF Reported(c) THEN [table EXCEPT ![sock[c].rid] = Free] ELSE table

(***************************************************************************)
(* 'close'.  The listener of connect() runs first: it frees the entry of   *)
(* the node, whoever holds it now, and refills.  The listener of the Peer  *)
(* runs next: it queues a node that said TOO_MANY_PEERS, frees the entry   *)
(* again, and emits peer:removed.                                          *)
(***************************************************************************)
SocketClose(c) ==
    LET refills == Outbound(c) /\ alive
        table   == AfterConnectClose(c)
        ids     == IF refills THEN Dialed(table) ELSE {}
        left    == IF refills THEN Refilled(table) ELSE queue
    IN  /\ sock[c].phase \in {"rejected", "handshake", "up"}
        /\ \E f \in Injection(ids, Unused \cup {c}) :
             /\ sock' = WithSockets([sock EXCEPT ![c] = Closed], f)
             /\ peers' = AfterPeerClose(c, WithDials(table, f))
        /\ queue' = IF Reported(c) /\ sock[c].closing = "tooMany"
                    THEN Append(left, [id |-> sock[c].rid, ready |-> FALSE]) ELSE left
        /\ app' = IF Reported(c) THEN app \ {sock[c].rid} ELSE app
        /\ UNCHANGED <<alive, seen>>

-----------------------------------------------------------------------------
(* Timers and the discovery table *)

\* The interval timer of the constructor, which destroy() clears.
RefillTick ==
    /\ alive
    /\ \E f \in Injection(Dialed(peers), Unused) :
         /\ sock' = WithSockets(sock, f)
         /\ peers' = WithDials(peers, f)
    /\ queue' = Refilled(peers)
    /\ UNCHANGED <<alive, seen, app>>

\* The ts of the oldest delayed item passes.  Delays are equal, so they end in
\* the order of the queue.
BackoffElapses ==
    \E k \in DOMAIN queue :
        /\ ~queue[k].ready
        /\ \A j \in 1..(k - 1) : queue[j].ready
        /\ queue' = [queue EXCEPT ![k].ready = TRUE]
        /\ UNCHANGED <<alive, peers, seen, sock, app>>

\* peer:new of the discovery table.  A node is taken up once; connect() throws
\* if it has an entry or the server is gone, and the error is dropped.
PeerNew(i) ==
    /\ i \notin seen
    /\ seen' = seen \cup {i}
    /\ IF OpenSlots(peers) > 0
       THEN /\ \E f \in Injection(IF alive /\ peers[i] = Free THEN {i} ELSE {}, Unused) :
                 /\ sock' = WithSockets(sock, f)
                 /\ peers' = WithDials(peers, f)
            /\ queue' = queue
       ELSE /\ QueueHasRoom
            /\ queue' = Append(queue, [id |-> i, ready |-> TRUE])
            /\ UNCHANGED <<peers, sock>>
    /\ UNCHANGED <<alive, app>>

\* peer:removed of the discovery table; it is also what a ban causes, that of
\* a peer:new without a TCP port among them.
DptRemoved(i) ==
    /\ Queued(i)
    /\ queue' = Without(queue, i)
    /\ UNCHANGED <<alive, peers, seen, sock, app>>

-----------------------------------------------------------------------------
Application ==
    \/ \E i \in Nodes, c \in Conns : Connect(i, c)
    \/ \E i \in Nodes : Disconnect(i)
    \/ Destroy

Network ==
    \E c \in Conns :
        \/ Established(c)
        \/ \E dropped \in BOOLEAN : DialRejected(c, dropped)
        \/ Accept(c)
        \/ \E i \in Nodes, next \in {"none", "they", "tooMany"} : EmitConnect(c, i, next)
        \/ \E reason \in {"they", "tooMany"} : DisconnectBeforeConnect(c, reason)
        \/ TurnAway(c)
        \/ PeerGivesUp(c)
        \/ \E reason \in {"they", "tooMany"} : RemoteDisconnect(c, reason)
        \/ SocketClose(c)

Discovery == \E i \in Nodes : PeerNew(i) \/ DptRemoved(i)

Next == Application \/ Network \/ Discovery \/ RefillTick \/ BackoffElapses

Spec == Init /\ [][Next]_vars

\* setInterval and the clock go on by themselves: a refill and the end of a
\* delay cannot be put off for ever.  Nothing is assumed of the network.
FairSpec == Spec /\ WF_vars(RefillTick) /\ WF_vars(BackoffElapses)

-----------------------------------------------------------------------------
(* Properties *)

TypeOK ==
    /\ alive \in BOOLEAN
    /\ peers \in [Nodes -> Entry \cup {Free}]
    /\ sock \in [Conns -> Socket]
    /\ seen \subseteq Nodes
    /\ app \subseteq Nodes
    /\ queue \in Seq(Item)

\* Slots are not leaked: every entry of _peers belongs to a socket that is
\* still open, to that very node, and whose close will free it; an entry that
\* is a Peer has been through the handshake and was announced.  The close
\* listeners of rlpx.ts delete by identity, whoever holds the entry, and two
\* of them run for one socket.
EntryHasOwner ==
    \A i \in Nodes : peers[i] # Free =>
        LET s == sock[peers[i].conn]
        IN  /\ s.phase # "unused"
            /\ s.rid = i
            /\ IF peers[i].isPeer THEN s.phase = "up" /\ s.announced
                                  ELSE Outbound(peers[i].conn)

\* The application is not left with a peer that is gone: whom it was told of by
\* peer:added, and not of the end by peer:removed, has a connection that is up.
\* An entry is deleted by the close of any socket of its node, and overwritten
\* by the Peer of another; whichever way it went, the close of the connection
\* itself has to tell the application.
AddedHasConnection ==
    \A i \in app : \E c \in Conns :
        sock[c].announced /\ sock[c].phase = "up" /\ sock[c].rid = i

\* getPeers() gives no peer of which the application was told peer:removed.
ListedIsAnnounced == \A i \in Nodes : HasPeer(i) => i \in app

Size == Cardinality(Taken(peers))

\* A new dial needs a live server, a slot for every dial of the pass, and a
\* node that has no entry, whichever of connect(), peer:new, the refill timer
\* and the refill of a close starts it.
DialWithinMax ==
    [][\A c \in Conns :
          LET dials == sock'[c].phase = "dialing" /\ sock[c].phase # "dialing"
          IN  dials => alive /\ Size' <= MaxPeers]_vars

\* A Peer of the table is not replaced by another Peer of the same node: the
\* second connection to a node is refused for as long as the first is listed.
NoPeerReplaced ==
    [][\A i \in Nodes : HasPeer(i) /\ HasPeer(i)' => peers'[i] = peers[i]]_vars

HasSocket(i) == \E c \in Conns : sock[c].rid = i

\* The discovery table, or a ban, takes i out of the queue.
Dropped(i) ==
    \/ DptRemoved(i)
    \/ \E c \in Conns : sock[c].rid = i /\ DialRejected(c, TRUE)

\* A node leaves the queue only for a socket to it, or because discovery
\* dropped it: the filter of _refillConnections, which discards items whose
\* connect() throws, loses nobody.
QueueNotLost ==
    [][\A i \in Nodes : Queued(i) /\ ~Queued(i)' => HasSocket(i)' \/ Dropped(i)]_vars

\* Bound of the model: a refill needs more handles than are left.
HandlesExhausted == Cardinality(Unused) < OpenSlots(peers)

Dialing(i) == \E c \in Conns : sock[c].rid = i /\ sock[c].phase = "dialing"

\* A queued node whose delay is over is tried, unless there is no slot: it
\* is dialed, has an entry or leaves the queue, whatever the network does.
\* (A dial that the refill of a close has started can be without an entry: the
\* second listener of the same close deletes it.)
QueuedIsTried ==
    \A i \in Nodes :
        (\E k \in DOMAIN queue : queue[k] = [id |-> i, ready |-> TRUE]) /\ alive
            ~> \/ Dialing(i) \/ peers[i] # Free \/ ~Queued(i)
               \/ OpenSlots(peers) = 0 \/ ~alive \/ HandlesExhausted

\* README.md: maxPeers is the maximum number of peer connections.
MaxPeersRespected == Cardinality({c \in Conns : sock[c].announced}) <= MaxPeers

\* README.md: peer:removed means "Disconnected from peer".
RemovedMeansDisconnected == \A c \in Conns : sock[c].announced => sock[c].rid \in app
=============================================================================
