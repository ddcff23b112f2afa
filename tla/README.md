# Verification of ethereumjs-devp2p

TLA+ models of the networking library `ethereumjs-devp2p`: the manager of RLPx
connections, the encrypted stream and the protocol of two RLPx peers, the STATUS
handshake of ETH and LES above them, and the discovery table. TLC checks them on
small instances; TLAPS proves every safety property that the passing runs check, and
the refinement of the peers, for every value of the constants.

## The system

| Part | State | Operations | Talks to |
| --- | --- | --- | --- |
| `RLPx` (`src/rlpx/rlpx.ts`) | `_peers`, `_peersQueue`, `_peersLRU`, a server, a refill timer | `connect`, `disconnect`, `destroy`; listeners of sockets, Peers and the DPT; the refill | owns the Peers; listens to `peer:new` and `peer:removed` of the DPT, calls `banPeer` |
| `Peer` (`src/rlpx/peer.ts`) | `_state`, `_socketData`, the two HELLOs, `_protocols`, `_closed`, `_connected`, the reason, ping timers | the loop of `_onSocketData` with a handler per message, `nextTick` callbacks, timers, `disconnect` | one socket; emits `connect`, `close`, `error` to RLPx; calls the subprotocols |
| Capabilities (`peer.ts`, `eth`, `les`) | none | agree on versions, number the messages | used by Peer |
| `DPT` (`src/dpt/dpt.ts`, `kbucket.ts`, `ban-list.ts`) | the table, the ban list | `addPeer` (asynchronous), `bootstrap`, `banPeer`, `removePeer`, `refresh`, `destroy` | calls `ping` of the server; emits `peer:new`, `peer:added`, `peer:removed` |
| UDP server (`src/dpt/server.ts`) | `_requests`, `_requestsCache`, `_parityRequestMap`, the socket | `ping`, `_handler`, timeouts, `destroy` | emits `peers` to the DPT |
| `ETH`, `LES` (`src/eth`, `src/les`) | both STATUS messages, a timer, the fork id | `sendStatus`, `sendMessage`, `_handleMessage` | Peer |
| `ECIES`, `MAC` (`src/rlpx`) | keys and running MACs | AUTH, ACK, headers, bodies | Peer |
| messages, utilities | none | encode, decode | all |

JavaScript runs one callback at a time, so what can go wrong is the order of
callbacks, state that is read before an `await` and used after it, and several
listeners on one event. `PROJECT.json` lists these hazards at their lines. In
short:

* RLPx: capacity is checked at accept and taken after the handshake; entries are
  deleted by identity, whichever socket closes; two listeners handle one close,
  with a refill between them; two connections to one node race.
* Peer: our HELLO is put off to the next tick; the read loop does not end on a
  frame that it does not consume; both sides may disconnect at once; a host may
  stop silently.
* DPT: `addPeer` decides before its `await` and acts after it; promises are
  shared and cached; two PINGs may have one hash; a PONG may be late, doubled or lost; `destroy` leaves pings
  pending; a full bucket takes an exception path.
* ETH/LES: `_handleStatus` runs in `sendStatus` and on a message, clears the timer
  before it compares, and throws to whoever called it; two nodes judge each other by
  fork ids of which each computes its own; a number may lose a digit on the way.
* ECIES: the listener has no keys until the `nextTick` after AUTH; ACK and HELLO come in
  one chunk or in pieces; a length is read before there is anything to check it with;
  MACs and key streams run on for the life of the connection and must never part.

## Modules

| Module | Content |
| --- | --- |
| `RLPx` | the connection manager of one node |
| `Filter` | `Array.prototype.filter`, as a recursive function: the queue of `RLPx`, the SUB frames of `SessionLink` |
| `Session` | the two Peers of one TCP connection |
| `Capabilities` | what two capability lists agree on, offsets, routing |
| `Link` | abstract: what two connected Peers promise to what is above them |
| `SessionLink` | the refinement mapping that shows `Session` to implement `Link` |
| `Status` | the STATUS handshake of ETH and LES, over `Link` |
| `ForkId` | the fork id of ETH/64 and its check |
| `Bytes` | numbers and buffers |
| `ECIES` | the encrypted stream below `Session`: AUTH, ACK, frames, the read loop |
| `DPT` | table, ban list, `addPeer`, and the pings of the UDP server |
| `MCRLPx`, `MCSession`, `MCStatus`, `MCECIES`, `MCDPT` | instances for TLC |
| `RLPx_proofs`, `Session_proofs`, `SessionLink_proofs`, `Status_proofs`, `ECIES_proofs`, `DPT_proofs` | theorems |
| `Induction_proofs`, `Filter_proofs` | lemmas: induction over numbers, recursive functions, sequences; the filter |

The layers are composed at their promises. `ECIES` shows that what is read is what
was sent, in order, or nothing more; `Session` begins there, with frames. `Session`
implements `Link`, and `Status` extends `Link`: the subprotocols see messages, not frames.
`RLPx` has of a Peer what it sees of it, its events.

### RLPx

`peers` is `_peers` (identity to nothing, a raw socket or a Peer), `queue` is
`_peersQueue` with `ready` for "`ts` has passed", `seen` is `_peersLRU`, and
`app` is what the application believes from `peer:added` and `peer:removed`.
`sock` is the state of every socket and of the Peer on it. A callback is one
step. `SocketClose` runs both `close` listeners in their order, the refill of
the first included; `EmitConnect` has the two refusals of the `connect`
listener, and a DISCONNECT that follows HELLO in the same chunk;
`DisconnectBeforeConnect` is the case in which the chunk that holds ACK also holds
HELLO and DISCONNECT, so that `close` comes without `connect`. A refill is a
function of the table and the queue: `ReachedWithSlot` says how many items the
filter reaches while slots are left, `Dialed` whom it dials, `Refilled` what stays.

What the remote and the network do is unrestricted: a dial may be established,
rejected or closed, a handshake may end or not, a DISCONNECT may come at any
time. A remote need not run this code, so it may say TOO_MANY_PEERS in the
encoding that `peer.ts` understands. Handles of sockets are reused. A handshake is
abstracted to its last step (`Session` has the rest), and a Peer whose read loop
never ends is not carried over to this module.

### Session

`peer[p]` has the fields of `Peer` that decide anything, `data[p]` is `_socketData`
in frames, `wire[p]` what TCP has still to deliver to `p`. One pass of the loop of
`_onSocketData` is one step; `Idle` keeps every other callback of that process
out until the loop and the `nextTick` it left are done, while the other process
goes on. `Receive` delivers any number of the frames in flight, which is where
"in the same chunk" comes from. `setup` fixes the capability lists, who filters
whom, and whether the dialer knows the right id. Sockets break (`Break`), hosts
stop without a FIN (`Crash`). Conversions are modelled by their result: in
`ReadDisconnect` the reason is lost, and reason 0 throws, as its encoding
and its decoding do not fit. A frame that `_handleBody` refuses is not consumed,
and the Peer is "lost": the loop has no end.

Both Peers run this code, so no AUTH is malformed and HELLO is sent once. The 5 s
timers of ETH and LES call `disconnect`, which to a Peer is what `PingTimeout` and
`Leave` do. Applications send between events. A listener that sends while its Peer is still in
a chunk (`peer.ts:386` and `499` call listeners) is not among the steps: its message would stand before,
and not behind, the PONG or DISCONNECT that the rest of the chunk makes the Peer write.

### Link and SessionLink

`Link` has four variables: who has emitted `connect` (`opened`), who has closed
(`closed`), whose chunk is through after that (`deaf`), and the messages on their way
(`queue`). Its steps say that nobody sends before `connect` or after closing, that messages
arrive in order, once each, and that one is dropped only with its receiver. A listener may
disconnect while it handles a message, and the rest of the chunk is handled still: that is
why `closed` and `deaf` are two things.

`SessionLink` maps `Session` to it. A message is a SUB frame, in the buffer or on the wire, and
once the receiver is connected it stands for what the receiver will make of it
(`Understood`), not for what the sender meant: a misrouted code would be a message that changes
on its way, which `Link` has no step for. `ImplementsLink` is the specification of `Link` under
this mapping. `Arrives` and `Parts` of `Link` are what an implementation owes besides
its steps; `MessagesArrive` and `PeersPart` say that `Session` pays.

### Status

`proto[p]` is the `ETH` or `LES` of one side: whether `_status` is set, and whether it was sent,
`_peerStatus`, the timer, the latest block, and what has come of it. `Handled` is
`_handleStatus`, which both `SendStatus` and `ReceiveStatus` call; what it throws ends in the
application in the first case, which is assumed to catch it, and in `disconnect` in the second.
`SendStatusThrows` has the two throws before anything is sent: ETH/64 checks the latest
block after it has set `_status`, and LES stumbles over an object that it has changed
itself in an earlier call. A chain is what decides: network, genesis, the blocks
of the forks that the node knows, how many of them are active, and the head.

`ForkId` computes the fork id that is sent and `_validateForkId`. A hash stands for the blocks of
the forks up to its own, so that equal hashes are equal histories. The next fork
block goes through `FromHex`, which drops the last digit of an odd number of them, as `sendStatus`
does, and comes back through `buffer2int`, for which an empty buffer is not a number.

### ECIES

Lengths are counted in bytes, because the read loop cuts packets out of chunks by
`_nextPacketSize`; values are symbols. `side[p]` has the fields of `ECIES` and what the loop of `Peer`
keeps; `stream[p]` the packets on their way, of which `arrived[p]` bytes are in `_socketData`. A round of the
loop is a step: `ReadLength` and `_handleAuth` or `_handleAck`, `_handleHeader`, `_handleBody`, or `Lose`, the round
that throws or finds no keys and so is repeated for ever. A MAC is the list of what was put into it under
a secret that names the two ephemeral keys and the two nonces in their order; a
cipher text carries its position in the key stream and reads as garbage at another.
`Damage` alters one packet anywhere on its way, and a dialer may have the wrong key of the
listener. A message may be longer than the three bytes of its size in the header can say.

### DPT

`table` is the set of nodes in the k-bucket, `banned` the ban list, `pings` all the
pings sent with what became of them, `cache` the promise that the next `ping` to
an endpoint shares, `calls` the invocations of `addPeer` that are at their `await`.
`requests` is `_requests`: under the hash of a PING, the ping whose promise an answer settles.
The hash is that of the bytes (the signature is deterministic), which hold the time in whole seconds and
an address with its ports, of which 0 and null are encoded alike: `Hash` gives two pings one hash if
they go out in one second (`since`) and `Encoded` is the same for their endpoints, be these
two endpoints of one node or one endpoint whose promise is no longer cached. The later request then takes
the place of the earlier. Timers run in the order in which they were set, and nothing clears them
(`fired`): `Timeout` deletes whatever request its hash leads to, rejects its own promise, and does nothing
if there is none.
`AddPeer` is the part before the `await`, `Resume` the part after it, with the
listener of `peer:new` in RLPx that bans a node without a TCP port. `Idle` lets
resumed calls go before the next event, as microtasks do. A PONG may come at any time and
any number of times, which is UDP, but not for a PING that had no port to go to; `Pong(k)` is the one
that finds a request, and any other changes nothing. `Keys` is empty for an object
without an id, because `getKeys` looks for a `port` that no such object has.

The Kademlia tree is one bucket of `BucketSize` nodes: a bucket that does not
contain the own id cannot be split, and its limit is what the code reacts to. The
second map of hashes, for Parity, is left out: it maps a hash to the request that
the plain hash would find.

## Runs

| Run | Specification | Checks | Result |
| --- | --- | --- | --- |
| `rlpx_pool` | `Spec` | `TypeOK EntryHasOwner AddedHasConnection ListedIsAnnounced DialWithinMax NoPeerReplaced QueueNotLost` | holds, 1.9 million states |
| `rlpx_live` | `FairSpec` | `QueuedIsTried` | holds |
| `rlpx_maxpeers` | `Spec` | `MaxPeersRespected` | violated |
| `rlpx_removed` | `Spec` | `RemovedMeansDisconnected` | violated |
| `session` | `FairSpec` | `TypeOK StartInOrder RoutedAsSent LastIsDisconnect OneDisconnects DisconnectEnds BothClose` | holds, 253,000 states |
| `session_link` | `FairSpec` | `ImplementsLink MessagesArrive PeersPart` | holds, 208,000 states |
| `session_filter` | `FairSpec` | `TurnedAwayIsCutOff` | violated |
| `status` | `FairSpec` | `TypeOK ReadyMeansOneChain OneChainAccepted OneStatus EarlyMessageExplained HandshakeEnds StrangersPart` | holds, 290,000 states |
| `ecies` | `FairSpec` | `TypeOK Aligned KeysBeforeFrames DirectionsMatch ReadAsSent MessagesRead` | holds, 125,000 states |
| `dpt` | `FairSpec` | `TypeOK TableAnswered WaitsForOwnPing RequestsMatch CallsEnd` | holds, 1.5 million states |
| `dpt_banned` | `Spec` | `BannedNotListed` | violated |
| `dpt_full` | `FairSpec` | `AnsweringNotBanned` | violated |

`CHECK_DEADLOCK FALSE` stands in every configuration: a node that is destroyed, a
connection that is closed on both sides and a bounded run of pings really stop.

What the passing runs show, beyond the comment at each property:

* `rlpx_pool`, `rlpx_live`: no slot leaks, and the application is not left with a peer that is gone,
  whichever of several sockets of one node close and in whatever order: whoever was announced and not
  removed has a connection that is up. The converse is what `rlpx_removed` refutes. A queued node is
  tried when there is a slot.
* `session`: `connect` waits for both HELLOs though ours is put off to the next tick; both sides number the
  codes alike; a DISCONNECT is the last thing a Peer writes; both ends close.
* `session_link`: the machinery of chunks, ticks, PINGs and DISCONNECTs neither loses, doubles,
  reorders nor misroutes a message while its receiver is up, and a Peer whose other side is gone
  without a word finds out (its PING is not answered).
* `status`: two nodes of one chain accept each other wherever their heads are (but for
  the lost digit, see below), two nodes whose chains have parted are never both ready, and
  every handshake ends. `EarlyMessageExplained` bounds the harm of `_status` being set before the
  throw: a message before `status` has no other cause between two nodes of this code.
* `ecies`: the reader is aligned with the packets wherever chunks are cut, has keys before
  frames, and never accepts an altered packet; it hangs on it (`Lose`), which is what the code does.
* `dpt`: nobody is in the table who has not answered, however promises are shared. No request is left
  behind, and each promise has a request and a timeout to come, unless the request of another ping
  with the same hash has taken its place (`RequestsMatch`). `CallsEnd` is what follows for
  `addPeer`: only such a call can wait for ever, and with the four endpoints of the run one does.

### What the violated runs show

* `rlpx_maxpeers`: two inbound sockets are accepted while one slot is free, and
  both become peers.
* `rlpx_removed`: a second connection to a node is refused; its close takes the
  first one out of `_peers` and tells the application that the peer is removed.
* `session_filter`: the HELLO of a peer to be filtered and its first message in one
  chunk keep the read loop busy for ever; the socket is never ended.
* `dpt_banned`: `banPeer` during the `await` of `addPeer` leaves the node in the
  table and in the ban list.
* `dpt_full`: the unbound listener of the k-bucket's `ping` throws, and the node
  that has answered is banned. (The README of the library only says that the list is one of bad
  peers; the run takes a node that has just answered for none.)

### Found without a run of its own

`PROJECT.json` lists these with their lines. The models have what the code does:

* LES `TX_STATUS` (21) is one more than the codes `les2` reserves, and the guard of
  `sendMessage` in `peer.ts:372` lets it pass.
* DISCONNECT is written as an integer and read as a list (`peer.ts:396`): the reason is
  lost, and reason 0 throws before the socket is told to end.
* `sendStatus` of ETH/64 sets `_status` before it throws (`eth/index.ts:194`): a second call returns
  at once, STATUS is never sent, and the remote's STATUS makes this side ready alone.
* The next fork block loses a digit (`eth/index.ts:211`).
* `_requests` of the UDP server is keyed by the hash of a PING (`dpt/server.ts:93`), and two PINGs of one
  second may be equal: a NEIGHBOURS with one address twice, once with UDP port 0 and once with none, is
  enough. The first timer deletes the request of both and rejects one promise; the other is never
  settled, and its call of `addPeer` never returns. `CallsEnd` without its second disjunct fails in `dpt`.
* AUTH and ACK in the old format are never recognised (`peer.ts:282`, `305`: two buffers are
  compared with `===`).

### Bounds

* `rlpx_pool`: two nodes, one of them the own identity, three sockets, one slot, a
  queue of two. Three sockets are a peer, a second connection to the same node
  and one to be turned away; two queue items give a refill that
  dials one and keeps one. `Conns` is a bound: an action that
  needs a handle waits for one. `rlpx_live` has two other nodes and two
  sockets; `HandlesExhausted` names the states in which a refill lacks handles.
* `MaxQueue` bounds the queue and, in advance, the items that closing sockets will
  add (`QueueHasRoom`).
* `session`: one subprotocol message each way (`MaxSub`), one PING in flight each way.
  One pair of lists shares ETH in two versions, of which the newer is not the newest of
  the listener, and LES; codes are taken on both sides of the border between the two.
* `session_link`: one pair of Peers with two subprotocols, of which the listener
  sends two messages, so that one can overtake or be dropped behind the other.
* `status`: networks and genesis blocks 1 and 2; forks at none, 20, 64, or 20 and 300 (of one more
  hexadecimal digit), heads at 10, 30 and 310, which is before, between and after them; one node
  that does not have the fork of its head. One message each after `status`, with a code that ETH/62 knows
  and one that it does not. `ForkId` is checked for all pairs of these chains in the same run.
* `ecies`: messages of one block, of a byte more, and of 256^3 bytes; the shortest and the
  longest padding; two frames of each side, so that the MAC and the key stream go on;
  chunks that end with a packet, with what the loop waits for or a byte before that; one
  altered packet.
* `dpt`: two pings and two waiting calls, four endpoints of two nodes, a bucket of one.
  Two calls share a promise, or one finds it settled in the cache; two pings share a hash, because
  two endpoints without a UDP port are encoded alike, or because a promise has left the cache within its
  second, for which the code needs 1000 other pings. Two pings are what it takes to have one request in the
  place of another; `RequestsMatch` was also tried with three. One endpoint has no TCP port.
  `dpt_banned` and `dpt_full` need neither and have two endpoints with all ports.

### Fairness

* RLPx: weak fairness of the refill timer (`setInterval`) and of the clock that ends a
  delay. Nothing is assumed of the network or of the application.
* Session: weak fairness of the passes of the loop, of `nextTick`, of delivery and
  closing by TCP and of the timers, all for a process that has not stopped and whose loop
  ends. None for breaks, crashes and the application.
* Status: the timer fires; a side that is not closed receives, and one whose other side has closed
  leaves, which is what `Arrives` and `Parts` of `Link` owe and `session_link` shows. Nothing is assumed of the
  application, which may never call `sendStatus`.
* ECIES: TCP delivers, the loop goes on, and the two callbacks of `nextTick` run. None for later messages
  and for damage.
* DPT: a settled promise resumes its calls (weak); the next timeout fires
  (strong, because microtasks come between again and again). None for PONGs or for the clock.

## Proofs

Each theorem holds for all values of the constants, from the assumptions named in the
modules that declare them. All safety properties of the passing runs are theorems, the action
properties and the refinement among them.

### RLPx_proofs

`Nodes` is finite, `NoId` and `Free` are none of the values they stand beside,
`MaxPeers` is a positive number.

| Theorem | Property |
| --- | --- |
| `TypeCorrect` | `[]TypeOK` |
| `SlotsHaveOwners` | `[]EntryHasOwner` |
| `AddedPeersConnected` | `[]AddedHasConnection` |
| `ListedPeersAnnounced` | `[]ListedIsAnnounced` |
| `ListedPeerStays` | `NoPeerReplaced` |
| `DialsRespectMaxPeers` | `DialWithinMax` |
| `NobodyLost` | `QueueNotLost` |

The inductive invariant `Inv` is the conjunction of `TypeOK`, `EntryHasOwner`,
`ListedIsAnnounced`, `AnnouncedIsUp` (an announced Peer is on a socket that is up and whose close
is listened to) and `IdKnown`: an outbound socket, and a Peer whose close will be reported, has an identity.
Without it the close of a socket might look up the table at `NoId`. There is one lemma per
action. The close of a socket is the hard case: after both deletions an entry
is either an old one of another identity, whose socket is untouched, or one that the
refill has just written, whose socket is new; `EntryHasOwner` follows because
deletion by identity only ever takes more away than it should.

`AddedPeersConnected` rests on `AnnouncedIsUp`: the connection that vouches for an announced node goes only
with the close of its own socket, which the application is told of even if the entry is gone or is
another's by then; all other steps keep every announced socket (`AllAnnounced`).

`DialsRespectMaxPeers` rests on `ReachedWithSlot`: the identities that the filter
dials are at most as many as the slots when the first item is reached, by the
least position at which no slot is left. `NobodyLost` rests on `KeptItems` of `Filter_proofs`, which
says of every filter that the items it returns are those at the positions to keep: an item that a
refill does not keep is of a node that it dials, and so has a socket after the step, or of
one that has an entry, whose socket is its owner by `EntryHasOwner` and is not the one that closes.

### Session_proofs

`SetupsAssumption`: the lists are sets of capabilities, and a name and a version have one
length, as both Peers run this code. `CodesAssumption`: applications send numbers.

| Theorem | Property |
| --- | --- |
| `ConnectBeforeAll` | `[]StartInOrder` |
| `GoodbyeIsLast` | `[]LastIsDisconnect` |
| `OneSideDisconnects` | `[]OneDisconnects` |
| `Types` | `[]TypeOK` |
| `Routes` | `[]RoutedAsSent`, if `InRange` |

Its `Inv` has, for each Peer, `Sane` (what the flags of one Peer say of each other), `GoneIdle` (a Peer
whose socket is closed has no data), `Timely` (a frame that needs a HELLO before it has one
before it, on its own side and on the other), `Byes` (whoever has sent a DISCONNECT that is still on its
way has closed and holds so; nothing follows it) and `Told` (who was told holds it of one
who says so). The property itself is not inductive: a frame on the wire is harmless only
because of the state its sender was in. `PeerStep` and `WriteStep` carry what every handler shares,
so that the lemma of an action is about its own effect.

`Rest` adds `Meaning`: a SUB frame on its way carries the offset of its subprotocol as the *sender* has it. The
receiver computes its offsets from its own list and the other's HELLO. Both lists agree on what is
shared (`AgreedIs`, from the one length of a version), so the offsets do; and the code ranges of two
subprotocols are disjoint because an offset only grows with the name, by what lies between, which
is an induction over the function that `Offset` is. `Routes` has the hypothesis `InRange`, that applications
send codes below the length of their subprotocol. It is a hypothesis and not an assumption because the
code does not see to it: the guard of `sendMessage` (`peer.ts:372`) lets the length itself pass, which
LES `TX_STATUS` is, and that message belongs to the next subprotocol or to none. The codes of the
runs fulfil it.

### SessionLink_proofs

| Theorem | Property |
| --- | --- |
| `Implements` | `ImplementsLink`, if `InRange` |

The mapping takes the SUB frames out of the frames in the buffer and on the wire (`SubFrames`, a filter) and
turns them into messages as the receiver understands them. `Mapped` replaces that by what the senders
meant, `Queue(p) = Said(data[p]) \o Said(wire[p])`, which does not depend on the receiver: this is where
`InRange` and `Meaning` are used, in both the old and the new state. `SubFramesAppend`,
`SubFramesJoin` and `SaidTail` say what appending, joining and cutting frames do to it. Most steps are stutters of `Link` or only open or close a
side (`QuietSteps`, `CalmLinks`); `Send` is `Link`'s sending, `ReadSub` its taking, and `Receive`, `Break` and
`Crash` move or drop what nobody will take any more. The invariant needs one thing more than `Inv` and
`Rest`: `Halted`, that a Peer which has closed without the HELLO of the other handles no more frames, so
that it does not emit `connect` after it has closed.

### Status_proofs

`SetupsAssumption`: an active fork is one that is known, and fork blocks are numbers of four
bytes at most, as `buffer2int` reads them.

| Theorem | Property |
| --- | --- |
| `NoSecondStatus` | `[]OneStatus` |
| `ReadyOnOneChain` | `[]ReadyMeansOneChain` |
| `EarlyMessages` | `[]EarlyMessageExplained` |
| `OneChain` | `[]OneChainAccepted` |
| `Types` | `[]TypeOK` |

`Inv` says that what a side holds or will get as a STATUS is the one STATUS of the other
(`Theirs`), that there is one at most and none before it was sent (`AtMostOne`), and that who
is ready has judged what it holds (`Judged`). `ReadyOnOneChain` then follows without further steps
of the system: if each side finds the hash of the other among its own, one list of active forks is a prefix of
the other (`ForksShared`), and two nodes with the forks of their heads cannot have parted.

`Order` is what the messages after the handshake need. `StatusFirst`: as long as the other has not
closed, its STATUS is either here or on its way, and each message on its way comes behind it, unless its
sender never sent one. `Settled`: who has failed has refused what it holds, by the head or by the block of
its active fork. `OneChain` is then about one state: whichever
of the two latest blocks `_validateForkId` was called with, the hash of the other is that of a prefix or
an extension of the own forks, and the next fork, if no digit of it is lost, is the one that the judge
knows itself. The bytes of the next fork block are those of `Bytes`: `buffer2int` gives back what `int2buffer`
has made of a number of four bytes.

### ECIES_proofs

`PadsAssumption` (the padding is 100 to 250 bytes), `SizesAssumption` (a message is not empty, and the
length of HELLO fits its header), `FramesAssumption`.

| Theorem | Property |
| --- | --- |
| `Types` | `[]TypeOK` |
| `Alignment` | `[]Aligned` |
| `KeysFirst` | `[]KeysBeforeFrames` |
| `Directions` | `[]DirectionsMatch` |
| `Reads` | `[]ReadAsSent` |

`Inv` is about the log of the writer's MAC. `Written`: its entries are the headers and bodies of the
messages sent, in turn, each at the place in the key stream where the one before it ends. `Underway`: the
packets on their way are the last entries of that log (`IsPacket`), counted from its end, so that neither
writing a packet nor reading one changes which entry another is; the tag of each is the MAC of the log up to
it. `Reader`: what the reader has put into its own MAC and taken from the key stream is the beginning
of that log (`Framing`), or it still waits for AUTH or ACK (`Waiting`). An altered packet differs from
its entry while its tag does not, so `Verified` fails at it and the reader stays there: `Reads` needs no
assumption about damage, only `Alignment` and `Directions` do. `Keys` says that both sides have the secret of both
ephemeral keys and of the nonces in one order, `Opened` what AUTH and ACK are.

### DPT_proofs

Nodes, endpoints, bucket size and bounds are arbitrary; endpoints that are encoded alike differ in nothing
but a port 0 for none (`EncodedAssumption`).

| Theorem | Property |
| --- | --- |
| `TypeCorrect` | `[]TypeOK` |
| `OnlyAnsweredListed` | `[]TableAnswered` |
| `CallsWaitForOwn` | `[]WaitsForOwnPing` |
| `RequestsAndPromises` | `[]RequestsMatch` |

`Inv` adds `CacheIsOwn` to the invariants of the run: a cached promise is that of a ping to the endpoint it
is cached for. Without it a call that finds a promise in the cache might wait for another's.
`Grown` is what every step does to the pings: it adds one or settles one; the
table, the calls and the cache survive whatever is grown, and so does `Superseded`. `RequestsMatch` is then
about `requests`, with a case for each of what may happen to the request of a promise that is not settled:
it is answered, its own timeout fires, that of an earlier ping with its hash does, or a later
request takes its place. In the last case the promise is not superseded yet: its hash still leads to a
request, and its own timeout is still to come.

### Induction_proofs and Filter_proofs

What recurs in a module with theorems is a recursive function over numbers, and what it computes is proved from
two facts that need no operator as a parameter: `UpToNat`, induction over the *set* of numbers for which
something holds, and `Recursion`, that a function which starts with a value and goes on by given steps
exists. From them come the equations of `Kept`, `Offset` and `BytesOf`, and from those what they
return.

### Only model-checked

Liveness, which TLAPS does not do: `QueuedIsTried`, `DisconnectEnds`, `BothClose`, `MessagesArrive`,
`PeersPart`, `HandshakeEnds`, `StrangersPart`, `MessagesRead` and `CallsEnd`.

## Not modelled

* Cryptography: the strength of keys, hashes and ciphers is assumed by taking them as symbols.
* AUTH and ACK in the old format: RLPx always asks for EIP-8, and `peer.ts` never recognises the
  old format in what comes.
* The bytes of discovery messages (`dpt/message.ts`): a codec without state. What a NEIGHBOURS loses on the
  way, the ids, is in `DPT`.
* `refresh` and `findneighbours`, which only send; several DPTs that discover each other: tried, and
  too large for TLC with anything left in it to find.
* The tree of the k-bucket library: one bucket, as said under DPT.
* Eviction from `_peersLRU`, which begins at 25000 identities.
* Payloads of ETH and LES, total difficulties, best hashes; logging; the examples, which are clients of the
  library.

## Plan

1. Hazards without a property (`PROJECT.json` lists them with a note): the dial that loses its entry in a
   refill (`rlpx.ts:136`), what is announced after `destroy()` (`rlpx.ts:107`), a node banned in the
   listener of `peer:new` (`dpt.ts:103`). What the code intends there has to be settled first.
2. What the operators compute, as lemmas of their own: `Routed` finds one subprotocol at most for any code;
   `FromHex` gives back a number exactly if no digit is lost.
3. The safety half of the properties that the liveness runs rest on: what a Peer whose other side is gone
   still has to do.
4. Discovery and connections together: `peer:new`, bans and the queue over a shared set of nodes.
