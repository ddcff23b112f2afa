-------------------------------- MODULE DPT ---------------------------------
(***************************************************************************)
(* Node discovery of one node: the table of known nodes and the ban list   *)
(* (src/src/dpt/dpt.ts, kbucket.ts, ban-list.ts) with the pings and the    *)
(* answers of the UDP server (src/src/dpt/server.ts).                      *)
(*                                                                         *)
(* addPeer() stops at its await until the promise of a ping is settled.    *)
(* When it is, the calls that wait for it go on one after the other before *)
(* the next event is handled; see Idle.  UDP may lose, duplicate, delay    *)
(* and reorder a PONG: a ping that was sent may be answered at any time,   *)
(* any number of times or never.                                           *)
(*                                                                         *)
(* A request is kept under the hash of its PING, whose signature is the    *)
(* same for the same bytes: pings of one second to endpoints that are      *)
(* encoded alike have one hash and one request, that of the last of them.  *)
(***************************************************************************)
EXTENDS Naturals, Sequences, FiniteSets, SequencesExt

CONSTANTS
    Nodes,      \* identities
    Endpoints,  \* addresses with a UDP port: a cache key each
    Owner,      \* Owner[e]: the node that answers at e
    Port,       \* Port[e]: the UDP port of e is null, zero or some port
    Encoded,    \* Encoded[e]: what a PING carries of e
    NoTcp,      \* endpoints known without a TCP port
    NoId,       \* what a peer object has when it has no id
    BucketSize, \* KBUCKET_SIZE
    MaxPings,   \* bound of the model: pings sent
    MaxCalls    \* bound of the model: calls of addPeer that wait

ASSUME OwnerAssumption  == Owner \in [Endpoints -> Nodes]
ASSUME PortAssumption   == Port \in [Endpoints -> {"null", "zero", "some"}]
ASSUME NoTcpAssumption  == NoTcp \subseteq Endpoints
ASSUME NoIdAssumption   == NoId \notin Nodes
ASSUME BoundsAssumption == MaxPings \in Nat /\ MaxCalls \in Nat
ASSUME BucketAssumption == BucketSize \in Nat \ {0} /\ IsFiniteSet(Nodes)

\* An endpoint is its address and its ports, of which a PING does not tell null
\* from 0: endpoints encoded alike differ in nothing else.
ASSUME EncodedAssumption ==
    \A d, e \in Endpoints : Encoded[d] = Encoded[e] =>
        /\ Owner[d] = Owner[e]
        /\ d \in NoTcp <=> e \in NoTcp
        /\ Port[d] = "some" <=> Port[e] = "some"

VARIABLES
    alive,  \* the server has its socket
    table,  \* _kbucket, and _peers of KBucket: the nodes known
    banned, \* banlist
    pings,  \* the pings sent, each with its hash and the state of its promise
    requests, \* _requests: the ping whose request a hash leads to, or 0
    fired,  \* timeouts that have fired; equal delays fire in the order of setting
    since,  \* pings sent before the present second
    cache,  \* _requestsCache: the ping whose promise a new call will share, or 0
    calls,  \* the calls of addPeer at their await, in the order of the calls
    soon    \* endpoints of the setTimeouts of _handler

pingVars == <<pings, requests, fired, since>>

vars == <<alive, table, banned, pingVars, cache, calls, soon>>

\* A peer object: where, and who if that is known.
Obj  == [at : Endpoints, id : Nodes \cup {NoId}]

\* _parityRequestMap leads from the hash that Parity answers with to the same
\* request, and is kept for as long as the request at least: a PONG deletes
\* its entry with the wrong key, so that only the timer of _send does.  A
\* PONG with either hash is one and the same step.  A hash is the position of
\* the first ping that has it.
Ping == [to : Endpoints, hash : 1..MaxPings, state : {"pending", "answered", "failed"}]
Call == [obj : Obj, on : 1..MaxPings]

Init ==
    /\ alive = TRUE
    /\ table = {}
    /\ banned = {}
    /\ pings = <<>>
    /\ requests = [h \in 1..MaxPings |-> 0]
    /\ fired = 0
    /\ since = 0
    /\ cache = [e \in Endpoints |-> 0]
    /\ calls = <<>>
    /\ soon = {}

\* Mutant: an object without an id has a key.
Keys_Always(obj) == {obj.id}

\* The keys of an object without an id: none, as getKeys looks for a property
\* port that no object has.
Keys(obj) == {obj.id} \cap Nodes

\* A call whose promise is settled.
Due(k) == pings[calls[k].on].state # "pending"

\* No call is about to go on: the next event may be handled.
Idle == \A k \in DOMAIN calls : ~Due(k)

-----------------------------------------------------------------------------
(* addPeer *)

\* Mutant: the key of a cached request has no address.
Shared_AnyAddress(e) ==
    IF \E d \in Endpoints : cache[d] # 0 THEN CHOOSE k \in DOMAIN pings : k = Len(pings) ELSE 0

\* The ping whose promise a call for e shares.
Shared(e) == cache[e]

\* The hash of a PING to e that is sent now: that of the pings of this second
\* that carry the same.
Hash(e) ==
    LET same == {k \in DOMAIN pings : k > since /\ Encoded[pings[k].to] = Encoded[e]}
    IN  IF same = {} THEN Len(pings) + 1 ELSE pings[CHOOSE k \in same : TRUE].hash

\* ping() sends: the request takes the place of one with the same hash.
SendPing(e) ==
    /\ Len(pings) < MaxPings
    /\ pings' = Append(pings, [to |-> e, hash |-> Hash(e), state |-> "pending"])
    /\ requests' = [requests EXCEPT ![Hash(e)] = Len(pings) + 1]
    /\ cache' = [cache EXCEPT ![e] = Len(pings) + 1]
    /\ UNCHANGED <<fired, since>>

\* Up to the await, or to the end if there is nothing to wait for.  ping()
\* throws once the server is destroyed, which gets the object banned.
AddPeer(obj) ==
    /\ \/ /\ Keys(obj) \cap (banned \cup table) # {}
          /\ UNCHANGED <<banned, pingVars, cache, calls>>
       \/ /\ Keys(obj) \cap (banned \cup table) = {}
          /\ ~alive
          /\ banned' = banned \cup Keys(obj)
          /\ UNCHANGED <<pingVars, cache, calls>>
       \/ /\ Keys(obj) \cap (banned \cup table) = {}
          /\ alive
          /\ Len(calls) < MaxCalls
          /\ IF Shared(obj.at) # 0
             THEN /\ calls' = Append(calls, [obj |-> obj, on |-> Shared(obj.at)])
                  /\ UNCHANGED <<pingVars, cache>>
             ELSE /\ calls' = Append(calls, [obj |-> obj, on |-> Len(pings) + 1])
                  /\ SendPing(obj.at)
          /\ UNCHANGED banned
    /\ UNCHANGED <<alive, table>>

HasRoom(nodes) == Cardinality(nodes) < BucketSize

\* kbucket.add.  In a full bucket it emits 'ping', whose listener is called
\* without its DPT and throws.
WithNode(nodes, i) == IF HasRoom(nodes) THEN nodes \cup {i} ELSE nodes

\* Mutant: the error of a ping that has failed is not thrown on.
Answered_Always(call) == TRUE

Answered(call) == pings[call.on].state = "answered"

(***************************************************************************)
(* A call goes on.  After an answer, peer:new is emitted first: RLPx bans  *)
(* a node without a TCP port, which removes it from the table, and then    *)
(* addPeer adds it.  An error, also that of a full bucket, gets the object *)
(* banned.                                                                 *)
(***************************************************************************)
Resume(k) ==
    LET call  == calls[k]
        e     == pings[call.on].to
        noTcp == IF e \in NoTcp THEN {Owner[e]} ELSE {}
        left  == table \ noTcp
        fails == Owner[e] \notin WithNode(left, Owner[e])
    IN  /\ Due(k)
        /\ \A j \in 1..(k - 1) : ~Due(j)
        /\ IF Answered(call)
           THEN /\ table' = WithNode(left, Owner[e])
                /\ banned' = banned \cup noTcp \cup (IF fails THEN Keys(call.obj) ELSE {})
           ELSE /\ banned' = banned \cup Keys(call.obj)
                /\ UNCHANGED table
        /\ calls' = RemoveAt(calls, k)
        /\ UNCHANGED <<alive, pingVars, cache, soon>>

\* The application calls addPeer or bootstrap.
Add(obj) == AddPeer(obj) /\ UNCHANGED soon

\* NEIGHBOURS: addPeer for each endpoint, without its id.  A message of several
\* is several of one, in one second if no Second comes between.
Neighbours(e) == alive /\ AddPeer([at |-> e, id |-> NoId]) /\ UNCHANGED soon

-----------------------------------------------------------------------------
(* The server *)

\* A PING of a node that is not in the table; _handler answers it, and adds
\* the sender 100 ms later, if it gives a UDP port.
PingReceived(e) ==
    /\ alive
    /\ Owner[e] \notin table
    /\ Port[e] # "null"
    /\ soon' = soon \cup {e}
    /\ UNCHANGED <<alive, table, banned, pingVars, cache, calls>>

AddSoon(e) ==
    /\ e \in soon
    /\ soon' = soon \ {e}
    /\ AddPeer([at |-> e, id |-> NoId])

Settled(k, state) == [pings EXCEPT ![k].state = state]

\* Mutant: a request that is answered is not deleted.
Pong_Keeps(k) ==
    /\ alive
    /\ requests[pings[k].hash] = k
    /\ Port[pings[k].to] = "some"
    /\ pings' = Settled(k, "answered")
    /\ UNCHANGED <<alive, table, banned, requests, fired, since, cache, calls, soon>>

\* A PONG with the hash whose request is that of k.  One whose request is gone
\* is ignored, and there is none if the PING had no port to go to.
Pong(k) ==
    /\ alive
    /\ requests[pings[k].hash] = k
    /\ Port[pings[k].to] = "some"
    /\ pings' = Settled(k, "answered")
    /\ requests' = [requests EXCEPT ![pings[k].hash] = 0]
    /\ UNCHANGED <<alive, table, banned, fired, since, cache, calls, soon>>

\* Mutant: destroy() clears the timeouts.
Timeout_Cleared ==
    LET k == fired + 1
        h == pings[k].hash
    IN  /\ alive
        /\ k \in DOMAIN pings
        /\ fired' = k
        /\ pings' = IF requests[h] # 0 /\ pings[k].state = "pending"
                    THEN Settled(k, "failed") ELSE pings
        /\ requests' = [requests EXCEPT ![h] = 0]
        /\ UNCHANGED <<alive, table, banned, since, cache, calls, soon>>

\* The next timeout, which neither a PONG nor destroy() clears.  It deletes the
\* request that its hash leads to, be that its own or not, and rejects its own
\* promise; if there is none it does nothing.
Timeout ==
    LET k == fired + 1
        h == pings[k].hash
    IN  /\ k \in DOMAIN pings
        /\ fired' = k
        /\ pings' = IF requests[h] # 0 /\ pings[k].state = "pending"
                    THEN Settled(k, "failed") ELSE pings
        /\ requests' = [requests EXCEPT ![h] = 0]
        /\ UNCHANGED <<alive, table, banned, since, cache, calls, soon>>

\* The clock that PINGs carry, in whole seconds, goes on.
Second ==
    /\ since # Len(pings)
    /\ since' = Len(pings)
    /\ UNCHANGED <<alive, table, banned, pings, requests, fired, cache, calls, soon>>

\* A promise leaves the cache after 1 s, whatever has become of it, or when
\* 1000 others have come, of pings to endpoints that are not in Endpoints.
CacheExpires(e) ==
    /\ cache[e] # 0
    /\ cache' = [cache EXCEPT ![e] = 0]
    /\ UNCHANGED <<alive, table, banned, pingVars, calls, soon>>

-----------------------------------------------------------------------------
(* Other calls of the application and of RLPx *)

\* banPeer, of an object with an id.
BanPeer(i) ==
    /\ banned' = banned \cup {i}
    /\ table' = table \ {i}
    /\ UNCHANGED <<alive, pingVars, cache, calls, soon>>

BanExpires(i) ==
    /\ i \in banned
    /\ banned' = banned \ {i}
    /\ UNCHANGED <<alive, table, pingVars, cache, calls, soon>>

RemovePeer(i) ==
    /\ i \in table
    /\ table' = table \ {i}
    /\ UNCHANGED <<alive, banned, pingVars, cache, calls, soon>>

Destroy ==
    /\ alive
    /\ alive' = FALSE
    /\ UNCHANGED <<table, banned, pingVars, cache, calls, soon>>

Event ==
    \/ \E obj \in Obj : Add(obj)
    \/ \E e \in Endpoints : Neighbours(e) \/ PingReceived(e) \/ AddSoon(e) \/ CacheExpires(e)
    \/ \E k \in DOMAIN pings : Pong(k)
    \/ Timeout
    \/ Second
    \/ \E i \in Nodes : BanPeer(i) \/ BanExpires(i) \/ RemovePeer(i)
    \/ Destroy

Next ==
    \/ Idle /\ Event
    \/ \E k \in DOMAIN calls : Resume(k)

Spec == Init /\ [][Next]_vars

\* A timer that is due fires, though calls that go on come between again and
\* again, and a promise that is settled lets its calls go on.
FairSpec ==
    /\ Spec
    /\ SF_vars(Idle /\ Timeout)
    /\ WF_vars(\E k \in DOMAIN calls : Resume(k))

-----------------------------------------------------------------------------
(* Properties *)

TypeOK ==
    /\ alive \in BOOLEAN
    /\ table \subseteq Nodes
    /\ banned \subseteq Nodes
    /\ pings \in Seq(Ping)
    /\ requests \in [1..MaxPings -> 0..MaxPings]
    /\ fired \in 0..Len(pings)
    /\ since \in 0..Len(pings)
    /\ cache \in [Endpoints -> 0..MaxPings]
    /\ calls \in Seq(Call)
    /\ soon \subseteq Endpoints
    /\ Len(pings) <= MaxPings

\* A node is in the table only if it has answered a ping of ours, itself and
\* in time: a promise that several calls share, one that is cached after it
\* was settled, and a PONG after the timeout do not let another one in.
TableAnswered ==
    \A i \in table :
        \E k \in DOMAIN pings : pings[k].state = "answered" /\ Owner[pings[k].to] = i

\* A call waits for a ping to its own endpoint, whoever sent that ping.
WaitsForOwnPing ==
    \A k \in DOMAIN calls :
        calls[k].on \in DOMAIN pings /\ pings[calls[k].on].to = calls[k].obj.at

\* The promise of k is not settled, and that of another ping with its hash is.
Superseded(k) ==
    /\ pings[k].state = "pending"
    /\ \E q \in DOMAIN pings : pings[q].hash = pings[k].hash /\ pings[q].state # "pending"

\* The map of requests against the promises, through lost, doubled and late
\* PONGs, timeouts that no PONG clears and requests that take each other's
\* place.  No request is left behind: it has a promise to settle and a timeout
\* to come.  A promise that is not settled has a request to its hash and its
\* own timeout to come, unless another promise was settled in its place.
RequestsMatch ==
    /\ \A h \in 1..MaxPings : requests[h] # 0 =>
          /\ requests[h] \in (fired + 1)..Len(pings)
          /\ pings[requests[h]].hash = h
          /\ pings[requests[h]].state = "pending"
    /\ \A k \in DOMAIN pings : pings[k].state = "pending" =>
          \/ k > fired /\ requests[pings[k].hash] # 0
          \/ Superseded(k)

Waited(p) == \E k \in DOMAIN calls : calls[k].on = p

\* A call of addPeer waits for ever only if its ping has shared its hash and
\* another of that hash was settled in its place: else the PONG or the timeout
\* lets it go on, though destroy() comes between, and though the request that
\* it waits for is another call's.
CallsEnd ==
    \A p \in 1..MaxPings :
        []<>~Waited(p) \/ <>[](p \in DOMAIN pings /\ Superseded(p))

\* test/integration/dpt-simulator.ts, "DPT: ban node": a banned peer is in the
\* ban list and no longer in the table.
BannedNotListed == banned \cap table = {}

\* README.md: the BanList is "for keeping a list of bad peers".  A node that
\* has just answered the ping of addPeer, and can be dialed, is not banned by
\* that call, be there room in the table or not.
AnsweringNotBanned ==
    [][\A k \in DOMAIN calls :
          LET e == calls[k].obj.at
          IN  Resume(k) /\ Answered(calls[k]) /\ e \notin NoTcp
                => Owner[e] \notin banned' \ banned]_vars
=============================================================================
