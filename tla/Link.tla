-------------------------------- MODULE Link --------------------------------
(***************************************************************************)
(* What two connected Peers promise to the subprotocols and the            *)
(* applications above them, without frames, chunks, ticks and sockets:     *)
(* messages in order, none before 'connect', none to send after the Peer   *)
(* has closed, and none lost as long as its receiver is up.  SessionLink   *)
(* shows that Session implements it; Status is built on it.                *)
(***************************************************************************)
EXTENDS Naturals, Sequences

CONSTANT Messages   \* what applications send, for LinkNext alone

Sides    == {"dialer", "listener"}
Other(p) == IF p = "dialer" THEN "listener" ELSE "dialer"

VARIABLES
    opened, \* Peers that have emitted 'connect'
    closed, \* Peers that are _closed, or whose process has stopped
    deaf,   \* closed Peers that are through with the chunk that they closed in
    queue   \* queue[p]: messages on their way to the subprotocols of p

linkVars == <<opened, closed, deaf, queue>>

LinkInit ==
    /\ opened = {}
    /\ closed = {}
    /\ deaf = {}
    /\ queue = [p \in Sides |-> <<>>]

Up(p) == p \in opened \ closed

\* A listener of p may call disconnect(), and the chunk may end.
MayShut(p) ==
    /\ closed' \in {closed, closed \cup {p}}
    /\ deaf' \in {deaf, deaf \cup (closed' \cap {p})}

\* p emits 'connect'.
Open(p) ==
    /\ p \notin opened \cup closed
    /\ opened' = opened \cup {p}
    /\ MayShut(p)
    /\ UNCHANGED queue

\* p sends m, which is lost if the other Peer is deaf.
Send(p, m) ==
    /\ Up(p)
    /\ \/ queue' = [queue EXCEPT ![Other(p)] = Append(@, m)]
       \/ Other(p) \in deaf /\ UNCHANGED queue
    /\ UNCHANGED <<opened, closed, deaf>>

\* The next message is handed to its subprotocol.  p may have closed: the
\* chunk that it is handling goes on.
Deliver(p) ==
    /\ p \in opened \ deaf
    /\ queue[p] # <<>>
    /\ queue' = [queue EXCEPT ![p] = Tail(@)]
    /\ MayShut(p)
    /\ UNCHANGED opened

\* p disconnects, is told to, or its process stops.
Shut(p) ==
    /\ MayShut(p)
    /\ p \in closed'
    /\ UNCHANGED <<opened, queue>>

\* p drops what it receives once it has closed, or because its socket breaks.
Drop(p) ==
    /\ \E n \in 1..Len(queue[p]) :
         queue' = [queue EXCEPT ![p] = SubSeq(@, n + 1, Len(@))]
    /\ closed' = closed \cup {p}
    /\ deaf' = deaf \cup {p}
    /\ UNCHANGED opened

LinkNext ==
    \E p \in Sides :
        \/ Open(p)
        \/ \E m \in Messages : Send(p, m)
        \/ Deliver(p)
        \/ Shut(p)
        \/ Drop(p)

LinkSpec == LinkInit /\ [][LinkNext]_linkVars

-----------------------------------------------------------------------------
(* What an implementation owes besides its steps *)

\* A Peer that stays up hands on what was sent to it.
Arrives == \A p \in Sides : Up(p) /\ queue[p] # <<>> ~> queue[p] = <<>> \/ p \in closed

\* A Peer does not stay up when the other has closed.
Parts == \A p \in Sides : Up(p) /\ Other(p) \in closed ~> p \in closed
=============================================================================
