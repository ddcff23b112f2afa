-------------------------------- MODULE Status ------------------------------
(***************************************************************************)
(* The STATUS handshake of ETH (src/src/eth/index.ts) and of LES           *)
(* (src/src/les/index.ts) over a Link, and the messages after it.  An      *)
(* application calls sendStatus, waits for 'status', and then sends; it    *)
(* catches what sendStatus throws.                                         *)
(***************************************************************************)
EXTENDS Link, ForkId, Capabilities

CONSTANT Setups     \* what a connection is made of, see setup

VARIABLES
    setup,  \* protocol: the capability that the Peers share; chain[p]: the
            \* chain of p: network, genesis, forks, at and head
    proto   \* the ETH or the LES of each Peer

vars == <<opened, closed, deaf, queue, setup, proto>>

\* Common knows the fork that a node is at.
ASSUME SetupsAssumption ==
    \A s \in Setups :
        /\ s.chain \in [Sides -> [network : Nat, genesis : Nat, forks : Seq(Words), at : Nat,
                                  head : Nat]]
        /\ \A p \in Sides : s.chain[p].at \in DOMAIN s.chain[p].forks

ETH_LES_STATUS == 0

\* _handleMessage and sendMessage know these codes in this protocol.
Allowed(protocol, code) ==
    \/ protocol.name = eth62.name /\ code \in 1..7
    \/ protocol.name = eth62.name /\ protocol.version >= eth63.version /\ code \in 13..16
    \/ protocol.name = les2.name /\ code \in 1..21

HasForkId == setup.protocol.name = eth64.name /\ setup.protocol.version >= eth64.version

NoStatus == [code |-> -1]

\* The STATUS that p sends.
StatusOf(p) ==
    [code |-> ETH_LES_STATUS, network |-> setup.chain[p].network,
     genesis |-> setup.chain[p].genesis,
     forkId |-> IF HasForkId THEN OwnForkId(setup.chain[p]) ELSE <<>>]

Data(code) == [code |-> code]

(***************************************************************************)
(* status: what sendStatus has done, where "unsent" is a _status that is   *)
(* set though STATUS was never sent.  theirs: _peerStatus.  timer: the     *)
(* timeout of 5 s.  latest: _latestBlock.  ready: 'status' was emitted.    *)
(* failed: _handleStatus has thrown.  said: a message was sent; heard: a   *)
(* 'message' was emitted.                                                  *)
(***************************************************************************)
NewProto(chain) ==
    [status |-> "none", theirs |-> NoStatus, timer |-> FALSE, latest |-> hardforkBlock(chain),
     ready |-> FALSE, failed |-> FALSE, said |-> FALSE, heard |-> FALSE]

Init ==
    /\ LinkInit
    /\ setup \in Setups
    /\ proto = [p \in Sides |-> NewProto(setup.chain[p])]

-----------------------------------------------------------------------------
(* _handleStatus *)

\* Mutant: the genesis blocks are not compared.
Accepts_AnyGenesis(p, s) ==
    /\ s.theirs.network = setup.chain[p].network
    /\ HasForkId => ValidForkId(setup.chain[p], s.latest, s.theirs.forkId)

\* The STATUS of the remote passes.
Accepts(p, s) ==
    /\ s.theirs.network = setup.chain[p].network
    /\ s.theirs.genesis = setup.chain[p].genesis
    /\ HasForkId => ValidForkId(setup.chain[p], s.latest, s.theirs.forkId)

\* Mutant: our own STATUS is not waited for.
Complete_Theirs(s) == s.theirs # NoStatus

Complete(s) == s.status # "none" /\ s.theirs # NoStatus

\* Mutant: the timer is cleared by the first STATUS of the two.
Handled_NoTimer(p, s) ==
    IF ~Complete(s) THEN [s EXCEPT !.timer = FALSE]
    ELSE [s EXCEPT !.timer = FALSE, !.ready = Accepts(p, s), !.failed = ~Accepts(p, s)]

\* What becomes of s, which throws if it has failed.
Handled(p, s) ==
    IF ~Complete(s) THEN s
    ELSE [s EXCEPT !.timer = FALSE, !.ready = Accepts(p, s), !.failed = ~Accepts(p, s)]

-----------------------------------------------------------------------------
(* Operations *)

\* The Peer emits 'connect' and ETH or LES has been made, with its timer.
Start(p) ==
    /\ Open(p)
    /\ proto' = [proto EXCEPT ![p].timer = TRUE]
    /\ UNCHANGED setup

\* Mutant: sendStatus may be called again.
Unsent_Again(s) == TRUE

\* sendStatus returns at once when it was called before.
Unsent(s) == s.status = "none"

\* sendStatus, which gives ETH/64 a latest block or leaves it as it is.  What
\* _handleStatus throws goes to the caller.  A closed Peer sends nothing.
SendStatus(p, latest) ==
    /\ p \in opened
    /\ Unsent(proto[p])
    /\ proto' = [proto EXCEPT ![p] = Handled(p, [@ EXCEPT !.status = "sent", !.latest = latest])]
    /\ IF p \in closed THEN UNCHANGED linkVars ELSE Send(p, StatusOf(p))
    /\ UNCHANGED setup

\* What the latest block can become: only ETH/64 takes one.
LatestBlocks(p) == {proto[p].latest} \cup (IF HasForkId THEN {setup.chain[p].head} ELSE {})

\* sendStatus throws before it sends: in ETH/64 because the latest block is
\* before the active fork, with _status set; in LES because the application
\* passes an object that it has passed before, in which sendStatus has
\* replaced announceType by a buffer, with _status not set.
SendStatusThrows(p) ==
    /\ p \in opened
    /\ Unsent(proto[p])
    /\ \/ /\ HasForkId /\ hardforkBlock(setup.chain[p]) > 1
          /\ proto' = [proto EXCEPT ![p].status = "unsent"]
       \/ /\ setup.protocol.name = les2.name
          /\ UNCHANGED proto
    /\ UNCHANGED <<opened, closed, deaf, queue, setup>>

\* A STATUS.  A second one throws, and so does one that does not pass, and
\* what is thrown here ends in disconnect().
ReceiveStatus(p) ==
    LET s == proto[p]
        t == Handled(p, [s EXCEPT !.theirs = Head(queue[p])])
    IN  /\ Deliver(p)
        /\ Head(queue[p]).code = ETH_LES_STATUS
        /\ IF s.theirs # NoStatus
           THEN /\ p \in closed'
                /\ UNCHANGED proto
           ELSE /\ t.failed => p \in closed'
                /\ proto' = [proto EXCEPT ![p] = t]
        /\ UNCHANGED setup

ReceiveData(p) ==
    /\ Deliver(p)
    /\ Head(queue[p]).code # ETH_LES_STATUS
    /\ proto' = [proto EXCEPT ![p].heard = @ \/ Allowed(setup.protocol, Head(queue[p]).code)]
    /\ UNCHANGED setup

Receive(p) == ReceiveStatus(p) \/ ReceiveData(p)

\* The application sends a message, after 'status'.
Say(p, code) ==
    /\ proto[p].ready
    /\ ~proto[p].said       \* bound
    /\ Allowed(setup.protocol, code)
    /\ Send(p, Data(code))
    /\ proto' = [proto EXCEPT ![p].said = TRUE]
    /\ UNCHANGED setup

\* The timer, which is cleared only by _handleStatus, disconnects.  It is not
\* within a chunk.
Expire(p) ==
    /\ proto[p].timer
    /\ IF p \in closed THEN UNCHANGED linkVars ELSE Shut(p) /\ p \in deaf'
    /\ proto' = [proto EXCEPT ![p].timer = FALSE]
    /\ UNCHANGED setup

\* The rest of what a Peer does to the link.
Leave(p) == (Shut(p) \/ Drop(p)) /\ UNCHANGED <<setup, proto>>

Next ==
    \E p \in Sides :
        \/ Start(p)
        \/ \E latest \in LatestBlocks(p) : SendStatus(p, latest)
        \/ SendStatusThrows(p)
        \/ Receive(p)
        \/ \E code \in {1, 13} : Say(p, code)
        \/ Expire(p)
        \/ Leave(p)

Spec == Init /\ [][Next]_vars

\* The timer fires, and the link keeps what it owes (Arrives and Parts).
FairSpec ==
    /\ Spec
    /\ \A p \in Sides :
         /\ WF_vars(Expire(p))
         /\ WF_vars(p \notin closed /\ Receive(p))
         /\ WF_vars(Other(p) \in closed /\ Leave(p))

-----------------------------------------------------------------------------
(* Properties *)

StatusMsg == [code : {ETH_LES_STATUS}, network : Nat, genesis : Nat,
              forkId : {<<>>} \cup [hash : Seq(Nat), next : Seq(0..255)]]
DataMsg   == [code : Nat \ {ETH_LES_STATUS}]

TypeOK ==
    /\ opened \subseteq Sides
    /\ closed \subseteq Sides
    /\ deaf \subseteq closed
    /\ queue \in [Sides -> Seq(StatusMsg \cup DataMsg)]
    /\ setup \in Setups
    /\ proto \in [Sides -> [status : {"none", "unsent", "sent"},
                            theirs : StatusMsg \cup {NoStatus}, timer : BOOLEAN, latest : Nat,
                            ready : BOOLEAN, failed : BOOLEAN, said : BOOLEAN, heard : BOOLEAN]]

\* Where a STATUS is on its way to p.
Coming(p) == {k \in DOMAIN queue[p] : queue[p][k].code = ETH_LES_STATUS}

OneWorld  == /\ setup.chain["dialer"].network = setup.chain["listener"].network
             /\ setup.chain["dialer"].genesis = setup.chain["listener"].genesis
OneForks  == setup.chain["dialer"].forks = setup.chain["listener"].forks
UpToDate  == \A p \in Sides : Current(setup.chain[p])
Apart     == HasForkId /\ Diverged(setup.chain["dialer"], setup.chain["listener"])
Strangers == ~OneWorld \/ (UpToDate /\ Apart)

\* Nobody gets 'status' from a node of another network or genesis, and two
\* nodes whose chains have parted at a fork do not both get it, though each
\* of them judges the other by what it knows of the forks itself.
ReadyMeansOneChain ==
    /\ \A p \in Sides : proto[p].ready => OneWorld
    /\ UpToDate /\ (\A p \in Sides : proto[p].ready) => ~Apart

\* Two nodes of the same chain, each with the fork of its own head, accept
\* each other wherever their heads are; but for a next fork whose number has
\* an odd number of hexadecimal digits, of which sendStatus loses one.
OneChainAccepted ==
    OneWorld /\ OneForks /\ UpToDate =>
        \A p \in Sides :
            proto[p].failed => DigitLost(setup.chain[Other(p)])

\* 'Uncontrolled status message' never happens between two nodes of this
\* code, though applications may call sendStatus whenever they like.
OneStatus ==
    \A p \in Sides :
        /\ \A j, k \in Coming(p) : j = k
        /\ proto[p].theirs # NoStatus => Coming(p) = {}

\* README.md: "wait for the corresponding status message to arrive to start
\* the communication".  Before 'status' a message comes only to one who has
\* refused the other, or from one whose sendStatus has thrown after it had
\* set _status.
EarlyMessageExplained ==
    \A p \in Sides :
        proto[p].heard => \/ proto[p].ready
                         \/ proto[p].failed
                         \/ proto[Other(p)].status = "unsent"

\* Every handshake ends: in 'status', in an error, or with the connection.
HandshakeEnds ==
    \A p \in Sides : p \in opened ~> proto[p].ready \/ proto[p].failed \/ p \in closed

\* Two nodes that do not belong together part once both have sent STATUS,
\* though the one that finds out in its sendStatus does not disconnect.
StrangersPart ==
    Strangers /\ (\A p \in Sides : proto[p].status = "sent") ~> closed = Sides
=============================================================================
