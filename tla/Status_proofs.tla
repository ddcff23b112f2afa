---------------------------- MODULE Status_proofs ----------------------------
(***************************************************************************)
(* What holds of the STATUS handshake for every network, chain and         *)
(* protocol.                                                               *)
(***************************************************************************)
EXTENDS Status, TLAPS

Statuses == {StatusOf(q) : q \in Sides}
Datas    == {Data(code) : code \in {1, 13}}
Latests  == {hardforkBlock(setup.chain[q]) : q \in Sides} \cup {setup.chain[q].head : q \in Sides}

Protos == [status : {"none", "unsent", "sent"}, theirs : Statuses \cup {NoStatus},
           timer : BOOLEAN, latest : Latests, ready : BOOLEAN, failed : BOOLEAN,
           said : BOOLEAN, heard : BOOLEAN]

Shapes ==
    /\ setup \in Setups
    /\ queue \in [Sides -> Seq(Statuses \cup Datas)]
    /\ proto \in [Sides -> Protos]

\* What p has or gets as a STATUS is the one STATUS of the other.
Theirs(p) ==
    /\ \A k \in Coming(p) : queue[p][k] = StatusOf(Other(p))
    /\ proto[p].theirs \in {NoStatus, StatusOf(Other(p))}

\* There is none before the other has sent it, and one at most.
AtMostOne(p) ==
    /\ proto[Other(p)].status # "sent" => Coming(p) = {} /\ proto[p].theirs = NoStatus
    /\ proto[p].theirs # NoStatus => Coming(p) = {}
    /\ \A j, k \in Coming(p) : j = k

\* Who is ready has judged what it still holds.
Judged(p) == proto[p].ready => Complete(proto[p]) /\ Accepts(p, proto[p])

Inv == Shapes /\ \A p \in Sides : Theirs(p) /\ AtMostOne(p) /\ Judged(p)

Links == opened \subseteq Sides /\ closed \subseteq Sides /\ deaf \subseteq closed

\* Who has failed has refused what it still holds, by one of two latest blocks,
\* and who has sent and has a STATUS has judged it.
Settled(p) ==
    /\ proto[p].failed => Complete(proto[p]) /\ ~Accepts(p, proto[p])
    /\ proto[p].status = "sent" /\ proto[p].theirs # NoStatus => proto[p].ready \/ proto[p].failed
    /\ proto[p].latest \in {hardforkBlock(setup.chain[p]), setup.chain[p].head}

\* p has the STATUS of the other, or it will never hear it.
Told(p) == proto[p].theirs # NoStatus \/ p \in deaf

\* The STATUS of the other is on its way as long as the other can say more,
\* and it is ahead of all that it says, but for what it says without it.
StatusFirst(p) ==
    /\ proto[Other(p)].status = "sent" /\ Other(p) \notin closed => Told(p) \/ Coming(p) # {}
    /\ \A k \in DOMAIN queue[p] \ Coming(p) :
         /\ proto[p].status = "sent"
         /\ \/ proto[Other(p)].status = "unsent"
            \/ Told(p)
            \/ \E j \in Coming(p) : j < k

Explained(p) ==
    proto[p].heard => \/ proto[p].ready
                      \/ proto[p].failed
                      \/ proto[Other(p)].status = "unsent"

\* What of it the order of the messages needs.
Order == /\ Links
         /\ \A p \in Sides : Settled(p) /\ StatusFirst(p) /\ Explained(p)

-----------------------------------------------------------------------------
(* Messages *)

\* Of two sides each is the other of the other.
LEMMA SidesFacts ==
    /\ \A p \in Sides : Other(p) \in Sides /\ Other(p) # p /\ Other(Other(p)) = p
    /\ \A p, q \in Sides : q = p \/ q = Other(p)
BY DEF Sides, Other

\* What a message is known by.
LEMMA Codes ==
    /\ \A q : StatusOf(q).code = 0 /\ StatusOf(q) # NoStatus
    /\ \A code : Data(code).code = code
BY DEF StatusOf, Data, NoStatus, ETH_LES_STATUS

\* StatusOf is the same in the next state.
LEMMA StatusStays ==
    ASSUME setup' = setup
    PROVE  /\ \A q \in Sides : StatusOf(q)' = StatusOf(q)
           /\ Statuses' = Statuses /\ Latests' = Latests /\ Protos' = Protos
BY DEF StatusOf, HasForkId, Statuses, Latests, Protos

\* The judgement depends on the STATUS and on the latest block alone.
LEMMA Judgement ==
    ASSUME setup' = setup, NEW p, NEW s, NEW t, t.theirs = s.theirs, t.latest = s.latest
    PROVE  /\ Accepts(p, t) <=> Accepts(p, s)
           /\ Accepts(p, t)' <=> Accepts(p, t)
BY DEF Accepts, HasForkId

\* Who is ready has judged what it holds, if nothing of that has changed.
LEMMA JudgedNext ==
    ASSUME setup' = setup, NEW p \in Sides, NEW s, NEW t, proto'[p] = t,
           t.theirs = s.theirs, t.latest = s.latest, t.status = s.status,
           t.ready => Complete(s) /\ Accepts(p, s)
    PROVE  Judged(p)'
<1>1. t.ready => Complete(t) /\ Accepts(p, t)
  BY Judgement DEF Complete
<1>2. Accepts(p, t)' <=> Accepts(p, t)
  BY Judgement
<1> QED
  BY <1>1, <1>2 DEF Judged, Complete

\* _handleStatus keeps what it judges; nobody is ready who has refused.
LEMMA HandledFacts ==
    ASSUME NEW p \in Sides, NEW s \in Protos, ~s.ready
    PROVE  LET t == Handled(p, s)
           IN  /\ t \in Protos
               /\ t.status = s.status /\ t.theirs = s.theirs /\ t.latest = s.latest
               /\ t.ready => Complete(s) /\ Accepts(p, s)
<1> DEFINE t == Handled(p, s)
<1>1. Accepts(p, s) \in BOOLEAN
  BY DEF Accepts
<1>2. CASE Complete(s)
  <2>1. t = [s EXCEPT !.timer = FALSE, !.ready = Accepts(p, s), !.failed = ~Accepts(p, s)]
    BY <1>2 DEF Handled
  <2> QED
    BY <1>1, <1>2, <2>1 DEF Protos
<1>3. CASE ~Complete(s)
  BY <1>3 DEF Handled, Protos
<1> QED
  BY <1>2, <1>3

-----------------------------------------------------------------------------
(* Queues *)

\* What is on its way to q has moved up by n places, or n of it is gone.
Moved(q, n) ==
    \A k \in Coming(q)' : k + n \in Coming(q) /\ queue'[q][k] = queue[q][k + n]

\* What is on its way and has moved up is still the STATUS of the other.
LEMMA MovedOn ==
    ASSUME setup' = setup, NEW q \in Sides, NEW n \in Nat, Moved(q, n),
           queue'[q] \in Seq(Statuses \cup Datas), Theirs(q), AtMostOne(q)
    PROVE  /\ \A k \in Coming(q)' : queue'[q][k] = StatusOf(Other(q))'
           /\ Coming(q) = {} => Coming(q)' = {}
           /\ \A j, k \in Coming(q)' : j = k
<1>1. StatusOf(Other(q))' = StatusOf(Other(q))
  BY StatusStays, SidesFacts
<1>2. \A k \in Coming(q)' : queue'[q][k] = StatusOf(Other(q))'
  BY <1>1 DEF Moved, Theirs
<1>3. Coming(q) = {} => Coming(q)' = {}
  BY DEF Moved
<1>4. ASSUME NEW j \in Coming(q)', NEW k \in Coming(q)'
      PROVE  j = k
  <2>1. queue'[q] \in Seq(Statuses \cup Datas)
    OBVIOUS
  <2>2. j \in Nat /\ k \in Nat
    BY <2>1 DEF Coming
  <2>3. j + n = k + n
    BY <1>4 DEF Moved, AtMostOne
  <2> QED
    BY <2>2, <2>3
<1> QED
  BY <1>2, <1>3, <1>4

\* A queue that stays has moved up by nothing.
LEMMA SameQueue ==
    ASSUME Shapes, NEW q \in Sides, queue'[q] = queue[q]
    PROVE  Moved(q, 0)
<1>1. \A k \in DOMAIN queue[q] : k + 0 = k
  BY DEF Shapes
<1> QED
  BY <1>1 DEF Moved, Coming

\* A queue that has lost its first messages has moved up.
LEMMA DroppedQueue ==
    ASSUME Shapes, NEW q \in Sides, NEW n \in 1..Len(queue[q]),
           queue'[q] = SubSeq(queue[q], n + 1, Len(queue[q]))
    PROVE  /\ queue'[q] \in Seq(Statuses \cup Datas)
           /\ Moved(q, n)
<1> DEFINE s == queue[q]
           t == SubSeq(s, n + 1, Len(s))
<1>1. s \in Seq(Statuses \cup Datas)
  BY DEF Shapes
<1>2. /\ t \in Seq(Statuses \cup Datas) /\ Len(t) = Len(s) - n
      /\ \A k \in 1..(Len(s) - n) : t[k] = s[k + n]
  BY <1>1
<1>3. DOMAIN t = 1..(Len(s) - n) /\ DOMAIN s = 1..Len(s)
  BY <1>1, <1>2
<1>5. queue'[q] = t
  OBVIOUS
<1> HIDE DEF t
<1>4. \A k \in DOMAIN t : k + n \in DOMAIN s /\ t[k] = s[k + n]
  BY <1>1, <1>2, <1>3
<1> QED
  BY <1>2, <1>4, <1>5 DEF Moved, Coming

\* A queue whose first message is delivered has moved up by one place.
LEMMA DeliveredQueue ==
    ASSUME Shapes, NEW q \in Sides, queue[q] # <<>>, queue'[q] = Tail(queue[q])
    PROVE  /\ queue'[q] \in Seq(Statuses \cup Datas)
           /\ Moved(q, 1)
           /\ 1 \in DOMAIN queue[q] /\ Head(queue[q]) = queue[q][1]
           /\ Head(queue[q]) \in Statuses \cup Datas
<1> DEFINE s == queue[q]
           t == Tail(s)
<1>1. s \in Seq(Statuses \cup Datas)
  BY DEF Shapes
<1>2. /\ t \in Seq(Statuses \cup Datas) /\ Len(t) = Len(s) - 1
      /\ \A k \in 1..(Len(s) - 1) : t[k] = s[k + 1]
      /\ Head(s) = s[1] /\ 1 \in DOMAIN s /\ s[1] \in Statuses \cup Datas
  BY <1>1
<1>3. DOMAIN t = 1..(Len(s) - 1) /\ DOMAIN s = 1..Len(s)
  BY <1>1, <1>2
<1>5. queue'[q] = t
  OBVIOUS
<1> HIDE DEF t
<1>4. \A k \in DOMAIN t : k + 1 \in DOMAIN s /\ t[k] = s[k + 1]
  BY <1>1, <1>2, <1>3
<1> QED
  BY <1>2, <1>4, <1>5 DEF Moved, Coming

\* A message is added at the end.
LEMMA LongerQueue ==
    ASSUME Shapes, NEW q \in Sides, NEW m \in Statuses \cup Datas,
           queue'[q] = Append(queue[q], m)
    PROVE  /\ queue'[q] \in Seq(Statuses \cup Datas)
           /\ m.code # ETH_LES_STATUS => Moved(q, 0)
           /\ \A k \in Coming(q)' : \/ k \in Coming(q) /\ queue'[q][k] = queue[q][k]
                                    \/ k = Len(queue[q]) + 1 /\ queue'[q][k] = m
<1> DEFINE s == queue[q]
           t == Append(s, m)
<1>1. s \in Seq(Statuses \cup Datas)
  BY DEF Shapes
<1>2. /\ t \in Seq(Statuses \cup Datas) /\ Len(t) = Len(s) + 1
      /\ \A k \in 1..Len(s) : t[k] = s[k]
      /\ t[Len(s) + 1] = m
  BY <1>1
<1>3. DOMAIN t = 1..(Len(s) + 1) /\ DOMAIN s = 1..Len(s) /\ Len(s) \in Nat
  BY <1>1, <1>2
<1>5. queue'[q] = t
  OBVIOUS
<1> HIDE DEF t
<1>4. \A k \in DOMAIN t : \/ k \in DOMAIN s /\ t[k] = s[k] /\ k + 0 = k
                          \/ k = Len(s) + 1 /\ t[k] = m
  BY <1>1, <1>2, <1>3
<1> QED
  BY <1>2, <1>4, <1>5 DEF Moved, Coming

-----------------------------------------------------------------------------
(* The invariant *)

\* Nobody has sent or heard anything yet.
LEMMA Start_Inv ==
    ASSUME Init
    PROVE  Inv
<1> SUFFICES ASSUME SetupsAssumption PROVE Inv
  BY SetupsAssumption
<1>1. \A p \in Sides : queue[p] = <<>> /\ Coming(p) = {}
  BY DEF Init, LinkInit, Coming
<1>2. \A p \in Sides : NewProto(setup.chain[p]) \in Protos
  BY DEF NewProto, Protos, Latests
<1>3. Shapes
  BY <1>1, <1>2 DEF Init, LinkInit, Shapes
<1>4. \A p \in Sides : /\ proto[p].theirs = NoStatus /\ ~proto[p].ready
                       /\ proto[p].status = "none"
  BY DEF Init, NewProto
<1> QED
  BY <1>1, <1>3, <1>4, SidesFacts DEF Inv, Theirs, AtMostOne, Judged

\* The queue of q has lost some messages, and no STATUS was sent to it.
LEMMA LessToCome ==
    ASSUME Inv, Shapes', setup' = setup, NEW q \in Sides, NEW n \in Nat, Moved(q, n),
           proto'[q].theirs = proto[q].theirs,
           proto[Other(q)].status = "sent" => proto'[Other(q)].status = "sent"
    PROVE  (Theirs(q) /\ AtMostOne(q))'
<1>1. queue'[q] \in Seq(Statuses \cup Datas)
  BY StatusStays DEF Shapes, Statuses, Datas
<1>2. /\ \A k \in Coming(q)' : queue'[q][k] = StatusOf(Other(q))'
      /\ Coming(q) = {} => Coming(q)' = {}
      /\ \A j, k \in Coming(q)' : j = k
  BY <1>1, MovedOn DEF Inv
<1>3. StatusOf(Other(q))' = StatusOf(Other(q))
  BY StatusStays, SidesFacts
<1>4. Theirs(q)'
  BY <1>2, <1>3 DEF Theirs, Inv
<1>5. AtMostOne(q)'
  BY <1>2 DEF AtMostOne, Inv
<1> QED
  BY <1>4, <1>5

\* What q has judged and will judge by is the same.
LEMMA SameJudgement ==
    ASSUME Inv, setup' = setup, NEW q \in Sides,
           proto'[q].theirs = proto[q].theirs, proto'[q].latest = proto[q].latest,
           proto'[q].status = proto[q].status, proto'[q].ready = proto[q].ready
    PROVE  Judged(q)'
BY Judgement DEF Judged, Inv, Complete

\* A step in which no STATUS is sent or received.
LEMMA Quiet ==
    ASSUME Inv, setup' = setup,
           queue' \in [Sides -> Seq(Statuses \cup Datas)],
           \A q \in Sides : \E n \in Nat : Moved(q, n),
           proto' \in [Sides -> Protos],
           \A q \in Sides : /\ proto'[q].theirs = proto[q].theirs
                            /\ proto'[q].latest = proto[q].latest
                            /\ proto'[q].status = proto[q].status
                            /\ proto'[q].ready = proto[q].ready
    PROVE  Inv'
<1>1. Shapes'
  BY StatusStays DEF Inv, Shapes, Datas
<1>2. ASSUME NEW q \in Sides
      PROVE  (Theirs(q) /\ AtMostOne(q) /\ Judged(q))'
  <2>1. PICK n \in Nat : Moved(q, n)
    OBVIOUS
  <2>2. proto[Other(q)].status = "sent" => proto'[Other(q)].status = "sent"
    BY SidesFacts
  <2> QED
    BY <1>1, <2>1, <2>2, LessToCome, SameJudgement
<1> QED
  BY <1>1, <1>2 DEF Inv

\* Queues that stay are sequences of messages as before.
LEMMA SameQueues ==
    ASSUME Shapes, queue' = queue
    PROVE  /\ queue' \in [Sides -> Seq(Statuses \cup Datas)]
           /\ \A q \in Sides : Moved(q, 0)
           /\ \A q \in Sides : \E n \in Nat : Moved(q, n)
<1>1. \A q \in Sides : Moved(q, 0)
  BY SameQueue
<1> QED
  BY <1>1 DEF Shapes

\* One queue has lost some messages, or got one that is not a STATUS.
LEMMA OneQueue ==
    ASSUME Shapes, NEW p \in Sides, NEW n \in Nat, NEW s \in Seq(Statuses \cup Datas),
           queue' = [queue EXCEPT ![p] = s], Moved(p, n)
    PROVE  /\ queue' \in [Sides -> Seq(Statuses \cup Datas)]
           /\ \A q \in Sides : \E k \in Nat : Moved(q, k)
<1>1. \A q \in Sides \ {p} : queue'[q] = queue[q]
  BY DEF Shapes
<1>2. \A q \in Sides \ {p} : Moved(q, 0)
  BY <1>1, SameQueue
<1> QED
  BY <1>2 DEF Shapes

\* What a delivery is to both queues.
LEMMA Delivered ==
    ASSUME Shapes, NEW p \in Sides, Deliver(p)
    PROVE  /\ queue' = [queue EXCEPT ![p] = Tail(queue[p])]
           /\ queue' \in [Sides -> Seq(Statuses \cup Datas)]
           /\ Moved(p, 1) /\ \A q \in Sides : \E k \in Nat : Moved(q, k)
           /\ 1 \in DOMAIN queue[p] /\ Head(queue[p]) = queue[p][1]
           /\ Head(queue[p]) \in Statuses \cup Datas
<1>1. queue[p] # <<>> /\ queue' = [queue EXCEPT ![p] = Tail(queue[p])]
  BY DEF Deliver
<1>2. queue'[p] = Tail(queue[p])
  BY <1>1 DEF Shapes
<1>3. /\ queue'[p] \in Seq(Statuses \cup Datas) /\ Moved(p, 1)
      /\ 1 \in DOMAIN queue[p] /\ Head(queue[p]) = queue[p][1]
      /\ Head(queue[p]) \in Statuses \cup Datas
  BY <1>1, <1>2, DeliveredQueue
<1> QED
  BY <1>1, <1>2, <1>3, OneQueue

-----------------------------------------------------------------------------
(* Its steps *)

\* A protocol that is made has a timer, and that is all.
LEMMA Start_Step ==
    ASSUME Inv, NEW p \in Sides, Start(p)
    PROVE  Inv'
<1>1. queue' = queue /\ setup' = setup /\ proto' = [proto EXCEPT ![p].timer = TRUE]
  BY DEF Start, Open
<1>2. /\ proto' \in [Sides -> Protos]
      /\ \A q \in Sides : /\ proto'[q].theirs = proto[q].theirs
                          /\ proto'[q].latest = proto[q].latest
                          /\ proto'[q].status = proto[q].status
                          /\ proto'[q].ready = proto[q].ready
  BY <1>1, ZenonT(60) DEF Inv, Shapes, Protos
<1> QED
  BY <1>1, <1>2, SameQueues, Quiet DEF Inv

\* A message that is no STATUS changes nothing of the handshake.
LEMMA ReceiveData_Step ==
    ASSUME Inv, NEW p \in Sides, ReceiveData(p)
    PROVE  Inv'
<1> DEFINE heard == proto[p].heard \/ Allowed(setup.protocol, Head(queue[p]).code)
<1>1. setup' = setup /\ proto' = [proto EXCEPT ![p].heard = heard] /\ heard \in BOOLEAN
  BY DEF ReceiveData, Inv, Shapes, Protos, Allowed
<1> HIDE DEF heard
<1>2. /\ proto' \in [Sides -> Protos]
      /\ \A q \in Sides : /\ proto'[q].theirs = proto[q].theirs
                          /\ proto'[q].latest = proto[q].latest
                          /\ proto'[q].status = proto[q].status
                          /\ proto'[q].ready = proto[q].ready
  BY <1>1 DEF Inv, Shapes, Protos
<1>3. Deliver(p)
  BY DEF ReceiveData
<1> QED
  BY <1>1, <1>2, <1>3, Delivered, Quiet DEF Inv

\* Nor does it when it is sent.
LEMMA Say_Step ==
    ASSUME Inv, NEW p \in Sides, NEW code \in {1, 13}, Say(p, code)
    PROVE  Inv'
<1>1. setup' = setup /\ proto' = [proto EXCEPT ![p].said = TRUE]
  BY DEF Say
<1>2. /\ proto' \in [Sides -> Protos]
      /\ \A q \in Sides : /\ proto'[q].theirs = proto[q].theirs
                          /\ proto'[q].latest = proto[q].latest
                          /\ proto'[q].status = proto[q].status
                          /\ proto'[q].ready = proto[q].ready
  BY <1>1, ZenonT(60) DEF Inv, Shapes, Protos
<1>3. \/ queue' = [queue EXCEPT ![Other(p)] = Append(queue[Other(p)], Data(code))]
      \/ queue' = queue
  BY DEF Say, Send
<1>4. ASSUME queue' = [queue EXCEPT ![Other(p)] = Append(queue[Other(p)], Data(code))]
      PROVE  /\ queue' \in [Sides -> Seq(Statuses \cup Datas)]
             /\ \A q \in Sides : \E n \in Nat : Moved(q, n)
  <2>1. Other(p) \in Sides /\ Data(code) \in Statuses \cup Datas
    BY SidesFacts DEF Datas
  <2>2. queue'[Other(p)] = Append(queue[Other(p)], Data(code))
    BY <1>4, <2>1 DEF Inv, Shapes
  <2>3. Data(code).code # ETH_LES_STATUS
    BY Codes DEF ETH_LES_STATUS
  <2>4. queue'[Other(p)] \in Seq(Statuses \cup Datas) /\ Moved(Other(p), 0)
    BY <2>1, <2>2, <2>3, LongerQueue DEF Inv
  <2> QED
    BY <1>4, <2>1, <2>2, <2>4, OneQueue DEF Inv
<1> QED
  BY <1>1, <1>2, <1>3, <1>4, SameQueues, Quiet DEF Inv

\* Nor do the timer and the end of a Peer, which may lose STATUS.
LEMMA Gone_Step ==
    ASSUME Inv, NEW p \in Sides, Shut(p) \/ Drop(p) \/ queue' = queue, setup' = setup,
           proto' = proto \/ proto' = [proto EXCEPT ![p].timer = FALSE]
    PROVE  Inv'
<1>1. /\ proto' \in [Sides -> Protos]
      /\ \A q \in Sides : /\ proto'[q].theirs = proto[q].theirs
                          /\ proto'[q].latest = proto[q].latest
                          /\ proto'[q].status = proto[q].status
                          /\ proto'[q].ready = proto[q].ready
  <2>1. CASE proto' = proto
    BY <2>1 DEF Inv, Shapes
  <2>2. CASE proto' = [proto EXCEPT ![p].timer = FALSE]
    BY <2>2, ZenonT(60) DEF Inv, Shapes, Protos
  <2> QED
    BY <2>1, <2>2
<1>2. CASE Shut(p) \/ queue' = queue
  BY <1>1, <1>2, SameQueues, Quiet DEF Inv, Shut
<1>3. CASE Drop(p)
  <2>1. PICK n \in 1..Len(queue[p]) :
            queue' = [queue EXCEPT ![p] = SubSeq(queue[p], n + 1, Len(queue[p]))]
    BY <1>3 DEF Drop
  <2>2. queue'[p] = SubSeq(queue[p], n + 1, Len(queue[p]))
    BY <2>1 DEF Inv, Shapes
  <2>3. queue'[p] \in Seq(Statuses \cup Datas) /\ Moved(p, n)
    BY <2>2, DroppedQueue DEF Inv
  <2>4. n \in Nat
    OBVIOUS
  <2> QED
    BY <1>1, <2>1, <2>2, <2>3, <2>4, OneQueue, Quiet DEF Inv
<1> QED
  BY <1>2, <1>3

\* A sendStatus that throws sends nothing.
LEMMA Throws_Step ==
    ASSUME Inv, NEW p \in Sides, SendStatusThrows(p)
    PROVE  Inv'
<1>1. queue' = queue /\ setup' = setup /\ proto[p].status = "none"
  BY DEF SendStatusThrows, Unsent
<1>2. CASE proto' = proto
  BY <1>1, <1>2, Gone_Step
<1>3. CASE proto' = [proto EXCEPT ![p].status = "unsent"]
  <2>1. /\ proto' \in [Sides -> Protos]
        /\ \A q \in Sides : /\ proto'[q].theirs = proto[q].theirs
                            /\ proto'[q].latest = proto[q].latest
                            /\ proto'[q].ready = proto[q].ready
                            /\ q # p => proto'[q].status = proto[q].status
    BY <1>3, ZenonT(60) DEF Inv, Shapes, Protos
  <2>2. Shapes'
    BY <1>1, <2>1, StatusStays DEF Inv, Shapes, Datas
  <2>3. ASSUME NEW q \in Sides
        PROVE  (Theirs(q) /\ AtMostOne(q))'
    <3>1. proto[Other(q)].status = "sent" => proto'[Other(q)].status = "sent"
      BY <1>1, <2>1, SidesFacts
    <3>2. Moved(q, 0)
      BY <1>1, SameQueues DEF Inv
    <3> QED
      BY <1>1, <2>1, <2>2, <3>1, <3>2, LessToCome
  <2>4. ~proto[p].ready
    BY <1>1 DEF Inv, Judged, Complete
  <2>5. ASSUME NEW q \in Sides PROVE Judged(q)'
    <3>1. CASE q = p
      BY <2>1, <2>4, <3>1 DEF Judged
    <3>2. CASE q # p
      BY <1>1, <2>1, <3>2, SameJudgement
    <3> QED
      BY <3>1, <3>2
  <2> QED
    BY <2>2, <2>3, <2>5 DEF Inv
<1> QED
  BY <1>2, <1>3 DEF SendStatusThrows

\* STATUS is sent once, and what has come before is judged.
LEMMA SendStatus_Step ==
    ASSUME Inv, NEW p \in Sides, NEW latest \in LatestBlocks(p), SendStatus(p, latest)
    PROVE  Inv'
<1> DEFINE s == [proto[p] EXCEPT !.status = "sent", !.latest = latest]
           t == Handled(p, s)
           o == Other(p)
<1>1. setup' = setup /\ proto' = [proto EXCEPT ![p] = t] /\ proto[p].status = "none"
  BY DEF SendStatus, Unsent
<1>2. \/ queue' = queue
      \/ queue' = [queue EXCEPT ![o] = Append(queue[o], StatusOf(p))]
  BY DEF SendStatus, Send, linkVars
<1>3. o \in Sides /\ o # p /\ Other(o) = p /\ \A q \in Sides : q = p \/ q = o
  BY SidesFacts
<1>4. proto[p] \in Protos /\ ~proto[p].ready
  BY <1>1 DEF Inv, Shapes, Judged, Complete
<1>5. latest \in Latests
  BY DEF LatestBlocks, Latests, Inv, Shapes, Protos
<1>6. /\ s \in Protos /\ ~s.ready
      /\ s.status = "sent" /\ s.theirs = proto[p].theirs /\ s.latest = latest
  BY <1>4, <1>5 DEF Protos
<1> HIDE DEF s
<1>7. /\ t \in Protos /\ t.status = "sent" /\ t.theirs = proto[p].theirs /\ t.latest = latest
      /\ t.ready => Complete(s) /\ Accepts(p, s)
  BY <1>6, HandledFacts
<1> HIDE DEF t
<1>8. /\ proto' \in [Sides -> Protos]
      /\ proto'[p] = t /\ proto'[o] = proto[o]
  BY <1>1, <1>3, <1>7 DEF Inv, Shapes
<1> HIDE DEF o
<1>9. /\ queue' \in [Sides -> Seq(Statuses \cup Datas)]
      /\ queue'[p] = queue[p]
      /\ queue'[o] = queue[o] \/ queue'[o] = Append(queue[o], StatusOf(p))
  <2>1. StatusOf(p) \in Statuses \cup Datas
    BY DEF Statuses
  <2>2. Append(queue[o], StatusOf(p)) \in Seq(Statuses \cup Datas)
    BY <1>3, <2>1 DEF Inv, Shapes
  <2>3. CASE queue' = queue
    BY <2>3 DEF Inv, Shapes
  <2>4. CASE queue' = [queue EXCEPT ![o] = Append(queue[o], StatusOf(p))]
    BY <1>3, <2>2, <2>4 DEF Inv, Shapes
  <2> QED
    BY <1>2, <2>3, <2>4
<1>10. Shapes'
  BY <1>1, <1>8, <1>9, StatusStays DEF Inv, Shapes, Datas
<1>11. (Theirs(p) /\ AtMostOne(p))'
  <2>1. Moved(p, 0)
    BY <1>9, SameQueue DEF Inv
  <2>2. proto'[Other(p)].status = proto[Other(p)].status
    BY <1>8 DEF o
  <2> QED
    BY <1>1, <1>7, <1>8, <1>10, <2>1, <2>2, LessToCome
<1>12. Judged(p)'
  BY <1>1, <1>6, <1>7, <1>8, JudgedNext
<1>13. Judged(o)'
  BY <1>1, <1>3, <1>8, SameJudgement
<1>14. (Theirs(o) /\ AtMostOne(o))'
  <2>1. CASE queue'[o] = queue[o]
    <3>1. Moved(o, 0)
      BY <1>3, <2>1, SameQueue DEF Inv
    <3> QED
      BY <1>1, <1>3, <1>7, <1>8, <1>10, <3>1, LessToCome
  <2>2. CASE queue'[o] = Append(queue[o], StatusOf(p))
    <3>1. Coming(o) = {} /\ proto[o].theirs = NoStatus
      BY <1>1, <1>3 DEF Inv, AtMostOne
    <3>2. \A k \in Coming(o)' : k = Len(queue[o]) + 1 /\ queue'[o][k] = StatusOf(p)
      <4>1. StatusOf(p) \in Statuses \cup Datas
        BY DEF Statuses
      <4> QED
        BY <1>3, <2>2, <3>1, <4>1, LongerQueue DEF Inv
    <3>3. StatusOf(Other(o))' = StatusOf(p)
      BY <1>1, <1>3, StatusStays
    <3>4. Theirs(o)'
      BY <1>8, <3>1, <3>2, <3>3 DEF Theirs
    <3>5. AtMostOne(o)'
      BY <1>3, <1>7, <1>8, <3>1, <3>2 DEF AtMostOne
    <3> QED
      BY <3>4, <3>5
  <2> QED
    BY <1>9, <2>1, <2>2
<1> QED
  BY <1>3, <1>10, <1>11, <1>12, <1>13, <1>14 DEF Inv

\* STATUS comes once.
LEMMA ReceiveStatus_Step ==
    ASSUME Inv, NEW p \in Sides, ReceiveStatus(p)
    PROVE  Inv'
<1> DEFINE m == Head(queue[p])
           s == [proto[p] EXCEPT !.theirs = m]
           t == Handled(p, s)
           o == Other(p)
<1>1. /\ setup' = setup /\ Deliver(p) /\ m.code = ETH_LES_STATUS
      /\ proto[p].theirs = NoStatus => proto' = [proto EXCEPT ![p] = t]
  BY DEF ReceiveStatus
<1>2. /\ queue' = [queue EXCEPT ![p] = Tail(queue[p])]
      /\ queue' \in [Sides -> Seq(Statuses \cup Datas)]
      /\ Moved(p, 1) /\ 1 \in DOMAIN queue[p] /\ m = queue[p][1]
      /\ m \in Statuses \cup Datas
  BY <1>1, Delivered DEF Inv
<1>3. o \in Sides /\ o # p /\ Other(o) = p /\ \A q \in Sides : q = p \/ q = o
  BY SidesFacts
<1>4. 1 \in Coming(p)
  BY <1>1, <1>2 DEF Coming
<1>5. m = StatusOf(o)
  BY <1>2, <1>4 DEF Inv, Theirs
<1>6. proto[p].theirs = NoStatus /\ proto[o].status = "sent"
  BY <1>4 DEF Inv, AtMostOne
<1>7. proto[p] \in Protos /\ ~proto[p].ready
  BY <1>6 DEF Inv, Shapes, Judged, Complete
<1>8. m \in Statuses
  BY <1>3, <1>5 DEF Statuses
<1>9. s \in Protos /\ ~s.ready /\ s.theirs = m
  BY <1>7, <1>8 DEF Protos
<1> HIDE DEF m, s
<1>10. /\ t \in Protos /\ t.theirs = m /\ t.status = s.status /\ t.latest = s.latest
       /\ t.ready => Complete(s) /\ Accepts(p, s)
  BY <1>9, HandledFacts
<1> HIDE DEF t
<1>11. /\ proto' \in [Sides -> Protos]
       /\ proto'[p] = t /\ proto'[o] = proto[o]
  BY <1>1, <1>3, <1>6, <1>10 DEF Inv, Shapes
<1> HIDE DEF o
<1>12. Shapes'
  BY <1>1, <1>2, <1>11, StatusStays DEF Inv, Shapes, Datas
<1>13. Coming(p)' = {}
  <2>1. ASSUME NEW k \in Coming(p)' PROVE FALSE
    <3>1. k + 1 = 1
      BY <1>2, <1>4 DEF Moved, Inv, AtMostOne
    <3>2. k \in Nat \ {0}
      BY <1>2 DEF Coming
    <3> QED
      BY <3>1, <3>2
  <2> QED
    BY <2>1
<1>14. (Theirs(p) /\ AtMostOne(p))'
  <2>1. StatusOf(o)' = StatusOf(o)
    BY <1>1, <1>3, StatusStays
  <2>2. proto'[p].theirs = StatusOf(o) /\ proto'[o].status = "sent"
    BY <1>5, <1>6, <1>10, <1>11
  <2> QED
    BY <1>13, <2>1, <2>2 DEF Theirs, AtMostOne, o
<1>15. Judged(p)'
  BY <1>1, <1>9, <1>10, <1>11, JudgedNext
<1>16. Judged(o)'
  BY <1>1, <1>3, <1>11, SameJudgement
<1>17. (Theirs(o) /\ AtMostOne(o))'
  <2>1. Moved(o, 0)
    <3>1. queue'[o] = queue[o]
      BY <1>2, <1>3 DEF Inv, Shapes
    <3> QED
      BY <1>3, <3>1, SameQueue DEF Inv
  <2>2. proto'[Other(o)].status = proto[Other(o)].status
    <3>1. s.status = proto[p].status
      BY <1>7 DEF s, Protos
    <3> QED
      BY <1>3, <1>10, <1>11, <3>1
  <2> QED
    BY <1>1, <1>3, <1>11, <1>12, <2>1, <2>2, LessToCome
<1> QED
  BY <1>3, <1>12, <1>14, <1>15, <1>16, <1>17 DEF Inv

\* The invariant of who has which STATUS is inductive.
LEMMA Inv_Step ==
    ASSUME Inv, [Next]_vars
    PROVE  Inv'
<1>1. ASSUME NEW p \in Sides, Start(p) PROVE Inv'
  BY <1>1, Start_Step
<1>2. ASSUME NEW p \in Sides, NEW latest \in LatestBlocks(p), SendStatus(p, latest) PROVE Inv'
  BY <1>2, SendStatus_Step
<1>3. ASSUME NEW p \in Sides, SendStatusThrows(p) PROVE Inv'
  BY <1>3, Throws_Step
<1>4. ASSUME NEW p \in Sides, Receive(p) PROVE Inv'
  BY <1>4, ReceiveStatus_Step, ReceiveData_Step DEF Receive
<1>5. ASSUME NEW p \in Sides, NEW code \in {1, 13}, Say(p, code) PROVE Inv'
  BY <1>5, Say_Step
<1>6. ASSUME NEW p \in Sides, Expire(p) PROVE Inv'
  BY <1>6, Gone_Step DEF Expire, linkVars
<1>7. ASSUME NEW p \in Sides, Leave(p) PROVE Inv'
  BY <1>7, Gone_Step DEF Leave
<1>8. CASE UNCHANGED vars
  <2>1. "dialer" \in Sides
    BY DEF Sides
  <2> QED
    BY <1>8, <2>1, Gone_Step DEF vars
<1> QED
  BY <1>1, <1>2, <1>3, <1>4, <1>5, <1>6, <1>7, <1>8 DEF Next

\* The inductive invariant: who has, gets and judges which STATUS.
THEOREM Invariance == Spec => []Inv
<1>1. Init => Inv
  BY Start_Inv
<1>2. Inv /\ [Next]_vars => Inv'
  BY Inv_Step
<1> QED
  BY <1>1, <1>2, PTL DEF Spec

-----------------------------------------------------------------------------
(* The theorems *)

\* 'Uncontrolled status message' (eth/index.ts:70, les/index.ts:47) is thrown
\* at nobody, for all chains and whatever becomes of the link.
THEOREM NoSecondStatus == Spec => []OneStatus
<1>1. Inv => OneStatus
  BY DEF Inv, AtMostOne, OneStatus
<1> QED
  BY <1>1, Invariance, PTL

\* What a node says of its chain.
LEMMA ChainsAre ==
    ASSUME Inv, SetupsAssumption, NEW p \in Sides
    PROVE  /\ setup.chain[p].network \in Nat /\ setup.chain[p].genesis \in Nat
           /\ setup.chain[p].forks \in Seq(Words) /\ setup.chain[p].forks \in Seq(Nat)
           /\ setup.chain[p].at \in DOMAIN setup.chain[p].forks
           /\ setup.chain[p].head \in Nat
<1>1. PICK c : c = setup.chain[p]
  OBVIOUS
<1>2. /\ c.network \in Nat /\ c.genesis \in Nat /\ c.forks \in Seq(Words)
      /\ c.at \in DOMAIN c.forks /\ c.head \in Nat
  BY <1>1 DEF Inv, Shapes, SetupsAssumption
<1>3. \A k \in 1..Len(c.forks) : c.forks[k] \in Nat
  <2>1. \A k \in 1..Len(c.forks) : c.forks[k] \in Words
    BY <1>2
  <2> QED
    BY <2>1 DEF Words
<1>4. c.forks \in Seq(Nat)
  BY <1>2, <1>3
<1> QED
  BY <1>1, <1>2, <1>4

\* Equal prefixes of two sequences are of the same length.
LEMMA EqualPrefixes ==
    ASSUME NEW u \in Seq(Nat), NEW v \in Seq(Nat), NEW k \in 1..Len(u), NEW i \in 1..Len(v),
           SubSeq(u, 1, k) = SubSeq(v, 1, i)
    PROVE  \A j \in 1..i : j \in 1..Len(u) /\ u[j] = v[j]
<1>1. Len(SubSeq(u, 1, k)) = k /\ \A j \in 1..k : SubSeq(u, 1, k)[j] = u[j]
  OBVIOUS
<1>2. Len(SubSeq(v, 1, i)) = i /\ \A j \in 1..i : SubSeq(v, 1, i)[j] = v[j]
  OBVIOUS
<1>3. k = i
  BY <1>1, <1>2
<1> QED
  BY <1>1, <1>2, <1>3

\* What a STATUS says is what its sender is.
LEMMA StatusFields ==
    \A q : /\ StatusOf(q).network = setup.chain[q].network
           /\ StatusOf(q).genesis = setup.chain[q].genesis
           /\ HasForkId => StatusOf(q).forkId = OwnForkId(setup.chain[q])
BY DEF StatusOf

\* Two nodes with the forks of their heads that know each other's hash have
\* the same forks up to the lesser of the two heads.
LEMMA ForksShared ==
    ASSUME NEW c, NEW d,
           c.forks \in Seq(Nat), c.at \in DOMAIN c.forks, c.head \in Nat, Current(c),
           d.forks \in Seq(Nat), d.at \in DOMAIN d.forks, d.head \in Nat, Current(d),
           KnownAs(c, forkHash(d)) # {}, KnownAs(d, forkHash(c)) # {}
    PROVE  ~Diverged(c, d)
<1> DEFINE f == c.forks
           g == d.forks
<1>1. /\ f \in Seq(Nat) /\ DOMAIN f = 1..Len(f)
      /\ g \in Seq(Nat) /\ DOMAIN g = 1..Len(g)
  OBVIOUS
<1>2. \A j \in 1..d.at : j \in DOMAIN f /\ f[j] = g[j]
  <2>1. PICK k \in DOMAIN f : SubSeq(f, 1, k) = SubSeq(g, 1, d.at)
    BY DEF KnownAs, forkHash
  <2> QED
    BY <1>1, <2>1, EqualPrefixes
<1>3. \A j \in 1..c.at : j \in DOMAIN g /\ g[j] = f[j]
  <2>1. PICK k \in DOMAIN g : SubSeq(g, 1, k) = SubSeq(f, 1, c.at)
    BY DEF KnownAs, forkHash
  <2> QED
    BY <1>1, <2>1, EqualPrefixes
<1>4. ASSUME NEW k \in DOMAIN f, f[k] <= c.head PROVE f[k] \in Range(g)
  <2>1. k \in 1..c.at
    BY <1>4 DEF Current
  <2> QED
    BY <1>3, <2>1 DEF Range
<1>5. ASSUME NEW k \in DOMAIN g, g[k] <= d.head PROVE g[k] \in Range(f)
  <2>1. k \in 1..d.at
    BY <1>5 DEF Current
  <2> QED
    BY <1>2, <2>1 DEF Range
<1> QED
  BY <1>4, <1>5 DEF Diverged, Range

\* Whoever is ready has a remote of its network and genesis block, and two
\* that are both ready have not parted at a fork, however many forks there
\* are and whatever becomes of the numbers of the next ones.
THEOREM ReadyOnOneChain == Spec => []ReadyMeansOneChain
<1> SUFFICES ASSUME SetupsAssumption PROVE Spec => []ReadyMeansOneChain
  BY SetupsAssumption
<1>1. ASSUME Inv, NEW p \in Sides, proto[p].ready
      PROVE  Accepts(p, proto[p]) /\ proto[p].theirs = StatusOf(Other(p))
  BY <1>1 DEF Inv, Judged, Complete, Theirs
<1>2. ASSUME Inv, NEW p \in Sides, proto[p].ready
      PROVE  OneWorld
  <2>1. /\ setup.chain[Other(p)].network = setup.chain[p].network
        /\ setup.chain[Other(p)].genesis = setup.chain[p].genesis
    BY <1>1, <1>2, StatusFields DEF Accepts
  <2> QED
    BY <2>1 DEF OneWorld, Sides, Other
<1>3. ASSUME Inv, UpToDate, \A p \in Sides : proto[p].ready, HasForkId
      PROVE  ~Diverged(setup.chain["dialer"], setup.chain["listener"])
  <2> DEFINE c == setup.chain["dialer"]
             d == setup.chain["listener"]
  <2>1. /\ "dialer" \in Sides /\ Other("dialer") = "listener"
        /\ "listener" \in Sides /\ Other("listener") = "dialer"
    BY DEF Sides, Other
  <2>3. /\ c.forks \in Seq(Nat) /\ c.at \in DOMAIN c.forks /\ c.head \in Nat
        /\ d.forks \in Seq(Nat) /\ d.at \in DOMAIN d.forks /\ d.head \in Nat
    BY <1>3, <2>1, ChainsAre
  <2>4. Current(c) /\ Current(d)
    BY <1>3, <2>1 DEF UpToDate
  <2>5. ASSUME NEW p \in Sides
        PROVE  KnownAs(setup.chain[p], forkHash(setup.chain[Other(p)])) # {}
    <3>1. ValidForkId(setup.chain[p], proto[p].latest, OwnForkId(setup.chain[Other(p)]))
      BY <1>1, <1>3, StatusFields DEF Accepts
    <3> QED
      BY <3>1 DEF ValidForkId, OwnForkId
  <2>6. KnownAs(c, forkHash(d)) # {} /\ KnownAs(d, forkHash(c)) # {}
    BY <2>1, <2>5
  <2> HIDE DEF c, d
  <2>7. ~Diverged(c, d)
    BY <2>3, <2>4, <2>6, ForksShared
  <2> QED
    BY <2>7 DEF c, d
<1>4. Inv => ReadyMeansOneChain
  BY <1>2, <1>3 DEF ReadyMeansOneChain, Apart
<1> QED
  BY <1>4, Invariance, PTL

-----------------------------------------------------------------------------
(* Numbers *)

\* A number of four bytes is that of its high digits and that of its last one.
LEMMA BytesOfWord ==
    ASSUME NEW n \in Words, NEW h, NEW i, NEW d, h = Shift(n), i = Shift(h), d = Shift(i)
    PROVE  /\ n \in Nat /\ h \in Nat /\ i \in Nat /\ d \in 0..255
           /\ n % 256 \in 0..255 /\ h % 256 \in 0..255 /\ i % 256 \in 0..255
           /\ n = 256 * h + (n % 256) /\ h = 256 * i + (h % 256) /\ i = 256 * d + (i % 256)
<1>0. ASSUME NEW m \in Nat
      PROVE  Shift(m) \in Nat /\ m % 256 \in 0..255 /\ m = 256 * Shift(m) + (m % 256)
  BY DEF Shift
<1>1. n \in Nat /\ Shift(d) = 0
  BY DEF Words
<1>2. h \in Nat /\ n % 256 \in 0..255 /\ n = 256 * h + (n % 256)
  BY <1>0, <1>1
<1>3. i \in Nat /\ h % 256 \in 0..255 /\ h = 256 * i + (h % 256)
  BY <1>0, <1>2, ZenonT(60)
<1>4. d \in Nat /\ i % 256 \in 0..255 /\ i = 256 * d + (i % 256)
  BY <1>0, <1>3, ZenonT(60)
<1>5. d \in 0..255
  BY <1>1, <1>4 DEF Shift
<1> QED
  BY <1>1, <1>2, <1>3, <1>4, <1>5

\* What up to four bytes read as.
LEMMA ReadUpToFour ==
    ASSUME NEW w \in Seq(Nat)
    PROVE  /\ Len(w) = 1 => buffer2int(w) = w[1]
           /\ Len(w) = 2 => buffer2int(w) = 256 * w[1] + w[2]
           /\ Len(w) = 3 => buffer2int(w) = 256 * (256 * w[1] + w[2]) + w[3]
           /\ Len(w) = 4 => buffer2int(w) = 256 * (256 * (256 * w[1] + w[2]) + w[3]) + w[4]
<1> DEFINE z == zfill(w, 4)
<1>0. \A j \in 1..Len(w) : w[j] \in Nat
  OBVIOUS
<1>1. Len(w) > 0 => buffer2int(w) = 256 * (256 * (256 * z[1] + z[2]) + z[3]) + z[4]
  BY DEF buffer2int
<1>2. CASE Len(w) = 1
  <2>1. z = [k \in 1..4 |-> IF k <= 3 THEN 0 ELSE w[k - 3]]
    BY <1>2 DEF zfill
  <2> HIDE DEF z
  <2>2. z[1] = 0 /\ z[2] = 0 /\ z[3] = 0 /\ z[4] = w[1]
    BY <2>1
  <2>3. w[1] \in Nat
    BY <1>0, <1>2
  <2>4. w[1] = 256 * (256 * (256 * z[1] + z[2]) + z[3]) + z[4]
    BY <2>2, <2>3
  <2> QED
    BY <1>1, <1>2, <2>4
<1>3. CASE Len(w) = 2
  <2>1. z = [k \in 1..4 |-> IF k <= 2 THEN 0 ELSE w[k - 2]]
    BY <1>3 DEF zfill
  <2> HIDE DEF z
  <2>2. z[1] = 0 /\ z[2] = 0 /\ z[3] = w[1] /\ z[4] = w[2]
    BY <2>1
  <2>3. w[1] \in Nat /\ w[2] \in Nat
    BY <1>0, <1>3
  <2>4. 256 * w[1] + w[2] = 256 * (256 * (256 * z[1] + z[2]) + z[3]) + z[4]
    BY <2>2, <2>3
  <2> QED
    BY <1>1, <1>3, <2>4
<1>4. CASE Len(w) = 3
  <2>1. z = [k \in 1..4 |-> IF k <= 1 THEN 0 ELSE w[k - 1]]
    BY <1>4 DEF zfill
  <2> HIDE DEF z
  <2>2. z[1] = 0 /\ z[2] = w[1] /\ z[3] = w[2] /\ z[4] = w[3]
    BY <2>1
  <2>3. w[1] \in Nat /\ w[2] \in Nat /\ w[3] \in Nat
    BY <1>0, <1>4
  <2>4. 256 * (256 * w[1] + w[2]) + w[3] = 256 * (256 * (256 * z[1] + z[2]) + z[3]) + z[4]
    BY <2>2, <2>3
  <2> QED
    BY <1>1, <1>4, <2>4
<1>5. CASE Len(w) = 4
  <2>1. z = w
    BY <1>5 DEF zfill
  <2> HIDE DEF z
  <2> QED
    BY <1>1, <1>5, <2>1
<1> QED
  BY <1>2, <1>3, <1>4, <1>5

\* The bytes of a number, and the number that they are read as.
LEMMA BytesReadBack ==
    ASSUME NEW n \in Words
    PROVE  /\ int2buffer(n) \in Seq(0..255)
           /\ buffer2int(int2buffer(n)) = n
<1>1. PICK h, i, d, a, b, c :
             /\ h = Shift(n) /\ i = Shift(h) /\ d = Shift(i)
             /\ a = i % 256 /\ b = h % 256 /\ c = n % 256
  OBVIOUS
<1>2. /\ n \in Nat /\ h \in Nat /\ i \in Nat /\ d \in 0..255
      /\ a \in 0..255 /\ b \in 0..255 /\ c \in 0..255
      /\ n = 256 * h + c /\ h = 256 * i + b /\ i = 256 * d + a
  BY <1>1, BytesOfWord
<1> DEFINE s == int2buffer(n)
<1>4. /\ h = 0 => s = <<n>>
      /\ h # 0 /\ i = 0 => s = <<h, c>>
      /\ i # 0 /\ d = 0 => s = <<i, b, c>>
      /\ d # 0 => s = <<d, a, b, c>>
  <2>1. Shift(0) = 0
    BY DEF Shift
  <2> QED
    BY <1>1, <2>1 DEF int2buffer
<1> HIDE DEF s
<1>6. CASE h = 0
  <2>1. s = <<n>> /\ n \in 0..255
    BY <1>2, <1>4, <1>6
  <2>2. s \in Seq(0..255) /\ s \in Seq(Nat) /\ Len(s) = 1 /\ s[1] = n
    BY <1>2, <2>1
  <2> QED
    BY <2>2, ReadUpToFour DEF s
<1>7. CASE h # 0 /\ i = 0
  <2>1. s = <<h, c>> /\ h \in 0..255
    BY <1>2, <1>4, <1>7
  <2>2. s \in Seq(0..255) /\ s \in Seq(Nat) /\ Len(s) = 2 /\ s[1] = h /\ s[2] = c
    BY <1>2, <2>1
  <2>3. buffer2int(s) = 256 * h + c
    BY <2>2, ReadUpToFour
  <2> QED
    BY <1>2, <2>2, <2>3 DEF s
<1>8. CASE i # 0 /\ d = 0
  <2>1. s = <<i, b, c>> /\ i \in 0..255
    BY <1>2, <1>4, <1>8
  <2>2. s \in Seq(0..255) /\ s \in Seq(Nat) /\ Len(s) = 3 /\ s[1] = i /\ s[2] = b /\ s[3] = c
    BY <1>2, <2>1
  <2>3. buffer2int(s) = 256 * (256 * i + b) + c
    BY <2>2, ReadUpToFour
  <2> QED
    BY <1>2, <2>2, <2>3 DEF s
<1>9. CASE d # 0
  <2>1. s = <<d, a, b, c>>
    BY <1>4, <1>9
  <2>2. s \in Seq(0..255) /\ s \in Seq(Nat) /\ Len(s) = 4 /\ s[1] = d /\ s[2] = a /\ s[3] = b /\ s[4] = c
    BY <1>2, <2>1
  <2>3. buffer2int(s) = 256 * (256 * (256 * d + a) + b) + c
    BY <2>2, ReadUpToFour
  <2> QED
    BY <1>2, <2>2, <2>3 DEF s
<1>10. d # 0 => i # 0
  BY <1>2
<1>11. i # 0 => h # 0
  BY <1>2
<1> QED
  BY <1>6, <1>7, <1>8, <1>9, <1>10, <1>11

\* sendStatus makes bytes of every number.
LEMMA FromHexBytes ==
    ASSUME NEW n \in Words
    PROVE  FromHex(n) \in Seq(0..255)
<1>1. ASSUME NEW a \in Nat, NEW b \in Nat, a <= b
      PROVE  Shift(a) \in Nat /\ Shift(b) \in Nat /\ Shift(a) <= Shift(b)
  BY <1>1 DEF Shift
<1>2. n \in Nat /\ Shift(Shift(Shift(Shift(n)))) = 0
  BY DEF Words
<1>3. PICK m \in Nat : m = n \div 16 /\ m <= n
  BY <1>2
<1>4. m \in Words
  <2>1. Shift(m) \in Nat /\ Shift(n) \in Nat /\ Shift(m) <= Shift(n)
    BY <1>1, <1>2, <1>3
  <2>2. /\ Shift(Shift(m)) \in Nat /\ Shift(Shift(n)) \in Nat
        /\ Shift(Shift(m)) <= Shift(Shift(n))
    BY <1>1, <2>1
  <2>3. /\ Shift(Shift(Shift(m))) \in Nat /\ Shift(Shift(Shift(n))) \in Nat
        /\ Shift(Shift(Shift(m))) <= Shift(Shift(Shift(n)))
    BY <1>1, <2>2
  <2>4. /\ Shift(Shift(Shift(Shift(m)))) \in Nat
        /\ Shift(Shift(Shift(Shift(m)))) <= Shift(Shift(Shift(Shift(n))))
    BY <1>1, <2>3
  <2> QED
    BY <1>2, <2>4 DEF Words
<1>5. int2buffer(n) \in Seq(0..255) /\ int2buffer(m) \in Seq(0..255)
  BY <1>4, BytesReadBack
<1>6. <<>> \in Seq(0..255)
  OBVIOUS
<1> QED
  BY <1>3, <1>5, <1>6 DEF FromHex

-----------------------------------------------------------------------------
(* Two nodes of one chain *)

\* A node accepts the fork id of another that has the same forks, whoever of
\* the two is ahead, unless a digit of it is lost.
LEMMA SameForksValid ==
    ASSUME NEW c, NEW d, NEW latest,
           c.forks \in Seq(Words), c.at \in DOMAIN c.forks, c.head \in Nat, Current(c),
           d.forks = c.forks, d.at \in DOMAIN c.forks, d.head \in Nat, Current(d),
           latest \in {hardforkBlock(c), c.head}, ~DigitLost(d)
    PROVE  ValidForkId(c, latest, OwnForkId(d))
<1> DEFINE id == OwnForkId(d)
           next == buffer2int(id.next)
           number == nextForkBlock(d)
<1>1. PICK f, a, b :
             /\ f = c.forks /\ f = d.forks /\ a = c.at /\ b = d.at
             /\ f \in Seq(Words) /\ a \in 1..Len(f) /\ b \in 1..Len(f)
  OBVIOUS
<1>2. \A k \in 1..Len(f) : f[k] \in Nat /\ f[k] \in Words
  <2>1. \A k \in 1..Len(f) : f[k] \in Words
    BY <1>1
  <2> QED
    BY <2>1 DEF Words
<1>3. number \in Words /\ number \in Nat /\ (number = 0 \/ (b < Len(f) /\ number = f[b + 1]))
  <2>1. 0 \in Words
    BY DEF Words, Shift
  <2> QED
    BY <1>1, <1>2, <2>1 DEF nextForkBlock
<1>4. id.hash = SubSeq(f, 1, b) /\ next = buffer2int(FromHex(number))
  BY <1>1 DEF OwnForkId, forkHash
<1>5. number > 0 => next = number
  BY <1>3, <1>4, BytesReadBack DEF DigitLost, FromHex
<1>6. number = 0 => next = NaN
  <2>1. OddDigits(0)
    BY DEF OddDigits, int2buffer, Shift
  <2>2. FromHex(0) = <<>>
    BY <2>1 DEF FromHex
  <2> QED
    BY <1>4, <2>2 DEF buffer2int
<1> HIDE DEF next, number
<1>7. \A k \in 1..Len(f) : SubSeq(f, 1, k) = SubSeq(f, 1, b) <=> k = b
  <2>1. \A k \in 1..Len(f) : Len(SubSeq(f, 1, k)) = k
    BY <1>1
  <2> QED
    BY <1>1, <2>1
<1>8. KnownAs(c, id.hash) = {b}
  BY <1>1, <1>4, <1>7 DEF KnownAs
<1>9. forkHash(c) = id.hash => a = b
  BY <1>1, <1>4, <1>7 DEF forkHash
<1>10. b < Len(f) => f[b + 1] > d.head /\ f[b + 1] > 0
  <2>1. b < Len(f) => b + 1 \in DOMAIN d.forks /\ b + 1 \in 1..Len(f) /\ ~(b + 1 <= b)
    BY <1>1
  <2> QED
    BY <1>1, <1>2, <2>1 DEF Current
<1>11. a < Len(f) => f[a + 1] > c.head /\ f[a + 1] > latest
  <2>1. a < Len(f) => a + 1 \in DOMAIN c.forks /\ a + 1 \in 1..Len(f) /\ ~(a + 1 <= a)
    BY <1>1
  <2>2. a \in DOMAIN c.forks /\ f[a] <= c.head
    BY <1>1 DEF Current
  <2>3. latest \in Nat /\ latest <= c.head
    BY <1>1, <1>2, <2>2 DEF hardforkBlock
  <2> QED
    BY <1>1, <1>2, <2>1, <2>3, SMTT(30) DEF Current
<1>12. ~(id.hash = forkHash(c) /\ next \notin {0, NaN} /\ latest >= next)
  <2>1. SUFFICES ASSUME id.hash = forkHash(c), next \notin {0, NaN}, latest >= next
                 PROVE  FALSE
    OBVIOUS
  <2>2. number > 0
    BY <1>3, <1>6, <2>1
  <2>3. next = f[a + 1] /\ a < Len(f)
    BY <1>3, <1>5, <1>9, <2>1, <2>2
  <2>4. latest \in Nat /\ f[a + 1] \in Nat
    BY <1>1, <1>2, <2>3, SMTT(30) DEF hardforkBlock
  <2> QED
    BY <1>11, <2>1, <2>3, <2>4
<1>13. b < a => f[b + 1] = next
  <2>1. SUFFICES ASSUME b < a PROVE f[b + 1] = next
    OBVIOUS
  <2>2. b < Len(f) /\ b + 1 \in 1..Len(f)
    BY <1>1, <2>1
  <2>3. number = f[b + 1]
    BY <1>1, <2>2 DEF number, nextForkBlock
  <2> QED
    BY <1>5, <1>10, <2>2, <2>3
<1> HIDE DEF id
<1>14. buffer2int(id.next) = next
  BY DEF next
<1> QED
  BY <1>1, <1>8, <1>12, <1>13, <1>14 DEF ValidForkId, id

\* What of OneChainAccepted is about one state.
LEMMA OneChainState ==
    ASSUME Inv, Order, SetupsAssumption
    PROVE  OneChainAccepted
<1> SUFFICES ASSUME OneWorld, OneForks, UpToDate, NEW p \in Sides, proto[p].failed,
                    ~DigitLost(setup.chain[Other(p)])
             PROVE  FALSE
  BY DEF OneChainAccepted
<1> DEFINE c == setup.chain[p]
           d == setup.chain[Other(p)]
<1>1. proto[p].theirs = StatusOf(Other(p)) /\ ~Accepts(p, proto[p])
  BY DEF Order, Settled, Complete, Inv, Theirs
<1>2. Other(p) \in Sides
  BY SidesFacts
<1>3. /\ c.forks \in Seq(Words) /\ c.at \in DOMAIN c.forks /\ c.head \in Nat
      /\ d.forks \in Seq(Words) /\ d.at \in DOMAIN d.forks /\ d.head \in Nat
  BY <1>2, ChainsAre
<1>4. c.network = d.network /\ c.genesis = d.genesis /\ c.forks = d.forks
  BY DEF OneWorld, OneForks, Sides, Other
<1>5. Current(c) /\ Current(d)
  BY <1>2 DEF UpToDate
<1>6. proto[p].latest \in {hardforkBlock(c), c.head}
  BY DEF Order, Settled
<1>7. ~DigitLost(d)
  OBVIOUS
<1>8. HasForkId => ~ValidForkId(c, proto[p].latest, OwnForkId(d))
  BY <1>1, <1>4, StatusFields DEF Accepts
<1>9. HasForkId
  BY <1>1, <1>4, StatusFields DEF Accepts
<1> HIDE DEF c, d
<1>10. ValidForkId(c, proto[p].latest, OwnForkId(d))
  BY <1>3, <1>4, <1>5, <1>6, <1>7, SameForksValid
<1> QED
  BY <1>8, <1>9, <1>10

-----------------------------------------------------------------------------
(* The order of the messages: what a step never takes back *)

\* What a step leaves of one side.
Still(q) ==
    /\ proto'[q].status = proto[q].status /\ proto'[q].theirs = proto[q].theirs
    /\ proto'[q].latest = proto[q].latest
    /\ proto'[q].ready = proto[q].ready /\ proto'[q].failed = proto[q].failed

\* What it never takes back of one side.
Kept(q) ==
    /\ proto[q].status # "none" => proto'[q].status = proto[q].status
    /\ proto[q].theirs # NoStatus => proto'[q].theirs = proto[q].theirs
    /\ proto[q].ready => proto'[q].ready
    /\ proto[q].failed => proto'[q].failed

Firm == Links' /\ closed \subseteq closed' /\ deaf \subseteq deaf'

Onward == setup' = setup /\ Firm /\ \A q \in Sides : Kept(q)

\* Peers do not come back.
LEMMA LinksStep ==
    ASSUME Links, [Next]_vars
    PROVE  Firm
<1>1. ASSUME NEW p \in Sides, MayShut(p), opened' \in {opened, opened \cup {p}}
      PROVE  Firm
  BY <1>1 DEF Firm, Links, MayShut
<1>2. ASSUME NEW p \in Sides, Open(p) \/ Deliver(p) \/ Shut(p)
      PROVE  Firm
  BY <1>1, <1>2 DEF Open, Deliver, Shut
<1>3. ASSUME NEW p \in Sides, Drop(p)
      PROVE  Firm
  BY <1>3 DEF Firm, Links, Drop
<1>4. ASSUME <<opened, closed, deaf>>' = <<opened, closed, deaf>>
      PROVE  Firm
  BY <1>4 DEF Firm, Links
<1>5. ASSUME NEW p \in Sides, NEW latest, SendStatus(p, latest)
      PROVE  <<opened, closed, deaf>>' = <<opened, closed, deaf>>
  BY <1>5 DEF SendStatus, Send, linkVars
<1>6. ASSUME NEW p \in Sides, NEW code, Say(p, code)
      PROVE  <<opened, closed, deaf>>' = <<opened, closed, deaf>>
  BY <1>6 DEF Say, Send
<1>7. ASSUME NEW p \in Sides, Expire(p)
      PROVE  <<opened, closed, deaf>>' = <<opened, closed, deaf>> \/ Shut(p)
  BY <1>7 DEF Expire, linkVars
<1>8. CASE UNCHANGED vars
  BY <1>4, <1>8 DEF vars
<1>9. ASSUME NEW p \in Sides, SendStatusThrows(p)
      PROVE  <<opened, closed, deaf>>' = <<opened, closed, deaf>>
  BY <1>9 DEF SendStatusThrows
<1>10. ASSUME NEW p \in Sides, Start(p) \/ Receive(p) \/ Leave(p)
       PROVE  Open(p) \/ Deliver(p) \/ Shut(p) \/ Drop(p)
  BY <1>10 DEF Start, Receive, ReceiveStatus, ReceiveData, Leave
<1> QED
  BY <1>2, <1>3, <1>4, <1>5, <1>6, <1>7, <1>8, <1>9, <1>10 DEF Next

\* A verdict stands as long as what it is about does.
LEMMA StillSettled ==
    ASSUME setup' = setup, NEW q \in Sides, Settled(q), Still(q)
    PROVE  Settled(q)' /\ Kept(q)
<1>1. Accepts(q, proto[q])' <=> Accepts(q, proto[q])
  BY Judgement DEF Still
<1>2. hardforkBlock(setup.chain[q])' = hardforkBlock(setup.chain[q])
  BY DEF hardforkBlock
<1> QED
  BY <1>1, <1>2 DEF Settled, Still, Kept, Complete

\* What _handleStatus makes of a side that it has not judged.
LEMMA HandledSettled ==
    ASSUME setup' = setup, NEW p \in Sides, NEW s \in Protos, ~s.ready, ~s.failed,
           s.latest \in {hardforkBlock(setup.chain[p]), setup.chain[p].head},
           proto'[p] = Handled(p, s)
    PROVE  Settled(p)' /\ proto'[p].heard = s.heard
<1>0. PICK t : t = Handled(p, s)
  OBVIOUS
<1>1. Accepts(p, s) \in BOOLEAN
  BY DEF Accepts
<1>2. /\ t.status = s.status /\ t.theirs = s.theirs /\ t.latest = s.latest
      /\ t.heard = s.heard
      /\ t.failed => Complete(s) /\ ~Accepts(p, s)
      /\ Complete(s) => t.ready \/ t.failed
  <2>1. CASE Complete(s)
    <3>1. t = [s EXCEPT !.timer = FALSE, !.ready = Accepts(p, s), !.failed = ~Accepts(p, s)]
      BY <1>0, <2>1 DEF Handled
    <3>2. t.ready = Accepts(p, s) /\ t.failed = ~Accepts(p, s)
      BY <3>1 DEF Protos
    <3>3. t.status = s.status /\ t.theirs = s.theirs /\ t.latest = s.latest /\ t.heard = s.heard
      BY <3>1 DEF Protos
    <3> QED
      BY <1>1, <2>1, <3>2, <3>3
  <2>2. CASE ~Complete(s)
    BY <1>0, <2>2 DEF Handled
  <2> QED
    BY <2>1, <2>2
<1>3. proto'[p] = t
  BY <1>0
<1>4. Accepts(p, t) <=> Accepts(p, s)
  BY <1>2, Judgement
<1>5. Accepts(p, t)' <=> Accepts(p, t)
  BY Judgement
<1>6. hardforkBlock(setup.chain[p])' = hardforkBlock(setup.chain[p])
  BY DEF hardforkBlock
<1> QED
  BY <1>2, <1>3, <1>4, <1>5, <1>6 DEF Settled, Complete

\* Who has heard a message goes on having a reason.
LEMMA StillExplained ==
    ASSUME Onward, NEW q \in Sides, Explained(q), proto'[q].heard => proto[q].heard
    PROVE  Explained(q)'
<1>1. Kept(q) /\ Kept(Other(q))
  BY SidesFacts DEF Onward
<1> QED
  BY <1>1 DEF Explained, Kept

\* Who is told stays told.
LEMMA StillTold ==
    ASSUME Onward, NEW q \in Sides, Told(q)
    PROVE  Told(q)'
BY DEF Onward, Firm, Kept, Told

-----------------------------------------------------------------------------
(* The order of the messages: queues *)

\* The queue of q has moved up by n places, and its first n messages are gone.
Passed(q, n) ==
    /\ \A k \in DOMAIN queue'[q] : /\ k + n \in DOMAIN queue[q]
                                   /\ queue'[q][k] = queue[q][k + n]
    /\ \A k \in DOMAIN queue[q] : k > n => /\ k - n \in DOMAIN queue'[q]
                                           /\ queue'[q][k - n] = queue[q][k]

\* The STATUS of the other stays ahead while the queue of q moves up.
LEMMA FirstPassed ==
    ASSUME Shapes, Shapes', Onward, NEW q \in Sides, NEW n \in Nat, Passed(q, n), StatusFirst(q),
           \/ proto'[Other(q)].status # "sent"
           \/ proto[Other(q)].status = "sent"
           \/ Other(q) \in closed'
           \/ Told(q)',
           \A j \in Coming(q) : j <= n => Told(q)'
    PROVE  StatusFirst(q)'
<1>1. /\ DOMAIN queue[q] \subseteq Nat \ {0} /\ DOMAIN queue'[q] \subseteq Nat \ {0}
  BY DEF Shapes
<1>2. Kept(q) /\ Kept(Other(q)) /\ closed \subseteq closed'
  BY SidesFacts DEF Onward, Firm
<1>3. Told(q) => Told(q)'
  BY StillTold
<1>4. \A j \in Coming(q) : Told(q)' \/ (j > n /\ j - n \in Coming(q)')
  <2>1. SUFFICES ASSUME NEW j \in Coming(q), ~Told(q)' PROVE j > n /\ j - n \in Coming(q)'
    OBVIOUS
  <2>2. j \in DOMAIN queue[q] /\ j > n
    BY <1>1, <2>1 DEF Coming
  <2> QED
    BY <2>2 DEF Passed, Coming
<1>5. proto'[Other(q)].status = "sent" /\ Other(q) \notin closed' => Told(q)' \/ Coming(q)' # {}
  BY <1>2, <1>3, <1>4 DEF StatusFirst
<1>6. ASSUME NEW k \in DOMAIN queue'[q] \ Coming(q)'
      PROVE  /\ proto'[q].status = "sent"
             /\ \/ proto'[Other(q)].status = "unsent"
                \/ Told(q)'
                \/ \E j \in Coming(q)' : j < k
  <2>1. k + n \in DOMAIN queue[q] \ Coming(q)
    BY <1>6 DEF Passed, Coming
  <2>2. proto[q].status = "sent" /\ proto'[q].status = "sent"
    BY <1>2, <2>1 DEF StatusFirst, Kept
  <2>3. CASE proto[Other(q)].status = "unsent"
    BY <1>2, <2>2, <2>3 DEF Kept
  <2>4. CASE Told(q)
    BY <1>3, <2>2, <2>4
  <2>5. ASSUME NEW j \in Coming(q), j < k + n
        PROVE  Told(q)' \/ \E i \in Coming(q)' : i < k
    <3>1. j \in Nat /\ k \in Nat
      BY <1>1, <1>6 DEF Coming
    <3>2. j - n < k
      BY <2>5, <3>1
    <3> QED
      BY <1>4, <3>2
  <2> QED
    BY <2>1, <2>2, <2>3, <2>4, <2>5 DEF StatusFirst
<1> QED
  BY <1>5, <1>6 DEF StatusFirst

\* It stays ahead when a message is sent to q: of the STATUS, or by one who
\* has sent it, or sends without it, to one who has sent.
LEMMA FirstAppended ==
    ASSUME Shapes, Onward, NEW q \in Sides, StatusFirst(q),
           NEW m \in Statuses \cup Datas, queue'[q] = Append(queue[q], m),
           \/ m.code = ETH_LES_STATUS
           \/ /\ proto[q].status = "sent"
              /\ proto[Other(q)].status = "sent" => Told(q) \/ Coming(q) # {}
              /\ proto[Other(q)].status \in {"sent", "unsent"}
    PROVE  StatusFirst(q)'
<1> DEFINE l == Len(queue[q])
<1>1. /\ queue[q] \in Seq(Statuses \cup Datas) /\ l \in Nat
      /\ DOMAIN queue[q] = 1..l /\ DOMAIN queue'[q] = 1..(l + 1)
      /\ \A k \in 1..l : queue'[q][k] = queue[q][k]
      /\ queue'[q][l + 1] = m
  BY DEF Shapes
<1> HIDE DEF l
<1>2. Kept(q) /\ Kept(Other(q)) /\ closed \subseteq closed'
  BY SidesFacts DEF Onward, Firm
<1>3. Told(q) => Told(q)'
  BY StillTold
<1>4. /\ Coming(q) \subseteq 1..l /\ Coming(q) \subseteq Coming(q)'
      /\ \A k \in 1..l : k \in Coming(q)' => k \in Coming(q)
      /\ l + 1 \in Coming(q)' <=> m.code = ETH_LES_STATUS
  BY <1>1 DEF Coming
<1>5. proto'[Other(q)].status = "sent" /\ Other(q) \notin closed' => Told(q)' \/ Coming(q)' # {}
  BY <1>2, <1>3, <1>4 DEF Kept
<1>6. ASSUME NEW k \in DOMAIN queue'[q] \ Coming(q)'
      PROVE  /\ proto'[q].status = "sent"
             /\ \/ proto'[Other(q)].status = "unsent"
                \/ Told(q)'
                \/ \E j \in Coming(q)' : j < k
  <2>1. CASE k \in 1..l
    BY <1>1, <1>2, <1>3, <1>4, <1>6, <2>1 DEF StatusFirst, Kept
  <2>2. CASE k = l + 1
    <3>1. m.code # ETH_LES_STATUS
      BY <1>4, <1>6, <2>2
    <3>2. proto'[q].status = "sent"
      BY <1>2, <3>1 DEF Kept
    <3>3. CASE proto[Other(q)].status = "unsent"
      BY <1>2, <3>2, <3>3 DEF Kept
    <3>4. CASE Told(q)
      BY <1>3, <3>2, <3>4
    <3>5. ASSUME NEW j \in Coming(q)
          PROVE  j \in Coming(q)' /\ j < k
      BY <1>1, <1>4, <2>2
    <3> QED
      BY <3>1, <3>2, <3>3, <3>4, <3>5
  <2> QED
    BY <1>1, <1>6, <2>1, <2>2
<1> QED
  BY <1>5, <1>6 DEF StatusFirst

\* The queue of one who receives nothing passes by no place.
LEMMA SamePassed ==
    ASSUME Shapes, NEW q \in Sides, queue'[q] = queue[q]
    PROVE  Passed(q, 0) /\ \A j \in Coming(q) : ~(j <= 0)
<1>1. DOMAIN queue[q] \subseteq Nat \ {0}
  BY DEF Shapes
<1>2. \A k \in DOMAIN queue[q] : k + 0 = k /\ k - 0 = k
  BY <1>1
<1> QED
  BY <1>1, <1>2 DEF Passed, Coming

\* A delivery passes the first place.
LEMMA TailPassed ==
    ASSUME Shapes, NEW q \in Sides, queue[q] # <<>>, queue'[q] = Tail(queue[q])
    PROVE  Passed(q, 1)
<1>1. PICK s, t : s = queue[q] /\ t = Tail(s)
  OBVIOUS
<1>2. s \in Seq(Statuses \cup Datas) /\ s # <<>>
  BY <1>1 DEF Shapes
<1>3. /\ Len(s) \in Nat /\ DOMAIN s = 1..Len(s) /\ DOMAIN t = 1..(Len(s) - 1)
      /\ \A k \in 1..(Len(s) - 1) : t[k] = s[k + 1]
  BY <1>1, <1>2
<1>4. \A k \in DOMAIN t : k + 1 \in DOMAIN s /\ t[k] = s[k + 1]
  BY <1>3
<1>5. \A k \in DOMAIN s : k > 1 => k - 1 \in DOMAIN t /\ t[k - 1] = s[k]
  BY <1>3
<1> QED
  BY <1>1, <1>4, <1>5 DEF Passed

\* What is dropped is passed.
LEMMA DropPassed ==
    ASSUME Shapes, NEW q \in Sides, NEW n \in 1..Len(queue[q]),
           queue'[q] = SubSeq(queue[q], n + 1, Len(queue[q]))
    PROVE  Passed(q, n)
<1>1. PICK s, t : s = queue[q] /\ t = SubSeq(s, n + 1, Len(s))
  OBVIOUS
<1>2. s \in Seq(Statuses \cup Datas) /\ n \in 1..Len(s)
  BY <1>1 DEF Shapes
<1>3. /\ Len(s) \in Nat /\ DOMAIN s = 1..Len(s) /\ DOMAIN t = 1..(Len(s) - n)
      /\ \A k \in 1..(Len(s) - n) : t[k] = s[k + n]
  BY <1>1, <1>2
<1>4. \A k \in DOMAIN t : k + n \in DOMAIN s /\ t[k] = s[k + n]
  BY <1>3
<1>5. \A k \in DOMAIN s : k > n => k - n \in DOMAIN t /\ t[k - n] = s[k]
  BY <1>2, <1>3
<1> QED
  BY <1>1, <1>4, <1>5 DEF Passed

-----------------------------------------------------------------------------
(* The order of the messages: the steps *)

\* A step in which no STATUS is sent or received and nobody is judged.
LEMMA StillOrder ==
    ASSUME Inv, Inv', Order, Firm, setup' = setup,
           \A q \in Sides : Still(q) /\ Explained(q)',
           \A q \in Sides : StatusFirst(q)' \/ (\E n \in Nat : /\ Passed(q, n)
                                                 /\ \A j \in Coming(q) : j <= n => Told(q)')
    PROVE  Order'
<1>1. \A q \in Sides : Settled(q)' /\ Kept(q)
  BY StillSettled DEF Order
<1>2. Onward
  BY <1>1 DEF Onward
<1>3. ASSUME NEW q \in Sides PROVE StatusFirst(q)'
  <2>1. SUFFICES ASSUME ~StatusFirst(q)' PROVE FALSE
    OBVIOUS
  <2>2. PICK n \in Nat : Passed(q, n) /\ \A j \in Coming(q) : j <= n => Told(q)'
    BY <2>1
  <2>3. proto'[Other(q)].status = proto[Other(q)].status
    BY SidesFacts DEF Still
  <2> QED
    BY <1>2, <2>1, <2>2, <2>3, FirstPassed DEF Inv, Order
<1> QED
  BY <1>1, <1>3 DEF Order, Firm

\* A step that changes nothing of the two sides and their queues but the timer.
LEMMA TimerOrder ==
    ASSUME Inv, Inv', Order, Firm, setup' = setup, queue' = queue, NEW p \in Sides, NEW b \in BOOLEAN,
           proto' = proto \/ proto' = [proto EXCEPT ![p].timer = b]
    PROVE  Order'
<1>1. \A q \in Sides : Still(q) /\ proto'[q].heard = proto[q].heard
  BY DEF Still, Inv, Shapes, Protos
<1>2. \A q \in Sides : Kept(q)
  BY <1>1, StillSettled DEF Order
<1>3. Onward
  BY <1>2 DEF Onward
<1>4. \A q \in Sides : Explained(q)'
  BY <1>1, <1>3, StillExplained DEF Order
<1>5. \A q \in Sides : Passed(q, 0) /\ \A j \in Coming(q) : j <= 0 => Told(q)'
  BY SamePassed DEF Inv
<1> QED
  BY <1>1, <1>4, <1>5, StillOrder

\* The timer is of no account to the order of the messages.
LEMMA Start_Order ==
    ASSUME Inv, Inv', Order, Firm, NEW p \in Sides, Start(p)
    PROVE  Order'
<1>1. setup' = setup /\ queue' = queue /\ proto' = [proto EXCEPT ![p].timer = TRUE]
  BY DEF Start, Open
<1> QED
  BY <1>1, TimerOrder

\* Nor is it when it fires.
LEMMA Expire_Order ==
    ASSUME Inv, Inv', Order, Firm, NEW p \in Sides, Expire(p)
    PROVE  Order'
<1>1. setup' = setup /\ queue' = queue /\ proto' = [proto EXCEPT ![p].timer = FALSE]
  BY DEF Expire, Shut, linkVars
<1> QED
  BY <1>1, TimerOrder

\* Nothing happens.
LEMMA Stutter_Order ==
    ASSUME Inv, Inv', Order, Firm, UNCHANGED vars
    PROVE  Order'
<1>1. setup' = setup /\ queue' = queue /\ proto' = proto /\ "dialer" \in Sides
  BY DEF vars, Sides
<1> QED
  BY <1>1, TimerOrder

\* A Peer that drops messages is deaf.
LEMMA Leave_Order ==
    ASSUME Inv, Inv', Order, Firm, NEW p \in Sides, Leave(p)
    PROVE  Order'
<1>1. setup' = setup /\ proto' = proto
  BY DEF Leave
<1>2. CASE queue' = queue
  BY <1>1, <1>2, TimerOrder
<1>3. CASE Drop(p)
  <2>1. \A q \in Sides : Still(q) /\ proto'[q].heard = proto[q].heard
    BY <1>1 DEF Still
  <2>2. \A q \in Sides : Kept(q)
    BY <1>1, <2>1, StillSettled DEF Order
  <2>3. Onward
    BY <1>1, <2>2 DEF Onward
  <2>4. \A q \in Sides : Explained(q)'
    BY <2>1, <2>3, StillExplained DEF Order
  <2>5. PICK n \in 1..Len(queue[p]) :
            queue' = [queue EXCEPT ![p] = SubSeq(queue[p], n + 1, Len(queue[p]))]
    BY <1>3 DEF Drop
  <2>6. /\ queue'[p] = SubSeq(queue[p], n + 1, Len(queue[p]))
        /\ \A q \in Sides : q # p => queue'[q] = queue[q]
    BY <2>5 DEF Inv, Shapes
  <2>7. Passed(p, n) /\ Told(p)' /\ n \in Nat
    <3>1. Passed(p, n)
      BY <2>6, DropPassed DEF Inv
    <3>2. Told(p)'
      BY <1>3 DEF Drop, Told
    <3> QED
      BY <3>1, <3>2
  <2>8. \A q \in Sides : q # p => Passed(q, 0) /\ \A j \in Coming(q) : j <= 0 => Told(q)'
    BY <2>6, SamePassed DEF Inv
  <2> QED
    BY <1>1, <2>1, <2>4, <2>7, <2>8, StillOrder
<1> QED
  BY <1>2, <1>3 DEF Leave, Shut

\* Who says something has sent its STATUS before, or goes without it.
LEMMA Say_Order ==
    ASSUME Inv, Inv', Order, Firm, NEW p \in Sides, NEW code \in {1, 13}, Say(p, code)
    PROVE  Order'
<1>1. setup' = setup /\ proto' = [proto EXCEPT ![p].said = TRUE] /\ proto[p].ready
  BY DEF Say
<1>2. \A q \in Sides : Still(q) /\ proto'[q].heard = proto[q].heard
  BY <1>1 DEF Still, Inv, Shapes, Protos
<1>3. \A q \in Sides : Kept(q)
  BY <1>1, <1>2, StillSettled DEF Order
<1>4. Onward
  BY <1>1, <1>3 DEF Onward
<1>5. \A q \in Sides : Explained(q)'
  BY <1>2, <1>4, StillExplained DEF Order
<1>6. PICK o \in Sides : o = Other(p) /\ Other(o) = p /\ \A q \in Sides : q = p \/ q = o
  BY SidesFacts
<1>7. p \notin closed /\ \/ queue' = [queue EXCEPT ![o] = Append(queue[o], Data(code))]
                         \/ queue' = queue
  BY <1>6 DEF Say, Send, Up
<1>8. Data(code) \in Statuses \cup Datas
  BY DEF Datas
<1>9. CASE queue' = queue
  <2>1. \A q \in Sides : Passed(q, 0) /\ \A j \in Coming(q) : j <= 0 => Told(q)'
    BY <1>9, SamePassed DEF Inv
  <2> QED
    BY <1>1, <1>2, <1>5, <2>1, StillOrder
<1>10. CASE queue' = [queue EXCEPT ![o] = Append(queue[o], Data(code))]
  <2>1. queue'[o] = Append(queue[o], Data(code)) /\ \A q \in Sides : q # o => queue'[q] = queue[q]
    BY <1>10 DEF Inv, Shapes
  <2>2. proto[p].status \in {"sent", "unsent"}
    <3>1. proto[p].status # "none" /\ proto[p] \in Protos
      BY <1>1 DEF Inv, Judged, Complete, Shapes
    <3> QED
      BY <3>1 DEF Protos
  <2>3. proto[o].status = "sent"
    BY <1>1, <1>6 DEF Inv, Judged, Complete, AtMostOne
  <2>4. proto[p].status = "sent" => Told(o) \/ Coming(o) # {}
    BY <1>6, <1>7 DEF Order, StatusFirst
  <2>5. StatusFirst(o)'
    BY <1>4, <1>6, <1>8, <2>1, <2>2, <2>3, <2>4, FirstAppended DEF Inv, Order
  <2>6. \A q \in Sides : q # o => Passed(q, 0) /\ \A j \in Coming(q) : j <= 0 => Told(q)'
    BY <2>1, SamePassed DEF Inv
  <2> QED
    BY <1>1, <1>2, <1>5, <2>5, <2>6, StillOrder
<1> QED
  BY <1>7, <1>9, <1>10

\* What p hears is explained: it has judged, or the other goes without STATUS.
LEMMA ReceiveData_Order ==
    ASSUME Inv, Inv', Order, Firm, NEW p \in Sides, ReceiveData(p)
    PROVE  Order'
<1>1. PICK b : b = (proto[p].heard \/ Allowed(setup.protocol, Head(queue[p]).code))
  OBVIOUS
<1>2. /\ setup' = setup /\ proto' = [proto EXCEPT ![p].heard = b] /\ Deliver(p)
      /\ Head(queue[p]).code # ETH_LES_STATUS
  BY <1>1 DEF ReceiveData
<1>3. \A q \in Sides : Still(q) /\ (q # p => proto'[q].heard = proto[q].heard)
  BY <1>2 DEF Still, Inv, Shapes, Protos
<1>4. \A q \in Sides : Kept(q)
  BY <1>2, <1>3, StillSettled DEF Order
<1>5. Onward
  BY <1>2, <1>4 DEF Onward
<1>6. /\ queue' = [queue EXCEPT ![p] = Tail(queue[p])]
      /\ 1 \in DOMAIN queue[p] /\ Head(queue[p]) = queue[p][1]
  BY <1>2, Delivered DEF Inv
<1>7. /\ queue'[p] = Tail(queue[p]) /\ queue[p] # <<>>
      /\ \A q \in Sides : q # p => queue'[q] = queue[q]
  BY <1>2, <1>6 DEF Inv, Shapes, Deliver
<1>8. 1 \in DOMAIN queue[p] \ Coming(p)
  BY <1>2, <1>6 DEF Coming
<1>9. \A j \in Coming(p) : j > 1
  <2>1. DOMAIN queue[p] \subseteq Nat \ {0}
    BY DEF Inv, Shapes
  <2> QED
    BY <1>8, <2>1 DEF Coming
<1>10. proto[Other(p)].status = "unsent" \/ proto[p].ready \/ proto[p].failed
  <2>1. proto[p].status = "sent" /\ (proto[Other(p)].status = "unsent" \/ Told(p))
    <3>1. \A j \in Coming(p) : ~(j < 1)
      <4>1. \A j \in Coming(p) : j \in Nat
        BY DEF Coming, Inv, Shapes
      <4> QED
        BY <1>9, <4>1
    <3> QED
      BY <1>8, <3>1 DEF Order, StatusFirst
  <2>2. p \notin deaf
    BY <1>2 DEF Deliver
  <2> QED
    BY <2>1, <2>2 DEF Order, Told, Settled
<1>11. Explained(p)'
  BY <1>3, <1>4, <1>10, SidesFacts DEF Explained, Still
<1>12. \A q \in Sides : Explained(q)'
  BY <1>3, <1>5, <1>11, StillExplained DEF Order
<1>13. Passed(p, 1) /\ \A j \in Coming(p) : j <= 1 => Told(p)'
  <2>1. \A j \in Coming(p) : ~(j <= 1)
    <3>1. \A j \in Coming(p) : j \in Nat
      BY DEF Coming, Inv, Shapes
    <3> QED
      BY <1>9, <3>1
  <2> QED
    BY <1>7, <2>1, TailPassed DEF Inv
<1>14. \A q \in Sides : q # p => Passed(q, 0) /\ \A j \in Coming(q) : j <= 0 => Told(q)'
  BY <1>7, SamePassed DEF Inv
<1> QED
  BY <1>2, <1>3, <1>12, <1>13, <1>14, StillOrder

\* _status is set and no STATUS is sent: what is said after it is explained.
LEMMA Throws_Order ==
    ASSUME Inv, Inv', Order, Firm, NEW p \in Sides, SendStatusThrows(p)
    PROVE  Order'
<1>1. queue' = queue /\ setup' = setup /\ proto[p].status = "none"
  BY DEF SendStatusThrows, Unsent
<1>2. CASE proto' = proto
  BY <1>1, <1>2, TimerOrder
<1>3. CASE proto' = [proto EXCEPT ![p].status = "unsent"]
  <2>1. /\ proto'[p].status = "unsent" /\ proto'[p].theirs = proto[p].theirs
        /\ proto'[p].latest = proto[p].latest /\ proto'[p].heard = proto[p].heard
        /\ proto'[p].ready = proto[p].ready /\ proto'[p].failed = proto[p].failed
        /\ \A q \in Sides : q # p => Still(q) /\ proto'[q].heard = proto[q].heard
    BY <1>3 DEF Inv, Shapes, Protos, Still
  <2>2. \A q \in Sides : q # p => Settled(q)' /\ Kept(q)
    BY <1>1, <2>1, StillSettled DEF Order
  <2>3. ~proto[p].failed /\ ~proto[p].ready
    BY <1>1 DEF Order, Settled, Complete, Inv, Judged
  <2>4. Settled(p)' /\ Kept(p)
    <3>1. hardforkBlock(setup.chain[p])' = hardforkBlock(setup.chain[p])
      BY <1>1 DEF hardforkBlock
    <3> QED
      BY <1>1, <2>1, <2>3, <3>1 DEF Order, Settled, Kept
  <2>5. Onward
    BY <1>1, <2>2, <2>4 DEF Onward
  <2>6. \A q \in Sides : Explained(q)'
    BY <2>1, <2>5, StillExplained DEF Order
  <2>7. ASSUME NEW q \in Sides PROVE StatusFirst(q)'
    <3>1. Passed(q, 0) /\ \A j \in Coming(q) : j <= 0 => Told(q)'
      BY <1>1, SamePassed DEF Inv
    <3>2. proto'[Other(q)].status # "sent" \/ proto[Other(q)].status = "sent"
      BY <2>1, SidesFacts DEF Still
    <3> QED
      BY <2>5, <3>1, <3>2, FirstPassed DEF Inv, Order
  <2> QED
    BY <2>2, <2>4, <2>6, <2>7 DEF Order, Firm
<1> QED
  BY <1>2, <1>3 DEF SendStatusThrows

\* STATUS is sent, but by a closed Peer, and what has come is judged.
LEMMA SendStatus_Order ==
    ASSUME Inv, Inv', Order, Firm, NEW p \in Sides, NEW latest \in LatestBlocks(p),
           SendStatus(p, latest)
    PROVE  Order'
<1>1. PICK s : s = [proto[p] EXCEPT !.status = "sent", !.latest = latest]
  OBVIOUS
<1>2. PICK t : t = Handled(p, s)
  OBVIOUS
<1>3. PICK o \in Sides : o = Other(p) /\ Other(o) = p /\ o # p /\ \A q \in Sides : q = p \/ q = o
  BY SidesFacts
<1>4. setup' = setup /\ proto' = [proto EXCEPT ![p] = t] /\ proto[p].status = "none"
  BY <1>1, <1>2 DEF SendStatus, Unsent
<1>5. /\ proto[p] \in Protos /\ ~proto[p].ready /\ ~proto[p].failed
      /\ proto[p].latest \in {hardforkBlock(setup.chain[p]), setup.chain[p].head}
  BY <1>4 DEF Inv, Shapes, Judged, Complete, Order, Settled
<1>6. latest \in Latests /\ latest \in {hardforkBlock(setup.chain[p]), setup.chain[p].head}
  BY <1>5 DEF LatestBlocks, Latests
<1>7. /\ s \in Protos /\ ~s.ready /\ ~s.failed
      /\ s.status = "sent" /\ s.theirs = proto[p].theirs /\ s.latest = latest
      /\ s.heard = proto[p].heard
  BY <1>1, <1>5, <1>6 DEF Protos
<1>8. t \in Protos /\ t.status = "sent" /\ t.theirs = proto[p].theirs
  BY <1>2, <1>7, HandledFacts
<1>9. proto'[p] = t /\ proto'[o] = proto[o]
  BY <1>3, <1>4 DEF Inv, Shapes
<1>10. Settled(p)' /\ proto'[p].heard = proto[p].heard
  BY <1>2, <1>4, <1>6, <1>7, <1>9, HandledSettled
<1>11. Still(o) /\ Settled(o)' /\ Kept(o)
  BY <1>4, <1>9, StillSettled DEF Still, Order
<1>12. Kept(p)
  BY <1>4, <1>5, <1>8, <1>9 DEF Kept
<1>13. Onward
  BY <1>3, <1>4, <1>11, <1>12 DEF Onward
<1>14. Explained(p)' /\ Explained(o)'
  BY <1>9, <1>10, <1>13, StillExplained DEF Order
<1>15. \/ queue' = queue /\ p \in closed'
       \/ queue' = queue /\ o \in deaf'
       \/ queue' = [queue EXCEPT ![o] = Append(queue[o], StatusOf(p))]
  BY <1>3 DEF SendStatus, Send, linkVars
<1>16. StatusFirst(p)'
  <2>1. queue'[p] = queue[p]
    BY <1>3, <1>15 DEF Inv, Shapes
  <2>2. Passed(p, 0) /\ \A j \in Coming(p) : j <= 0 => Told(p)'
    BY <2>1, SamePassed DEF Inv
  <2>3. proto'[Other(p)].status # "sent" \/ proto[Other(p)].status = "sent"
    BY <1>3, <1>9
  <2> QED
    BY <1>13, <2>2, <2>3, FirstPassed DEF Inv, Order
<1>17. StatusFirst(o)'
  <2>1. CASE queue' = queue
    <3>1. Passed(o, 0) /\ \A j \in Coming(o) : j <= 0 => Told(o)'
      BY <2>1, SamePassed DEF Inv
    <3>2. Other(o) \in closed' \/ Told(o)' \/ queue'[o] # queue[o]
      <4>1. CASE p \in closed'
        BY <1>3, <4>1
      <4>2. CASE o \in deaf'
        BY <4>2 DEF Told
      <4>3. CASE queue' = [queue EXCEPT ![o] = Append(queue[o], StatusOf(p))]
        <5>1. queue'[o] = Append(queue[o], StatusOf(p))
          BY <1>3, <4>3 DEF Inv, Shapes
        <5>2. queue[o] \in Seq(Statuses \cup Datas) /\ StatusOf(p) \in Statuses \cup Datas
          BY DEF Inv, Shapes, Statuses
        <5>3. Len(Append(queue[o], StatusOf(p))) # Len(queue[o])
          BY <5>2
        <5> QED
          BY <5>1, <5>3
      <4> QED
        BY <1>15, <4>1, <4>2, <4>3
    <3> QED
      BY <1>13, <2>1, <3>1, <3>2, FirstPassed DEF Inv, Order
  <2>2. CASE queue' = [queue EXCEPT ![o] = Append(queue[o], StatusOf(p))]
    <3>1. queue'[o] = Append(queue[o], StatusOf(p))
      BY <2>2 DEF Inv, Shapes
    <3>2. StatusOf(p) \in Statuses \cup Datas /\ StatusOf(p).code = ETH_LES_STATUS
      BY Codes DEF Statuses, ETH_LES_STATUS
    <3> QED
      BY <1>13, <3>1, <3>2, FirstAppended DEF Inv, Order
  <2> QED
    BY <1>15, <2>1, <2>2
<1> QED
  BY <1>3, <1>10, <1>11, <1>14, <1>16, <1>17 DEF Order, Firm

\* A STATUS comes, and is judged if ours was sent.
LEMMA ReceiveStatus_Order ==
    ASSUME Inv, Inv', Order, Firm, NEW p \in Sides, ReceiveStatus(p)
    PROVE  Order'
<1>1. PICK m : m = Head(queue[p])
  OBVIOUS
<1>2. PICK s : s = [proto[p] EXCEPT !.theirs = m]
  OBVIOUS
<1>3. PICK t : t = Handled(p, s)
  OBVIOUS
<1>4. PICK o \in Sides : o = Other(p) /\ Other(o) = p /\ o # p /\ \A q \in Sides : q = p \/ q = o
  BY SidesFacts
<1>5. /\ setup' = setup /\ Deliver(p) /\ m.code = ETH_LES_STATUS
      /\ proto[p].theirs = NoStatus => proto' = [proto EXCEPT ![p] = t]
  BY <1>1, <1>2, <1>3 DEF ReceiveStatus
<1>6. /\ queue' = [queue EXCEPT ![p] = Tail(queue[p])] /\ queue[p] # <<>>
      /\ 1 \in DOMAIN queue[p] /\ m = queue[p][1] /\ m \in Statuses \cup Datas
  BY <1>1, <1>5, Delivered DEF Inv, Deliver
<1>7. 1 \in Coming(p)
  BY <1>5, <1>6 DEF Coming
<1>8. proto[p].theirs = NoStatus /\ proto' = [proto EXCEPT ![p] = t]
  BY <1>5, <1>7 DEF Inv, AtMostOne
<1>9. m = StatusOf(o) /\ m # NoStatus /\ m \in Statuses
  BY <1>4, <1>6, <1>7, Codes DEF Inv, Theirs, Statuses
<1>10. /\ proto[p] \in Protos /\ ~proto[p].ready /\ ~proto[p].failed
       /\ proto[p].latest \in {hardforkBlock(setup.chain[p]), setup.chain[p].head}
  BY <1>8 DEF Inv, Shapes, Judged, Complete, Order, Settled
<1>11. /\ s \in Protos /\ ~s.ready /\ ~s.failed
       /\ s.status = proto[p].status /\ s.theirs = m /\ s.latest = proto[p].latest
       /\ s.heard = proto[p].heard
  BY <1>2, <1>9, <1>10 DEF Protos
<1>12. t \in Protos /\ t.status = proto[p].status /\ t.theirs = m
  BY <1>3, <1>11, HandledFacts
<1>13. proto'[p] = t /\ proto'[o] = proto[o]
  BY <1>4, <1>8 DEF Inv, Shapes
<1>14. Settled(p)' /\ proto'[p].heard = proto[p].heard
  BY <1>3, <1>5, <1>10, <1>11, <1>13, HandledSettled
<1>15. Still(o) /\ Settled(o)' /\ Kept(o)
  BY <1>5, <1>13, StillSettled DEF Still, Order
<1>16. Kept(p)
  BY <1>8, <1>10, <1>12, <1>13 DEF Kept
<1>17. Onward
  BY <1>4, <1>5, <1>15, <1>16 DEF Onward
<1>18. Explained(p)' /\ Explained(o)'
  BY <1>13, <1>14, <1>17, StillExplained DEF Order
<1>19. /\ queue'[p] = Tail(queue[p]) /\ queue'[o] = queue[o]
  BY <1>4, <1>6 DEF Inv, Shapes
<1>20. StatusFirst(p)'
  <2>1. Passed(p, 1)
    BY <1>6, <1>19, TailPassed DEF Inv
  <2>2. Told(p)'
    BY <1>9, <1>12, <1>13 DEF Told
  <2> QED
    BY <1>17, <2>1, <2>2, FirstPassed DEF Inv, Order
<1>21. StatusFirst(o)'
  <2>1. Passed(o, 0) /\ \A j \in Coming(o) : j <= 0 => Told(o)'
    BY <1>19, SamePassed DEF Inv
  <2>2. proto'[Other(o)].status = proto[Other(o)].status
    BY <1>4, <1>12, <1>13
  <2> QED
    BY <1>17, <2>1, <2>2, FirstPassed DEF Inv, Order
<1> QED
  BY <1>4, <1>14, <1>15, <1>18, <1>20, <1>21 DEF Order, Firm

\* The order of the messages is inductive.
LEMMA Order_Step ==
    ASSUME Inv, Inv', Order, [Next]_vars
    PROVE  Order'
<1>0. Firm
  BY LinksStep DEF Order
<1>1. ASSUME NEW p \in Sides, Start(p) PROVE Order'
  BY <1>0, <1>1, Start_Order
<1>2. ASSUME NEW p \in Sides, NEW latest \in LatestBlocks(p), SendStatus(p, latest) PROVE Order'
  BY <1>0, <1>2, SendStatus_Order
<1>3. ASSUME NEW p \in Sides, SendStatusThrows(p) PROVE Order'
  BY <1>0, <1>3, Throws_Order
<1>4. ASSUME NEW p \in Sides, Receive(p) PROVE Order'
  BY <1>0, <1>4, ReceiveStatus_Order, ReceiveData_Order DEF Receive
<1>5. ASSUME NEW p \in Sides, NEW code \in {1, 13}, Say(p, code) PROVE Order'
  BY <1>0, <1>5, Say_Order
<1>6. ASSUME NEW p \in Sides, Expire(p) PROVE Order'
  BY <1>0, <1>6, Expire_Order
<1>7. ASSUME NEW p \in Sides, Leave(p) PROVE Order'
  BY <1>0, <1>7, Leave_Order
<1>8. CASE UNCHANGED vars
  BY <1>0, <1>8, Stutter_Order
<1> QED
  BY <1>1, <1>2, <1>3, <1>4, <1>5, <1>6, <1>7, <1>8 DEF Next

\* There are no messages yet.
LEMMA Start_Ordered ==
    ASSUME Init
    PROVE  Order
<1>1. \A p \in Sides : queue[p] = <<>> /\ Coming(p) = {} /\ DOMAIN queue[p] = {}
  BY DEF Init, LinkInit, Coming
<1>2. \A p \in Sides : /\ proto[p].status = "none" /\ ~proto[p].failed /\ ~proto[p].heard
                       /\ proto[p].latest = hardforkBlock(setup.chain[p])
  BY DEF Init, NewProto
<1>3. Links
  BY DEF Init, LinkInit, Links
<1> QED
  BY <1>1, <1>2, <1>3, SidesFacts DEF Order, Settled, StatusFirst, Explained

\* The inductive invariant: what is ahead of what, and why.
THEOREM Ordered == Spec => [](Inv /\ Order)
<1>1. Init => Inv /\ Order
  BY Start_Inv, Start_Ordered
<1>2. Inv /\ Order /\ [Next]_vars => (Inv /\ Order)'
  BY Inv_Step, Order_Step
<1> QED
  BY <1>1, <1>2, PTL DEF Spec

-----------------------------------------------------------------------------
(* More theorems *)

\* What a node hears before 'status' has one of three reasons, wherever the
\* messages, the calls of sendStatus and the ends of the Peers come in.
THEOREM EarlyMessages == Spec => []EarlyMessageExplained
<1>1. Order => EarlyMessageExplained
  BY DEF Order, Explained, EarlyMessageExplained
<1> QED
  BY <1>1, Ordered, PTL

\* Two nodes of one chain accept each other wherever their heads are, for all
\* forks, unless a digit of the next one is lost.
THEOREM OneChain == Spec => []OneChainAccepted
<1> SUFFICES ASSUME SetupsAssumption PROVE Spec => []OneChainAccepted
  BY SetupsAssumption
<1>1. Inv /\ Order => OneChainAccepted
  BY OneChainState
<1> QED
  BY <1>1, Ordered, PTL

\* What of TypeOK is about one state.
LEMMA TypesState ==
    ASSUME Inv, Order, SetupsAssumption
    PROVE  TypeOK
<1>2. ASSUME NEW p \in Sides
      PROVE  /\ StatusOf(p) \in StatusMsg
             /\ hardforkBlock(setup.chain[p]) \in Nat /\ setup.chain[p].head \in Nat
  <2> DEFINE c == setup.chain[p]
  <2>1. /\ c.network \in Nat /\ c.genesis \in Nat /\ c.head \in Nat
        /\ c.forks \in Seq(Words) /\ c.forks \in Seq(Nat) /\ c.at \in 1..Len(c.forks)
    BY ChainsAre
  <2> HIDE DEF c
  <2>2. \A k \in 1..Len(c.forks) : c.forks[k] \in Words /\ c.forks[k] \in Nat
    BY <2>1
  <2>3. hardforkBlock(c) \in Nat
    BY <2>1, <2>2 DEF hardforkBlock
  <2>4. forkHash(c) \in Seq(Nat)
    BY <2>1 DEF forkHash
  <2>5. nextForkBlock(c) \in Words
    <3>1. 0 \in Words
      BY DEF Words, Shift
    <3> QED
      BY <2>1, <2>2, <3>1 DEF nextForkBlock
  <2>6. OwnForkId(c) \in [hash : Seq(Nat), next : Seq(0..255)]
    BY <2>4, <2>5, FromHexBytes DEF OwnForkId
  <2>7. StatusOf(p) \in StatusMsg
    BY <2>1, <2>6 DEF StatusOf, StatusMsg, c
  <2> QED
    BY <2>1, <2>3, <2>7 DEF c
<1>3. Statuses \subseteq StatusMsg /\ Datas \subseteq DataMsg /\ Latests \subseteq Nat
  BY <1>2 DEF Statuses, Datas, Latests, Data, DataMsg, ETH_LES_STATUS
<1>4. queue \in [Sides -> Seq(StatusMsg \cup DataMsg)]
  <2>1. \A q \in Sides : queue[q] \in Seq(StatusMsg \cup DataMsg)
    BY <1>3 DEF Inv, Shapes
  <2> QED
    BY <2>1 DEF Inv, Shapes
<1>5. Protos \subseteq [status : {"none", "unsent", "sent"},
                        theirs : StatusMsg \cup {NoStatus}, timer : BOOLEAN, latest : Nat,
                        ready : BOOLEAN, failed : BOOLEAN, said : BOOLEAN, heard : BOOLEAN]
  BY <1>3 DEF Protos
<1> QED
  BY <1>4, <1>5 DEF TypeOK, Inv, Shapes, Order, Links

\* The types of the variables, for all forks with numbers of up to four bytes.
THEOREM Types == Spec => []TypeOK
<1> SUFFICES ASSUME SetupsAssumption PROVE Spec => []TypeOK
  BY SetupsAssumption
<1>1. Inv /\ Order => TypeOK
  BY TypesState
<1> QED
  BY <1>1, Ordered, PTL
=============================================================================
