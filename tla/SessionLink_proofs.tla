------------------------- MODULE SessionLink_proofs --------------------------
(***************************************************************************)
(* Session implements Link, for every pair of lists, every code in the     *)
(* range of its subprotocol and every bound: the initial state is one of   *)
(* Link, and every step of the two Peers is a step of Link or changes      *)
(* nothing that Link knows of.                                             *)
(***************************************************************************)
EXTENDS SessionLink, Session_proofs, Filter_proofs

-----------------------------------------------------------------------------
(* The messages that frames stand for *)

\* What the senders meant by the messages of s.
Said(s) == [k \in DOMAIN SubFrames(s) |-> SubFrames(s)[k].meant]

\* The SUB frames of a sequence are frames of it.
LEMMA SubFramesIs ==
    ASSUME NEW s \in Seq(Frames)
    PROVE  /\ SubFrames(s) \in Seq(Frames)
           /\ \A j \in 1..Len(SubFrames(s)) :
                \E k \in DOMAIN s : s[k].kind = "SUB" /\ SubFrames(s)[j] = s[k]
<1> DEFINE keep == {k \in DOMAIN s : s[k].kind = "SUB"}
<1>1. SubFrames(s) = Kept(s, keep) /\ DOMAIN s = 1..Len(s)
  BY DEF SubFrames
<1>2. \A k \in keep : k \in DOMAIN s /\ s[k].kind = "SUB"
  OBVIOUS
<1> HIDE DEF keep
<1>3. Kept(s, keep) \in Seq(Frames)
  BY KeptType
<1>4. \A j \in 1..Len(Kept(s, keep)) : \E k \in 1..Len(s) : k \in keep /\ Kept(s, keep)[j] = s[k]
  BY KeptItems
<1> QED
  BY <1>1, <1>2, <1>3, <1>4

LEMMA SubFramesEmpty == SubFrames(<<>>) = <<>>
BY KeptNothing DEF SubFrames

\* One more frame.
LEMMA SubFramesAppend ==
    ASSUME NEW s \in Seq(Frames), NEW f \in Frames
    PROVE  SubFrames(Append(s, f)) = IF f.kind = "SUB" THEN Append(SubFrames(s), f) ELSE SubFrames(s)
<1> DEFINE t == Append(s, f)
           n == Len(s)
           keep == {k \in DOMAIN t : t[k].kind = "SUB"}
           stay == {k \in DOMAIN s : s[k].kind = "SUB"}
<1>1. /\ n \in Nat /\ Len(t) = n + 1 /\ t[n + 1] = f /\ \A k \in 1..n : t[k] = s[k]
      /\ DOMAIN t = 1..(n + 1) /\ DOMAIN s = 1..n
  BY AppendProperties
<1>2. \A k \in 1..n : k \in 1..(n + 1)
  BY <1>1
<1>3. n + 1 \in 1..(n + 1)
  BY <1>1
<1>4. SubFrames(t) = Kept(t, keep) /\ SubFrames(s) = Kept(s, stay)
  BY DEF SubFrames
<1>5. \A k \in 1..n : k \in keep <=> k \in stay
  <2> HIDE DEF n, t
  <2> QED
    BY <1>1, <1>2
<1>6. n + 1 \in keep <=> f.kind = "SUB"
  <2> HIDE DEF n, t
  <2> QED
    BY <1>1, <1>3
<1> HIDE DEF keep, stay
<1>7. Kept(t, keep) = IF n + 1 \in keep THEN Append(Kept(s, stay), f) ELSE Kept(s, stay)
  BY <1>5, KeptAppend
<1> QED
  BY <1>4, <1>6, <1>7

\* The SUB frames of two sequences in a row.
LEMMA SubFramesJoin ==
    ASSUME NEW s \in Seq(Frames), NEW t \in Seq(Frames)
    PROVE  SubFrames(s \o t) = SubFrames(s) \o SubFrames(t)
<1> DEFINE n == Len(t)
           u(k) == SubSeq(t, 1, k)
           Good == {k \in 0..n : SubFrames(s \o u(k)) = SubFrames(s) \o SubFrames(u(k))}
<1>0. n \in Nat /\ IsSequence(t) /\ SubFrames(s) \in Seq(Frames)
  BY SubFramesIs DEF IsSequence
<1>1. ASSUME NEW k \in 0..n PROVE u(k) \in Seq(Frames)
  <2>1. \A i \in 1..k : t[i] \in Frames
    OBVIOUS
  <2> QED
    BY <1>0, <2>1
<1>2. 0 \in Good
  <2>1. u(0) = <<>>
    BY <1>0
  <2>2. s \o <<>> = s /\ SubFrames(s) \o <<>> = SubFrames(s)
    BY <1>0
  <2> HIDE DEF u
  <2>3. SubFrames(s \o u(0)) = SubFrames(s) \o SubFrames(u(0))
    BY <2>1, <2>2, SubFramesEmpty
  <2> QED
    BY <1>0, <2>3
<1>3. ASSUME NEW k \in 1..n, k - 1 \in Good PROVE k \in Good
  <2>1. k \in 0..n /\ k - 1 \in 0..n /\ t[k] \in Frames
    BY <1>0
  <2>2. u(k) = Append(u(k - 1), t[k])
    BY <1>0, FrontStep
  <2> DEFINE v == u(k - 1)
             f == t[k]
  <2>3. v \in Seq(Frames) /\ f \in Frames
    BY <1>1, <2>1
  <2>4. SubFrames(s \o v) = SubFrames(s) \o SubFrames(v)
    BY <1>3
  <2>5. u(k) = Append(v, f)
    BY <2>2
  <2> HIDE DEF v, f, u
  <2>6. s \o Append(v, f) = Append(s \o v, f) /\ s \o v \in Seq(Frames)
    BY <2>3
  <2>7. /\ SubFrames(Append(v, f)) = IF f.kind = "SUB" THEN Append(SubFrames(v), f) ELSE SubFrames(v)
        /\ SubFrames(Append(s \o v, f)) =
             IF f.kind = "SUB" THEN Append(SubFrames(s \o v), f) ELSE SubFrames(s \o v)
    BY <2>3, <2>6, SubFramesAppend
  <2>8. SubFrames(v) \in Seq(Frames)
    BY <2>3, SubFramesIs
  <2>9. SubFrames(s) \o Append(SubFrames(v), f) = Append(SubFrames(s) \o SubFrames(v), f)
    BY <1>0, <2>3, <2>8
  <2>10. SubFrames(s \o Append(v, f)) = SubFrames(s) \o SubFrames(Append(v, f))
    BY <2>4, <2>6, <2>7, <2>9
  <2> QED
    BY <2>1, <2>5, <2>10
<1>4. \A k \in 0..n : k \in Good
  <2> HIDE DEF Good, n
  <2> QED
    BY <1>0, <1>2, <1>3, UpToNat
<1>5. u(n) = t
  <2>1. IsSequence(u(n)) /\ Len(u(n)) = Len(t) /\ \A k \in 1..Len(t) : u(n)[k] = t[k]
    BY <1>0, FrontIs
  <2> QED
    BY <1>0, <2>1, SameItems
<1>6. n \in 0..n
  BY <1>0
<1> HIDE DEF u, n
<1>7. SubFrames(s \o u(n)) = SubFrames(s) \o SubFrames(u(n))
  BY <1>4, <1>6
<1> QED
  BY <1>5, <1>7

\* The messages of nothing, of one frame, and of two sequences in a row.
LEMMA SaidIs ==
    /\ Said(<<>>) = <<>>
    /\ \A s \in Seq(Frames) : IsSequence(Said(s))
    /\ \A f \in Frames : Said(<<f>>) = IF f.kind = "SUB" THEN <<f.meant>> ELSE <<>>
    /\ \A s, t \in Seq(Frames) : Said(s \o t) = Said(s) \o Said(t)
<1>1. Said(<<>>) = <<>>
  BY SubFramesEmpty DEF Said
<1>2. ASSUME NEW s \in Seq(Frames)
      PROVE  /\ IsSequence(Said(s)) /\ Len(Said(s)) = Len(SubFrames(s))
             /\ Len(SubFrames(s)) \in Nat /\ IsSequence(SubFrames(s))
             /\ \A k \in 1..Len(SubFrames(s)) : Said(s)[k] = SubFrames(s)[k].meant
  <2>1. SubFrames(s) \in Seq(Frames)
    BY SubFramesIs
  <2> DEFINE r == SubFrames(s)
             M == {r[k].meant : k \in DOMAIN r}
  <2>2. r \in Seq(Frames) /\ Len(r) \in Nat /\ DOMAIN r = 1..Len(r)
    BY <2>1
  <2>3. Said(s) = [k \in 1..Len(r) |-> r[k].meant]
    BY <2>2 DEF Said
  <2> HIDE DEF r
  <2>4. [k \in 1..Len(r) |-> r[k].meant] \in Seq(M)
    BY <2>2
  <2>5. Len([k \in 1..Len(r) |-> r[k].meant]) = Len(r)
    BY <2>2
  <2> QED
    BY <2>2, <2>3, <2>4, <2>5 DEF IsSequence, r
<1>3. ASSUME NEW f \in Frames PROVE Said(<<f>>) = IF f.kind = "SUB" THEN <<f.meant>> ELSE <<>>
  <2>1. <<>> \in Seq(Frames) /\ <<f>> = Append(<<>>, f)
    OBVIOUS
  <2>2. SubFrames(<<f>>) = IF f.kind = "SUB" THEN Append(<<>>, f) ELSE <<>>
    BY <2>1, SubFramesAppend, SubFramesEmpty
  <2>3. SubFrames(<<f>>) = IF f.kind = "SUB" THEN <<f>> ELSE <<>>
    BY <2>1, <2>2
  <2>4. CASE f.kind = "SUB"
    <3>1. Said(<<f>>) = [k \in DOMAIN <<f>> |-> <<f>>[k].meant]
      BY <2>3, <2>4 DEF Said
    <3> QED
      BY <2>4, <3>1
  <2>5. CASE f.kind # "SUB"
    BY <2>3, <2>5 DEF Said
  <2> QED
    BY <2>4, <2>5
<1>4. ASSUME NEW s \in Seq(Frames), NEW t \in Seq(Frames) PROVE Said(s \o t) = Said(s) \o Said(t)
  <2> DEFINE a == SubFrames(s)
             b == SubFrames(t)
             c == SubFrames(s \o t)
             x == Said(s)
             y == Said(t)
             z == Said(s \o t)
             m == Len(a)
             n == Len(b)
  <2>1. c = a \o b /\ s \o t \in Seq(Frames)
    BY SubFramesJoin
  <2>2. /\ IsSequence(a) /\ IsSequence(b) /\ m \in Nat /\ n \in Nat
        /\ IsSequence(x) /\ Len(x) = m /\ \A k \in 1..m : x[k] = a[k].meant
        /\ IsSequence(y) /\ Len(y) = n /\ \A k \in 1..n : y[k] = b[k].meant
    BY <1>2
  <2>3. /\ IsSequence(z) /\ Len(z) = Len(c) /\ \A k \in 1..Len(c) : z[k] = c[k].meant
    BY <1>2, <2>1
  <2> HIDE DEF a, b, c, x, y, z, m, n
  <2>4. /\ Len(a \o b) = m + n
        /\ \A k \in 1..m : (a \o b)[k] = a[k]
        /\ \A k \in (m + 1)..(m + n) : (a \o b)[k] = b[k - m]
    BY <2>2, ConcatIs DEF m, n
  <2>5. /\ IsSequence(x \o y) /\ Len(x \o y) = m + n
        /\ \A k \in 1..m : (x \o y)[k] = x[k]
        /\ \A k \in (m + 1)..(m + n) : (x \o y)[k] = y[k - m]
    BY <2>2, ConcatIs, ZenonT(60)
  <2>6. ASSUME NEW k \in 1..(m + n) PROVE z[k] = (x \o y)[k]
    <3>0. z[k] = (a \o b)[k].meant
      BY <2>1, <2>3, <2>4
    <3>1. CASE k \in 1..m
      BY <2>2, <2>4, <2>5, <3>0, <3>1
    <3>2. CASE k \notin 1..m
      <4>1. k \in (m + 1)..(m + n) /\ k - m \in 1..n
        BY <2>2, <3>2
      <4> QED
        BY <2>2, <2>4, <2>5, <3>0, <4>1
    <3> QED
      BY <3>1, <3>2
  <2>7. Len(z) = m + n
    BY <2>1, <2>3, <2>4
  <2>8. z = x \o y
    BY <2>3, <2>5, <2>6, <2>7, SameItems
  <2> QED
    BY <2>8 DEF x, y, z
<1> QED
  BY <1>1, <1>2, <1>3, <1>4

-----------------------------------------------------------------------------
(* The queues of Link *)

\* What was meant by the messages on their way to p.
Queue(p) == Said(data[p]) \o Said(wire[p])

\* What holds at both ends of a step.
Good == Inv /\ Rest

LEMMA SaidQueues ==
    ASSUME Inv, NEW p \in Sides
    PROVE  /\ data[p] \in Seq(Frames) /\ wire[p] \in Seq(Frames) /\ Coming(p) \in Seq(Frames)
           /\ IsSequence(Said(data[p])) /\ IsSequence(Said(wire[p])) /\ IsSequence(Queue(p))
           /\ Said(Coming(p)) = Queue(p)
<1>1. data[p] \in Seq(Frames) /\ wire[p] \in Seq(Frames)
  BY PeerFacts
<1>2. Coming(p) \in Seq(Frames) /\ Said(Coming(p)) = Queue(p)
  BY <1>1, SaidIs, SMTT(30) DEF Coming, Queue
<1> QED
  BY <1>1, <1>2, SaidIs

\* A Peer understands what was meant.
LEMMA UnderwayIs ==
    ASSUME InRange, Good, NEW p \in Sides
    PROVE  Underway(p) = Queue(p)
<1>1. data[p] \in Seq(Frames) /\ wire[p] \in Seq(Frames) /\ Coming(p) \in Seq(Frames)
      /\ Said(Coming(p)) = Queue(p)
  BY SaidQueues DEF Good
<1>2. AllMeant(p, Coming(p))
  BY <1>1, MeantFrames DEF Good, Rest, Meaning, Coming
<1> DEFINE s == SubFrames(Coming(p))
<1>3. ASSUME NEW j \in DOMAIN s PROVE Understood(peer[p], s[j]) = s[j].meant
  <2>1. s \in Seq(Frames) /\ j \in 1..Len(s)
    BY <1>1, SubFramesIs
  <2>2. PICK k \in DOMAIN Coming(p) : Coming(p)[k].kind = "SUB" /\ s[j] = Coming(p)[k]
    BY <1>1, <2>1, SubFramesIs
  <2> DEFINE f == s[j]
  <2>3. Meant(p, f) /\ f.kind = "SUB"
    BY <1>2, <2>2 DEF AllMeant
  <2> HIDE DEF f
  <2>4. CASE "connect" \notin peer[p].emitted
    BY <2>4 DEF Understood, f
  <2>5. CASE "connect" \in peer[p].emitted
    <3>1. /\ Routed(peer[p].protocols, f.code) = {f.meant.cap}
          /\ f.code - Offset(peer[p].protocols, f.meant.cap) = f.meant.code
          /\ f.meant = [cap |-> f.meant.cap, code |-> f.meant.code]
      BY <2>3, <2>5, Understanding DEF Good
    <3>2. (CHOOSE c \in Routed(peer[p].protocols, f.code) : TRUE) = f.meant.cap
      BY <3>1
    <3>3. Understood(peer[p], f) =
            [cap |-> f.meant.cap, code |-> f.code - Offset(peer[p].protocols, f.meant.cap)]
      BY <2>5, <3>2 DEF Understood
    <3>4. Understood(peer[p], f) = f.meant
      BY <3>1, <3>3, Zenon
    <3> QED
      BY <3>4 DEF f
  <2> QED
    BY <2>4, <2>5
<1>4. Underway(p) = [j \in DOMAIN s |-> Understood(peer[p], s[j])]
  BY DEF Underway
<1>5. Said(Coming(p)) = [j \in DOMAIN s |-> s[j].meant]
  BY DEF Said
<1> HIDE DEF s
<1>6. Underway(p) = Said(Coming(p))
  BY <1>3, <1>4, <1>5
<1> QED
  BY <1>1, <1>6

\* Frames that are not messages say nothing.
LEMMA NothingSaid ==
    ASSUME NEW s \in Seq(Frames), NoSub(s)
    PROVE  Said(s) = <<>>
<1>1. SubFrames(s) \in Seq(Frames) /\ \A j \in 1..Len(SubFrames(s)) : FALSE
  BY SubFramesIs DEF NoSub
<1>2. SubFrames(s) = <<>>
  BY <1>1
<1> QED
  BY <1>2 DEF Said

\* A sequence and its head.
LEMMA SaidTail ==
    ASSUME NEW s \in Seq(Frames), s # <<>>
    PROVE  /\ Head(s).kind = "SUB" => Said(s) = <<Head(s).meant>> \o Said(Tail(s))
           /\ Head(s).kind # "SUB" => Said(s) = Said(Tail(s))
<1> DEFINE h == Head(s)
           t == Tail(s)
<1>1. h \in Frames /\ t \in Seq(Frames) /\ s = <<h>> \o t /\ <<h>> \in Seq(Frames)
  OBVIOUS
<1> HIDE DEF h, t
<1>2. Said(s) = Said(<<h>>) \o Said(t) /\ IsSequence(Said(t))
  BY <1>1, SaidIs
<1>3. Said(<<h>>) = IF h.kind = "SUB" THEN <<h.meant>> ELSE <<>>
  BY <1>1, SaidIs
<1>4. <<>> \o Said(t) = Said(t)
  BY <1>2 DEF IsSequence
<1> QED
  BY <1>2, <1>3, <1>4 DEF h, t

\* Sequences of anything: what is nothing, what comes after, and what is left.
LEMMA QueueFacts ==
    ASSUME NEW s, IsSequence(s), NEW t, IsSequence(t)
    PROVE  /\ s \o <<>> = s /\ <<>> \o s = s /\ IsSequence(s \o t)
           /\ \A x : <<x>> \o s # <<>> /\ Tail(<<x>> \o s) = s
           /\ s # <<>> => Len(s) \in 1..Len(s \o t)
           /\ SubSeq(s \o t, Len(s) + 1, Len(s \o t)) = t
           /\ SubSeq(s, Len(s) + 1, Len(s)) = <<>>
<1>1. PICK S, T : s \in Seq(S) /\ t \in Seq(T)
  BY DEF IsSequence
<1> DEFINE U == S \cup T
<1>2. s \in Seq(U) /\ t \in Seq(U)
  BY <1>1, SeqMonotonic
<1> HIDE DEF U
<1>3. s \o <<>> = s /\ <<>> \o s = s /\ IsSequence(s \o t)
  BY <1>2 DEF IsSequence
<1>4. ASSUME NEW x
      PROVE  <<x>> \o s # <<>> /\ Tail(<<x>> \o s) = s
  <2> DEFINE V == U \cup {x}
  <2>1. s \in Seq(V) /\ t \in Seq(V) /\ x \in V
    BY <1>2, SeqMonotonic
  <2> HIDE DEF V
  <2>2. <<x>> \in Seq(V)
    BY <2>1
  <2>3. <<x>> \o s # <<>> /\ Tail(<<x>> \o s) = s
    BY <2>1, <2>2
  <2> QED
    BY <2>3
<1>5. s # <<>> => Len(s) \in 1..Len(s \o t)
  BY <1>2
<1>6. SubSeq(s \o t, Len(s) + 1, Len(s \o t)) = t
  BY <1>2
<1>7. SubSeq(s, Len(s) + 1, Len(s)) = <<>>
  BY <1>2
<1> QED
  BY <1>3, <1>4, <1>5, <1>6, <1>7

LEMMA QueueEnd ==
    ASSUME NEW s, IsSequence(s), NEW t, IsSequence(t), NEW x
    PROVE  s \o (t \o <<x>>) = Append(s \o t, x)
<1>1. PICK S, T : s \in Seq(S) /\ t \in Seq(T)
  BY DEF IsSequence
<1> DEFINE U == S \cup T \cup {x}
<1>2. s \in Seq(U) /\ t \in Seq(U) /\ x \in U
  BY <1>1, SeqMonotonic
<1> HIDE DEF U
<1>3. <<x>> \in Seq(U)
  BY <1>2
<1> QED
  BY <1>2, <1>3

-----------------------------------------------------------------------------
(* What a step makes of a Peer *)

\* A Peer that has closed without the HELLO of the other handles no more
\* frames: it reads a HELLO, and connects, only if it is not closed.
Halted ==
    \A p \in Sides : peer[p].closed /\ ~peer[p].hello => data[p] = <<>> \/ peer[p].mode = "lost"

\* The Peer of p becomes s.
Moved(p, s) ==
    /\ p \notin dead /\ dead' = dead
    /\ peer' = [peer EXCEPT ![p] = s]
    /\ peer[p].closed => s.closed
    /\ "connect" \in peer[p].emitted => "connect" \in s.emitted
    /\ "connect" \in s.emitted => "connect" \in peer[p].emitted \/ ~peer[p].closed
    /\ s.closed /\ ~s.hello => data'[p] = <<>> \/ s.mode = "lost"

\* What disconnecting, and connecting, leave of a Peer.
LEMMA DisconnectedIs ==
    ASSUME NEW s \in Peers, NEW r \in Reasons
    PROVE  LET t == Disconnected(s, r)
           IN  t \in Peers /\ t.emitted = s.emitted /\ t.closed /\ t.hello = s.hello /\ t.mode = s.mode
<1>1. CASE s.closed
  BY <1>1 DEF Disconnected
<1>2. CASE ~s.closed
  <2> DEFINE t == [s EXCEPT !.closed = TRUE, !.reason = r, !.we = "we", !.ending = TRUE]
  <2>1. t \in Peers
    BY ClosedPeer
  <2>2. t.emitted = s.emitted /\ t.closed /\ t.hello = s.hello /\ t.mode = s.mode
    BY DEF Peers
  <2>3. Disconnected(s, r) = t
    BY <1>2 DEF Disconnected
  <2> HIDE DEF t
  <2> QED
    BY <2>1, <2>2, <2>3
<1> QED
  BY <1>1, <1>2

LEMMA ConnectedIs ==
    ASSUME NEW s \in Peers, NEW refuse \in BOOLEAN
    PROVE  LET t == Connected(s, refuse)
           IN  /\ t.emitted = s.emitted \cup {"connect"} /\ t.hello = s.hello
               /\ s.closed => t.closed
<1> DEFINE u == [s EXCEPT !.emitted = @ \cup {"connect"}]
<1>1. u \in Peers /\ u.emitted = s.emitted \cup {"connect"} /\ u.hello = s.hello /\ u.closed = s.closed
  BY DEF Peers
<1>2. Connected(s, refuse) = IF refuse THEN Disconnected(u, "refused") ELSE u
  BY DEF Connected
<1> HIDE DEF u
<1>3. "refused" \in Reasons
  BY DEF Reasons
<1> QED
  BY <1>1, <1>2, <1>3, DisconnectedIs

\* A callback of p that is not the loop and not a tick.
LEMMA IdleMoves ==
    ASSUME Inv, NEW p \in Sides, Idle(p), NEW s,
           peer' = [peer EXCEPT ![p] = s], data' = data, dead' = dead,
           peer[p].closed => s.closed,
           "connect" \in s.emitted <=> "connect" \in peer[p].emitted
    PROVE  Moved(p, s)
BY DEF Moved, Idle

\* p disconnects.
LEMMA DisconnectMoves ==
    ASSUME Inv, NEW p \in Sides, NEW r \in Reasons, Disconnect(p, r), p \notin dead, dead' = dead,
           peer[p].hello \/ data'[p] = <<>>
    PROVE  \E s : Moved(p, s)
<1> DEFINE s == Disconnected(peer[p], r)
<1>1. peer[p] \in Peers /\ peer \in [Sides -> Peers]
  BY PeerFacts
<1>2. peer' = [peer EXCEPT ![p] = s]
  BY <1>1 DEF Disconnect
<1>3. s.emitted = peer[p].emitted /\ s.closed /\ s.hello = peer[p].hello
  BY <1>1, DisconnectedIs
<1> HIDE DEF s
<1> QED
  BY <1>2, <1>3 DEF Moved

\* p, in a callback, becomes something in which it has closed no more than
\* before, and heard no less.
LEMMA PlainMoves ==
    ASSUME NEW p \in Sides, p \notin dead, dead' = dead, NEW s,
           peer' = [peer EXCEPT ![p] = s],
           s.closed = peer[p].closed, s.emitted = peer[p].emitted,
           ~s.closed \/ s.hello \/ data'[p] = <<>>
    PROVE  Moved(p, s)
BY DEF Moved

LEMMA ReadHelloMoves ==
    ASSUME Inv, Halted, NEW p \in Sides, NEW refuse \in BOOLEAN, ReadHello(p, refuse)
    PROVE  \E s : Moved(p, s)
<1> DEFINE o     == peer[p]
           heard == [o EXCEPT !.hello = TRUE, !.protocols = Agreed(p)]
           up    == [heard EXCEPT !.connected = TRUE, !.pinging = TRUE]
           s     == IF Agreed(p) = {} THEN Disconnected(heard, "useless")
                    ELSE IF Greeted(heard) THEN Connected(up, refuse) ELSE up
<1>1. /\ Reads(p, "frames", "HELLO") /\ dead' = dead /\ p \notin dead
      /\ peer' = [peer EXCEPT ![p] = s]
  BY DEF ReadHello, Agreed, Reads
<1>2. data[p] # <<>> /\ o.mode = "frames"
  BY <1>1, ReadFacts
<1>3. o \in Peers /\ Sane(p, o)
  BY PeerFacts
<1>4. Agreed(p) \in AllProtocols /\ "useless" \in Reasons
  BY DEF AllProtocols, Reasons
<1>5. /\ heard \in Peers /\ heard.hello = TRUE /\ heard.weHello = o.weHello
      /\ heard.emitted = o.emitted /\ heard.closed = o.closed
  BY <1>3, <1>4 DEF Peers
<1> HIDE DEF heard
<1>6. up \in Peers /\ up.hello = TRUE /\ up.emitted = o.emitted /\ up.closed = o.closed
  BY <1>5 DEF Peers
<1> HIDE DEF up
<1>7. CASE Agreed(p) = {}
  <2>1. s = Disconnected(heard, "useless")
    BY <1>7
  <2>2. s.emitted = o.emitted /\ s.closed /\ s.hello
    BY <1>4, <1>5, <2>1, DisconnectedIs
  <2> HIDE DEF s
  <2> QED
    BY <1>1, <2>2 DEF Moved
<1>8. CASE Agreed(p) # {} /\ ~Greeted(heard)
  <2>1. s = up
    BY <1>8
  <2> HIDE DEF s
  <2> QED
    BY <1>1, <1>6, <2>1 DEF Moved
<1>9. CASE Agreed(p) # {} /\ Greeted(heard)
  <2>1. s = Connected(up, refuse)
    BY <1>9
  <2>2. /\ s.emitted = o.emitted \cup {"connect"} /\ s.hello
        /\ o.closed => s.closed
    BY <1>6, <2>1, ConnectedIs
  <2>3. "connect" \in o.emitted \/ ~o.closed
    <3>1. o.weHello
      BY <1>5, <1>9 DEF Greeted
    <3>2. o.hello => "connect" \in o.emitted
      BY <1>3, <1>9, <3>1 DEF Sane
    <3>3. ~o.hello => ~o.closed
      BY <1>2 DEF Halted
    <3> QED
      BY <3>2, <3>3
  <2> HIDE DEF s
  <2> QED
    BY <1>1, <2>2, <2>3 DEF Moved
<1> QED
  BY <1>7, <1>8, <1>9

LEMMA ReadDisconnectMoves ==
    ASSUME Inv, NEW p \in Sides, ReadDisconnect(p)
    PROVE  \E s : Moved(p, s)
<1> DEFINE o    == peer[p]
           told == [o EXCEPT !.closed = TRUE]
           s    == IF Head(data[p]).reason = "requested" THEN told
                   ELSE [told EXCEPT !.we = "they", !.reason = "none", !.ended = TRUE]
<1>1. /\ Reads(p, "frames", "DISCONNECT") /\ dead' = dead /\ p \notin dead
      /\ peer' = [peer EXCEPT ![p] = s] /\ Consume(p)
  BY DEF ReadDisconnect, Reads
<1>2. /\ o \in Peers /\ data \in [Sides -> Seq(Frames)] /\ data[p] \in Seq(Frames)
      /\ data[p] # <<>> /\ Head(data[p]).kind = "DISCONNECT" /\ ByeLast(data[p])
  BY <1>1, PeerFacts, ReadFacts DEF Byes
<1>3. Tail(data[p]) = <<>>
  <2>1. 1 \in DOMAIN data[p] /\ data[p][1] = Head(data[p])
    BY <1>2
  <2>2. Len(data[p]) = 1
    BY <1>2, <2>1 DEF ByeLast
  <2> DEFINE t == Tail(data[p])
  <2>3. t \in Seq(Frames) /\ Len(t) = 0
    BY <1>2, <2>2
  <2> HIDE DEF t
  <2>4. t = <<>>
    BY <2>3
  <2> QED
    BY <2>4 DEF t
<1>4. data'[p] = <<>>
  BY <1>1, <1>2, <1>3 DEF Consume
<1>5. s.emitted = o.emitted /\ s.closed
  BY <1>2 DEF Peers
<1> HIDE DEF s
<1> QED
  BY <1>1, <1>4, <1>5 DEF Moved

LEMMA ReadUnroutableMoves ==
    ASSUME Inv, NEW p \in Sides, ReadUnroutable(p)
    PROVE  \E s : Moved(p, s)
<1> DEFINE o == peer[p]
           t == Disconnected(o, "protocol")
           s == [t EXCEPT !.mode = "lost"]
<1>1. o \in Peers /\ peer \in [Sides -> Peers] /\ "protocol" \in Reasons
  BY PeerFacts DEF Reasons
<1>2. /\ dead' = dead /\ p \notin dead /\ peer' = [peer EXCEPT ![p] = s]
  BY <1>1 DEF ReadUnroutable, Reads
<1>3. t \in Peers /\ t.emitted = o.emitted /\ t.closed
  BY <1>1, DisconnectedIs
<1> HIDE DEF t
<1>4. s.emitted = t.emitted /\ s.closed /\ s.mode = "lost"
  BY <1>3 DEF Peers
<1> HIDE DEF s
<1> QED
  BY <1>2, <1>3, <1>4 DEF Moved

LEMMA ReadMoves ==
    ASSUME Inv, Halted, NEW p \in Sides, Read(p)
    PROVE  \E s : Moved(p, s)
<1> DEFINE o == peer[p]
<1>1. o \in Peers /\ peer \in [Sides -> Peers] /\ Sane(p, o)
  BY PeerFacts
<1>2. p \notin dead /\ dead' = dead
  BY DEF Read, ReadAuth, ReadAck, ReadHello, ReadDisconnect, ReadPing, ReadPong, ReadSub,
         ReadUnroutable, Reads
<1>3. CASE ReadAuth(p)
  <2>1. ~o.closed
    BY <1>1, <1>3, ReadFacts DEF ReadAuth, Sane
  <2> DEFINE s == IF setup.rightId THEN [o EXCEPT !.mode = "frames", !.tick = "ack"]
                  ELSE [o EXCEPT !.mode = "lost"]
  <2>2. peer' = [peer EXCEPT ![p] = s]
    BY <1>1, <1>3 DEF ReadAuth
  <2>3. s.closed = o.closed /\ s.emitted = o.emitted
    BY <1>1 DEF Peers
  <2> HIDE DEF s
  <2> QED
    BY <1>2, <2>1, <2>2, <2>3, PlainMoves
<1>4. CASE ReadAck(p)
  <2>1. ~o.closed
    BY <1>1, <1>4, ReadFacts DEF ReadAck, Sane
  <2> DEFINE s == [o EXCEPT !.mode = "frames", !.tick = "hello"]
  <2>2. peer' = [peer EXCEPT ![p] = s]
    BY <1>1, <1>4 DEF ReadAck
  <2>3. s.closed = o.closed /\ s.emitted = o.emitted
    BY <1>1 DEF Peers
  <2> HIDE DEF s
  <2> QED
    BY <1>2, <2>1, <2>2, <2>3, PlainMoves
<1>5. CASE \E refuse \in BOOLEAN : ReadHello(p, refuse)
  BY <1>5, ReadHelloMoves
<1>6. CASE ReadDisconnect(p)
  BY <1>6, ReadDisconnectMoves
<1>7. CASE ReadPing(p)
  <2>1. o.hello /\ peer' = [peer EXCEPT ![p] = o]
    BY <1>1, <1>7 DEF ReadPing, Routable
  <2> QED
    BY <1>2, <2>1, PlainMoves
<1>8. CASE ReadPong(p)
  <2> DEFINE s == [o EXCEPT !.waiting = FALSE]
  <2>1. o.hello /\ peer' = [peer EXCEPT ![p] = s]
    BY <1>1, <1>8 DEF ReadPong, Routable
  <2>2. s.closed = o.closed /\ s.emitted = o.emitted /\ s.hello = o.hello
    BY <1>1 DEF Peers
  <2> HIDE DEF s
  <2> QED
    BY <1>2, <2>1, <2>2, PlainMoves
<1>9. CASE \E outcome \in {"fine", "subprotocol", "requested"} : ReadSub(p, outcome)
  <2> PICK outcome \in {"fine", "subprotocol", "requested"} : ReadSub(p, outcome)
    BY <1>9
  <2>1. o.hello
    BY DEF ReadSub, Routable
  <2>2. CASE outcome = "fine"
    <3>1. peer' = [peer EXCEPT ![p] = o]
      BY <1>1, <2>2 DEF ReadSub
    <3> QED
      BY <1>2, <2>1, <3>1, PlainMoves
  <2>3. CASE outcome # "fine"
    <3>1. Disconnect(p, outcome) /\ outcome \in Reasons
      BY <2>3 DEF ReadSub, Reasons
    <3> QED
      BY <1>2, <2>1, <3>1, DisconnectMoves
  <2> QED
    BY <2>2, <2>3
<1>10. CASE ReadUnroutable(p)
  BY <1>10, ReadUnroutableMoves
<1> QED
  BY <1>3, <1>4, <1>5, <1>6, <1>7, <1>8, <1>9, <1>10 DEF Read

LEMMA TickMoves ==
    ASSUME Inv, NEW p \in Sides, NEW refuse \in BOOLEAN, Tick(p, refuse)
    PROVE  \E s : Moved(p, s)
<1> DEFINE o      == peer[p]
           idle   == [o EXCEPT !.tick = "none"]
           hailed == [idle EXCEPT !.weHello = TRUE]
<1>1. p \notin dead /\ dead' = dead /\ data'[p] = <<>>
  BY DEF Tick
<1>2. o \in Peers
  BY PeerFacts
<1>3. /\ idle \in Peers /\ idle.emitted = o.emitted /\ idle.closed = o.closed
  BY <1>2 DEF Peers
<1>4. CASE o.closed
  <2>1. peer' = [peer EXCEPT ![p] = idle]
    BY <1>4 DEF Tick
  <2> HIDE DEF idle
  <2> QED
    BY <1>1, <1>3, <2>1, PlainMoves
<1>5. CASE ~o.closed
  <2> DEFINE s == IF Greeted(hailed) THEN Connected(hailed, refuse) ELSE hailed
  <2>1. peer' = [peer EXCEPT ![p] = s]
    BY <1>5 DEF Tick
  <2> HIDE DEF idle
  <2>2. hailed \in Peers /\ hailed.emitted = o.emitted
    BY <1>3 DEF Peers
  <2> HIDE DEF hailed
  <2>3. s.emitted = o.emitted \cup {"connect"} \/ s.emitted = o.emitted
    BY <2>2, ConnectedIs
  <2> HIDE DEF s
  <2> QED
    BY <1>1, <1>5, <2>1, <2>3 DEF Moved
<1> QED
  BY <1>4, <1>5

LEMMA ClosedMoves ==
    ASSUME Inv, NEW p \in Sides, Idle(p), data' = data, dead' = dead,
           peer' = [peer EXCEPT ![p] = Closed(@)]
    PROVE  Moved(p, Closed(peer[p]))
<1> DEFINE s == Closed(peer[p])
<1>1. peer[p] \in Peers /\ peer \in [Sides -> Peers]
  BY PeerFacts
<1>2. peer' = [peer EXCEPT ![p] = s]
  BY <1>1
<1>3. s.closed /\ ("connect" \in s.emitted <=> "connect" \in peer[p].emitted)
  BY <1>1 DEF Closed, Peers
<1> HIDE DEF s
<1> QED
  BY <1>2, <1>3, IdleMoves DEF s

\* The timers and the application.
LEMMA OtherMoves ==
    ASSUME Inv, NEW p \in Sides,
           SocketClose(p) \/ Break(p) \/ Ping(p) \/ PingTimeout(p) \/ End(p) \/ Leave(p)
    PROVE  \E s : Moved(p, s)
<1> DEFINE o == peer[p]
<1>1. o \in Peers /\ peer \in [Sides -> Peers]
  BY PeerFacts
<1>2. Idle(p) /\ data' = data /\ dead' = dead /\ data'[p] = <<>> /\ p \notin dead
  BY DEF SocketClose, Break, Ping, PingTimeout, End, Leave, Idle
<1>3. CASE SocketClose(p) \/ Break(p)
  BY <1>2, <1>3, ClosedMoves DEF SocketClose, Break
<1>4. CASE Ping(p)
  <2> DEFINE s == [o EXCEPT !.waiting = TRUE]
  <2>1. peer' = [peer EXCEPT ![p] = s]
    BY <1>1, <1>4 DEF Ping, Asked
  <2>2. s.closed = o.closed /\ s.emitted = o.emitted
    BY <1>1 DEF Peers
  <2> HIDE DEF s
  <2> QED
    BY <1>2, <2>1, <2>2, PlainMoves
<1>5. CASE PingTimeout(p)
  <2>1. Disconnect(p, "timeout") /\ "timeout" \in Reasons
    BY <1>5 DEF PingTimeout, Reasons
  <2> QED
    BY <1>2, <2>1, DisconnectMoves
<1>6. CASE End(p)
  <2> DEFINE s == [o EXCEPT !.ending = FALSE, !.ended = TRUE]
  <2>1. peer' = [peer EXCEPT ![p] = s]
    BY <1>1, <1>6 DEF End
  <2>2. s.closed = o.closed /\ s.emitted = o.emitted
    BY <1>1 DEF Peers
  <2> HIDE DEF s
  <2> QED
    BY <1>2, <2>1, <2>2, PlainMoves
<1>7. CASE Leave(p)
  <2>1. Disconnect(p, "requested") /\ "requested" \in Reasons
    BY <1>7 DEF Leave, Reasons
  <2> QED
    BY <1>2, <2>1, DisconnectMoves
<1> QED
  BY <1>3, <1>4, <1>5, <1>6, <1>7

LEMMA InitHalted ==
    ASSUME Init
    PROVE  Halted
BY DEF Init, Halted, Sides, NewPeer

LEMMA NextHalted ==
    ASSUME Inv, Halted, [Next]_vars
    PROVE  Halted'
<1>1. CASE UNCHANGED vars
  BY <1>1 DEF vars, Halted
<1>2. CASE Next
  <2> PICK p \in Sides :
        \/ Read(p)
        \/ \E refuse \in BOOLEAN : Tick(p, refuse)
        \/ Receive(p)
        \/ SocketClose(p)
        \/ Break(p)
        \/ Crash(p)
        \/ Ping(p)
        \/ PingTimeout(p)
        \/ End(p)
        \/ Leave(p)
        \/ \E c \in peer[p].protocols : \E code \in Codes[c] : Send(p, c, code)
    BY <1>2 DEF Next
  <2>1. /\ peer \in [Sides -> Peers] /\ data \in [Sides -> Seq(Frames)]
    BY PeerFacts
  <2>2. CASE Receive(p)
    <3>1. /\ peer' = peer
          /\ \E d : data' = [data EXCEPT ![p] = IF peer[p].closed THEN <<>> ELSE d]
      BY <2>2, ReceiveIs
    <3> QED
      BY <2>1, <3>1 DEF Halted
  <2>3. CASE \E c \in peer[p].protocols : \E code \in Codes[c] : Send(p, c, code)
    BY <2>3 DEF Send, Halted
  <2>4. CASE Crash(p)
    BY <2>4 DEF Crash, Halted
  <2>5. ASSUME NEW s, Moved(p, s), \E fs : Calm(p, fs) PROVE Halted'
    <3>1. /\ peer' = [peer EXCEPT ![p] = s]
          /\ s.closed /\ ~s.hello => data'[p] = <<>> \/ s.mode = "lost"
      BY <2>5 DEF Moved
    <3>2. \A r \in Sides : r # p => data'[r] = data[r]
      BY <2>1, <2>5 DEF Calm, Consume
    <3> QED
      BY <2>1, <3>1, <3>2 DEF Halted
  <2>6. CASE Read(p)
    <3>1. \E fs : Calm(p, fs)
      BY <2>6, CalmSteps
    <3> QED
      BY <2>5, <2>6, <3>1, ReadMoves
  <2>7. CASE \E refuse \in BOOLEAN : Tick(p, refuse)
    <3>1. \E fs : Calm(p, fs)
      BY <2>7, CalmSteps
    <3> QED
      BY <2>5, <2>7, <3>1, TickMoves
  <2>8. CASE SocketClose(p) \/ Break(p) \/ Ping(p) \/ PingTimeout(p) \/ End(p) \/ Leave(p)
    <3>1. \E fs : Calm(p, fs)
      BY <2>8, CalmSteps
    <3> QED
      BY <2>5, <2>8, <3>1, OtherMoves
  <2> QED
    BY <2>2, <2>3, <2>4, <2>6, <2>7, <2>8
<1> QED
  BY <1>1, <1>2

-----------------------------------------------------------------------------
(* The steps of Link *)

Waiting == [p \in Sides |-> Underway(p)]

\* A step of the Peers as Link sees it.
LinkStep == [L!LinkNext]_(L!linkVars)

LEMMA LinkSides == L!Sides = Sides /\ \A p : L!Other(p) = Other(p)
BY DEF L!Sides, Sides, L!Other, Other

\* p may have closed, and may be through with its chunk.
MayShut(p) ==
    /\ Shutdown' \in {Shutdown, Shutdown \cup {p}}
    /\ Deaf' \in {Deaf, Deaf \cup (Shutdown' \cap {p})}

LEMMA LinkMayShut == \A p : L!MayShut(p) <=> MayShut(p)
BY DEF L!MayShut, MayShut

LEMMA SameStep ==
    ASSUME Opened' = Opened, Shutdown' = Shutdown, Deaf' = Deaf, Waiting' = Waiting
    PROVE  LinkStep
BY DEF LinkStep, L!linkVars, Waiting

LEMMA ShutStep ==
    ASSUME NEW p \in Sides, MayShut(p), p \in Shutdown', Opened' = Opened, Waiting' = Waiting
    PROVE  LinkStep
<1>1. L!Shut(p)
  BY LinkMayShut DEF L!Shut, Waiting
<1> QED
  BY <1>1, LinkSides DEF LinkStep, L!LinkNext

LEMMA OpenStep ==
    ASSUME NEW p \in Sides, MayShut(p), p \notin Opened \cup Shutdown,
           Opened' = Opened \cup {p}, Waiting' = Waiting
    PROVE  LinkStep
<1>1. L!Open(p)
  BY LinkMayShut DEF L!Open, Waiting
<1> QED
  BY <1>1, LinkSides DEF LinkStep, L!LinkNext

LEMMA DeliverStep ==
    ASSUME NEW p \in Sides, MayShut(p), p \in Opened \ Deaf, Opened' = Opened,
           Waiting[p] # <<>>, Waiting' = [Waiting EXCEPT ![p] = Tail(@)]
    PROVE  LinkStep
<1>1. L!Deliver(p)
  BY LinkMayShut DEF L!Deliver, Waiting
<1> QED
  BY <1>1, LinkSides DEF LinkStep, L!LinkNext

LEMMA DropStep ==
    ASSUME NEW p \in Sides, Opened' = Opened,
           Shutdown' = Shutdown \cup {p}, Deaf' = Deaf \cup {p},
           NEW n \in 1..Len(Waiting[p]),
           Waiting' = [Waiting EXCEPT ![p] = SubSeq(@, n + 1, Len(@))]
    PROVE  LinkStep
<1>1. L!Drop(p)
  BY DEF L!Drop, Waiting
<1> QED
  BY <1>1, LinkSides DEF LinkStep, L!LinkNext

LEMMA SendStep ==
    ASSUME NEW p \in Sides, NEW m \in SentMessages, p \in Opened \ Shutdown,
           \/ Waiting' = [Waiting EXCEPT ![Other(p)] = Append(@, m)]
           \/ Other(p) \in Deaf /\ Waiting' = Waiting,
           Opened' = Opened, Shutdown' = Shutdown, Deaf' = Deaf
    PROVE  LinkStep
<1>1. L!Up(p)
  BY DEF L!Up
<1>2. L!Send(p, m)
  BY <1>1, LinkSides DEF L!Send, Waiting
<1> QED
  BY <1>2, LinkSides DEF LinkStep, L!LinkNext

-----------------------------------------------------------------------------
(* Which step of Link a step of the Peers is *)

\* Link sees what was meant, at one end of a step and at the other.
LEMMA Mapped == InRange /\ Good => Waiting = [r \in Sides |-> Queue(r)]
BY UnderwayIs DEF Waiting

Seen == Waiting = [r \in Sides |-> Queue(r)] /\ Waiting' = [r \in Sides |-> Queue(r)']

LEMMA SeenIs ==
    ASSUME InRange, Good, Good'
    PROVE  Seen
<1>1. (InRange /\ Good => Waiting = [r \in Sides |-> Queue(r)])'
  BY Mapped, PTL
<1>2. Waiting' = [r \in Sides |-> Queue(r)']
  BY <1>1
<1> QED
  BY <1>2, Mapped DEF Seen

\* What Link sees of a Peer that may have moved.
LEMMA MovedIs ==
    ASSUME Inv, NEW p \in Sides, NEW s, Moved(p, s), NEW fs, Calm(p, fs)
    PROVE  /\ MayShut(p)
           /\ p \in Shutdown' \/ (Shutdown' = Shutdown /\ Deaf' = Deaf)
           /\ \/ Opened' = Opened
              \/ p \notin Opened \cup Shutdown /\ Opened' = Opened \cup {p}
<1>1. /\ peer \in [Sides -> Peers] /\ data \in [Sides -> Seq(Frames)]
  BY PeerFacts
<1>2. /\ peer'[p] = s /\ p \notin dead /\ dead' = dead
      /\ \A r \in Sides : r # p => peer'[r] = peer[r] /\ data'[r] = data[r]
      /\ data[p] = <<>> => data'[p] = <<>>
  BY <1>1 DEF Moved, Calm, Consume
<1>3. /\ peer[p].closed => s.closed
      /\ "connect" \in peer[p].emitted => "connect" \in s.emitted
      /\ "connect" \in s.emitted => "connect" \in peer[p].emitted \/ ~peer[p].closed
  BY DEF Moved
<1>4. /\ s.closed => Shutdown' = Shutdown \cup {p}
      /\ ~s.closed => Shutdown' = Shutdown
  BY <1>2, <1>3 DEF Shutdown
<1>5. /\ s.closed /\ data'[p] = <<>> => Deaf' = Deaf \cup {p}
      /\ ~(s.closed /\ data'[p] = <<>>) => Deaf' = Deaf
  BY <1>2, <1>3 DEF Deaf
<1>6. s.closed <=> p \in Shutdown'
  BY <1>2 DEF Shutdown
<1>7. MayShut(p)
  BY <1>4, <1>5, <1>6 DEF MayShut
<1>8. \/ Opened' = Opened
      \/ p \notin Opened \cup Shutdown /\ Opened' = Opened \cup {p}
  BY <1>2, <1>3 DEF Opened, Shutdown
<1> QED
  BY <1>4, <1>5, <1>6, <1>7, <1>8

\* What Link sees of the messages, in a step in which p sends none.
LEMMA CalmQueues ==
    ASSUME Inv, NEW p \in Sides, NEW fs, Calm(p, fs), NoSub(fs), wire'[p] = wire[p]
    PROVE  /\ \A r \in Sides : r # p => Queue(r)' = Queue(r)
           /\ data' = data \/ Head(data[p]).kind # "SUB" => Queue(p)' = Queue(p)
           /\ data' # data /\ Head(data[p]).kind = "SUB" =>
                Queue(p) # <<>> /\ Queue(p)' = Tail(Queue(p))
<1>1. /\ data \in [Sides -> Seq(Frames)] /\ data[p] \in Seq(Frames)
      /\ wire \in [Sides -> Seq(Frames)] /\ fs \in Seq(Frames)
      /\ IsSequence(Said(data[p])) /\ IsSequence(Said(wire[p]))
  BY PeerFacts, SaidQueues DEF Calm
<1>2. ASSUME NEW r \in Sides, r # p PROVE Queue(r)' = Queue(r)
  <2>1. data'[r] = data[r] /\ wire'[r] \in {wire[r], wire[r] \o fs}
    <3>1. data'[r] = data[r]
      BY <1>1, <1>2 DEF Calm, Consume
    <3>2. CASE wire' = wire
      BY <3>1, <3>2
    <3>3. CASE wire' # wire /\ Write(p, fs)
      <4>1. wire' = [wire EXCEPT ![Other(p)] = @ \o fs]
        BY <3>3 DEF Write
      <4> QED
        BY <1>1, <3>1, <4>1
    <3>4. CASE wire' = [wire EXCEPT ![p] = <<>>]
      BY <1>1, <1>2, <3>1, <3>4
    <3> QED
      BY <3>2, <3>3, <3>4 DEF Calm
  <2>2. wire[r] \in Seq(Frames) /\ IsSequence(Said(wire[r]))
    BY <1>1, SaidQueues
  <2>3. Said(wire[r] \o fs) = Said(wire[r]) \o <<>>
    BY <1>1, <2>2, SaidIs, NothingSaid, ZenonT(60)
  <2>4. Said(wire[r] \o fs) = Said(wire[r])
    BY <2>2, <2>3, QueueFacts
  <2> QED
    BY <2>1, <2>4 DEF Queue
<1>3. ASSUME data' = data \/ Head(data[p]).kind # "SUB" PROVE Queue(p)' = Queue(p)
  <2>1. data'[p] = data[p] \/ (data[p] # <<>> /\ data'[p] = Tail(data[p]) /\ Head(data[p]).kind # "SUB")
    BY <1>1, <1>3 DEF Calm, Consume
  <2>2. Said(data'[p]) = Said(data[p])
    BY <1>1, <2>1, SaidTail
  <2> QED
    BY <2>2 DEF Queue
<1>4. ASSUME data' # data, Head(data[p]).kind = "SUB"
      PROVE  Queue(p) # <<>> /\ Queue(p)' = Tail(Queue(p))
  <2>1. data[p] # <<>> /\ data'[p] = Tail(data[p]) /\ Tail(data[p]) \in Seq(Frames)
    BY <1>1, <1>4 DEF Calm, Consume
  <2> DEFINE m == Head(data[p]).meant
             t == Said(Tail(data[p]))
             w == Said(wire[p])
  <2>2. Said(data[p]) = <<m>> \o t /\ IsSequence(t) /\ IsSequence(w)
    BY <1>1, <1>4, <2>1, SaidTail, SaidIs
  <2>3. Queue(p) = (<<m>> \o t) \o w /\ Queue(p)' = t \o w
    BY <2>1, <2>2 DEF Queue
  <2> HIDE DEF m, t, w
  <2>4. (<<m>> \o t) \o w = <<m>> \o (t \o w)
    <3>1. PICK T, W : t \in Seq(T) /\ w \in Seq(W)
      BY <2>2 DEF IsSequence
    <3> DEFINE U == T \cup W \cup {m}
    <3>2. t \in Seq(U) /\ w \in Seq(U) /\ m \in U
      BY <3>1, SeqMonotonic
    <3> HIDE DEF U
    <3>3. <<m>> \in Seq(U)
      BY <3>2
    <3> QED
      BY <3>2, <3>3
  <2>5. IsSequence(t \o w)
    BY <2>2, QueueFacts
  <2> QED
    BY <2>3, <2>4, <2>5, QueueFacts
<1> QED
  BY <1>2, <1>3, <1>4

\* p moves, and no message does.
LEMMA QuietLinks ==
    ASSUME Inv, Seen, NEW p \in Sides, NEW s, Moved(p, s), NEW fs, Calm(p, fs),
           \A r \in Sides : Queue(r)' = Queue(r)
    PROVE  LinkStep
<1>1. Waiting' = Waiting
  BY DEF Seen
<1> QED
  BY <1>1, MovedIs, SameStep, ShutStep, OpenStep

\* p moves, sends no message, and is handed none.
LEMMA CalmLinks ==
    ASSUME Inv, Seen, NEW p \in Sides, NEW s, Moved(p, s),
           NEW fs, Calm(p, fs), NoSub(fs), wire'[p] = wire[p],
           data' = data \/ Head(data[p]).kind # "SUB"
    PROVE  LinkStep
BY CalmQueues, QuietLinks

\* p handles a message: it is connected, and has not stopped.
LEMMA ReadSubLinks ==
    ASSUME Inv, Halted, Seen, NEW p \in Sides, NEW outcome \in {"fine", "subprotocol", "requested"},
           ReadSub(p, outcome)
    PROVE  LinkStep
<1>1. /\ Reads(p, "frames", "SUB") /\ Routable(peer[p], Head(data[p])) /\ Consume(p)
      /\ p \notin dead /\ data[p] # <<>> /\ Head(data[p]).kind = "SUB"
  BY DEF ReadSub, Reads
<1>2. Read(p)
  BY DEF Read
<1>3. PICK s : Moved(p, s)
  BY <1>2, ReadMoves
<1>4. PICK fs : Calm(p, fs) /\ NoSub(fs)
  BY <1>2, CalmSteps
<1>5. /\ peer \in [Sides -> Peers] /\ wire \in [Sides -> Seq(Frames)]
      /\ data \in [Sides -> Seq(Frames)] /\ data[p] \in Seq(Frames)
  BY PeerFacts
<1>6. wire'[p] = wire[p]
  BY <1>5, SidesFacts DEF ReadSub, Disconnect, Write
<1>7. data' # data
  <2>1. data'[p] = Tail(data[p])
    BY <1>1, <1>5 DEF Consume
  <2>2. Len(Tail(data[p])) # Len(data[p])
    BY <1>1, <1>5
  <2> QED
    BY <2>1, <2>2
<1>8. /\ \A r \in Sides : r # p => Queue(r)' = Queue(r)
      /\ Queue(p) # <<>> /\ Queue(p)' = Tail(Queue(p))
  BY <1>1, <1>4, <1>6, <1>7, CalmQueues
<1>9. Waiting[p] # <<>> /\ Waiting' = [Waiting EXCEPT ![p] = Tail(@)]
  BY <1>8 DEF Seen
<1>10. p \in Opened \ Deaf
  <2>1. Sane(p, peer[p]) /\ peer[p].weHello
    BY <1>1, PeerFacts, ReadFacts
  <2>2. peer[p].hello /\ Routed(peer[p].protocols, Head(data[p]).code) # {}
    BY <1>1 DEF Routable
  <2>3. peer[p].protocols # {}
    BY <2>2 DEF Routed
  <2> QED
    BY <1>1, <2>1, <2>2, <2>3 DEF Sane, Opened, Deaf
<1>11. MayShut(p) /\ Opened' = Opened
  BY <1>3, <1>4, <1>10, MovedIs
<1> QED
  BY <1>9, <1>10, <1>11, DeliverStep

\* p sends a message.
LEMMA SendLinks ==
    ASSUME Inv, Rest, Seen, NEW p \in Sides, NEW c \in peer[p].protocols, NEW code \in Codes[c],
           Send(p, c, code)
    PROVE  LinkStep
<1> PICK q \in Sides : q = Other(p) /\ q # p /\ Other(q) = p
  BY SidesFacts
<1>q. \A r \in Sides : r = p \/ r = q
  BY SidesFacts
<1> DEFINE m == [cap |-> c, code |-> code]
           f == Sub(Offset(Agreed(p), c) + code, m)
<1>1. /\ f.kind = "SUB" /\ f \in Frames /\ c \in Agreed(p)
      /\ Write(p, <<f>>) /\ data' = data /\ peer' = peer /\ dead' = dead
      /\ "connect" \in peer[p].emitted /\ ~peer[p].closed /\ Idle(p)
  BY SendCalm
<1>2. f.meant = m
  BY DEF Sub
<1>3. m \in SentMessages
  <2>1. c \in DOMAIN Codes
    BY <1>1, AgreedIs, CodesAssumption DEF Rest
  <2> QED
    BY <2>1 DEF SentMessages
<1> HIDE DEF m, f
<1>4. Opened' = Opened /\ Shutdown' = Shutdown /\ Deaf' = Deaf /\ p \in Opened \ Shutdown
  BY <1>1 DEF Opened, Shutdown, Deaf, Idle
<1>5. /\ wire \in [Sides -> Seq(Frames)] /\ wire[q] \in Seq(Frames)
      /\ IsSequence(Said(data[q])) /\ IsSequence(Said(wire[q]))
  BY PeerFacts, SaidQueues
<1>6. CASE peer[q].gone \/ q \in dead
  <2>1. wire' = wire
    BY <1>1, <1>6 DEF Write
  <2>2. q \in Deaf
    <3>1. Sane(q, peer[q]) /\ GoneIdle(q)
      BY PeerFacts
    <3> QED
      BY <1>6, <3>1 DEF Sane, GoneIdle, Deaf
  <2>3. Waiting' = Waiting
    BY <1>1, <2>1 DEF Seen, Queue
  <2> QED
    BY <1>3, <1>4, <2>2, <2>3, SendStep
<1>7. CASE ~(peer[q].gone \/ q \in dead)
  <2>1. wire' = [wire EXCEPT ![q] = @ \o <<f>>]
    BY <1>1, <1>7 DEF Write
  <2>2. wire'[q] = wire[q] \o <<f>> /\ wire'[p] = wire[p]
    BY <1>5, <2>1
  <2>3. <<f>> \in Seq(Frames) /\ Said(<<f>>) = <<m>>
    <3>1. <<f>> \in Seq(Frames)
      BY <1>1
    <3>2. Said(<<f>>) = IF f.kind = "SUB" THEN <<f.meant>> ELSE <<>>
      BY <1>1, SaidIs, Zenon
    <3> QED
      BY <1>1, <1>2, <3>1, <3>2
  <2>4. Said(wire'[q]) = Said(wire[q]) \o <<m>>
    BY <1>5, <2>2, <2>3, SaidIs
  <2>5. Queue(q)' = Append(Queue(q), m)
    <3>1. Queue(q)' = Said(data[q]) \o (Said(wire[q]) \o <<m>>)
      BY <1>1, <2>4 DEF Queue
    <3>2. Said(data[q]) \o (Said(wire[q]) \o <<m>>) = Append(Said(data[q]) \o Said(wire[q]), m)
      <4> DEFINE d == Said(data[q])
                 w == Said(wire[q])
      <4>1. IsSequence(d) /\ IsSequence(w)
        BY <1>5
      <4> HIDE DEF d, w
      <4>2. d \o (w \o <<m>>) = Append(d \o w, m)
        BY <4>1, QueueEnd
      <4> QED
        BY <4>2 DEF d, w
    <3> QED
      BY <3>1, <3>2 DEF Queue
  <2>6. Queue(p)' = Queue(p)
    BY <1>1, <2>2 DEF Queue
  <2>7. Waiting' = [Waiting EXCEPT ![q] = Append(@, m)]
    BY <1>q, <2>5, <2>6 DEF Seen
  <2> QED
    BY <1>3, <1>4, <2>7, SendStep
<1> QED
  BY <1>6, <1>7

\* What reaches a Peer that is open stays on its way; a closed one drops it.
LEMMA ReceiveLinks ==
    ASSUME Inv, Seen, NEW p \in Sides, Receive(p)
    PROVE  LinkStep
<1> PICK q \in Sides : q = Other(p) /\ q # p /\ Other(q) = p
  BY SidesFacts
<1>q. \A r \in Sides : r = p \/ r = q
  BY SidesFacts
<1>1. /\ peer' = peer /\ dead' = dead /\ data[p] = <<>> /\ wire[p] \in Seq(Frames)
      /\ \E n \in 1..Len(wire[p]) :
           /\ data' = [data EXCEPT ![p] = IF peer[p].closed THEN <<>> ELSE SubSeq(wire[p], 1, n)]
           /\ wire' = [wire EXCEPT ![p] = SubSeq(wire[p], n + 1, Len(wire[p]))]
  BY ReceiveIs
<1>2. PICK n \in 1..Len(wire[p]) :
        /\ data' = [data EXCEPT ![p] = IF peer[p].closed THEN <<>> ELSE SubSeq(wire[p], 1, n)]
        /\ wire' = [wire EXCEPT ![p] = SubSeq(wire[p], n + 1, Len(wire[p]))]
  BY <1>1
<1> DEFINE a == SubSeq(wire[p], 1, n)
           b == SubSeq(wire[p], n + 1, Len(wire[p]))
<1>3. data \in [Sides -> Seq(Frames)] /\ wire \in [Sides -> Seq(Frames)]
  BY PeerFacts
<1>4. a \in Seq(Frames) /\ b \in Seq(Frames) /\ wire[p] = a \o b
  <2>1. a \in Seq(Frames) /\ b \in Seq(Frames)
    BY <1>1, SplitFrames
  <2>2. wire[p] = a \o b
    BY <1>1
  <2> QED
    BY <2>1, <2>2
<1>5. /\ data'[p] = (IF peer[p].closed THEN <<>> ELSE a) /\ wire'[p] = b
      /\ data'[q] = data[q] /\ wire'[q] = wire[q]
  BY <1>2, <1>3
<1> HIDE DEF a, b
<1>6. /\ Said(wire[p]) = Said(a) \o Said(b) /\ Said(<<>>) = <<>>
      /\ IsSequence(Said(a)) /\ IsSequence(Said(b))
  BY <1>4, SaidIs
<1>7. Queue(q)' = Queue(q)
  BY <1>5 DEF Queue
<1>8. Queue(p) = Said(a) \o Said(b)
  <2>1. Queue(p) = <<>> \o (Said(a) \o Said(b))
    BY <1>1, <1>6 DEF Queue
  <2>2. IsSequence(Said(a) \o Said(b))
    BY <1>6, QueueFacts
  <2> QED
    BY <2>1, <2>2, QueueFacts
<1>9. Opened' = Opened /\ Shutdown' = Shutdown
  BY <1>1 DEF Opened, Shutdown
<1>10. CASE ~peer[p].closed
  <2>1. Queue(p)' = Queue(p)
    BY <1>5, <1>8, <1>10 DEF Queue
  <2>2. Waiting' = Waiting
    BY <1>q, <1>7, <2>1 DEF Seen
  <2>3. Deaf' = Deaf
    BY <1>q, <1>1, <1>5, <1>10 DEF Deaf
  <2> QED
    BY <1>9, <2>2, <2>3, SameStep
<1>11. CASE peer[p].closed
  <2>1. Queue(p)' = Said(b)
    <3>1. Queue(p)' = <<>> \o Said(b)
      BY <1>5, <1>6, <1>11 DEF Queue
    <3> QED
      BY <1>6, <3>1, QueueFacts
  <2>2. Deaf' = Deaf /\ p \in Deaf /\ p \in Shutdown
    BY <1>q, <1>1, <1>5, <1>11 DEF Deaf, Shutdown
  <2>3. CASE Said(a) = <<>>
    <3>1. Queue(p) = Said(b)
      BY <1>6, <1>8, <2>3, QueueFacts
    <3>2. Waiting' = Waiting
      BY <1>q, <1>7, <2>1, <3>1 DEF Seen
    <3> QED
      BY <1>9, <2>2, <3>2, SameStep
  <2>4. CASE Said(a) # <<>>
    <3> DEFINE k == Len(Said(a))
    <3>1. k \in 1..Len(Queue(p)) /\ Queue(p)' = SubSeq(Queue(p), k + 1, Len(Queue(p)))
      BY <1>6, <1>8, <2>1, <2>4, QueueFacts
    <3> HIDE DEF k
    <3>2. k \in 1..Len(Waiting[p]) /\ Waiting' = [Waiting EXCEPT ![p] = SubSeq(@, k + 1, Len(@))]
      BY <1>q, <1>7, <3>1 DEF Seen
    <3>3. Shutdown' = Shutdown \cup {p} /\ Deaf' = Deaf \cup {p}
      BY <1>9, <2>2
    <3> QED
      BY <1>9, <3>2, <3>3, DropStep
  <2> QED
    BY <2>3, <2>4
<1> QED
  BY <1>10, <1>11

\* The socket of p breaks, and what was on its way is lost.
LEMMA BreakLinks ==
    ASSUME Inv, Seen, NEW p \in Sides, Break(p)
    PROVE  LinkStep
<1> PICK q \in Sides : q = Other(p) /\ q # p /\ Other(q) = p
  BY SidesFacts
<1>q. \A r \in Sides : r = p \/ r = q
  BY SidesFacts
<1>1. /\ Idle(p) /\ data' = data /\ dead' = dead /\ data[p] = <<>>
      /\ peer' = [peer EXCEPT ![p] = Closed(@)] /\ wire' = [wire EXCEPT ![p] = <<>>]
  BY DEF Break, Idle
<1>2. /\ peer \in [Sides -> Peers] /\ wire \in [Sides -> Seq(Frames)]
      /\ IsSequence(Said(wire[p])) /\ IsSequence(Queue(p))
  BY PeerFacts, SaidQueues
<1>3. wire'[p] = <<>> /\ wire'[q] = wire[q]
  BY <1>1, <1>2
<1>4. Queue(q)' = Queue(q)
  BY <1>1, <1>3 DEF Queue
<1>5. Queue(p)' = <<>>
  <2>1. Queue(p)' = <<>> \o <<>>
    BY <1>1, <1>3, SaidIs DEF Queue
  <2>2. IsSequence(<<>>)
    BY EmptyIs
  <2> QED
    BY <2>1, <2>2, QueueFacts
<1>6. /\ peer'[p].closed /\ peer'[q] = peer[q]
      /\ "connect" \in peer'[p].emitted <=> "connect" \in peer[p].emitted
  BY <1>1, <1>2 DEF Closed, Peers
<1>7. Opened' = Opened /\ Shutdown' = Shutdown \cup {p} /\ Deaf' = Deaf \cup {p}
  BY <1>q, <1>1, <1>6 DEF Opened, Shutdown, Deaf
<1>8. CASE Queue(p) = <<>>
  <2>1. Waiting' = Waiting
    BY <1>q, <1>4, <1>5, <1>8 DEF Seen
  <2>2. MayShut(p) /\ p \in Shutdown'
    BY <1>7 DEF MayShut
  <2> QED
    BY <1>7, <2>1, <2>2, ShutStep
<1>9. CASE Queue(p) # <<>>
  <2> DEFINE k == Len(Queue(p))
  <2>1. SubSeq(Queue(p), k + 1, k) = <<>>
    BY <1>2, QueueFacts
  <2>2. k \in 1..Len(Queue(p))
    BY <1>2, <1>9, LengthOf
  <2>3. Queue(p)' = SubSeq(Queue(p), k + 1, Len(Queue(p)))
    BY <1>5, <2>1
  <2> HIDE DEF k
  <2>4. k \in 1..Len(Waiting[p]) /\ Waiting' = [Waiting EXCEPT ![p] = SubSeq(@, k + 1, Len(@))]
    BY <1>q, <1>4, <2>2, <2>3 DEF Seen
  <2> QED
    BY <1>7, <2>4, DropStep
<1> QED
  BY <1>8, <1>9

\* The process of p stops.
LEMMA CrashLinks ==
    ASSUME Seen, NEW p \in Sides, Crash(p)
    PROVE  LinkStep
<1>1. peer' = peer /\ data' = data /\ wire' = wire /\ dead' = dead \cup {p}
  BY DEF Crash
<1>2. Waiting' = Waiting
  BY <1>1 DEF Seen, Queue
<1>3. Opened' = Opened /\ Shutdown' = Shutdown \cup {p} /\ Deaf' = Deaf \cup {p}
  BY <1>1 DEF Opened, Shutdown, Deaf
<1>4. MayShut(p) /\ p \in Shutdown'
  BY <1>3 DEF MayShut
<1> QED
  BY <1>2, <1>3, <1>4, ShutStep

\* The steps of p that hand it no message, send none and lose none.
LEMMA QuietSteps ==
    ASSUME Inv, Halted, Seen, NEW p \in Sides,
           \/ ReadAuth(p) \/ ReadAck(p)
           \/ \E refuse \in BOOLEAN : ReadHello(p, refuse)
           \/ ReadDisconnect(p) \/ ReadPing(p) \/ ReadPong(p) \/ ReadUnroutable(p)
           \/ \E refuse \in BOOLEAN : Tick(p, refuse)
           \/ SocketClose(p) \/ Ping(p) \/ PingTimeout(p) \/ End(p) \/ Leave(p)
    PROVE  LinkStep
<1>0. wire \in [Sides -> Seq(Frames)]
  BY PeerFacts
<1>1. \A fs : Write(p, fs) => wire'[p] = wire[p]
  BY <1>0, SidesFacts DEF Write
<1>2. wire' = wire \/ \E fs : Write(p, fs)
  BY DEF ReadAuth, ReadAck, ReadHello, ReadDisconnect, ReadPing, ReadPong, ReadUnroutable, Tick,
         SocketClose, Ping, PingTimeout, End, Leave, Disconnect
<1>3. wire'[p] = wire[p]
  BY <1>1, <1>2
<1>4. data' = data \/ Head(data[p]).kind # "SUB"
  BY DEF ReadAuth, ReadAck, ReadHello, ReadDisconnect, ReadPing, ReadPong, ReadUnroutable, Tick,
         SocketClose, Ping, PingTimeout, End, Leave, Reads
<1>5. Read(p) \/ (\E refuse \in BOOLEAN : Tick(p, refuse))
        \/ SocketClose(p) \/ Ping(p) \/ PingTimeout(p) \/ End(p) \/ Leave(p)
  BY DEF Read
<1>6. \E s : Moved(p, s)
  BY <1>5, ReadMoves, TickMoves, OtherMoves
<1>7. \E fs : Calm(p, fs) /\ NoSub(fs)
  BY <1>5, CalmSteps
<1> QED
  BY <1>3, <1>4, <1>6, <1>7, CalmLinks

LEMMA NextLinks ==
    ASSUME InRange, Good, Good', Halted, [Next]_vars
    PROVE  LinkStep
<1>1. Inv /\ Rest /\ Seen
  BY SeenIs DEF Good
<1>2. CASE UNCHANGED vars
  <2>1. Waiting' = Waiting
    BY <1>1, <1>2 DEF vars, Seen, Queue
  <2>2. Opened' = Opened /\ Shutdown' = Shutdown /\ Deaf' = Deaf
    BY <1>2 DEF vars, Opened, Shutdown, Deaf
  <2> QED
    BY <2>1, <2>2, SameStep
<1>3. CASE Next
  <2> PICK p \in Sides :
        \/ Read(p)
        \/ \E refuse \in BOOLEAN : Tick(p, refuse)
        \/ Receive(p)
        \/ SocketClose(p)
        \/ Break(p)
        \/ Crash(p)
        \/ Ping(p)
        \/ PingTimeout(p)
        \/ End(p)
        \/ Leave(p)
        \/ \E c \in peer[p].protocols : \E code \in Codes[c] : Send(p, c, code)
    BY <1>3 DEF Next
  <2>1. CASE Read(p)
    <3>1. CASE \E outcome \in {"fine", "subprotocol", "requested"} : ReadSub(p, outcome)
      BY <1>1, <3>1, ReadSubLinks
    <3>2. CASE ~\E outcome \in {"fine", "subprotocol", "requested"} : ReadSub(p, outcome)
      BY <1>1, <2>1, <3>2, QuietSteps DEF Read
    <3> QED
      BY <3>1, <3>2
  <2>2. CASE Receive(p)
    BY <1>1, <2>2, ReceiveLinks
  <2>3. CASE Break(p)
    BY <1>1, <2>3, BreakLinks
  <2>4. CASE Crash(p)
    BY <1>1, <2>4, CrashLinks
  <2>5. CASE \E c \in peer[p].protocols : \E code \in Codes[c] : Send(p, c, code)
    BY <1>1, <2>5, SendLinks
  <2>6. CASE \/ \E refuse \in BOOLEAN : Tick(p, refuse)
             \/ SocketClose(p) \/ Ping(p) \/ PingTimeout(p) \/ End(p) \/ Leave(p)
    BY <1>1, <2>6, QuietSteps
  <2> QED
    BY <2>1, <2>2, <2>3, <2>4, <2>5, <2>6
<1> QED
  BY <1>2, <1>3

LEMMA InitLinks ==
    ASSUME InRange, Init
    PROVE  L!LinkInit
<1>1. Good
  BY InitInv, InitRest DEF Good
<1>2. \A p \in Sides : /\ data[p] = <<>> /\ p \notin dead
                       /\ wire[p] = <<>> \/ wire[p] = <<Plain("AUTH")>>
                       /\ ~peer[p].closed /\ "connect" \notin peer[p].emitted
  BY DEF Init, Sides, NewPeer
<1>3. Opened = {} /\ Shutdown = {} /\ Deaf = {}
  BY <1>2 DEF Opened, Shutdown, Deaf, Init
<1>4. \A p \in Sides : Queue(p) = <<>>
  <2>1. <<Plain("AUTH")>> \in Seq(Frames) /\ NoSub(<<Plain("AUTH")>>)
    BY NoSubFrames
  <2>2. Said(<<Plain("AUTH")>>) = <<>> /\ Said(<<>>) = <<>>
    BY <2>1, NothingSaid, SaidIs
  <2>3. <<>> \o <<>> = <<>>
    BY EmptyIs, QueueFacts
  <2> QED
    BY <1>2, <2>2, <2>3 DEF Queue
<1>5. Waiting = [p \in Sides |-> <<>>]
  BY <1>1, <1>4, Mapped
<1> QED
  BY <1>3, <1>5, LinkSides DEF L!LinkInit, Waiting

\* Session implements Link: no chunk, tick, HELLO, PING, DISCONNECT, timer,
\* broken socket or stopped process loses, doubles, reorders or misroutes a
\* message of a receiver that is up, hands one over before 'connect', or sends
\* one after _closed (peer.ts, _onSocketData, _handleBody and _sendMessage).
THEOREM Implements == InRange => (Spec => ImplementsLink)
<1>1. InRange /\ Init => Good /\ Halted /\ L!LinkInit
  BY InitInv, InitRest, InitHalted, InitLinks DEF Good
<1>2. InRange /\ Good /\ Halted /\ [Next]_vars => (InRange /\ Good /\ Halted)'
  BY NextInv, NextRest, NextHalted DEF Good
<1>3. InRange /\ Good /\ Good' /\ Halted /\ [Next]_vars => [L!LinkNext]_(L!linkVars)
  BY NextLinks DEF LinkStep
<1> QED
  BY <1>1, <1>2, <1>3, PTL DEF Spec, ImplementsLink, L!LinkSpec
=============================================================================
