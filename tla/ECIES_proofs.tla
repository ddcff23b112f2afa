---------------------------- MODULE ECIES_proofs ----------------------------
(***************************************************************************)
(* What holds of the encrypted stream for every padding, every length of   *)
(* messages, every number of frames, every cut of the stream into chunks   *)
(* and one altered packet.  The invariant says of each packet on its way   *)
(* which entry of the writer's MAC it is, counted from the end of the      *)
(* stream: that does not change when packets are written behind it or      *)
(* read before it.                                                         *)
(***************************************************************************)
EXTENDS ECIES, Induction_proofs

Persons  == Sides \cup {"nobody"}
Messages == [n : Nat, size : Nat]
Secret   == [shared |-> Sides, nonces |-> <<"listener", "dialer">>]

IsSide(s) ==
    s = [state |-> s.state, next |-> s.next, gotEIP8 |-> s.gotEIP8, tick |-> s.tick,
         remote |-> s.remote, bodySize |-> s.bodySize,
         initMsg |-> s.initMsg, remoteInitMsg |-> s.remoteInitMsg,
         ingressMac |-> s.ingressMac, egressMac |-> s.egressMac,
         ingressAes |-> s.ingressAes, egressAes |-> s.egressAes]

Shapes ==
    /\ side = [p \in Sides |-> side[p]]
    /\ stream = [p \in Sides |-> stream[p]]
    /\ arrived \in [Sides -> Nat]
    /\ sent \in [Sides -> Seq(Messages)]
    /\ read \in [Sides -> Seq(Messages)]
    /\ damaged \in BOOLEAN

\* The record of p.
Shape(p) ==
    /\ IsSide(side[p])
    /\ side[p].state \in {"Auth", "Ack", "Header", "Body", "lost"}
    /\ side[p].tick \in {"none", "ack", "hello"}
    /\ side[p].next \in Nat /\ side[p].next >= 17
    /\ side[p].bodySize \in Nat
    /\ IsSequence(side[p].egressMac.log)
    /\ IsSequence(stream[p])

-----------------------------------------------------------------------------
(* What q has written: the j-th piece *)

Log(q) == side[q].egressMac.log

\* Its text, and the length of that.
Text(messages, j) ==
    LET message == messages[(j + 1) \div 2]
    IN  IF j % 2 = 1 THEN SizeField(message.size) ELSE message

Span(messages, j) == IF j % 2 = 1 THEN 16 ELSE Blocks(messages[(j + 1) \div 2].size)

\* Where its text is in the key stream, which has come to its end.
Place(log, end, j) == IF j = Len(log) + 1 THEN end ELSE log[j].position

IsEntry(log, end, messages, j) ==
    /\ log[j] = [secret |-> Secret, position |-> Place(log, end, j), plain |-> Text(messages, j)]
    /\ Place(log, end, j + 1) = Place(log, end, j) + Span(messages, j)

IsLog(log, end, messages) ==
    /\ Len(log) = 2 * Len(messages)
    /\ Place(log, end, 1) = 0
    /\ \A j \in 1..Len(log) : IsEntry(log, end, messages, j)

Written(q) ==
    /\ Len(sent[q]) <= MaxFrames
    /\ \A i \in 1..Len(sent[q]) : sent[q][i].size > 0
    /\ IsLog(Log(q), side[q].egressAes, sent[q])

KeyedMAC(seed, log) == [secret |-> Secret, seed |-> seed, log |-> log]

\* The keys of a side, and what it began with.
Keys(q) ==
    /\ IF Ready(q)
       THEN /\ side[q].ingressMac =
                 KeyedMAC(<<q, side[Other(q)].initMsg>>, side[q].ingressMac.log)
            /\ side[q].egressMac = KeyedMAC(<<Other(q), side[q].initMsg>>, Log(q))
       ELSE /\ side[q].egressMac = NoMAC
            /\ side[q].egressAes = 0
            /\ side[q].ingressAes = 0
    /\ side[q].tick = "ack" => q = "listener" /\ ~Ready(q)
    /\ side[q].tick = "hello" => q = "dialer" /\ Ready(q) /\ sent[q] = <<>>

\* AUTH and ACK, as q has sent it.
IsHail(packet, q) ==
    /\ packet = [kind |-> IF q = "dialer" THEN "AUTH" ELSE "ACK", first |-> packet.first,
                 len |-> packet.len, content |-> Content(q, packet.content.for),
                 tag |-> Content(q, packet.content.for)]
    /\ packet.len \in Nat /\ packet.len >= 310
    /\ packet.len = buffer2int(packet.first) + 2

Began(q) == q = "dialer" \/ Ready(q)

Opened(q) == IF Began(q) THEN IsHail(side[q].initMsg, q) ELSE sent[q] = <<>>

-----------------------------------------------------------------------------
(* What is on its way to p *)

IsPiece(packet, mac, messages, j, hurt) ==
    /\ packet = [kind |-> packet.kind, first |-> None, len |-> Span(messages, j) + 16,
                 content |-> packet.content, tag |-> KeyedMAC(mac.seed, SubSeq(mac.log, 1, j))]
    /\ packet.kind \in {"Header", "Body"}
    /\ \/ packet.content = mac.log[j]
       \/ hurt /\ packet.content = [mac.log[j] EXCEPT !.secret = NoMAC.secret]

IsOpening(packet, hail, hurt) == packet = hail \/ (hurt /\ packet = Altered(hail))

\* The pieces of the other side that p has read, -1 before AUTH or ACK.
Consumed(p) == Len(Log(Other(p))) - Len(stream[p])

IsPacket(packet, q, j, hurt) ==
    IF j >= 1 THEN IsPiece(packet, side[q].egressMac, sent[q], j, hurt)
    ELSE j = 0 /\ Began(q) /\ IsOpening(packet, side[q].initMsg, hurt)

Underway(p) ==
    /\ \A k \in 1..Len(stream[p]) : IsPacket(stream[p][k], Other(p), Consumed(p) + k, damaged)
    /\ arrived[p] <= BytesOf(stream[p], Len(stream[p]))

-----------------------------------------------------------------------------
(* What p has read *)

\* p waits for AUTH or ACK, or has met one that it cannot read.
Waiting(p) ==
    /\ side[p].state \in {IF p = "dialer" THEN "Ack" ELSE "Auth", "lost"}
    /\ side[p].tick = "none"
    /\ ~Ready(p)
    /\ read[p] = <<>>
    /\ sent[p] = <<>>
    /\ IF Began(Other(p)) THEN Consumed(p) = -1 ELSE stream[p] = <<>>
    /\ IF side[p].gotEIP8 THEN Began(Other(p)) /\ side[p].next = side[Other(p)].initMsg.len
       ELSE side[p].next = (IF p = "dialer" THEN 210 ELSE 307)

\* The listener has read AUTH and has not answered yet.
Answering(p) ==
    /\ p = "listener"
    /\ side[p].tick = "ack"
    /\ side[p].remoteInitMsg = side[Other(p)].initMsg
    /\ stream[p] = <<>>
    /\ sent[p] = <<>>

\* What p waits for when it has read c pieces of these messages.
Expects(s, messages, c) ==
    IF s.state = "Header"
    THEN c % 2 = 0 /\ s.next = 32
    ELSE /\ c % 2 = 1
         /\ s.bodySize = SizeField(messages[(c + 1) \div 2].size)
         /\ s.next = BodyLength(s.bodySize)

\* p reads frames.
Framing(p) ==
    /\ Began(Other(p))
    /\ side[p].gotEIP8
    /\ Consumed(p) >= 0
    /\ side[p].state \in {"Header", "Body"}
    /\ IF Ready(p) THEN side[p].ingressMac.log = SubSeq(Log(Other(p)), 1, Consumed(p))
       ELSE Answering(p)
    /\ side[p].ingressAes = Place(Log(Other(p)), side[Other(p)].egressAes, Consumed(p) + 1)
    /\ Len(read[p]) = Consumed(p) \div 2
    /\ Expects(side[p], sent[Other(p)], Consumed(p))

Reader(p) ==
    /\ side[p].remote \in {"nobody", Other(p)}
    /\ IF side[p].remote = "nobody" THEN Waiting(p)
       ELSE Framing(p) \/ (side[p].state = "lost" /\ Ready(p))
    /\ Len(read[p]) <= Len(sent[Other(p)])
    /\ \A i \in 1..Len(read[p]) : read[p][i] = sent[Other(p)][i]

\* Whose ACK was read has keys.
Order == Ready("dialer") => Ready("listener")

Whereabouts(p) == Shape(p) /\ Written(p) /\ Keys(p) /\ Opened(p) /\ Underway(p) /\ Reader(p)

Inv == Shapes /\ Order /\ \A p \in Sides : Whereabouts(p)

-----------------------------------------------------------------------------
(* Numbers and buffers *)

\* The first bytes of a buffer.
LEMMA FirstBytes ==
    ASSUME NEW s \in Seq(Nat), NEW m \in 1..Len(s)
    PROVE  /\ SubSeq(s, 1, m) \in Seq(Nat)
           /\ Len(SubSeq(s, 1, m)) = m
           /\ \A i \in 1..m : SubSeq(s, 1, m)[i] = s[i]
BY SubSeqProperties

\* What two bytes read as.
LEMMA ReadTwo ==
    ASSUME NEW s \in Seq(Nat), Len(s) = 2
    PROVE  buffer2int(s) = 256 * s[1] + s[2]
<1> DEFINE t == zfill(s, 4)
<1>1. t[1] = 0 /\ t[2] = 0 /\ t[3] = s[1] /\ t[4] = s[2]
  BY DEF zfill
<1>2. s # <<>> /\ s[1] \in Nat /\ s[2] \in Nat
  <2>1. s # <<>>
    <3>1. Len(<<>>) = 0
      BY EmptySeq
    <3>2. Len(s) # 0
      OBVIOUS
    <3> QED
      BY <3>1, <3>2, Zenon
  <2>2. \A k \in 1..2 : s[k] \in Nat
    BY ElementOfSeq
  <2> QED
    BY <2>1, <2>2
<1>3. buffer2int(s) = 256 * (256 * (256 * t[1] + t[2]) + t[3]) + t[4]
  BY <1>2 DEF buffer2int
<1> HIDE DEF t
<1> QED
  BY <1>1, <1>2, <1>3

\* And three.
LEMMA ReadThree ==
    ASSUME NEW s \in Seq(Nat), Len(s) = 3
    PROVE  buffer2int(s) = 256 * (256 * s[1] + s[2]) + s[3]
<1> DEFINE t == zfill(s, 4)
<1>1. t[1] = 0 /\ t[2] = s[1] /\ t[3] = s[2] /\ t[4] = s[3]
  BY DEF zfill
<1>2. s # <<>> /\ s[1] \in Nat /\ s[2] \in Nat /\ s[3] \in Nat
  <2>1. s # <<>>
    <3>1. Len(<<>>) = 0
      BY EmptySeq
    <3>2. Len(s) # 0
      OBVIOUS
    <3> QED
      BY <3>1, <3>2, Zenon
  <2>2. \A k \in 1..3 : s[k] \in Nat
    BY ElementOfSeq
  <2> QED
    BY <2>1, <2>2
<1>3. buffer2int(s) = 256 * (256 * (256 * t[1] + t[2]) + t[3]) + t[4]
  BY <1>2 DEF buffer2int
<1> HIDE DEF t
<1> QED
  BY <1>1, <1>2, <1>3

\* A number of two bytes is what those two read as, whatever follows them.
LEMMA LengthRead ==
    ASSUME NEW n \in 256..1000
    PROVE  LET two == SubSeq(int2buffer(n) \o <<4>>, 1, 2)
           IN  /\ Len(int2buffer(n)) = 2
               /\ two \in Seq(Nat)
               /\ buffer2int(two) = n
<1> DEFINE a == n \div 256
           b == n % 256
           s == <<a, b>> \o <<4>>
<1>1. a # 0 /\ a \div 256 = 0 /\ a \in Nat /\ b \in Nat /\ 256 * a + b = n
  OBVIOUS
<1>2. int2buffer(n) = <<a, b>>
  <2>1. Shift(n) = a /\ Shift(Shift(n)) = 0 /\ Shift(Shift(Shift(n))) = 0
    BY <1>1 DEF Shift
  <2> HIDE DEF a, b
  <2> QED
    BY <1>1, <2>1 DEF int2buffer, b
<1> HIDE DEF a, b
<1>3. <<a, b>> \in Seq(Nat) /\ Len(<<a, b>>) = 2 /\ <<4>> \in Seq(Nat) /\ Len(<<4>>) = 1
  BY <1>1
<1>4. s \in Seq(Nat) /\ Len(s) = 3 /\ s[1] = a /\ s[2] = b
  BY <1>3, ConcatProperties
<1> HIDE DEF s
<1>5. /\ SubSeq(s, 1, 2) \in Seq(Nat)
      /\ Len(SubSeq(s, 1, 2)) = 2
      /\ SubSeq(s, 1, 2)[1] = a
      /\ SubSeq(s, 1, 2)[2] = b
  <2>1. 2 \in 1..Len(s) /\ s \in Seq(Nat)
    BY <1>4
  <2>2. /\ SubSeq(s, 1, 2) \in Seq(Nat)
        /\ Len(SubSeq(s, 1, 2)) = 2
        /\ \A k \in 1..2 : SubSeq(s, 1, 2)[k] = s[k]
    BY <2>1, FirstBytes
  <2> QED
    BY <1>4, <2>2
<1>6. buffer2int(SubSeq(s, 1, 2)) = n
  BY <1>1, <1>5, ReadTwo
<1> QED
  BY <1>2, <1>3, <1>5, <1>6 DEF s

\* What the first three bytes read as.
LEMMA ReadFirstThree ==
    ASSUME NEW t \in Seq(Nat), Len(t) >= 3
    PROVE  buffer2int(SubSeq(t, 1, 3)) = 256 * (256 * t[1] + t[2]) + t[3]
<1> DEFINE u == SubSeq(t, 1, 3)
<1>1. 3 \in 1..Len(t)
  OBVIOUS
<1>2. u \in Seq(Nat) /\ Len(u) = 3 /\ \A k \in 1..3 : u[k] = t[k]
  BY <1>1, FirstBytes
<1> HIDE DEF u
<1>3. u[1] = t[1] /\ u[2] = t[2] /\ u[3] = t[3]
  BY <1>2
<1>4. buffer2int(u) = 256 * (256 * u[1] + u[2]) + u[3]
  BY <1>2, ReadThree
<1>5. buffer2int(u) = 256 * (256 * t[1] + t[2]) + t[3]
  BY <1>3, <1>4, Zenon
<1> QED
  BY <1>5 DEF u

\* The header says the length of a message, or all but its last byte.
LEMMA SizeFieldIs ==
    ASSUME NEW n \in Nat
    PROVE  SizeField(n) = IF Sayable(n) THEN n ELSE Shift(n)
<1> DEFINE c == n % 256
           h == Shift(n)
           b == h % 256
           i == Shift(h)
           a == i % 256
           d == Shift(i)
<1>1. /\ h \in Nat /\ c \in Nat /\ n = 256 * h + c
      /\ i \in Nat /\ b \in Nat /\ h = 256 * i + b
      /\ d \in Nat /\ a \in Nat /\ i = 256 * d + a
  BY DEF Shift
<1>2. /\ h = 0 => int2buffer(n) = <<n>>
      /\ h # 0 /\ i = 0 => int2buffer(n) = <<h, c>>
      /\ i # 0 /\ d = 0 => int2buffer(n) = <<i, b, c>>
      /\ d # 0 => int2buffer(n) = <<d, a, b, c>>
  <2>1. Shift(0) = 0
    BY DEF Shift
  <2> QED
    BY <2>1 DEF int2buffer
<1> HIDE DEF a, b, c, d, h, i
<1> DEFINE s == int2buffer(n)
           t == zfill(s, 3)
<1> HIDE DEF s, t
<1>3. ASSUME t \in Seq(Nat), Len(t) >= 3
      PROVE  SizeField(n) = 256 * (256 * t[1] + t[2]) + t[3]
  <2>1. SizeField(n) = buffer2int(SubSeq(t, 1, 3))
    BY DEF SizeField, s, t
  <2>2. buffer2int(SubSeq(t, 1, 3)) = 256 * (256 * t[1] + t[2]) + t[3]
    BY <1>3, ReadFirstThree, Zenon
  <2> QED
    BY <2>1, <2>2, Zenon
<1>4. CASE h = 0
  <2>1. s = <<n>>
    BY <1>2, <1>4 DEF s
  <2>2. s \in Seq(Nat) /\ Len(s) = 1 /\ s[1] = n
    BY <1>1, <2>1
  <2>3. t \in Seq(Nat) /\ Len(t) = 3 /\ t[1] = 0 /\ t[2] = 0 /\ t[3] = n
    BY <1>1, <2>2 DEF t, zfill
  <2>4. SizeField(n) = 256 * (256 * t[1] + t[2]) + t[3]
    <3>1. Len(t) >= 3
      BY <2>3
    <3> QED
      BY <1>3, <2>3, <3>1, Zenon
  <2>5. SizeField(n) = n
    BY <1>1, <1>4, <2>3, <2>4
  <2> QED
    BY <2>2, <2>5 DEF Sayable, s, h
<1>5. CASE h # 0 /\ i = 0
  <2>1. s = <<h, c>>
    BY <1>2, <1>5 DEF s
  <2>2. s \in Seq(Nat) /\ Len(s) = 2 /\ s[1] = h /\ s[2] = c
    BY <1>1, <2>1
  <2>3. t \in Seq(Nat) /\ Len(t) = 3 /\ t[1] = 0 /\ t[2] = h /\ t[3] = c
    BY <1>1, <2>2 DEF t, zfill
  <2>4. SizeField(n) = 256 * (256 * t[1] + t[2]) + t[3]
    <3>1. Len(t) >= 3
      BY <2>3
    <3> QED
      BY <1>3, <2>3, <3>1, Zenon
  <2>5. SizeField(n) = n
    BY <1>1, <1>5, <2>3, <2>4
  <2> QED
    BY <2>2, <2>5 DEF Sayable, s, h
<1>6. CASE i # 0 /\ d = 0
  <2>1. s = <<i, b, c>>
    BY <1>2, <1>6 DEF s
  <2>2. s \in Seq(Nat) /\ Len(s) = 3 /\ s[1] = i /\ s[2] = b /\ s[3] = c
    BY <1>1, <2>1
  <2>3. t \in Seq(Nat) /\ Len(t) = 3 /\ t[1] = i /\ t[2] = b /\ t[3] = c
    BY <1>1, <2>2 DEF t, zfill
  <2>4. SizeField(n) = 256 * (256 * t[1] + t[2]) + t[3]
    <3>1. Len(t) >= 3
      BY <2>3
    <3> QED
      BY <1>3, <2>3, <3>1, Zenon
  <2>5. SizeField(n) = n
    BY <1>1, <1>6, <2>3, <2>4
  <2> QED
    BY <2>2, <2>5 DEF Sayable, s, h
<1>7. CASE d # 0
  <2>1. s = <<d, a, b, c>>
    BY <1>2, <1>7 DEF s
  <2>2. s \in Seq(Nat) /\ Len(s) = 4 /\ s[1] = d /\ s[2] = a /\ s[3] = b /\ s[4] = c
    BY <1>1, <2>1
  <2>3. t \in Seq(Nat) /\ Len(t) = 4 /\ t[1] = d /\ t[2] = a /\ t[3] = b
    BY <1>1, <2>2 DEF t, zfill
  <2>4. SizeField(n) = 256 * (256 * t[1] + t[2]) + t[3]
    <3>1. Len(t) >= 3
      BY <2>3
    <3> QED
      BY <1>3, <2>3, <3>1, Zenon
  <2>5. SizeField(n) = h
    BY <1>1, <1>7, <2>3, <2>4
  <2> QED
    BY <2>2, <2>5 DEF Sayable, s, h
<1> QED
  <2>1. h = 0 => i = 0
    <3>1. Shift(0) = 0
      BY DEF Shift
    <3> QED
      BY <3>1 DEF i
  <2> QED
    BY <1>4, <1>5, <1>6, <1>7, <2>1
-----------------------------------------------------------------------------
(* Bytes of packets *)

\* Sequences of packets, of which only the lengths matter here.
Lined(s) == Len(s) \in Nat /\ \A k \in 1..Len(s) : s[k].len \in Nat

\* The recursive function of BytesOf exists, so that it adds up the lengths.
LEMMA BytesAdd ==
    ASSUME NEW s, Lined(s)
    PROVE  /\ BytesOf(s, 0) = 0
           /\ \A k \in 1..Len(s) : BytesOf(s, k) = BytesOf(s, k - 1) + s[k].len
<1> DEFINE n == Len(s)
           Rec(f) == [j \in 0..n |-> IF j = 0 THEN 0 ELSE f[j - 1] + s[j].len]
           F == CHOOSE f : f = Rec(f)
           step == [k \in 1..n |-> [x \in Nat |-> x + s[k].len]]
<1>0. n \in Nat /\ \A k \in 1..n : s[k].len \in Nat
  BY DEF Lined
<1>1. step \in [1..n -> [Nat -> Nat]]
  BY <1>0
<1>2. \A k \in 1..n : \A x \in Nat : step[k][x] = x + s[k].len
  OBVIOUS
<1>3. BytesOf(s, 0) = F[0] /\ \A k \in 0..n : BytesOf(s, k) = F[k]
  BY DEF BytesOf
<1> HIDE DEF step, n
<1>4. PICK g \in [0..n -> Nat] : g[0] = 0 /\ \A k \in 1..n : g[k] = step[k][g[k - 1]]
  <2>1. 0 \in Nat
    OBVIOUS
  <2>2. n \in Nat
    BY <1>0
  <2>3. PICK g : g \in Tables(Nat, 0, n, step)
    BY <1>1, <2>1, <2>2, Recursion, Zenon
  <2> QED
    BY <2>3 DEF Tables
<1>5. g = Rec(g)
  <2>1. ASSUME NEW k \in 0..n PROVE g[k] = Rec(g)[k]
    <3>1. CASE k = 0
      BY <1>4, <3>1
    <3>2. CASE k # 0
      <4>1. k \in 1..n /\ k - 1 \in 0..n /\ g[k - 1] \in Nat
        BY <1>0, <1>4, <3>2
      <4> QED
        BY <1>2, <1>4, <3>2, <4>1
    <3> QED
      BY <3>1, <3>2
  <2>2. g = [k \in 0..n |-> g[k]]
    BY <1>4
  <2> QED
    BY <2>1, <2>2
<1>6. F = Rec(F)
  BY <1>5
<1> HIDE DEF F
<1>7. 0 \in 0..n /\ \A k \in 1..n : k # 0 /\ k \in 0..n /\ k - 1 \in 0..n
  BY <1>0
<1>8. F[0] = 0
  BY <1>6, <1>7
<1>9. \A k \in 1..n : F[k] = F[k - 1] + s[k].len
  BY <1>6, <1>7
<1> QED
  BY <1>3, <1>7, <1>8, <1>9 DEF n

\* Packets hold no less than some of them.
LEMMA BytesGrow ==
    ASSUME NEW s, Lined(s)
    PROVE  \A k \in 0..Len(s) : BytesOf(s, k) \in Nat /\ BytesOf(s, k) <= BytesOf(s, Len(s))
<1> DEFINE n == Len(s)
           Up == {k \in 0..n : BytesOf(s, k) \in Nat}
           Down == {k \in 0..n : BytesOf(s, n - k) <= BytesOf(s, n)}
<1>0. n \in Nat /\ \A k \in 1..n : s[k].len \in Nat
  BY DEF Lined
<1>1. 0 \in Up
  BY <1>0, BytesAdd
<1>2. ASSUME NEW k \in 1..n, k - 1 \in Up PROVE k \in Up
  BY <1>0, <1>2, BytesAdd
<1>3. \A k \in 0..n : k \in Up
  <2> HIDE DEF Up, n
  <2> QED
    BY <1>0, <1>1, <1>2, UpToNat
<1>4. 0 \in Down
  BY <1>0, <1>3
<1>5. ASSUME NEW k \in 1..n, k - 1 \in Down PROVE k \in Down
  <2>1. n - k + 1 \in 1..n /\ n - (k - 1) = n - k + 1 /\ (n - k + 1) - 1 = n - k /\ n - k \in 0..n
    BY <1>0
  <2>2. BytesOf(s, n - k + 1) = BytesOf(s, n - k) + s[n - k + 1].len
    BY <2>1, BytesAdd
  <2>3. BytesOf(s, n - k) \in Nat /\ BytesOf(s, n) \in Nat /\ s[n - k + 1].len \in Nat
    BY <1>0, <1>3, <2>1
  <2> QED
    BY <1>5, <2>1, <2>2, <2>3
<1>6. \A k \in 0..n : k \in Down
  <2> HIDE DEF Down, n
  <2> QED
    BY <1>0, <1>4, <1>5, UpToNat
<1>7. ASSUME NEW k \in 0..n PROVE BytesOf(s, k) \in Nat /\ BytesOf(s, k) <= BytesOf(s, n)
  <2>1. n - k \in 0..n /\ n - (n - k) = k
    BY <1>0
  <2> QED
    BY <1>3, <1>6, <2>1
<1> QED
  BY <1>7

\* It counts the packets in front, whatever follows them.
LEMMA BytesFront ==
    ASSUME NEW s, Lined(s), NEW t, Lined(t), Len(s) <= Len(t),
           \A k \in 1..Len(s) : t[k].len = s[k].len
    PROVE  \A k \in 0..Len(s) : BytesOf(t, k) = BytesOf(s, k)
<1> DEFINE n == Len(s)
           Same == {k \in 0..n : BytesOf(t, k) = BytesOf(s, k)}
<1>0. n \in Nat /\ Len(t) \in Nat
  BY DEF Lined
<1>1. 0 \in Same
  BY <1>0, BytesAdd
<1>2. ASSUME NEW k \in 1..n, k - 1 \in Same PROVE k \in Same
  <2>1. k \in 1..Len(t) /\ k \in 0..n
    BY <1>0
  <2>2. BytesOf(s, k) = BytesOf(s, k - 1) + s[k].len /\ BytesOf(t, k) = BytesOf(t, k - 1) + t[k].len
    BY <2>1, BytesAdd
  <2> QED
    BY <1>2, <2>1, <2>2
<1>3. \A k \in 0..n : k \in Same
  <2> HIDE DEF Same, n
  <2> QED
    BY <1>0, <1>1, <1>2, UpToNat
<1> QED
  BY <1>3

\* What is left when the first packet is gone.
LEMMA BytesRest ==
    ASSUME NEW s, Lined(s), NEW t, Lined(t), Len(s) = Len(t) + 1,
           \A k \in 1..Len(t) : t[k].len = s[k + 1].len
    PROVE  BytesOf(t, Len(t)) = BytesOf(s, Len(s)) - s[1].len
<1> DEFINE n == Len(t)
           Same == {k \in 0..n : BytesOf(t, k) = BytesOf(s, k + 1) - s[1].len}
<1>0. n \in Nat /\ Len(s) = n + 1 /\ s[1].len \in Nat /\ 1 \in 1..Len(s)
  BY DEF Lined
<1>1. 0 \in Same
  <2>1. BytesOf(t, 0) = 0 /\ BytesOf(s, 0) = 0 /\ BytesOf(s, 1) = BytesOf(s, 1 - 1) + s[1].len
    BY <1>0, BytesAdd
  <2> QED
    BY <1>0, <2>1
<1>2. ASSUME NEW k \in 1..n, k - 1 \in Same PROVE k \in Same
  <2>1. k + 1 \in 1..Len(s) /\ (k + 1) - 1 = k /\ (k - 1) + 1 = k /\ k \in 0..Len(s)
    BY <1>0
  <2>2. BytesOf(t, k) = BytesOf(t, k - 1) + t[k].len
    BY BytesAdd
  <2>3. BytesOf(s, k + 1) = BytesOf(s, k) + s[k + 1].len
    BY <2>1, BytesAdd
  <2>4. BytesOf(s, k) \in Nat /\ s[k + 1].len \in Nat /\ t[k].len = s[k + 1].len
    BY <2>1, BytesGrow DEF Lined
  <2> QED
    BY <1>0, <1>2, <2>1, <2>2, <2>3, <2>4
<1>3. \A k \in 0..n : k \in Same
  <2> HIDE DEF Same, n
  <2> QED
    BY <1>0, <1>1, <1>2, UpToNat
<1> QED
  BY <1>0, <1>3
-----------------------------------------------------------------------------
(* Lengths and places *)

\* The reader rounds up as the writer does.
LEMMA BodyLengthIs ==
    ASSUME NEW n \in Nat
    PROVE  /\ Blocks(n) \in Nat /\ n <= Blocks(n) /\ Blocks(n) < n + 16
           /\ BodyLength(n) = Blocks(n) + 16
<1>1. PICK q \in Nat, r \in 0..15 : n = 16 * q + r
  <2>1. n \div 16 \in Nat /\ n % 16 \in 0..15 /\ n = 16 * (n \div 16) + (n % 16)
    OBVIOUS
  <2> QED
    BY <2>1
<1>2. n % 16 = r
  BY <1>1
<1>3. (n + 15) \div 16 = IF r = 0 THEN q ELSE q + 1
  BY <1>1
<1> QED
  BY <1>1, <1>2, <1>3 DEF Blocks, BodyLength

\* What the header says is a number, and as many blocks as the message only
\* if it is its length.
LEMMA BlocksTell ==
    ASSUME NEW n \in Nat
    PROVE  /\ SizeField(n) \in Nat
           /\ n > 0 => SizeField(n) > 0
           /\ Sayable(n) => SizeField(n) = n
           /\ Blocks(SizeField(n)) = Blocks(n) => Sayable(n)
<1>1. Shift(n) \in Nat
  BY DEF Shift
<1>2. SizeField(n) \in Nat /\ (Sayable(n) => SizeField(n) = n)
  BY <1>1, SizeFieldIs
<1>3. ~Sayable(n) => Shift(n) # 0
  <2>1. SUFFICES ASSUME ~Sayable(n), Shift(n) = 0 PROVE FALSE
    OBVIOUS
  <2>2. Shift(0) = 0
    BY DEF Shift
  <2>3. int2buffer(n) = <<n>>
    BY <2>1, <2>2 DEF int2buffer
  <2> QED
    BY <2>1, <2>3 DEF Sayable
<1>4. ASSUME ~Sayable(n) PROVE Blocks(SizeField(n)) # Blocks(n)
  <2>1. SizeField(n) = Shift(n)
    BY <1>4, SizeFieldIs
  <2>2. Shift(n) + 15 < n
    BY <1>3, <1>4 DEF Shift
  <2>3. Blocks(Shift(n)) < Shift(n) + 16 /\ n <= Blocks(n) /\ Blocks(n) \in Nat
        /\ Blocks(Shift(n)) \in Nat
    BY <1>1, BodyLengthIs
  <2> QED
    BY <1>1, <2>1, <2>2, <2>3
<1>5. n > 0 => SizeField(n) > 0
  BY <1>1, <1>3, SizeFieldIs
<1> QED
  BY <1>2, <1>4, <1>5

\* A piece belongs to a message.
LEMMA SpanIs ==
    ASSUME NEW m, m \in Seq(Messages), NEW j \in 1..(2 * Len(m))
    PROVE  /\ (j + 1) \div 2 \in 1..Len(m)
           /\ m[(j + 1) \div 2] \in Messages
           /\ Span(m, j) \in Nat
<1>1. Len(m) \in Nat /\ \A i \in 1..Len(m) : m[i] \in Messages
  OBVIOUS
<1>2. (j + 1) \div 2 \in 1..Len(m)
  BY <1>1
<1>3. m[(j + 1) \div 2] \in Messages
  BY <1>1, <1>2
<1>4. Blocks(m[(j + 1) \div 2].size) \in Nat
  BY <1>3, BodyLengthIs DEF Messages
<1> QED
  BY <1>2, <1>3, <1>4 DEF Span

\* Places in the key stream come one after the other.
LEMMA PlaceIs ==
    ASSUME NEW log, NEW end, NEW m, m \in Seq(Messages), IsLog(log, end, m)
    PROVE  /\ \A j \in 1..(Len(log) + 1) : Place(log, end, j) \in Nat
           /\ end \in Nat
           /\ \A j \in 1..(Len(log) + 1) : Place(log, end, j) <= end
<1> DEFINE n == Len(log)
           Up == {k \in 0..n : Place(log, end, k + 1) \in Nat}
           Down == {k \in 0..n : Place(log, end, n + 1 - k) <= end}
<1>1. n \in Nat /\ n = 2 * Len(m)
  BY DEF IsLog
<1>2. Place(log, end, 1) = 0 /\ Place(log, end, n + 1) = end
  BY DEF IsLog, Place
<1>3. \A j \in 1..n : Span(m, j) \in Nat /\ Place(log, end, j + 1) = Place(log, end, j) + Span(m, j)
  BY <1>1, SpanIs DEF IsLog, IsEntry
<1> HIDE DEF n
<1>4. 0 \in Up
  BY <1>1, <1>2
<1>5. ASSUME NEW k \in 1..n, k - 1 \in Up PROVE k \in Up
  BY <1>1, <1>3, <1>5
<1>6. \A k \in 0..n : k \in Up
  <2> HIDE DEF Up
  <2> QED
    BY <1>1, <1>4, <1>5, UpToNat
<1>7. ASSUME NEW j \in 1..(n + 1) PROVE Place(log, end, j) \in Nat
  <2>1. j - 1 \in 0..n /\ (j - 1) + 1 = j
    BY <1>1
  <2> QED
    BY <1>6, <2>1
<1>8. 0 \in Down
  <2>1. n + 1 - 0 = n + 1 /\ n + 1 \in 1..(n + 1)
    BY <1>1
  <2>2. end \in Nat
    BY <1>2, <1>7, <2>1
  <2> QED
    BY <1>1, <1>2, <2>1, <2>2
<1>9. ASSUME NEW k \in 1..n, k - 1 \in Down PROVE k \in Down
  <2> DEFINE j == n + 1 - k
  <2>1. j \in 1..n /\ n + 1 - (k - 1) = j + 1 /\ j \in 1..(n + 1) /\ j + 1 \in 1..(n + 1)
        /\ n + 1 \in 1..(n + 1)
    BY <1>1
  <2>2. Place(log, end, j) \in Nat /\ Place(log, end, j + 1) \in Nat /\ end \in Nat
    BY <1>2, <1>7, <2>1
  <2>3. Place(log, end, j) <= Place(log, end, j + 1)
    BY <1>3, <2>1, <2>2
  <2>4. Place(log, end, j + 1) <= end
    BY <1>9, <2>1
  <2>5. Place(log, end, j) <= end
    BY <2>2, <2>3, <2>4
  <2> QED
    BY <1>1, <2>5
<1>10. \A k \in 0..n : k \in Down
  <2> HIDE DEF Down
  <2> QED
    BY <1>1, <1>8, <1>9, UpToNat
<1>11. ASSUME NEW j \in 1..(n + 1) PROVE Place(log, end, j) <= end
  <2>1. n + 1 - j \in 0..n /\ n + 1 - (n + 1 - j) = j
    BY <1>1
  <2> QED
    BY <1>10, <2>1
<1>12. end \in Nat
  <2>1. n + 1 \in 1..(n + 1)
    BY <1>1
  <2> QED
    BY <1>2, <1>7, <2>1
<1> QED
  BY <1>7, <1>11, <1>12 DEF n
-----------------------------------------------------------------------------
(* Two sides *)

\* There are p and the other.
LEMMA TwoSides ==
    ASSUME NEW p \in Sides
    PROVE  /\ Other(p) \in Sides /\ Other(p) # p /\ Other(Other(p)) = p
           /\ \A r \in Sides : r = p \/ r = Other(p)
           /\ {p, Other(p)} = Sides
BY DEF Sides, Other

\* What the invariant says of a side and its stream, for all proofs below.
LEMMA Known ==
    ASSUME Inv, NEW p \in Sides
    PROVE  /\ Whereabouts(p) /\ Whereabouts(Other(p))
           /\ sent[p] \in Seq(Messages) /\ Len(sent[p]) \in Nat
           /\ read[p] \in Seq(Messages) /\ Len(read[p]) \in Nat
           /\ IsSequence(Log(p)) /\ Len(Log(p)) \in Nat /\ Len(Log(p)) = 2 * Len(sent[p])
           /\ IsSequence(stream[p]) /\ Len(stream[p]) \in Nat
           /\ DOMAIN stream[p] = 1..Len(stream[p])
           /\ arrived[p] \in Nat
           /\ Consumed(p) \in Int
<1>1. Whereabouts(p) /\ Whereabouts(Other(p))
  BY TwoSides DEF Inv
<1>2. sent[p] \in Seq(Messages) /\ read[p] \in Seq(Messages) /\ arrived[p] \in Nat
  BY DEF Inv, Shapes
<1>3. IsSequence(Log(p)) /\ IsSequence(stream[p]) /\ IsSequence(Log(Other(p)))
  BY <1>1 DEF Whereabouts, Shape, Log
<1>4. /\ Len(Log(p)) \in Nat /\ Len(stream[p]) \in Nat /\ Len(Log(Other(p))) \in Nat
      /\ DOMAIN stream[p] = 1..Len(stream[p])
  BY <1>3, LengthOf
<1>5. Len(sent[p]) \in Nat /\ Len(read[p]) \in Nat
  BY <1>2
<1>6. Len(Log(p)) = 2 * Len(sent[p])
  BY <1>1 DEF Whereabouts, Written, IsLog
<1> QED
  BY <1>1, <1>2, <1>3, <1>4, <1>5, <1>6 DEF Consumed

\* The pieces on their way are entries of the writer's MAC.
LEMMA EntriesUnderway ==
    ASSUME Inv, NEW p \in Sides, NEW k \in 1..Len(stream[p])
    PROVE  Consumed(p) + k \in Int /\ Consumed(p) + k <= Len(Log(Other(p)))
BY Known, TwoSides DEF Consumed

\* Packets have lengths.
LEMMA LinedUp ==
    ASSUME Inv, NEW p \in Sides
    PROVE  Lined(stream[p])
<1> DEFINE q == Other(p)
<1>1. Len(stream[p]) \in Nat /\ q \in Sides
  BY Known, TwoSides
<1>2. ASSUME NEW k \in 1..Len(stream[p]) PROVE stream[p][k].len \in Nat
  <2> DEFINE j == Consumed(p) + k
  <2>1. IsPacket(stream[p][k], q, j, damaged)
    BY Known DEF Whereabouts, Underway
  <2>2. j \in Int /\ j <= Len(Log(q)) /\ Len(Log(q)) = 2 * Len(sent[q]) /\ sent[q] \in Seq(Messages)
    BY <1>1, Known, EntriesUnderway
  <2> HIDE DEF j
  <2>3. CASE j >= 1
    <3>1. j \in 1..(2 * Len(sent[q]))
      BY <2>2, <2>3
    <3>2. Span(sent[q], j) \in Nat
      BY <2>2, <3>1, SpanIs
    <3> DEFINE packet == stream[p][k]
    <3>3. packet.len = Span(sent[q], j) + 16
      <4>1. IsPiece(packet, side[q].egressMac, sent[q], j, damaged)
        BY <2>1, <2>3 DEF IsPacket
      <4> HIDE DEF packet
      <4> QED
        BY <4>1 DEF IsPiece
    <3> QED
      BY <3>2, <3>3
  <2>4. CASE ~(j >= 1)
    <3> DEFINE packet == stream[p][k]
               hail == side[q].initMsg
    <3>1. IsOpening(packet, hail, damaged) /\ IsHail(hail, q)
      BY <2>1, <2>4, Known DEF IsPacket, Whereabouts, Opened
    <3> HIDE DEF packet, hail
    <3>2. hail.len \in Nat /\ Altered(hail).len = hail.len
      BY <3>1, <1>1 DEF IsHail, Altered, Content
    <3>3. packet.len \in Nat
      BY <3>1, <3>2 DEF IsOpening
    <3> QED
      BY <3>3 DEF packet
  <2> QED
    BY <2>3, <2>4
<1> QED
  BY <1>1, <1>2 DEF Lined
-----------------------------------------------------------------------------
(* A round of p *)

\* What p does not touch when it reads.
Rest(p) ==
    LET q == Other(p)
    IN  /\ sent' = sent /\ damaged' = damaged
        /\ side'[q] = side[q] /\ stream'[q] = stream[q]
        /\ arrived'[q] = arrived[q] /\ read'[q] = read[q]
        /\ side'[p].initMsg = side[p].initMsg
        /\ Log(p)' = Log(p) /\ side'[p].egressAes = side[p].egressAes
        /\ Began(p)' = Began(p)
        /\ side'[p].egressMac = side[p].egressMac \/ sent[p] = <<>>

\* The other side, and what p has written, stay as they are.
LEMMA RestStays ==
    ASSUME Inv, NEW p \in Sides, Rest(p)
    PROVE  Whereabouts(Other(p))' /\ Written(p)' /\ Opened(p)'
<1> DEFINE q == Other(p)
<1>1. q \in Sides /\ Other(q) = p
  BY TwoSides
<1>2. Whereabouts(p) /\ Whereabouts(q)
  BY Known
<1>3. /\ sent' = sent /\ damaged' = damaged /\ side'[q] = side[q] /\ stream'[q] = stream[q]
      /\ arrived'[q] = arrived[q] /\ read'[q] = read[q]
      /\ side'[p].initMsg = side[p].initMsg /\ Log(p)' = Log(p)
      /\ side'[p].egressAes = side[p].egressAes /\ Began(p)' = Began(p)
      /\ side'[p].egressMac = side[p].egressMac \/ sent[p] = <<>>
  BY DEF Rest
<1> HIDE DEF q
<1>4. Written(p)'
  <2>1. Written(p)
    BY <1>2 DEF Whereabouts
  <2> QED
    BY <1>3, <2>1 DEF Written
<1>5. Opened(p)'
  <2>1. Opened(p)
    BY <1>2 DEF Whereabouts
  <2> QED
    BY <1>3, <2>1 DEF Opened
<1>6. Ready(q)' = Ready(q) /\ Log(q)' = Log(q) /\ Began(q)' = Began(q)
  BY <1>3 DEF Ready, Log, Began
<1>7. Shape(q)' /\ Written(q)' /\ Keys(q)' /\ Opened(q)'
  <2>1. Shape(q) /\ Written(q) /\ Keys(q) /\ Opened(q)
    BY <1>2 DEF Whereabouts
  <2>2. Shape(q)'
    BY <1>3, <2>1 DEF Shape
  <2>3. Written(q)'
    BY <1>3, <1>6, <2>1 DEF Written
  <2>4. Keys(q)'
    BY <1>1, <1>3, <1>6, <2>1 DEF Keys
  <2>5. Opened(q)'
    BY <1>3, <1>6, <2>1 DEF Opened
  <2> QED
    BY <2>2, <2>3, <2>4, <2>5
<1>8. Consumed(q)' = Consumed(q)
  BY <1>1, <1>3 DEF Consumed
<1>9. Underway(q)'
  <2>1. Underway(q)
    BY <1>2 DEF Whereabouts
  <2>2. ASSUME NEW k \in 1..Len(stream[q]) PROVE IsPacket(stream[q][k], p, Consumed(q) + k, damaged)'
    <3>1. PICK j : j = Consumed(q) + k
      OBVIOUS
    <3>2. IsPacket(stream[q][k], p, j, damaged)
      BY <1>1, <2>1, <3>1 DEF Underway
    <3>3. j \in Int /\ j <= Len(Log(p)) /\ Len(Log(p)) = 2 * Len(sent[p])
      BY <1>1, <3>1, EntriesUnderway, Known
    <3>4. sent[p] = <<>> => ~(j >= 1)
      <4>1. Len(<<>>) = 0
        BY EmptyIs
      <4>2. sent[p] = <<>> => Len(sent[p]) = 0
        BY <4>1, Zenon
      <4> QED
        BY <3>3, <4>2
    <3>5. j >= 1 => side'[p].egressMac = side[p].egressMac
      BY <1>3, <3>4
    <3>6. Consumed(q)' + k = j
      BY <1>8, <3>1
    <3> QED
      BY <1>3, <3>2, <3>5, <3>6 DEF IsPacket
  <2>3. (arrived[q] <= BytesOf(stream[q], Len(stream[q])))'
    BY <1>3, <2>1 DEF Underway
  <2> QED
    BY <1>1, <1>3, <2>2, <2>3 DEF Underway
<1>10. Reader(q)'
  <2>1. Reader(q)
    BY <1>2 DEF Whereabouts
  <2>2. Waiting(q)' = Waiting(q)
    BY <1>1, <1>3, <1>6, <1>8 DEF Waiting
  <2>3. Framing(q)' = Framing(q)
    BY <1>1, <1>3, <1>6, <1>8 DEF Framing, Answering
  <2> QED
    BY <1>1, <1>3, <1>6, <2>1, <2>2, <2>3 DEF Reader
<1> QED
  BY <1>4, <1>5, <1>7, <1>9, <1>10 DEF Whereabouts, q

\* There is a packet when there are bytes for a round.
LEMMA NextPacket ==
    ASSUME Inv, NEW p \in Sides, arrived[p] >= side[p].next
    PROVE  /\ stream[p] # <<>> /\ 1 \in 1..Len(stream[p])
           /\ Head(stream[p]) = stream[p][1]
           /\ Head(stream[p]).len \in Nat
           /\ IsPacket(Head(stream[p]), Other(p), Consumed(p) + 1, damaged)
<1>1. IsSequence(stream[p]) /\ Len(stream[p]) \in Nat /\ arrived[p] \in Nat
  BY Known
<1>2. Lined(stream[p])
  BY LinedUp
<1>3. Underway(p) /\ side[p].next \in Nat /\ side[p].next >= 17
  BY Known DEF Whereabouts, Shape
<1>4. Len(stream[p]) # 0
  <2>1. SUFFICES ASSUME Len(stream[p]) = 0 PROVE FALSE
    OBVIOUS
  <2>2. BytesOf(stream[p], Len(stream[p])) = 0
    BY <1>2, <2>1, BytesAdd
  <2> QED
    BY <1>1, <1>3, <2>2 DEF Underway
<1>5. 1 \in 1..Len(stream[p]) /\ stream[p] # <<>>
  BY <1>1, <1>4, LengthOf
<1>6. Head(stream[p]) = stream[p][1]
  BY <1>1, <1>5, TailIs
<1>7. IsPacket(stream[p][1], Other(p), Consumed(p) + 1, damaged)
  BY <1>3, <1>5 DEF Underway
<1>8. stream[p][1].len \in Nat
  BY <1>2, <1>5 DEF Lined
<1> QED
  BY <1>5, <1>6, <1>7, <1>8

\* A packet is taken off the stream.
LEMMA ConsumeKeeps ==
    ASSUME Inv, NEW p \in Sides, arrived[p] >= side[p].next, Whole(p), Consume(p),
           sent' = sent, damaged' = damaged, side'[Other(p)] = side[Other(p)]
    PROVE  /\ stream' = [r \in Sides |-> stream'[r]]
           /\ arrived' \in [Sides -> Nat]
           /\ stream'[Other(p)] = stream[Other(p)] /\ arrived'[Other(p)] = arrived[Other(p)]
           /\ IsSequence(stream'[p])
           /\ Consumed(p)' = Consumed(p) + 1
           /\ Underway(p)'
<1> DEFINE q == Other(p)
           old == stream[p]
           new == Tail(stream[p])
<1>1. q \in Sides /\ q # p /\ \A r \in Sides : r = p \/ r = q
  BY TwoSides
<1>2. stream = [r \in Sides |-> stream[r]] /\ arrived \in [Sides -> Nat]
  BY DEF Inv, Shapes
<1>3. stream' = [stream EXCEPT ![p] = new] /\ arrived' = [arrived EXCEPT ![p] = @ - side[p].next]
  BY DEF Consume
<1>4. stream'[p] = new /\ stream'[q] = stream[q] /\ stream' = [r \in Sides |-> stream'[r]]
  <2> HIDE DEF new
  <2> QED
    BY <1>1, <1>2, <1>3
<1>5. side[p].next \in Nat /\ side[p].next = old[1].len /\ old # <<>>
  BY NextPacket, Known DEF Whole, Whereabouts, Shape
<1>6. IsSequence(old) /\ Len(old) \in Nat /\ arrived[p] \in Nat
  BY Known
<1>7. arrived'[p] = arrived[p] - old[1].len /\ arrived'[p] \in Nat /\ arrived'[q] = arrived[q]
      /\ arrived' \in [Sides -> Nat]
  <2> HIDE DEF old
  <2> QED
    BY <1>1, <1>2, <1>3, <1>5, <1>6
<1>8. /\ IsSequence(new) /\ Len(new) = Len(old) - 1
      /\ \A k \in 1..(Len(old) - 1) : new[k] = old[k + 1]
  BY <1>5, <1>6, TailIs
<1>9. Log(q)' = Log(q) /\ Len(Log(q)) \in Nat
  BY <1>1, Known DEF Log
<1>10. Consumed(p)' = Consumed(p) + 1 /\ Consumed(p) \in Int
  <2>1. Consumed(p)' = Len(Log(q)) - Len(new) /\ Consumed(p) = Len(Log(q)) - Len(old)
    BY <1>4, <1>9 DEF Consumed
  <2> HIDE DEF new, old
  <2> QED
    BY <1>6, <1>8, <1>9, <2>1
<1>11. Lined(old) /\ Underway(p)
  BY LinedUp, Known DEF Whereabouts
<1>12. ASSUME NEW k \in 1..Len(stream'[p])
       PROVE  IsPacket(stream[p][k], q, Consumed(p) + k, damaged)'
  <2>1. k + 1 \in 1..Len(old) /\ stream'[p][k] = old[k + 1] /\ Consumed(p)' + k = Consumed(p) + (k + 1)
    BY <1>4, <1>6, <1>8, <1>10
  <2>2. IsPacket(old[k + 1], q, Consumed(p) + (k + 1), damaged)
    BY <1>11, <2>1 DEF Underway
  <2> HIDE DEF old
  <2>3. Began(q)' = Began(q)
    BY DEF Began, Ready
  <2> QED
    BY <2>1, <2>2, <2>3 DEF IsPacket
<1>13. BytesOf(new, Len(new)) = BytesOf(old, Len(old)) - old[1].len
  <2>1. Lined(new)
    <3> HIDE DEF new, old
    <3>1. Len(new) \in Nat
      BY <1>8, LengthOf
    <3>2. ASSUME NEW k \in 1..Len(new) PROVE new[k].len \in Nat
      <4>1. k + 1 \in 1..Len(old) /\ k \in 1..(Len(old) - 1)
        BY <1>6, <1>8
      <4> QED
        BY <1>8, <1>11, <4>1 DEF Lined
    <3> QED
      BY <3>1, <3>2 DEF Lined
  <2> HIDE DEF new, old
  <2>2. Len(old) = Len(new) + 1 /\ \A k \in 1..Len(new) : new[k].len = old[k + 1].len
    BY <1>6, <1>8
  <2> QED
    BY <1>11, <2>1, <2>2, BytesRest
<1>14. (arrived[p] <= BytesOf(stream[p], Len(stream[p])))'
  <2>1. arrived[p] <= BytesOf(old, Len(old))
    BY <1>11 DEF Underway
  <2>2. BytesOf(old, Len(old)) \in Nat /\ old[1].len \in Nat
    <3>1. Len(old) \in 0..Len(old)
      BY <1>6
    <3> QED
      BY <1>11, <3>1, BytesGrow, <1>5
  <2> HIDE DEF new, old
  <2>3. arrived'[p] <= BytesOf(new, Len(new))
    BY <1>6, <1>7, <1>13, <2>1, <2>2
  <2> QED
    BY <1>4, <2>3
<1> QED
  BY <1>4, <1>7, <1>8, <1>10, <1>12, <1>14 DEF Underway

\* Nothing goes on to p or comes from it.
LEMMA UnderwayStays ==
    ASSUME Inv, NEW p \in Sides, stream'[p] = stream[p], arrived'[p] = arrived[p],
           sent'[Other(p)] = sent[Other(p)], damaged' = damaged,
           side'[Other(p)] = side[Other(p)]
    PROVE  Underway(p)' /\ Consumed(p)' = Consumed(p)
<1>1. Underway(p)
  BY Known DEF Whereabouts
<1>2. Consumed(p)' = Consumed(p)
  BY DEF Consumed, Log
<1>3. Began(Other(p))' = Began(Other(p))
  BY DEF Began, Ready
<1> QED
  BY <1>1, <1>2, <1>3 DEF Underway, IsPacket

\* The two sides make the whole.
LEMMA BothSides ==
    ASSUME NEW p \in Sides, Shapes', Order', Whereabouts(p)', Whereabouts(Other(p))'
    PROVE  Inv'
<1>1. ASSUME NEW r \in Sides PROVE Whereabouts(r)'
  BY TwoSides
<1> QED
  BY <1>1 DEF Inv

\* p waits for AUTH or ACK and there is a packet.
LEMMA HailArrived ==
    ASSUME Inv, NEW p \in Sides, NEW state \in {"Auth", "Ack"}, Reading(p, state)
    PROVE  LET hail == side[Other(p)].initMsg
           IN  /\ Waiting(p) /\ side[p].remote = "nobody"
               /\ p = IF state = "Auth" THEN "listener" ELSE "dialer"
               /\ Began(Other(p)) /\ Consumed(p) = -1
               /\ IsHail(hail, Other(p))
               /\ IsOpening(Head(stream[p]), hail, damaged)
               /\ Head(stream[p]).first = hail.first
<1> DEFINE q == Other(p)
           hail == side[q].initMsg
           packet == Head(stream[p])
<1>1. side[p].state = state /\ arrived[p] >= side[p].next
  BY DEF Reading
<1>2. stream[p] # <<>> /\ IsPacket(packet, q, Consumed(p) + 1, damaged)
  BY <1>1, NextPacket
<1>3. Waiting(p) /\ side[p].remote = "nobody"
  <2>1. Reader(p)
    BY Known DEF Whereabouts
  <2> QED
    BY <1>1, <2>1 DEF Reader, Framing
<1>4. Began(q) /\ Consumed(p) = -1 /\ p = IF state = "Auth" THEN "listener" ELSE "dialer"
  BY <1>1, <1>2, <1>3 DEF Waiting, Sides
<1>5. IsOpening(packet, hail, damaged)
  <2> HIDE DEF packet, q
  <2> QED
    BY <1>2, <1>4 DEF IsPacket
<1>6. IsHail(hail, q)
  BY <1>4, Known DEF Whereabouts, Opened
<1>7. packet.first = hail.first
  <2>1. q \in Sides
    BY TwoSides
  <2> HIDE DEF packet, hail, q
  <2>2. Altered(hail).first = hail.first
    BY <1>6, <2>1 DEF Altered, IsHail, Content
  <2> QED
    BY <1>5, <2>2 DEF IsOpening
<1> QED
  BY <1>3, <1>4, <1>5, <1>6, <1>7

\* What can be decrypted was not altered.
LEMMA HailRead ==
    ASSUME Inv, NEW p \in Sides, NEW state \in {"Auth", "Ack"}, Reading(p, state),
           Decrypts(p, Head(stream[p]))
    PROVE  Head(stream[p]) = side[Other(p)].initMsg
<1> DEFINE q == Other(p)
           hail == side[q].initMsg
           packet == Head(stream[p])
<1>1. IsHail(hail, q) /\ IsOpening(packet, hail, damaged) /\ q \in Sides
  BY HailArrived, TwoSides
<1>2. packet.tag = packet.content
  BY DEF Decrypts
<1> HIDE DEF packet, hail, q
<1>3. Altered(hail).content.from = "nobody" /\ Altered(hail).tag.from = q /\ q # "nobody"
  BY <1>1 DEF Altered, IsHail, Content, Sides
<1>4. packet = hail
  BY <1>1, <1>2, <1>3 DEF IsOpening
<1> QED
  BY <1>4 DEF packet, hail, q

\* The first round of AUTH or ACK keeps the invariant.
LEMMA ReadLengthKeeps ==
    ASSUME Inv, NEW p \in Sides, ReadLength(p)
    PROVE  Inv'
<1> DEFINE q == Other(p)
           s == side[p]
           n == buffer2int(Head(stream[p]).first) + 2
<1>1. PICK state \in {"Auth", "Ack"} : Reading(p, state)
  BY DEF ReadLength
<1>2. /\ q \in Sides /\ q # p
      /\ Whereabouts(p)
  BY TwoSides, Known
<1>3. /\ Waiting(p) /\ s.remote = "nobody" /\ Began(q) /\ Consumed(p) = -1
      /\ IsHail(side[q].initMsg, q) /\ n = side[q].initMsg.len
  BY <1>1, HailArrived DEF IsHail
<1>4. n \in Nat /\ n >= 310
  BY <1>3 DEF IsHail
<1>5. /\ side' = [side EXCEPT ![p].gotEIP8 = TRUE, ![p].next = n]
      /\ stream' = stream /\ arrived' = arrived /\ sent' = sent /\ read' = read
      /\ damaged' = damaged
  BY DEF ReadLength
<1> HIDE DEF n
<1>6. /\ side' = [r \in Sides |-> side'[r]]
      /\ side'[q] = side[q]
      /\ side'[p] = [s EXCEPT !.gotEIP8 = TRUE, !.next = n]
  <2>1. side = [r \in Sides |-> side[r]]
    BY DEF Inv, Shapes
  <2> QED
    BY <1>2, <1>5, <2>1
<1> DEFINE t == side'[p]
<1>7. /\ IsSide(t) /\ t.gotEIP8 = TRUE /\ t.next = n
      /\ t.state = s.state /\ t.tick = s.tick /\ t.remote = s.remote /\ t.bodySize = s.bodySize
      /\ t.initMsg = s.initMsg /\ t.ingressMac = s.ingressMac /\ t.egressMac = s.egressMac
      /\ t.ingressAes = s.ingressAes /\ t.egressAes = s.egressAes
  <2>1. IsSide(s)
    BY <1>2 DEF Whereabouts, Shape
  <2> HIDE DEF s
  <2> QED
    BY <1>6, <2>1 DEF IsSide
<1> HIDE DEF n
<1>8. Ready(p)' = Ready(p) /\ Ready(q)' = Ready(q) /\ Log(p)' = Log(p)
  BY <1>6, <1>7 DEF Ready, Log
<1>9. Began(p)' = Began(p) /\ Began(q)' = Began(q)
  BY <1>8 DEF Began
<1>10. Rest(p)
  BY <1>5, <1>6, <1>7, <1>8, <1>9 DEF Rest
<1>11. Whereabouts(q)' /\ Written(p)' /\ Opened(p)'
  BY <1>10, RestStays
<1>12. Shapes' /\ Order'
  <2>1. Shapes /\ Order
    BY DEF Inv
  <2>2. Shapes'
    BY <1>5, <1>6, <2>1 DEF Shapes
  <2>3. Order'
    <3>1. Ready("dialer")' = Ready("dialer") /\ Ready("listener")' = Ready("listener")
      BY <1>8, TwoSides DEF Sides
    <3> QED
      BY <2>1, <3>1 DEF Order
  <2> QED
    BY <2>2, <2>3
<1>13. Shape(p)'
  <2>1. Shape(p)
    BY <1>2 DEF Whereabouts
  <2> QED
    BY <1>4, <1>5, <1>7, <2>1 DEF Shape
<1>14. Keys(p)'
  <2>1. Keys(p)
    BY <1>2 DEF Whereabouts
  <2> QED
    BY <1>5, <1>6, <1>7, <1>8, <2>1 DEF Keys
<1>15. Underway(p)' /\ Consumed(p)' = Consumed(p)
  BY <1>5, <1>6, UnderwayStays
<1>16. Reader(p)'
  <2>1. Waiting(p)'
    BY <1>3, <1>5, <1>6, <1>7, <1>8, <1>9, <1>15 DEF Waiting
  <2>2. Reader(p)
    BY <1>2 DEF Whereabouts
  <2> QED
    BY <1>3, <1>5, <1>6, <1>7, <2>1, <2>2 DEF Reader
<1>17. Whereabouts(p)'
  BY <1>11, <1>13, <1>14, <1>15, <1>16 DEF Whereabouts
<1> QED
  BY <1>11, <1>12, <1>17, BothSides

\* So does a round that fails,
LEMMA LoseKeeps ==
    ASSUME Inv, NEW p \in Sides, Lose(p)
    PROVE  Inv'
<1> DEFINE q == Other(p)
           s == side[p]
           t == side'[p]
<1>1. PICK state \in {"Auth", "Ack", "Header", "Body"} : Reading(p, state)
  BY DEF Lose
<1>2. s.state = state /\ arrived[p] >= s.next
  BY <1>1 DEF Reading
<1>3. /\ q \in Sides /\ q # p
      /\ Whereabouts(p) /\ stream[p] # <<>>
  BY <1>2, TwoSides, Known, NextPacket
<1>4. /\ side' = [side EXCEPT ![p].state = "lost"]
      /\ stream' = stream /\ arrived' = arrived /\ sent' = sent /\ read' = read
      /\ damaged' = damaged
  BY DEF Lose
<1>5. /\ side' = [r \in Sides |-> side'[r]]
      /\ side'[q] = side[q]
      /\ side'[p] = [s EXCEPT !.state = "lost"]
  <2>1. side = [r \in Sides |-> side[r]]
    BY DEF Inv, Shapes
  <2> QED
    BY <1>3, <1>4, <2>1
<1>6. /\ IsSide(t) /\ t.gotEIP8 = s.gotEIP8 /\ t.next = s.next
      /\ t.state = "lost" /\ t.tick = s.tick /\ t.remote = s.remote /\ t.bodySize = s.bodySize
      /\ t.initMsg = s.initMsg /\ t.ingressMac = s.ingressMac /\ t.egressMac = s.egressMac
      /\ t.ingressAes = s.ingressAes /\ t.egressAes = s.egressAes
  <2>1. IsSide(s)
    BY <1>3 DEF Whereabouts, Shape
  <2> HIDE DEF s
  <2> QED
    BY <1>5, <2>1 DEF IsSide
<1>7. Ready(p)' = Ready(p) /\ Ready(q)' = Ready(q) /\ Log(p)' = Log(p)
  BY <1>5, <1>6 DEF Ready, Log
<1>8. Began(p)' = Began(p) /\ Began(q)' = Began(q)
  BY <1>7 DEF Began
<1>9. Rest(p)
  BY <1>4, <1>5, <1>6, <1>7, <1>8 DEF Rest
<1>10. Whereabouts(q)' /\ Written(p)' /\ Opened(p)'
  BY <1>9, RestStays
<1>11. Shapes' /\ Order'
  <2>1. Shapes /\ Order
    BY DEF Inv
  <2>2. Shapes'
    BY <1>4, <1>5, <2>1 DEF Shapes
  <2>3. Order'
    <3>1. Ready("dialer")' = Ready("dialer") /\ Ready("listener")' = Ready("listener")
      BY <1>7, TwoSides DEF Sides
    <3> QED
      BY <2>1, <3>1 DEF Order
  <2> QED
    BY <2>2, <2>3
<1>12. Shape(p)'
  <2>1. Shape(p)
    BY <1>3 DEF Whereabouts
  <2> QED
    BY <1>4, <1>6, <2>1 DEF Shape
<1>13. Keys(p)'
  <2>1. Keys(p)
    BY <1>3 DEF Whereabouts
  <2> QED
    BY <1>4, <1>5, <1>6, <1>7, <2>1 DEF Keys
<1>14. Underway(p)' /\ Consumed(p)' = Consumed(p)
  BY <1>4, <1>5, UnderwayStays
<1>15. Reader(p)'
  <2>1. Reader(p)
    BY <1>3 DEF Whereabouts
  <2>2. CASE s.remote = "nobody"
    <3>1. Waiting(p)
      BY <2>1, <2>2 DEF Reader
    <3>2. Waiting(p)'
      BY <1>4, <1>5, <1>6, <1>7, <1>8, <1>14, <3>1 DEF Waiting
    <3> QED
      BY <1>4, <1>5, <1>6, <2>1, <2>2, <3>2 DEF Reader
  <2>3. CASE s.remote # "nobody"
    <3>1. Framing(p)
      BY <1>2, <2>1, <2>3 DEF Reader
    <3>2. Ready(p)
      BY <1>3, <3>1 DEF Framing, Answering
    <3> QED
      BY <1>4, <1>5, <1>6, <1>7, <2>1, <2>3, <3>2 DEF Reader
  <2> QED
    BY <2>2, <2>3
<1>16. Whereabouts(p)'
  BY <1>10, <1>12, <1>13, <1>14, <1>15 DEF Whereabouts
<1> QED
  BY <1>10, <1>11, <1>16, BothSides

\* AUTH at the listener,
LEMMA _handleAuthKeeps ==
    ASSUME Inv, NEW p \in Sides, _handleAuth(p)
    PROVE  Inv'
<1> DEFINE q == Other(p)
           s == side[p]
           t == side'[p]
           auth == Head(stream[p])
<1>1. Reading(p, "Auth") /\ s.gotEIP8 /\ Whole(p) /\ Decrypts(p, auth)
  BY DEF _handleAuth
<1>2. arrived[p] >= s.next
  BY <1>1 DEF Reading
<1>3. q \in Sides /\ q # p /\ Whereabouts(p)
  BY TwoSides, Known
<1>4. /\ p = "listener" /\ q = "dialer" /\ Waiting(p) /\ s.remote = "nobody"
      /\ Began(q) /\ Consumed(p) = -1 /\ IsHail(side[q].initMsg, q)
  BY <1>1, HailArrived DEF Other
<1>5. auth = side[q].initMsg /\ auth.content.from = q
  <2>1. auth = side[q].initMsg
    BY <1>1, HailRead
  <2> HIDE DEF auth
  <2>2. side[q].initMsg.content.from = q
    BY <1>4 DEF IsHail, Content
  <2> QED
    BY <2>1, <2>2
<1>6. /\ side' = [side EXCEPT ![p] = [AfterAuth(@, auth) EXCEPT
                        !.state = "Header", !.next = 32, !.tick = "ack"]]
      /\ sent' = sent /\ read' = read /\ damaged' = damaged /\ Consume(p)
  BY DEF _handleAuth
<1> HIDE DEF auth
<1>7. /\ side' = [r \in Sides |-> side'[r]]
      /\ side'[q] = side[q]
      /\ side'[p] = [[s EXCEPT !.remote = auth.content.from, !.remoteInitMsg = auth] EXCEPT
                        !.state = "Header", !.next = 32, !.tick = "ack"]
  <2>1. side = [r \in Sides |-> side[r]]
    BY DEF Inv, Shapes
  <2> QED
    BY <1>3, <1>6, <2>1 DEF AfterAuth
<1>8. /\ IsSide(t) /\ t.gotEIP8 = s.gotEIP8 /\ t.next = 32
      /\ t.state = "Header" /\ t.tick = "ack" /\ t.remote = q /\ t.bodySize = s.bodySize
      /\ t.remoteInitMsg = side[q].initMsg
      /\ t.initMsg = s.initMsg /\ t.ingressMac = s.ingressMac /\ t.egressMac = s.egressMac
      /\ t.ingressAes = s.ingressAes /\ t.egressAes = s.egressAes
  <2>1. IsSide(s)
    BY <1>3 DEF Whereabouts, Shape
  <2> HIDE DEF s
  <2> QED
    BY <1>5, <1>7, <2>1 DEF IsSide
<1>9. Ready(p)' = Ready(p) /\ Ready(q)' = Ready(q) /\ Log(p)' = Log(p) /\ Log(q)' = Log(q)
  BY <1>7, <1>8 DEF Ready, Log
<1>10. Began(p)' = Began(p) /\ Began(q)' = Began(q)
  BY <1>9 DEF Began
<1>11. /\ stream' = [r \in Sides |-> stream'[r]] /\ arrived' \in [Sides -> Nat]
       /\ stream'[q] = stream[q] /\ arrived'[q] = arrived[q]
       /\ IsSequence(stream'[p]) /\ Consumed(p)' = Consumed(p) + 1 /\ Underway(p)'
  BY <1>1, <1>2, <1>6, <1>7, ConsumeKeeps
<1>12. Rest(p)
  BY <1>6, <1>7, <1>8, <1>9, <1>10, <1>11 DEF Rest
<1>13. Whereabouts(q)' /\ Written(p)' /\ Opened(p)'
  BY <1>12, RestStays
<1>14. Shapes' /\ Order'
  <2>1. Shapes /\ Order
    BY DEF Inv
  <2>2. Shapes'
    BY <1>6, <1>7, <1>11, <2>1 DEF Shapes
  <2>3. Order'
    BY <1>4, <1>9, <2>1 DEF Order
  <2> QED
    BY <2>2, <2>3
<1>15. Shape(p)'
  <2>1. Shape(p)
    BY <1>3 DEF Whereabouts
  <2> QED
    BY <1>6, <1>8, <1>11, <2>1 DEF Shape
<1>16. ~Ready(p) /\ ~Ready(q)
  <2>1. ~Ready(p)
    BY <1>4 DEF Waiting
  <2> QED
    BY <1>4, <2>1 DEF Inv, Order
<1>17. Keys(p)'
  <2>1. Keys(p)
    BY <1>3 DEF Whereabouts
  <2> QED
    BY <1>4, <1>6, <1>7, <1>8, <1>9, <1>16, <2>1 DEF Keys
<1>18. Len(Log(q)) = 0 /\ Place(Log(q), side[q].egressAes, 1) = 0
  <2>1. Written(q) /\ Keys(q)
    BY <1>3, Known DEF Whereabouts
  <2>2. Log(q) = <<>>
    BY <1>16, <2>1 DEF Keys, Log, NoMAC, None
  <2>3. Len(Log(q)) = 0
    BY <2>2, EmptyIs, Zenon
  <2> QED
    BY <2>1, <2>3 DEF Written, IsLog
<1>19. stream'[p] = <<>>
  <2>1. Len(stream'[p]) \in Nat
    BY <1>11, LengthOf
  <2>2. Consumed(p)' = Len(Log(q)) - Len(stream'[p])
    BY <1>9 DEF Consumed
  <2>3. Len(stream'[p]) = 0
    BY <1>4, <1>11, <1>18, <2>1, <2>2
  <2> QED
    BY <1>11, <2>3, LengthOf
<1>20. Reader(p)'
  <2>1. Consumed(p)' = 0 /\ read[p] = <<>> /\ sent[p] = <<>> /\ s.gotEIP8
    BY <1>1, <1>4, <1>11 DEF Waiting
  <2>2. Len(read[p]) = 0
    BY <2>1, EmptyIs, Zenon
  <2>3. s.ingressAes = 0
    BY <1>3, <1>16 DEF Whereabouts, Keys
  <2>4. Answering(p)'
    BY <1>4, <1>6, <1>7, <1>8, <1>19, <2>1 DEF Answering
  <2>5. Expects(side[p], sent[q], 0)'
    BY <1>8 DEF Expects
  <2>6. Place(Log(q), side[q].egressAes, 1)' = 0
    BY <1>7, <1>9, <1>18
  <2>7. 0 + 1 = 1 /\ 0 \div 2 = 0 /\ 0 >= 0
    OBVIOUS
  <2>8. (side[p].ingressAes = Place(Log(q), side[q].egressAes, Consumed(p) + 1))'
    BY <1>8, <2>1, <2>3, <2>6, <2>7
  <2>9. (Expects(side[p], sent[q], Consumed(p)))'
    BY <2>1, <2>5
  <2>10. Framing(p)'
    BY <1>4, <1>6, <1>8, <1>9, <1>10, <1>16, <2>1, <2>2, <2>4, <2>7, <2>8, <2>9 DEF Framing
  <2>11. Reader(p)
    BY <1>3 DEF Whereabouts
  <2> QED
    BY <1>4, <1>6, <1>7, <1>8, <2>10, <2>11 DEF Reader
<1>21. Whereabouts(p)'
  BY <1>11, <1>13, <1>15, <1>17, <1>20 DEF Whereabouts
<1> QED
  BY <1>13, <1>14, <1>21, BothSides

\* ACK at the dialer,
LEMMA _handleAckKeeps ==
    ASSUME Inv, NEW p \in Sides, _handleAck(p)
    PROVE  Inv'
<1> DEFINE q == Other(p)
           s == side[p]
           t == side'[p]
           ack == Head(stream[p])
<1>1. Reading(p, "Ack") /\ s.gotEIP8 /\ Whole(p) /\ Decrypts(p, ack)
  BY DEF _handleAck
<1>2. arrived[p] >= s.next
  BY <1>1 DEF Reading
<1>3. q \in Sides /\ q # p /\ Whereabouts(p)
  BY TwoSides, Known
<1>4. /\ p = "dialer" /\ q = "listener" /\ Waiting(p) /\ s.remote = "nobody"
      /\ Began(q) /\ Consumed(p) = -1 /\ IsHail(side[q].initMsg, q)
  BY <1>1, HailArrived DEF Other
<1>5. ack = side[q].initMsg /\ ack.content.from = q
  <2>1. ack = side[q].initMsg
    BY <1>1, HailRead
  <2> HIDE DEF ack
  <2>2. side[q].initMsg.content.from = q
    BY <1>4 DEF IsHail, Content
  <2> QED
    BY <2>1, <2>2
<1>6. /\ side' = [side EXCEPT ![p] = [AfterAck(p, ack) EXCEPT
                        !.state = "Header", !.next = 32, !.tick = "hello"]]
      /\ sent' = sent /\ read' = read /\ damaged' = damaged /\ Consume(p)
  BY DEF _handleAck
<1> HIDE DEF ack
<1>7. /\ side' = [r \in Sides |-> side'[r]]
      /\ side'[q] = side[q]
      /\ side'[p] = [AfterAck(p, ack) EXCEPT !.state = "Header", !.next = 32, !.tick = "hello"]
  <2>1. side = [r \in Sides |-> side[r]]
    BY DEF Inv, Shapes
  <2> QED
    BY <1>3, <1>6, <2>1
<1>8. AfterAck(p, ack) =
        [[s EXCEPT !.remote = q] EXCEPT
            !.ingressMac = KeyedMAC(<<p, ack>>, None),
            !.egressMac = KeyedMAC(<<q, s.initMsg>>, None)]
  <2> DEFINE s1 == [s EXCEPT !.remote = ack.content.from]
  <2>1. s1.remote = q /\ s1.initMsg = s.initMsg /\ s1 = [s EXCEPT !.remote = q]
    <3>1. IsSide(s)
      BY <1>3 DEF Whereabouts, Shape
    <3> HIDE DEF s
    <3> QED
      BY <1>5, <3>1 DEF IsSide
  <2>2. AfterAck(p, ack) = _setupFrame(p, s1, ack, FALSE)
    BY DEF AfterAck
  <2> HIDE DEF s1
  <2>3. nonceMaterial(p, s1, FALSE) = <<"listener", "dialer">> /\ {p, s1.remote} = Sides
    BY <1>4, <2>1 DEF nonceMaterial, Sides
  <2>4. [shared |-> {p, s1.remote}, nonces |-> nonceMaterial(p, s1, FALSE)] = Secret
    BY <2>3 DEF Secret
  <2>5. AfterAck(p, ack) = [s1 EXCEPT !.ingressMac = MAC(Secret, p, ack),
                                      !.egressMac = MAC(Secret, q, s.initMsg)]
    BY <2>1, <2>2, <2>4 DEF _setupFrame
  <2> QED
    BY <2>1, <2>5 DEF MAC, KeyedMAC
<1>9. /\ IsSide(t) /\ t.gotEIP8 = s.gotEIP8 /\ t.next = 32
      /\ t.state = "Header" /\ t.tick = "hello" /\ t.remote = q /\ t.bodySize = s.bodySize
      /\ t.ingressMac = KeyedMAC(<<p, side[q].initMsg>>, None)
      /\ t.egressMac = KeyedMAC(<<q, s.initMsg>>, None)
      /\ t.initMsg = s.initMsg
      /\ t.ingressAes = s.ingressAes /\ t.egressAes = s.egressAes
  <2>1. IsSide(s)
    BY <1>3 DEF Whereabouts, Shape
  <2> DEFINE u == AfterAck(p, ack)
             m1 == KeyedMAC(<<p, ack>>, None)
             m2 == KeyedMAC(<<q, s.initMsg>>, None)
  <2> HIDE DEF s, m1, m2
  <2>2. /\ IsSide(u) /\ u.gotEIP8 = s.gotEIP8 /\ u.remote = q /\ u.bodySize = s.bodySize
        /\ u.ingressMac = m1 /\ u.egressMac = m2 /\ u.initMsg = s.initMsg
        /\ u.ingressAes = s.ingressAes /\ u.egressAes = s.egressAes
    BY <1>8, <2>1 DEF IsSide, m1, m2
  <2>3. m1 = KeyedMAC(<<p, side[q].initMsg>>, None) /\ m2 = KeyedMAC(<<q, s.initMsg>>, None)
    BY <1>5 DEF m1, m2
  <2> HIDE DEF u
  <2>4. /\ IsSide(t) /\ t.gotEIP8 = u.gotEIP8 /\ t.next = 32
        /\ t.state = "Header" /\ t.tick = "hello" /\ t.remote = u.remote
        /\ t.bodySize = u.bodySize /\ t.initMsg = u.initMsg
        /\ t.ingressMac = u.ingressMac /\ t.egressMac = u.egressMac
        /\ t.ingressAes = u.ingressAes /\ t.egressAes = u.egressAes
    BY <1>7, <2>2 DEF IsSide, u
  <2> QED
    BY <2>2, <2>3, <2>4
<1>10. ~Ready(p) /\ Ready(q)
  BY <1>4 DEF Waiting, Began
<1>11. t.ingressMac # NoMAC /\ t.egressMac # NoMAC /\ t.egressMac.log = <<>> /\ t.ingressMac.log = <<>>
  <2>1. t.ingressMac.secret.shared = Sides /\ t.egressMac.secret.shared = Sides
        /\ NoMAC.secret.shared = {} /\ Sides # {}
    BY <1>9 DEF KeyedMAC, Secret, NoMAC, Sides
  <2> QED
    BY <1>9, <2>1 DEF KeyedMAC, None
<1>12. Ready(p)' /\ Ready(q)' = Ready(q) /\ Log(p)' = Log(p) /\ Log(q)' = Log(q)
  <2>1. Log(p) = <<>>
    BY <1>3, <1>10 DEF Whereabouts, Keys, Log, NoMAC, None
  <2> QED
    BY <1>7, <1>11, <2>1 DEF Ready, Log
<1>13. Began(p)' = Began(p) /\ Began(q)' = Began(q)
  BY <1>4, <1>12 DEF Began
<1>14. /\ stream' = [r \in Sides |-> stream'[r]] /\ arrived' \in [Sides -> Nat]
       /\ stream'[q] = stream[q] /\ arrived'[q] = arrived[q]
       /\ IsSequence(stream'[p]) /\ Consumed(p)' = Consumed(p) + 1 /\ Underway(p)'
  BY <1>1, <1>2, <1>6, <1>7, ConsumeKeeps
<1>15. sent[p] = <<>> /\ read[p] = <<>>
  BY <1>4 DEF Waiting
<1>16. Rest(p)
  BY <1>6, <1>7, <1>9, <1>12, <1>13, <1>14, <1>15 DEF Rest
<1>17. Whereabouts(q)' /\ Written(p)' /\ Opened(p)'
  BY <1>16, RestStays
<1>18. Shapes' /\ Order'
  <2>1. Shapes
    BY DEF Inv
  <2>2. Shapes'
    BY <1>6, <1>7, <1>14, <2>1 DEF Shapes
  <2>3. Order'
    BY <1>4, <1>10, <1>12 DEF Order
  <2> QED
    BY <2>2, <2>3
<1>19. Shape(p)'
  <2>1. Shape(p)
    BY <1>3 DEF Whereabouts
  <2>2. IsSequence(t.egressMac.log)
    BY <1>11, EmptyIs
  <2> QED
    BY <1>6, <1>9, <1>14, <2>1, <2>2 DEF Shape
<1>20. Keys(p)'
  BY <1>4, <1>6, <1>7, <1>9, <1>11, <1>12, <1>15 DEF Keys, Log, None
<1>21. Reader(p)'
  <2>1. Consumed(p)' = 0 /\ s.gotEIP8
    BY <1>1, <1>4, <1>14
  <2>2. Len(read[p]) = 0
    BY <1>15, EmptyIs, Zenon
  <2>3. s.ingressAes = 0
    BY <1>3, <1>10 DEF Whereabouts, Keys
  <2>4. Place(Log(q), side[q].egressAes, 1) = 0 /\ IsSequence(Log(q)) /\ Len(Log(q)) \in Nat
    BY <1>3, Known DEF Whereabouts, Written, IsLog
  <2>5. Expects(side[p], sent[q], 0)'
    BY <1>9 DEF Expects
  <2>6. 0 + 1 = 1 /\ 0 \div 2 = 0 /\ 0 >= 0
    OBVIOUS
  <2>7. (side[p].ingressAes = Place(Log(q), side[q].egressAes, Consumed(p) + 1))'
    BY <1>7, <1>9, <1>12, <2>1, <2>3, <2>4, <2>6
  <2>8. (Expects(side[p], sent[q], Consumed(p)))'
    BY <2>1, <2>5
  <2>9. SubSeq(Log(q), 1, 0) = <<>>
    <3>1. 0 \in 0..Len(Log(q))
      BY <2>4
    <3>2. IsSequence(SubSeq(Log(q), 1, 0)) /\ Len(SubSeq(Log(q), 1, 0)) = 0
      BY <2>4, <3>1, FrontIs
    <3> QED
      BY <3>2, LengthOf
  <2>10. (side[p].ingressMac.log = SubSeq(Log(q), 1, Consumed(p)))'
    BY <1>11, <1>12, <2>1, <2>9
  <2>11. Framing(p)'
    BY <1>4, <1>6, <1>9, <1>12, <1>13, <2>1, <2>2, <2>6, <2>7, <2>8, <2>10 DEF Framing
  <2>12. Reader(p)
    BY <1>3 DEF Whereabouts
  <2> QED
    BY <1>4, <1>6, <1>7, <1>9, <2>11, <2>12 DEF Reader
<1>22. Whereabouts(p)'
  BY <1>14, <1>17, <1>19, <1>20, <1>21 DEF Whereabouts
<1> QED
  BY <1>17, <1>18, <1>22, BothSides

\* A piece whose MAC is right is the next entry of the writer's MAC, and its
\* text is at the place of the reader in the key stream.
LEMMA PieceRead ==
    ASSUME Inv, NEW p \in Sides, NEW state \in {"Header", "Body"}, Reading(p, state),
           Verified(p, Head(stream[p]))
    PROVE  LET q == Other(p)
               c == Consumed(p)
               packet == Head(stream[p])
           IN  /\ Framing(p) /\ Ready(p) /\ side[p].remote = q
               /\ c \in Nat /\ c + 1 \in 1..(2 * Len(sent[q])) /\ c + 1 \in 1..Len(Log(q))
               /\ packet.len = Span(sent[q], c + 1) + 16
               /\ Updated(side[p].ingressMac, packet.content) =
                    KeyedMAC(<<p, side[q].initMsg>>, SubSeq(Log(q), 1, c + 1))
               /\ \A garbage : Plain(side[p], packet.content, garbage) = Text(sent[q], c + 1)
               /\ Place(Log(q), side[q].egressAes, c + 2) =
                    side[p].ingressAes + Span(sent[q], c + 1)
<1> DEFINE q == Other(p)
           c == Consumed(p)
           packet == Head(stream[p])
           s == side[p]
           log == Log(q)
           front == SubSeq(log, 1, c)
<1>1. s.state = state /\ arrived[p] >= s.next /\ Ready(p)
  BY DEF Reading, Verified, Ready
<1>2. /\ q \in Sides /\ Whereabouts(p) /\ Whereabouts(q)
      /\ IsSequence(log) /\ Len(log) \in Nat /\ Len(log) = 2 * Len(sent[q])
      /\ c \in Int
  BY TwoSides, Known
<1>3. Framing(p) /\ s.remote = q
  BY <1>1, <1>2 DEF Whereabouts, Reader, Waiting
<1>4. c \in Nat /\ s.ingressMac.log = front /\ s.ingressAes = Place(log, side[q].egressAes, c + 1)
  BY <1>1, <1>2, <1>3 DEF Framing
<1>5. IsPacket(packet, q, c + 1, damaged) /\ 1 \in 1..Len(stream[p])
  BY <1>1, NextPacket
<1>6. c + 1 \in 1..Len(log) /\ c \in 0..Len(log)
  BY <1>2, <1>4, <1>5, EntriesUnderway
<1>7. IsPiece(packet, side[q].egressMac, sent[q], c + 1, damaged)
  BY <1>4, <1>5 DEF IsPacket
<1>8. /\ packet.len = Span(sent[q], c + 1) + 16
      /\ packet.tag = KeyedMAC(side[q].egressMac.seed, SubSeq(log, 1, c + 1))
  <2> HIDE DEF packet, c, q
  <2> QED
    BY <1>7 DEF IsPiece, Log, log
<1>9. s.ingressMac = KeyedMAC(<<p, side[q].initMsg>>, front)
  BY <1>1, <1>2, <1>4 DEF Whereabouts, Keys
<1>10. Updated(s.ingressMac, packet.content) =
         KeyedMAC(<<p, side[q].initMsg>>, Append(front, packet.content))
  <2> HIDE DEF packet, front, q
  <2>1. ASSUME NEW seed, NEW m, m = KeyedMAC(seed, front)
        PROVE  Updated(m, packet.content) = KeyedMAC(seed, Append(front, packet.content))
    BY <2>1 DEF Updated, KeyedMAC
  <2> QED
    BY <1>9, <2>1
<1>11. Updated(s.ingressMac, packet.content) = packet.tag
  BY DEF Verified
<1>12. SubSeq(log, 1, c + 1) = Append(front, log[c + 1])
  <2>1. (c + 1) - 1 = c
    BY <1>2
  <2> HIDE DEF c, log
  <2>2. SubSeq(log, 1, c + 1) = Append(SubSeq(log, 1, (c + 1) - 1), log[c + 1])
    BY <1>2, <1>6, FrontStep
  <2> QED
    BY <2>1, <2>2
<1>13. packet.content = log[c + 1]
  <2> HIDE DEF packet, front, s, q, c, log
  <2>1. Append(front, packet.content) = Append(front, log[c + 1])
    <3>1. KeyedMAC(<<p, side[q].initMsg>>, Append(front, packet.content)).log =
          KeyedMAC(side[q].egressMac.seed, SubSeq(log, 1, c + 1)).log
      BY <1>8, <1>10, <1>11
    <3> QED
      BY <1>12, <3>1 DEF KeyedMAC
  <2>2. IsSequence(front)
    BY <1>2, <1>6, FrontIs DEF front
  <2> QED
    BY <2>1, <2>2, AppendSame
<1>14. IsEntry(log, side[q].egressAes, sent[q], c + 1)
  BY <1>2, <1>6 DEF Whereabouts, Written, IsLog
<1>15. ASSUME NEW garbage PROVE Plain(s, packet.content, garbage) = Text(sent[q], c + 1)
  <2> HIDE DEF packet, front, s, q, c, log
  <2>1. packet.content.secret = Secret /\ packet.content.plain = Text(sent[q], c + 1)
        /\ packet.content.position = s.ingressAes
    BY <1>4, <1>13, <1>14 DEF IsEntry
  <2>2. s.ingressMac.secret = Secret
    BY <1>9 DEF KeyedMAC
  <2> QED
    BY <2>1, <2>2 DEF Plain
<1>16. Place(log, side[q].egressAes, c + 2) = s.ingressAes + Span(sent[q], c + 1)
  <2>1. (c + 1) + 1 = c + 2
    BY <1>2
  <2> QED
    BY <1>4, <1>14, <2>1 DEF IsEntry
<1> QED
  BY <1>1, <1>2, <1>3, <1>4, <1>6, <1>8, <1>10, <1>12, <1>13, <1>15, <1>16

\* a header,
LEMMA _handleHeaderKeeps ==
    ASSUME Inv, NEW p \in Sides, _handleHeader(p)
    PROVE  Inv'
<1> DEFINE q == Other(p)
           s == side[p]
           t == side'[p]
           c == Consumed(p)
           header == Head(stream[p])
           size == Plain(s, header.content, 1)
<1>1. Reading(p, "Header") /\ Verified(p, header)
  BY DEF _handleHeader
<1>2. arrived[p] >= s.next /\ s.state = "Header" /\ Whole(p)
  BY <1>1 DEF Reading, Verified
<1>3. /\ q \in Sides /\ q # p /\ Whereabouts(p) /\ Whereabouts(q) /\ sent[q] \in Seq(Messages)
      /\ read[p] \in Seq(Messages)
  BY TwoSides, Known
<1>4. /\ Framing(p) /\ Ready(p) /\ s.remote = q
      /\ c \in Nat /\ c + 1 \in 1..(2 * Len(sent[q])) /\ c + 1 \in 1..Len(Log(q))
      /\ Updated(s.ingressMac, header.content) =
           KeyedMAC(<<p, side[q].initMsg>>, SubSeq(Log(q), 1, c + 1))
      /\ size = Text(sent[q], c + 1)
      /\ Place(Log(q), side[q].egressAes, c + 2) = s.ingressAes + Span(sent[q], c + 1)
  BY <1>1, PieceRead
<1>5. c % 2 = 0 /\ (c + 1) % 2 = 1 /\ (c + 1) \div 2 = c \div 2 /\ (c + 1) + 1 = c + 2
  <2>1. c % 2 = 0 /\ c \in Nat
    BY <1>2, <1>4 DEF Framing, Expects
  <2> HIDE DEF c
  <2> QED
    BY <2>1
<1>6. size = SizeField(sent[q][(c + 2) \div 2].size) /\ Span(sent[q], c + 1) = 16
  <2> HIDE DEF size, c
  <2> QED
    BY <1>4, <1>5 DEF Text, Span
<1>7. size \in Nat /\ size > 0
  <2>1. (c + 2) \div 2 \in 1..Len(sent[q]) /\ sent[q][(c + 2) \div 2] \in Messages
    <3> HIDE DEF c, q
    <3> QED
      BY <1>3, <1>4, <1>5, SpanIs
  <2>2. sent[q][(c + 2) \div 2].size \in Nat /\ sent[q][(c + 2) \div 2].size > 0
    <3>1. \A i \in 1..Len(sent[q]) : sent[q][i].size > 0
      BY <1>3 DEF Whereabouts, Written
    <3> HIDE DEF c, q
    <3> QED
      BY <2>1, <3>1 DEF Messages
  <2> QED
    BY <1>6, <2>2, BlocksTell
<1>8. BodyLength(size) \in Nat /\ BodyLength(size) >= 17
  <2> HIDE DEF size
  <2> QED
    BY <1>7, BodyLengthIs
<1>9. /\ side' = [side EXCEPT ![p] = [Advanced(@, header, 16) EXCEPT
                        !.state = "Body", !.bodySize = size, !.next = BodyLength(size)]]
      /\ sent' = sent /\ read' = read /\ damaged' = damaged /\ Consume(p)
  BY DEF _handleHeader
<1> DEFINE mac == Updated(s.ingressMac, header.content)
<1>10. /\ side' = [r \in Sides |-> side'[r]]
       /\ side'[q] = side[q]
       /\ side'[p] = [[s EXCEPT !.ingressMac = mac, !.ingressAes = s.ingressAes + 16] EXCEPT
                        !.state = "Body", !.bodySize = size, !.next = BodyLength(size)]
  <2>1. side = [r \in Sides |-> side[r]]
    BY DEF Inv, Shapes
  <2>2. IsSide(s)
    BY <1>3 DEF Whereabouts, Shape
  <2>3. Advanced(s, header, 16) = [s EXCEPT !.ingressMac = mac, !.ingressAes = s.ingressAes + 16]
    <3> HIDE DEF header, s
    <3> QED
      BY <2>2 DEF Advanced, IsSide
  <2> HIDE DEF size, header, mac
  <2> QED
    BY <1>3, <1>9, <2>1, <2>3
<1> HIDE DEF size, mac
<1>11. /\ IsSide(t) /\ t.gotEIP8 = s.gotEIP8 /\ t.next = BodyLength(size)
       /\ t.state = "Body" /\ t.tick = s.tick /\ t.remote = q /\ t.bodySize = size
       /\ t.remoteInitMsg = s.remoteInitMsg
       /\ t.initMsg = s.initMsg /\ t.ingressMac = mac /\ t.egressMac = s.egressMac
       /\ t.ingressAes = s.ingressAes + 16 /\ t.egressAes = s.egressAes
  <2>1. IsSide(s)
    BY <1>3 DEF Whereabouts, Shape
  <2> HIDE DEF s
  <2> QED
    BY <1>4, <1>10, <2>1 DEF IsSide
<1>12. mac = KeyedMAC(<<p, side[q].initMsg>>, SubSeq(Log(q), 1, c + 1)) /\ mac # NoMAC
  <2>1. mac = KeyedMAC(<<p, side[q].initMsg>>, SubSeq(Log(q), 1, c + 1))
    BY <1>4 DEF mac
  <2>2. mac.secret.shared = Sides /\ NoMAC.secret.shared = {} /\ Sides # {}
    BY <2>1 DEF KeyedMAC, Secret, NoMAC, Sides
  <2> QED
    BY <2>1, <2>2
<1>13. Ready(p)' /\ Ready(q)' = Ready(q) /\ Log(p)' = Log(p) /\ Log(q)' = Log(q)
  BY <1>10, <1>11, <1>12 DEF Ready, Log
<1>14. Began(p)' = Began(p) /\ Began(q)' = Began(q)
  BY <1>4, <1>13 DEF Began
<1>15. /\ stream' = [r \in Sides |-> stream'[r]] /\ arrived' \in [Sides -> Nat]
       /\ stream'[q] = stream[q] /\ arrived'[q] = arrived[q]
       /\ IsSequence(stream'[p]) /\ Consumed(p)' = Consumed(p) + 1 /\ Underway(p)'
  BY <1>2, <1>9, <1>10, ConsumeKeeps
<1>16. Rest(p)
  BY <1>9, <1>10, <1>11, <1>13, <1>14, <1>15 DEF Rest
<1>17. Whereabouts(q)' /\ Written(p)' /\ Opened(p)'
  BY <1>16, RestStays
<1>18. Shapes' /\ Order'
  <2>1. Shapes /\ Order
    BY DEF Inv
  <2>2. Shapes'
    BY <1>9, <1>10, <1>15, <2>1 DEF Shapes
  <2>3. Order'
    <3>1. Ready("dialer")' = Ready("dialer") /\ Ready("listener")' = Ready("listener")
      BY <1>4, <1>13, TwoSides DEF Sides, Ready
    <3> QED
      BY <2>1, <3>1 DEF Order
  <2> QED
    BY <2>2, <2>3
<1>19. Shape(p)'
  <2>1. Shape(p)
    BY <1>3 DEF Whereabouts
  <2> QED
    BY <1>7, <1>8, <1>9, <1>11, <1>15, <2>1 DEF Shape
<1>20. Keys(p)'
  <2>1. Keys(p)
    BY <1>3 DEF Whereabouts
  <2>2. mac = KeyedMAC(<<p, side[q].initMsg>>, mac.log)
    BY <1>12 DEF KeyedMAC
  <2> QED
    BY <1>4, <1>9, <1>10, <1>11, <1>13, <2>1, <2>2 DEF Keys, Log
<1>21. Reader(p)'
  <2>1. PICK d : d = c + 1
    OBVIOUS
  <2>2. Consumed(p)' = d /\ d \in Nat /\ d >= 0 /\ d + 1 = c + 2 /\ d \div 2 = c \div 2 /\ d % 2 = 1
    BY <1>4, <1>5, <1>15, <2>1
  <2>3. mac.log = SubSeq(Log(q), 1, d)
    BY <1>12, <2>1 DEF KeyedMAC
  <2>4. s.ingressAes + 16 = Place(Log(q), side[q].egressAes, d + 1)
    BY <1>4, <1>6, <2>2
  <2>5. Expects(side[p], sent[q], d)'
    <3>1. d + 1 = c + 2
      BY <2>2
    <3> QED
      BY <1>6, <1>9, <1>11, <2>2, <3>1 DEF Expects
  <2>6. Len(read[p]) = d \div 2
    BY <1>4, <2>2 DEF Framing
  <2>7. Framing(p)'
    <3>1. Framing(p)
      BY <1>4
    <3> QED
      BY <1>9, <1>10, <1>11, <1>13, <1>14, <2>2, <2>3, <2>4, <2>5, <2>6, <3>1 DEF Framing
  <2>8. Reader(p)
    BY <1>3 DEF Whereabouts
  <2> QED
    BY <1>3, <1>9, <1>10, <1>11, <2>7, <2>8 DEF Reader, Sides
<1>22. Whereabouts(p)'
  BY <1>15, <1>17, <1>19, <1>20, <1>21 DEF Whereabouts
<1> QED
  BY <1>17, <1>18, <1>22, BothSides

\* a body,
LEMMA _handleBodyKeeps ==
    ASSUME Inv, NEW p \in Sides, _handleBody(p)
    PROVE  Inv'
<1> DEFINE q == Other(p)
           s == side[p]
           t == side'[p]
           c == Consumed(p)
           body == Head(stream[p])
           message == Plain(s, body.content, Garbage)
           i == (c + 2) \div 2
<1>1. Reading(p, "Body") /\ Verified(p, body)
  BY DEF _handleBody
<1>2. arrived[p] >= s.next /\ s.state = "Body" /\ Whole(p) /\ body.len = s.next
  BY <1>1 DEF Reading, Verified, Whole
<1>3. /\ q \in Sides /\ q # p /\ Whereabouts(p) /\ Whereabouts(q) /\ sent[q] \in Seq(Messages)
      /\ read[p] \in Seq(Messages) /\ Len(read[p]) \in Nat
      /\ s.next \in Nat
  BY TwoSides, Known DEF Whereabouts, Shape
<1>4. /\ Framing(p) /\ Ready(p) /\ s.remote = q
      /\ c \in Nat /\ c + 1 \in 1..(2 * Len(sent[q])) /\ c + 1 \in 1..Len(Log(q))
      /\ body.len = Span(sent[q], c + 1) + 16
      /\ Updated(s.ingressMac, body.content) =
           KeyedMAC(<<p, side[q].initMsg>>, SubSeq(Log(q), 1, c + 1))
      /\ message = Text(sent[q], c + 1)
      /\ Place(Log(q), side[q].egressAes, c + 2) = s.ingressAes + Span(sent[q], c + 1)
  BY <1>1, PieceRead
<1>5. /\ s.bodySize = SizeField(sent[q][(c + 1) \div 2].size) /\ s.next = BodyLength(s.bodySize)
      /\ Len(read[p]) = c \div 2
  BY <1>2, <1>4 DEF Framing, Expects
<1>6. /\ (c + 1) % 2 = 0 /\ (c + 1) \div 2 = i /\ (c + 1) + 1 = c + 2 /\ i = c \div 2 + 1
  <2>1. c % 2 = 1 /\ c \in Nat
    BY <1>2, <1>4 DEF Framing, Expects
  <2> HIDE DEF c
  <2> QED
    BY <2>1
<1>7. message = sent[q][i] /\ Span(sent[q], c + 1) = Blocks(sent[q][i].size)
  <2>1. ((c + 1) + 1) \div 2 = i
    BY <1>6
  <2> HIDE DEF message, c, i
  <2> QED
    BY <1>4, <1>6, <2>1 DEF Text, Span
<1>8. i \in 1..Len(sent[q]) /\ sent[q][i] \in Messages
  <2>1. ((c + 1) + 1) \div 2 = i
    BY <1>6
  <2> HIDE DEF c, q, i
  <2> QED
    BY <1>3, <1>4, <2>1, SpanIs
<1> HIDE DEF i
<1>9. sent[q][i].size \in Nat
  BY <1>8 DEF Messages
<1>10. s.bodySize = sent[q][i].size /\ s.next = Blocks(sent[q][i].size) + 16
  <2> DEFINE n == sent[q][i].size
  <2>1. s.bodySize = SizeField(n) /\ SizeField(n) \in Nat
    BY <1>5, <1>6, <1>9, BlocksTell
  <2>2. s.next = Blocks(SizeField(n)) + 16 /\ Blocks(SizeField(n)) \in Nat /\ Blocks(n) \in Nat
    BY <1>5, <1>9, <2>1, BodyLengthIs
  <2>3. s.next = Blocks(n) + 16
    BY <1>2, <1>4, <1>7
  <2> HIDE DEF n
  <2>4. Blocks(SizeField(n)) = Blocks(n)
    BY <2>2, <2>3
  <2>5. Sayable(n)
    BY <1>9, <2>4, BlocksTell DEF n
  <2>6. SizeField(n) = n
    BY <1>9, <2>5, BlocksTell DEF n
  <2> QED
    BY <2>1, <2>3, <2>6 DEF n
<1>11. [message EXCEPT !.size = s.bodySize] = sent[q][i]
  <2> HIDE DEF message, s
  <2> QED
    BY <1>7, <1>8, <1>10 DEF Messages
<1>12. /\ side' = [side EXCEPT ![p] = [Advanced(@, body, @.next - 16) EXCEPT
                        !.state = "Header", !.bodySize = 0, !.next = 32]]
       /\ read' = [read EXCEPT ![p] = Append(@, [message EXCEPT !.size = s.bodySize])]
       /\ sent' = sent /\ damaged' = damaged /\ Consume(p)
  BY DEF _handleBody
<1> DEFINE mac == Updated(s.ingressMac, body.content)
           place == s.ingressAes + (s.next - 16)
<1>13. /\ side' = [r \in Sides |-> side'[r]]
       /\ side'[q] = side[q]
       /\ side'[p] = [[s EXCEPT !.ingressMac = mac, !.ingressAes = place] EXCEPT
                        !.state = "Header", !.bodySize = 0, !.next = 32]
  <2>1. side = [r \in Sides |-> side[r]]
    BY DEF Inv, Shapes
  <2>2. IsSide(s)
    BY <1>3 DEF Whereabouts, Shape
  <2>3. Advanced(s, body, s.next - 16) = [s EXCEPT !.ingressMac = mac, !.ingressAes = place]
    <3> HIDE DEF body, s
    <3> QED
      BY <2>2 DEF Advanced, IsSide
  <2> HIDE DEF body, mac, place
  <2> QED
    BY <1>3, <1>12, <2>1, <2>3
<1> HIDE DEF mac, place, message
<1>14. /\ read' \in [Sides -> Seq(Messages)]
       /\ read'[q] = read[q]
       /\ read'[p] = Append(read[p], sent[q][i])
  <2>1. read \in [Sides -> Seq(Messages)]
    BY DEF Inv, Shapes
  <2>2. Append(read[p], sent[q][i]) \in Seq(Messages)
    BY <1>3, <1>8
  <2> HIDE DEF q
  <2> QED
    BY <1>3, <1>11, <1>12, <2>1, <2>2
<1>15. /\ IsSide(t) /\ t.gotEIP8 = s.gotEIP8 /\ t.next = 32
       /\ t.state = "Header" /\ t.tick = s.tick /\ t.remote = q /\ t.bodySize = 0
       /\ t.remoteInitMsg = s.remoteInitMsg
       /\ t.initMsg = s.initMsg /\ t.ingressMac = mac /\ t.egressMac = s.egressMac
       /\ t.ingressAes = place /\ t.egressAes = s.egressAes
  <2>1. IsSide(s)
    BY <1>3 DEF Whereabouts, Shape
  <2> HIDE DEF s
  <2> QED
    BY <1>4, <1>13, <2>1 DEF IsSide
<1>16. mac = KeyedMAC(<<p, side[q].initMsg>>, SubSeq(Log(q), 1, c + 1)) /\ mac # NoMAC
  <2>1. mac = KeyedMAC(<<p, side[q].initMsg>>, SubSeq(Log(q), 1, c + 1))
    BY <1>4 DEF mac
  <2>2. mac.secret.shared = Sides /\ NoMAC.secret.shared = {} /\ Sides # {}
    BY <2>1 DEF KeyedMAC, Secret, NoMAC, Sides
  <2> QED
    BY <2>1, <2>2
<1>17. Ready(p)' /\ Ready(q)' = Ready(q) /\ Log(p)' = Log(p) /\ Log(q)' = Log(q)
  BY <1>13, <1>15, <1>16 DEF Ready, Log
<1>18. Began(p)' = Began(p) /\ Began(q)' = Began(q)
  BY <1>4, <1>17 DEF Began
<1>19. /\ stream' = [r \in Sides |-> stream'[r]] /\ arrived' \in [Sides -> Nat]
       /\ stream'[q] = stream[q] /\ arrived'[q] = arrived[q]
       /\ IsSequence(stream'[p]) /\ Consumed(p)' = Consumed(p) + 1 /\ Underway(p)'
  BY <1>2, <1>12, <1>13, ConsumeKeeps
<1>20. Rest(p)
  BY <1>12, <1>13, <1>14, <1>15, <1>17, <1>18, <1>19 DEF Rest
<1>21. Whereabouts(q)' /\ Written(p)' /\ Opened(p)'
  BY <1>20, RestStays
<1>22. Shapes' /\ Order'
  <2>1. Shapes /\ Order
    BY DEF Inv
  <2>2. Shapes'
    BY <1>12, <1>13, <1>14, <1>19, <2>1 DEF Shapes
  <2>3. Order'
    <3>1. Ready("dialer")' = Ready("dialer") /\ Ready("listener")' = Ready("listener")
      BY <1>4, <1>17, TwoSides DEF Sides, Ready
    <3> QED
      BY <2>1, <3>1 DEF Order
  <2> QED
    BY <2>2, <2>3
<1>23. Shape(p)'
  <2>1. Shape(p)
    BY <1>3 DEF Whereabouts
  <2> QED
    BY <1>12, <1>15, <1>19, <2>1 DEF Shape
<1>24. Keys(p)'
  <2>1. Keys(p)
    BY <1>3 DEF Whereabouts
  <2>2. mac = KeyedMAC(<<p, side[q].initMsg>>, mac.log)
    BY <1>16 DEF KeyedMAC
  <2> QED
    BY <1>4, <1>12, <1>13, <1>15, <1>17, <2>1, <2>2 DEF Keys, Log
<1>25. Reader(p)'
  <2>1. PICK d : d = c + 1
    OBVIOUS
  <2>2. Consumed(p)' = d /\ d \in Nat /\ d >= 0 /\ d + 1 = c + 2 /\ d \div 2 = i /\ d % 2 = 0
    BY <1>4, <1>6, <1>19, <2>1
  <2>3. mac.log = SubSeq(Log(q), 1, d)
    BY <1>16, <2>1 DEF KeyedMAC
  <2>4. place = Place(Log(q), side[q].egressAes, d + 1)
    <3>1. Blocks(sent[q][i].size) \in Nat
      BY <1>9, BodyLengthIs
    <3>2. s.next - 16 = Blocks(sent[q][i].size)
      BY <1>10, <3>1
    <3> QED
      BY <1>4, <1>7, <2>2, <3>2 DEF place
  <2>5. Expects(side[p], sent[q], d)'
    BY <1>15, <2>2 DEF Expects
  <2>6. /\ Len(read'[p]) = i /\ read'[p][i] = sent[q][i]
        /\ \A k \in 1..(i - 1) : read'[p][k] = read[p][k]
    <3>1. Len(read[p]) = i - 1 /\ (i - 1) + 1 = i
      BY <1>3, <1>5, <1>6, <1>8
    <3>2. /\ Len(read'[p]) = Len(read[p]) + 1
          /\ \A k \in 1..Len(read[p]) : read'[p][k] = read[p][k]
          /\ read'[p][Len(read[p]) + 1] = sent[q][i]
      BY <1>3, <1>8, <1>14, AppendProperties
    <3> QED
      BY <3>1, <3>2
  <2>7. Framing(p)'
    <3>1. Framing(p)
      BY <1>4
    <3> QED
      BY <1>12, <1>13, <1>15, <1>17, <1>18, <2>2, <2>3, <2>4, <2>5, <2>6, <3>1 DEF Framing
  <2>8. Reader(p)
    BY <1>3 DEF Whereabouts
  <2>9. (Len(read[p]) <= Len(sent[q]))'
    BY <1>3, <1>8, <1>12, <2>6
  <2>10. ASSUME NEW k \in 1..Len(read'[p]) PROVE read'[p][k] = sent'[q][k]
    <3>1. Len(read[p]) = i - 1
      BY <1>3, <1>5, <1>6, <1>8
    <3>2. k = i \/ k \in 1..(i - 1)
      BY <1>8, <2>6
    <3> QED
      BY <1>12, <2>6, <2>8, <3>1, <3>2 DEF Reader
  <2> QED
    BY <1>3, <1>13, <1>15, <2>7, <2>9, <2>10 DEF Reader, Sides
<1>26. Whereabouts(p)'
  BY <1>19, <1>21, <1>23, <1>24, <1>25 DEF Whereabouts
<1> QED
  BY <1>21, <1>22, <1>26, BothSides
-----------------------------------------------------------------------------
(* The socket *)

\* a chunk of bytes,
LEMMA ArriveKeeps ==
    ASSUME Inv, NEW p \in Sides, Arrive(p)
    PROVE  Inv'
<1> DEFINE q == Other(p)
<1>1. PICK n \in Cuts(p) : arrived' = [arrived EXCEPT ![p] = n]
  BY DEF Arrive
<1>2. /\ side' = side /\ stream' = stream /\ sent' = sent /\ read' = read /\ damaged' = damaged
  BY DEF Arrive
<1>3. q \in Sides /\ q # p /\ Whereabouts(p) /\ arrived[p] \in Nat /\ Len(stream[p]) \in Nat
      /\ DOMAIN stream[p] = 1..Len(stream[p]) /\ arrived \in [Sides -> Nat]
  BY TwoSides, Known DEF Inv, Shapes
<1>4. n \in Nat /\ n <= BytesOf(stream[p], Len(stream[p]))
  <2>1. Lined(stream[p]) /\ side[p].next \in Nat
    BY <1>3, LinedUp DEF Whereabouts, Shape
  <2>2. \A k \in DOMAIN stream[p] : UpTo(p, k) \in Nat
    BY <1>3, <2>1, BytesGrow DEF UpTo
  <2>3. n \in Int
    BY <2>1, <2>2 DEF Cuts
  <2>4. arrived[p] < n /\ n <= UpTo(p, Len(stream[p]))
    BY DEF Cuts
  <2> QED
    BY <1>3, <2>3, <2>4 DEF UpTo
<1>5. arrived' \in [Sides -> Nat] /\ arrived'[p] = n /\ arrived'[q] = arrived[q]
  BY <1>1, <1>3, <1>4
<1>6. Rest(p)
  <2>1. Log(p)' = Log(p) /\ Began(p)' = Began(p)
    BY <1>2 DEF Log, Began, Ready
  <2> QED
    BY <1>2, <1>5, <2>1 DEF Rest
<1>7. Whereabouts(q)' /\ Written(p)' /\ Opened(p)'
  BY <1>6, RestStays
<1>8. Shapes' /\ Order'
  <2>1. Shapes /\ Order
    BY DEF Inv
  <2> QED
    BY <1>2, <1>5, <2>1 DEF Shapes, Order, Ready
<1>9. Shape(p)' /\ Keys(p)'
  <2>1. Shape(p) /\ Keys(p)
    BY <1>3 DEF Whereabouts
  <2> QED
    BY <1>2, <2>1 DEF Shape, Keys, Ready, Log
<1>10. Consumed(p)' = Consumed(p) /\ Log(q)' = Log(q) /\ Ready(p)' = Ready(p)
       /\ Began(q)' = Began(q)
  BY <1>2 DEF Consumed, Log, Ready, Began
<1>11. Underway(p)'
  <2>1. Underway(p)
    BY <1>3 DEF Whereabouts
  <2>2. ASSUME NEW k \in 1..Len(stream[p])
        PROVE  IsPacket(stream[p][k], q, Consumed(p) + k, damaged)'
    BY <1>2, <1>10, <2>1 DEF Underway, IsPacket
  <2>3. (arrived[p] <= BytesOf(stream[p], Len(stream[p])))'
    BY <1>2, <1>4, <1>5
  <2> QED
    BY <1>2, <2>2, <2>3 DEF Underway
<1>12. Reader(p)'
  <2>1. Reader(p)
    BY <1>3 DEF Whereabouts
  <2>2. Waiting(p)' = Waiting(p)
    BY <1>2, <1>10 DEF Waiting
  <2>3. Framing(p)' = Framing(p)
    BY <1>2, <1>10 DEF Framing, Answering
  <2> QED
    BY <1>2, <1>10, <2>1, <2>2, <2>3 DEF Reader
<1>13. Whereabouts(p)'
  BY <1>7, <1>9, <1>11, <1>12 DEF Whereabouts
<1> QED
  BY <1>7, <1>8, <1>13, BothSides

\* and a packet that is altered on its way.
LEMMA DamageKeeps ==
    ASSUME Inv, NEW p \in Sides, Damage(p)
    PROVE  Inv'
<1> DEFINE q == Other(p)
           packets == stream[p]
<1>1. PICK k \in DOMAIN packets : stream' = [stream EXCEPT ![p][k] = Altered(@)]
  BY DEF Damage
<1>2. /\ side' = side /\ arrived' = arrived /\ sent' = sent /\ read' = read
      /\ damaged = FALSE /\ damaged' = TRUE
  BY DEF Damage, Inv, Shapes
<1>3. /\ q \in Sides /\ q # p /\ Other(q) = p /\ Whereabouts(p) /\ Whereabouts(q)
      /\ IsSequence(packets) /\ Len(packets) \in Nat /\ DOMAIN packets = 1..Len(packets)
      /\ stream = [r \in Sides |-> stream[r]]
  BY TwoSides, Known DEF Inv, Shapes
<1> DEFINE hurt == [packets EXCEPT ![k] = Altered(packets[k])]
<1>4. /\ stream' = [r \in Sides |-> stream'[r]]
      /\ stream'[p] = hurt /\ stream'[q] = stream[q]
  BY <1>1, <1>3
<1>5. /\ IsSequence(hurt) /\ Len(hurt) = Len(packets) /\ hurt[k] = Altered(packets[k])
      /\ \A j \in 1..Len(packets) : j # k => hurt[j] = packets[j]
  <2>1. k \in 1..Len(packets)
    BY <1>3
  <2> HIDE DEF packets
  <2> QED
    BY <1>3, <2>1, ExceptIs
<1>6. /\ Ready(p)' = Ready(p) /\ Ready(q)' = Ready(q) /\ Log(p)' = Log(p) /\ Log(q)' = Log(q)
      /\ Began(p)' = Began(p) /\ Began(q)' = Began(q)
  BY <1>2 DEF Ready, Log, Began
<1>7. Consumed(p)' = Consumed(p) /\ Consumed(q)' = Consumed(q)
  BY <1>3, <1>4, <1>5, <1>6 DEF Consumed
<1>8. Shapes' /\ Order'
  <2>1. Shapes /\ Order
    BY DEF Inv
  <2> QED
    BY <1>2, <1>4, <2>1 DEF Shapes, Order, Ready
<1>9. ASSUME NEW r \in Sides PROVE Shape(r)' /\ Written(r)' /\ Keys(r)' /\ Opened(r)'
  <2>1. Shape(r) /\ Written(r) /\ Keys(r) /\ Opened(r)
    BY Known DEF Whereabouts
  <2>2. IsSequence(stream'[r])
    <3>1. r = p \/ r = q
      BY TwoSides
    <3> QED
      BY <1>4, <1>5, <2>1, <3>1 DEF Shape
  <2> QED
    BY <1>2, <2>1, <2>2 DEF Shape, Written, Keys, Opened, Ready, Log, Began
<1>10. ASSUME NEW r \in Sides PROVE Reader(r)'
  <2>1. Reader(r)
    BY Known DEF Whereabouts
  <2>2. Consumed(r)' = Consumed(r) /\ (stream[r] = <<>> => stream'[r] = <<>>)
    <3>1. packets # <<>>
      BY <1>3, LengthOf
    <3>2. r = p \/ r = q
      BY TwoSides
    <3> QED
      BY <1>4, <1>7, <3>1, <3>2
  <2>3. Log(Other(r))' = Log(Other(r)) /\ Ready(r)' = Ready(r) /\ Began(Other(r))' = Began(Other(r))
    BY <1>2 DEF Log, Ready, Began
  <2>4. Waiting(r) => Waiting(r)'
    BY <1>2, <2>2, <2>3 DEF Waiting
  <2>5. Framing(r) => Framing(r)'
    BY <1>2, <2>2, <2>3 DEF Framing, Answering
  <2> QED
    BY <1>2, <2>1, <2>3, <2>4, <2>5 DEF Reader
<1>11. Underway(q)'
  <2>1. Underway(q)
    BY <1>3 DEF Whereabouts
  <2> QED
    BY <1>2, <1>3, <1>4, <1>6, <1>7, <2>1 DEF Underway, IsPacket, IsPiece, IsOpening
<1>12. ASSUME NEW j \in 1..Len(packets)
       PROVE  /\ IsPacket(hurt[j], q, Consumed(p) + j, TRUE)
              /\ hurt[j].len = packets[j].len
  <2> DEFINE e == Consumed(p) + j
             packet == packets[j]
             mac == side[q].egressMac
             hail == side[q].initMsg
  <2>1. IsPacket(packet, q, e, FALSE)
    BY <1>2, <1>3 DEF Whereabouts, Underway
  <2>2. e \in Int /\ e <= Len(Log(q)) /\ IsLog(Log(q), side[q].egressAes, sent[q])
        /\ Len(Log(q)) \in Nat
    BY <1>3, EntriesUnderway, Known DEF Whereabouts, Written
  <2>3. hurt[j] = packet \/ hurt[j] = Altered(packet)
    BY <1>5
  <2> HIDE DEF e, packet, hurt, mac, hail
  <2>4. CASE e >= 1
    <3>1. IsPiece(packet, mac, sent[q], e, FALSE)
      BY <2>1, <2>4 DEF IsPacket, mac
    <3>2. IsEntry(Log(q), side[q].egressAes, sent[q], e)
      BY <2>2, <2>4 DEF IsLog
    <3>3. packet.content = mac.log[e] /\ packet.kind \in {"Header", "Body"}
      BY <3>1 DEF IsPiece
    <3>4. Altered(packet) = [packet EXCEPT !.content = [@ EXCEPT !.secret = NoMAC.secret]]
      BY <3>3 DEF Altered
    <3>5. /\ IsPiece(Altered(packet), mac, sent[q], e, TRUE)
          /\ Altered(packet).len = packet.len
      <4> DEFINE tag == KeyedMAC(mac.seed, SubSeq(mac.log, 1, e))
                 content == [mac.log[e] EXCEPT !.secret = NoMAC.secret]
                 len == Span(sent[q], e) + 16
      <4>1. packet = [kind |-> packet.kind, first |-> None, len |-> len,
                      content |-> packet.content, tag |-> tag]
        BY <3>1 DEF IsPiece
      <4>2. Altered(packet) = [packet EXCEPT !.content = content]
        BY <3>3, <3>4
      <4> HIDE DEF content, tag, len
      <4>3. Altered(packet) = [kind |-> packet.kind, first |-> None, len |-> len,
                               content |-> content, tag |-> tag]
        BY <4>1, <4>2
      <4>4. packet.len = len /\ Altered(packet).len = len /\ Altered(packet).kind = packet.kind
            /\ Altered(packet).content = content
        BY <4>1, <4>3
      <4> QED
        BY <3>3, <4>3, <4>4 DEF IsPiece, content, tag, len
    <3>6. IsPiece(packet, mac, sent[q], e, TRUE)
      BY <3>1 DEF IsPiece
    <3>7. IsPiece(hurt[j], mac, sent[q], e, TRUE) /\ hurt[j].len = packet.len
      BY <2>3, <3>5, <3>6
    <3> QED
      BY <2>4, <3>7 DEF IsPacket, e, packet, mac
  <2>5. CASE ~(e >= 1)
    <3>1. e = 0 /\ Began(q) /\ packet = hail
      BY <2>1, <2>5 DEF IsPacket, IsOpening, hail
    <3>2. IsHail(hail, q)
      BY <1>3, <3>1 DEF Whereabouts, Opened, hail
    <3>3. Altered(hail).len = hail.len
      BY <1>3, <3>2 DEF Altered, IsHail, Content
    <3>4. IsOpening(hurt[j], hail, TRUE) /\ hurt[j].len = packet.len
      BY <2>3, <3>1, <3>3 DEF IsOpening
    <3> QED
      BY <2>5, <3>1, <3>4 DEF IsPacket, e, packet, hail
  <2> QED
    BY <2>4, <2>5
<1>13. Underway(p)'
  <2>1. Lined(packets) /\ arrived[p] <= BytesOf(packets, Len(packets))
    BY <1>3, LinedUp DEF Whereabouts, Underway
  <2> HIDE DEF hurt, packets
  <2>2. Lined(hurt)
    BY <1>5, <1>12, <2>1 DEF Lined
  <2>3. \A j \in 1..Len(packets) : hurt[j].len = packets[j].len
    BY <1>12
  <2>4. Len(packets) <= Len(hurt) /\ Len(packets) \in 0..Len(packets)
    BY <1>3, <1>5
  <2>5. BytesOf(hurt, Len(packets)) = BytesOf(packets, Len(packets))
    BY <2>1, <2>2, <2>3, <2>4, BytesFront
  <2>6. ASSUME NEW j \in 1..Len(packets)
        PROVE  IsPacket(stream[p][j], q, Consumed(p) + j, damaged)'
    BY <1>2, <1>4, <1>6, <1>7, <1>12 DEF IsPacket
  <2>7. (arrived[p] <= BytesOf(stream[p], Len(stream[p])))'
    BY <1>2, <1>4, <1>5, <2>1, <2>5
  <2> QED
    BY <1>4, <1>5, <2>6, <2>7 DEF Underway
<1>14. Whereabouts(p)' /\ Whereabouts(q)'
  BY <1>3, <1>9, <1>10, <1>11, <1>13 DEF Whereabouts
<1> QED
  BY <1>8, <1>14, BothSides
-----------------------------------------------------------------------------
(* A message of p *)

Header(end, size)  == [secret |-> Secret, position |-> end, plain |-> SizeField(size)]
Body(end, message) == [secret |-> Secret, position |-> end + 16, plain |-> message]

\* What was written stays as it was, and two entries are added.
Grown(log, end, m, size, log2, end2, m2) ==
    LET n == Len(log)
        message == [n |-> Len(m) + 1, size |-> size]
        h == Header(end, size)
        b == Body(end, message)
    IN  /\ IsSequence(log2) /\ Len(log2) = n + 2
        /\ m2 \in Seq(Messages) /\ Len(m2) = Len(m) + 1
        /\ \A i \in 1..Len(m) : m2[i] = m[i]
        /\ m2[Len(m) + 1] = message
        /\ \A j \in 1..n : log2[j] = log[j] /\ Span(m2, j) = Span(m, j)
        /\ \A j \in 1..(n + 1) : Place(log2, end2, j) = Place(log, end, j)
        /\ \A j \in 0..n : SubSeq(log2, 1, j) = SubSeq(log, 1, j)
        /\ log2[n + 1] = h /\ log2[n + 2] = b
        /\ Span(m2, n + 1) = 16 /\ Span(m2, n + 2) = Blocks(size)
        /\ SubSeq(log2, 1, n + 1) = Append(log, h)
        /\ SubSeq(log2, 1, n + 2) = log2
        /\ log2 = Append(Append(log, h), b)
        /\ IsLog(log2, end2, m2)

\* The log of the writer grows by the two pieces of a message.
LEMMA LogGrows ==
    ASSUME NEW log, IsSequence(log), NEW end, NEW m, m \in Seq(Messages), IsLog(log, end, m),
           NEW size \in Nat, NEW message, message = [n |-> Len(m) + 1, size |-> size],
           NEW log2, log2 = Append(Append(log, Header(end, size)), Body(end, message)),
           NEW m2, m2 = Append(m, message),
           NEW end2, end2 = end + 16 + Blocks(size)
    PROVE  Grown(log, end, m, size, log2, end2, m2)
<1> DEFINE n == Len(log)
           h == Header(end, size)
           b == Body(end, message)
           log1 == Append(log, h)
<1>1. n \in Nat /\ Len(m) \in Nat /\ n = 2 * Len(m) /\ end \in Nat /\ Blocks(size) \in Nat
  <2>1. n \in Nat /\ Len(m) \in Nat
    BY LengthOf
  <2>2. n = 2 * Len(m)
    BY DEF IsLog
  <2>3. end \in Nat
    BY PlaceIs
  <2>4. Blocks(size) \in Nat
    BY BodyLengthIs
  <2> QED
    BY <2>1, <2>2, <2>3, <2>4
<1>2. message \in Messages
  BY <1>1 DEF Messages
<1>3. /\ m2 \in Seq(Messages) /\ Len(m2) = Len(m) + 1
      /\ \A i \in 1..Len(m) : m2[i] = m[i]
      /\ m2[Len(m) + 1] = message
  BY <1>2, AppendProperties
<1> HIDE DEF h, b
<1>4. /\ IsSequence(log1) /\ Len(log1) = n + 1
      /\ \A j \in 1..n : log1[j] = log[j]
      /\ log1[n + 1] = h
  BY AppendIs
<1>5. /\ IsSequence(log2) /\ Len(log2) = Len(log1) + 1
      /\ \A j \in 1..Len(log1) : log2[j] = log1[j]
      /\ log2[Len(log1) + 1] = b
  <2>1. log2 = Append(log1, b)
    BY DEF h, b
  <2> HIDE DEF log1
  <2> QED
    BY <1>4, <2>1, AppendIs
<1> HIDE DEF n, log1
<1>6. /\ Len(log2) = n + 2 /\ log2[n + 1] = h /\ log2[n + 2] = b
      /\ \A j \in 1..n : log2[j] = log[j]
  <2>1. Len(log1) + 1 = n + 2
    BY <1>1, <1>4
  <2>2. n + 1 \in 1..Len(log1) /\ \A j \in 1..n : j \in 1..Len(log1)
    BY <1>1, <1>4
  <2>3. Len(log2) = n + 2 /\ log2[n + 2] = b
    BY <1>5, <2>1
  <2> QED
    BY <1>4, <1>5, <2>2, <2>3
<1>7. \A j \in 1..n : (j + 1) \div 2 \in 1..Len(m) /\ m2[(j + 1) \div 2] = m[(j + 1) \div 2]
  <2>1. \A j \in 1..n : (j + 1) \div 2 \in 1..Len(m)
    BY <1>1
  <2> QED
    BY <1>3, <2>1
<1>8. \A j \in 1..n : Span(m2, j) = Span(m, j) /\ Text(m2, j) = Text(m, j)
  BY <1>7 DEF Span, Text
<1>9. /\ (n + 1) % 2 = 1 /\ (n + 2) % 2 = 0
      /\ (n + 1 + 1) \div 2 = Len(m) + 1 /\ (n + 2 + 1) \div 2 = Len(m) + 1
  BY <1>1
<1>10. /\ Span(m2, n + 1) = 16 /\ Span(m2, n + 2) = Blocks(size)
       /\ Text(m2, n + 1) = SizeField(size) /\ Text(m2, n + 2) = message
  BY <1>3, <1>9 DEF Span, Text
<1>11. \A j \in 1..(n + 1) : Place(log2, end2, j) = Place(log, end, j)
  <2>1. ASSUME NEW j \in 1..n PROVE Place(log2, end2, j) = Place(log, end, j)
    BY <1>1, <1>6 DEF Place, n
  <2>2. Place(log2, end2, n + 1) = end /\ Place(log, end, n + 1) = end
    BY <1>1, <1>6 DEF Place, n, h, Header
  <2>3. ASSUME NEW j \in 1..(n + 1) PROVE j = n + 1 \/ j \in 1..n
    <3>1. n \in Nat
      BY <1>1
    <3> QED
      BY <3>1
  <2> QED
    BY <2>1, <2>2, <2>3
<1>12. Place(log2, end2, n + 1) = end /\ Place(log2, end2, n + 2) = end + 16
       /\ Place(log2, end2, n + 3) = end2
  <2>1. n + 1 # n + 2 + 1 /\ n + 2 # n + 2 + 1 /\ n + 3 = n + 2 + 1
    BY <1>1
  <2>2. Len(log2) + 1 = n + 2 + 1
    BY <1>6
  <2>3. h.position = end /\ b.position = end + 16
    BY DEF h, b, Header, Body
  <2> QED
    BY <1>6, <2>1, <2>2, <2>3 DEF Place
<1>13. \A j \in 0..n : SubSeq(log2, 1, j) = SubSeq(log, 1, j)
  BY <1>1, <1>5, <1>6, FrontOfAppend DEF n
<1>14. SubSeq(log2, 1, n + 1) = log1 /\ SubSeq(log2, 1, n + 2) = log2
  <2>1. SubSeq(log1, 1, n + 1) = log1 /\ SubSeq(log2, 1, n + 2) = log2
    <3>1. n + 1 \in 0..Len(log1) /\ n + 2 \in 0..Len(log2)
      BY <1>1, <1>4, <1>6
    <3>2. /\ IsSequence(SubSeq(log1, 1, n + 1)) /\ Len(SubSeq(log1, 1, n + 1)) = n + 1
          /\ \A k \in 1..(n + 1) : SubSeq(log1, 1, n + 1)[k] = log1[k]
      BY <1>4, <3>1, FrontIs
    <3>3. /\ IsSequence(SubSeq(log2, 1, n + 2)) /\ Len(SubSeq(log2, 1, n + 2)) = n + 2
          /\ \A k \in 1..(n + 2) : SubSeq(log2, 1, n + 2)[k] = log2[k]
      BY <1>5, <3>1, FrontIs
    <3>4. SubSeq(log1, 1, n + 1) = log1
      BY <1>4, <3>2, SameItems
    <3>5. SubSeq(log2, 1, n + 2) = log2
      BY <1>5, <1>6, <3>3, SameItems
    <3> QED
      BY <3>4, <3>5
  <2>2. SubSeq(log2, 1, n + 1) = SubSeq(log1, 1, n + 1)
    <3>1. n + 1 \in 0..Len(log1) /\ Len(log1) <= Len(log2)
      BY <1>1, <1>4, <1>6
    <3> QED
      BY <1>4, <1>5, <3>1, FrontOfAppend
  <2> QED
    BY <2>1, <2>2
<1>15. IsLog(log2, end2, m2)
  <2>1. Len(log2) = 2 * Len(m2)
    BY <1>1, <1>3, <1>6
  <2>2. Place(log2, end2, 1) = 0
    BY <1>1, <1>11 DEF IsLog
  <2>3. ASSUME NEW j \in 1..n PROVE IsEntry(log2, end2, m2, j)
    <3>1. IsEntry(log, end, m, j)
      BY DEF IsLog, n
    <3>2. j \in 1..(n + 1) /\ j + 1 \in 1..(n + 1)
      BY <1>1
    <3> QED
      BY <1>6, <1>8, <1>11, <3>1, <3>2 DEF IsEntry
  <2>4. IsEntry(log2, end2, m2, n + 1)
    <3>1. (n + 1) + 1 = n + 2
      BY <1>1
    <3> QED
      BY <1>1, <1>6, <1>10, <1>12, <3>1 DEF IsEntry, h, Header
  <2>5. IsEntry(log2, end2, m2, n + 2)
    <3>1. (n + 2) + 1 = n + 3
      BY <1>1
    <3> QED
      BY <1>1, <1>6, <1>10, <1>12, <3>1 DEF IsEntry, b, Body
  <2>6. \A j \in 1..Len(log2) : j \in 1..n \/ j = n + 1 \/ j = n + 2
    BY <1>1, <1>6
  <2> QED
    BY <2>1, <2>2, <2>3, <2>4, <2>5, <2>6 DEF IsLog
<1> QED
  <2>1. message = [n |-> Len(m) + 1, size |-> size] /\ log2 = Append(Append(log, h), b)
    BY DEF h, b
  <2> QED
    BY <1>3, <1>5, <1>6, <1>8, <1>10, <1>11, <1>13, <1>14, <1>15, <2>1, Zenon
    DEF Grown, n, h, b, log1

\* p with the keys that it has, or that it gets with this message.
IsKeyed(p, s) ==
    LET q == Other(p)
    IN  /\ IsSide(s)
        /\ s.state = side[p].state /\ s.next = side[p].next /\ s.gotEIP8 = side[p].gotEIP8
        /\ s.remote = side[p].remote /\ s.bodySize = side[p].bodySize
        /\ s.ingressAes = side[p].ingressAes /\ s.egressAes = side[p].egressAes
        /\ IsHail(s.initMsg, p)
        /\ s.ingressMac = KeyedMAC(<<p, side[q].initMsg>>, SubSeq(Log(q), 1, Consumed(p)))
        /\ s.egressMac = KeyedMAC(<<q, s.initMsg>>, Log(p))

\* p sends a message, the listener its first one behind ACK.
Saying(p, s, size, before) ==
    /\ IsKeyed(p, s)
    /\ Framing(p)
    /\ size \in Nat /\ size > 0
    /\ Len(sent[p]) < MaxFrames
    /\ \/ before = <<>> /\ s.initMsg = side[p].initMsg /\ s.egressMac = side[p].egressMac
          /\ Ready(p)
       \/ before = <<s.initMsg>> /\ p = "listener" /\ ~Ready(p) /\ ~Ready(Other(p))
          /\ stream[Other(p)] = <<>> /\ sent[p] = <<>>
    /\ Sends(p, s, size, before)
    /\ arrived' = arrived /\ read' = read /\ damaged' = damaged

\* The two pieces of a message.
HeaderPiece(seed, log, h)       == Piece("Header", 32, h, KeyedMAC(seed, Append(log, h)))
BodyPiece(seed, log, h, b, len) == Piece("Body", len, b, KeyedMAC(seed, Append(Append(log, h), b)))

\* A MAC with keys is updated by what is appended to its log.
LEMMA UpdatedIs ==
    ASSUME NEW seed, NEW log, NEW x
    PROVE  Updated(KeyedMAC(seed, log), x) = KeyedMAC(seed, Append(log, x))
BY DEF Updated, KeyedMAC

\* What is written, and where it goes.
Said(p, s, size, before) ==
    LET q == Other(p)
        t == side'[p]
        seed == <<q, s.initMsg>>
        message == [n |-> Len(sent[p]) + 1, size |-> size]
        h == Header(side[p].egressAes, size)
        b == Body(side[p].egressAes, message)
    IN  /\ side' = [r \in Sides |-> side'[r]] /\ side'[q] = side[q]
        /\ IsSide(t) /\ t.gotEIP8 = side[p].gotEIP8 /\ t.next = side[p].next
        /\ t.state = side[p].state /\ t.tick = "none" /\ t.remote = side[p].remote
        /\ t.bodySize = side[p].bodySize /\ t.initMsg = s.initMsg
        /\ t.ingressMac = s.ingressMac
        /\ t.egressMac = KeyedMAC(seed, Append(Append(Log(p), h), b))
        /\ t.ingressAes = side[p].ingressAes
        /\ t.egressAes = side[p].egressAes + 16 + Blocks(size)
        /\ stream' = [r \in Sides |-> stream'[r]] /\ stream'[p] = stream[p]
        /\ stream'[q] = (stream[q] \o before)
             \o <<HeaderPiece(seed, Log(p), h), BodyPiece(seed, Log(p), h, b, Blocks(size) + 16)>>
        /\ sent' = [r \in Sides |-> sent'[r]] /\ sent'[q] = sent[q]
        /\ sent'[p] = Append(sent[p], message)

\* A message is written like that.
LEMMA SaidIs ==
    ASSUME Inv, NEW p \in Sides, NEW s, NEW size, NEW before, Saying(p, s, size, before)
    PROVE  Said(p, s, size, before)
<1> DEFINE q == Other(p)
           t == side'[p]
           seed == <<q, s.initMsg>>
           message == [n |-> Len(sent[p]) + 1, size |-> size]
           h == Header(side[p].egressAes, size)
           b == Body(side[p].egressAes, message)
           frame == Frame(s, message)
           m1 == KeyedMAC(seed, Append(Log(p), h))
           m2 == KeyedMAC(seed, Append(Append(Log(p), h), b))
           len == Blocks(size) + 16
<1>1. q \in Sides /\ q # p
  BY TwoSides
<1>2. /\ sent' = [sent EXCEPT ![p] = Append(@, message)]
      /\ stream' = [stream EXCEPT ![q] = @ \o before \o frame]
      /\ side' = [side EXCEPT ![p] = [s EXCEPT !.egressMac = frame[2].tag, !.tick = "none",
                                               !.egressAes = @ + 16 + Blocks(size)]]
  BY DEF Saying, Sends
<1>3. /\ IsSide(s) /\ s.egressMac = KeyedMAC(seed, Log(p)) /\ s.egressAes = side[p].egressAes
      /\ s.state = side[p].state /\ s.next = side[p].next /\ s.gotEIP8 = side[p].gotEIP8
      /\ s.remote = side[p].remote /\ s.bodySize = side[p].bodySize
      /\ s.ingressAes = side[p].ingressAes
  BY DEF Saying, IsKeyed
<1>4. message.size = size
  OBVIOUS
<1> HIDE DEF message, seed
<1>5. /\ Cipher(s, s.egressAes, SizeField(message.size)) = h
      /\ Cipher(s, s.egressAes + 16, message) = b
  BY <1>3, <1>4 DEF Cipher, KeyedMAC, Header, Body
<1> HIDE DEF h, b
<1>6. Updated(s.egressMac, h) = m1 /\ Updated(m1, b) = m2
  BY <1>3, UpdatedIs DEF m1, m2
<1>7. frame = <<Piece("Header", 32, h, m1), Piece("Body", len, b, m2)>>
  BY <1>4, <1>5, <1>6 DEF Frame
<1>8. frame[2].tag = m2
  BY <1>7 DEF Piece
<1> HIDE DEF m1, m2, frame, len
<1>9. /\ side' = [r \in Sides |-> side'[r]] /\ side'[q] = side[q]
      /\ t = [s EXCEPT !.egressMac = m2, !.tick = "none", !.egressAes = @ + 16 + Blocks(size)]
  <2>1. side = [r \in Sides |-> side[r]]
    BY DEF Inv, Shapes
  <2> QED
    BY <1>1, <1>2, <1>8, <2>1
<1>10. /\ IsSide(t) /\ t.gotEIP8 = side[p].gotEIP8 /\ t.next = side[p].next
       /\ t.state = side[p].state /\ t.tick = "none" /\ t.remote = side[p].remote
       /\ t.bodySize = side[p].bodySize /\ t.initMsg = s.initMsg
       /\ t.ingressMac = s.ingressMac /\ t.egressMac = m2
       /\ t.ingressAes = side[p].ingressAes
       /\ t.egressAes = side[p].egressAes + 16 + Blocks(size)
  BY <1>3, <1>9 DEF IsSide
<1>11. /\ stream' = [r \in Sides |-> stream'[r]] /\ stream'[p] = stream[p]
       /\ stream'[q] = (stream[q] \o before) \o frame
  <2>1. stream = [r \in Sides |-> stream[r]]
    BY DEF Inv, Shapes
  <2> QED
    BY <1>1, <1>2, <2>1
<1>12. /\ sent' = [r \in Sides |-> sent'[r]] /\ sent'[q] = sent[q]
       /\ sent'[p] = Append(sent[p], message)
  <2>1. sent = [r \in Sides |-> sent[r]]
    BY DEF Inv, Shapes
  <2> QED
    BY <1>1, <1>2, <2>1
<1>13. frame = <<HeaderPiece(seed, Log(p), h), BodyPiece(seed, Log(p), h, b, len)>>
  BY <1>7 DEF HeaderPiece, BodyPiece, m1, m2
<1> QED
  BY <1>9, <1>10, <1>11, <1>12, <1>13, Zenon DEF Said, q, t, seed, message, h, b, m2, len

\* What p has written then.
LEMMA SaidWritten ==
    ASSUME Inv, NEW p \in Sides, NEW s, NEW size, NEW before, Saying(p, s, size, before)
    PROVE  Grown(Log(p), side[p].egressAes, sent[p], size,
                 Log(p)', side'[p].egressAes, sent'[p])
<1>1. PICK log, end, m, log2, end2, m2 :
         /\ log = Log(p) /\ end = side[p].egressAes /\ m = sent[p]
         /\ log2 = Log(p)' /\ end2 = side'[p].egressAes /\ m2 = sent'[p]
  OBVIOUS
<1>2. IsSequence(log) /\ m \in Seq(Messages) /\ IsLog(log, end, m)
  BY <1>1, Known DEF Whereabouts, Written
<1>3. size \in Nat
  BY DEF Saying
<1>4. PICK message, h, b : message = [n |-> Len(m) + 1, size |-> size]
                           /\ h = Header(end, size) /\ b = Body(end, message)
  OBVIOUS
<1>5. Said(p, s, size, before)
  BY SaidIs
<1>6. /\ side'[p].egressMac = KeyedMAC(<<Other(p), s.initMsg>>, Append(Append(log, h), b))
      /\ m2 = Append(m, message)
      /\ end2 = end + 16 + Blocks(size)
  BY <1>1, <1>4, <1>5 DEF Said
<1>7. log2 = Append(Append(log, h), b)
  <2>1. PICK grown : grown = Append(Append(log, h), b)
    OBVIOUS
  <2>2. side'[p].egressMac = KeyedMAC(<<Other(p), s.initMsg>>, grown)
    BY <1>6, <2>1
  <2>3. side'[p].egressMac.log = grown
    BY <2>2 DEF KeyedMAC
  <2>4. log2 = grown
    BY <1>1, <2>3 DEF Log
  <2> QED
    BY <2>1, <2>4
<1>8. Grown(log, end, m, size, log2, end2, m2)
  <2>1. log2 = Append(Append(log, Header(end, size)), Body(end, message))
    BY <1>4, <1>7
  <2> QED
    BY <1>2, <1>3, <1>4, <1>6, <2>1, LogGrows
<1> QED
  BY <1>1, <1>8

\* The packets on their way to the other side are those that were, ACK if it
\* is sent, and the two pieces.
LEMMA SaidUnderway ==
    ASSUME Inv, NEW p \in Sides, NEW s, NEW size, NEW before, Saying(p, s, size, before)
    PROVE  LET q == Other(p)
           IN  /\ Underway(q)'
               /\ IsSequence(stream'[q])
               /\ Consumed(q)' = IF Ready(p) THEN Consumed(q) ELSE -1
               /\ Ready(p)' /\ Ready(q)' = Ready(q) /\ Log(q)' = Log(q)
<1> DEFINE q == Other(p)
           n == Len(Log(p))
           old == stream[q]
           mid == stream[q] \o before
           seed == <<q, s.initMsg>>
           h == Header(side[p].egressAes, size)
           b == Body(side[p].egressAes, [n |-> Len(sent[p]) + 1, size |-> size])
           hp == HeaderPiece(seed, Log(p), h)
           bp == BodyPiece(seed, Log(p), h, b, Blocks(size) + 16)
           new == stream'[q]
           mac == side'[p].egressMac
           t == side'[p]
<1>1. /\ q \in Sides /\ q # p /\ Other(q) = p /\ n \in Nat /\ n = 2 * Len(sent[p])
      /\ IsSequence(old) /\ Len(old) \in Nat /\ arrived[q] \in Nat /\ Whereabouts(q)
      /\ Whereabouts(p) /\ Len(sent[p]) \in Nat
  BY TwoSides, Known
<1>2. /\ side'[q] = side[q] /\ t.initMsg = s.initMsg /\ t.ingressMac = s.ingressMac
      /\ mac = KeyedMAC(seed, Append(Append(Log(p), h), b))
      /\ new = mid \o <<hp, bp>>
  <2>1. Said(p, s, size, before)
    BY SaidIs
  <2> QED
    BY <2>1 DEF Said
<1>3. s.ingressMac = KeyedMAC(<<p, side[q].initMsg>>, SubSeq(Log(q), 1, Consumed(p)))
  BY DEF Saying, IsKeyed
<1>4. Ready(p)' /\ Ready(q)' = Ready(q) /\ Log(q)' = Log(q)
  <2>1. s.ingressMac.secret.shared = Sides /\ NoMAC.secret.shared = {} /\ Sides # {}
    BY <1>3 DEF KeyedMAC, Secret, NoMAC, Sides
  <2>2. Ready(p)'
    BY <1>2, <2>1 DEF Ready
  <2> QED
    BY <1>2, <2>2 DEF Ready, Log
<1>5. Blocks(size) \in Nat
  BY BodyLengthIs DEF Saying
<1>6. \/ before = <<>> /\ s.initMsg = side[p].initMsg /\ s.egressMac = side[p].egressMac
         /\ Ready(p)
      \/ before = <<s.initMsg>> /\ ~Ready(p) /\ old = <<>> /\ sent[p] = <<>>
  BY DEF Saying
<1>7. /\ hp = [kind |-> "Header", first |-> None, len |-> 32, content |-> h,
               tag |-> KeyedMAC(seed, Append(Log(p), h))]
      /\ bp = [kind |-> "Body", first |-> None, len |-> Blocks(size) + 16, content |-> b,
               tag |-> KeyedMAC(seed, Append(Append(Log(p), h), b))]
  <2> HIDE DEF h, b, seed
  <2> QED
    BY DEF HeaderPiece, BodyPiece, Piece
<1> HIDE DEF h, b, seed
<1>8. /\ mac.seed = seed
      /\ Len(mac.log) = n + 2 /\ IsSequence(mac.log)
      /\ \A j \in 1..n : mac.log[j] = Log(p)[j] /\ Span(sent'[p], j) = Span(sent[p], j)
      /\ \A j \in 0..n : SubSeq(mac.log, 1, j) = SubSeq(Log(p), 1, j)
      /\ mac.log[n + 1] = h /\ mac.log[n + 2] = b
      /\ Span(sent'[p], n + 1) = 16 /\ Span(sent'[p], n + 2) = Blocks(size)
      /\ SubSeq(mac.log, 1, n + 1) = Append(Log(p), h)
      /\ SubSeq(mac.log, 1, n + 2) = Append(Append(Log(p), h), b)
  <2>1. mac.seed = seed
    BY <1>2 DEF KeyedMAC
  <2>2. /\ Len(mac.log) = n + 2 /\ IsSequence(mac.log)
        /\ \A j \in 1..n : mac.log[j] = Log(p)[j] /\ Span(sent'[p], j) = Span(sent[p], j)
        /\ \A j \in 0..n : SubSeq(mac.log, 1, j) = SubSeq(Log(p), 1, j)
        /\ mac.log[n + 1] = h /\ mac.log[n + 2] = b
        /\ Span(sent'[p], n + 1) = 16 /\ Span(sent'[p], n + 2) = Blocks(size)
        /\ SubSeq(mac.log, 1, n + 1) = Append(Log(p), h)
        /\ SubSeq(mac.log, 1, n + 2) = Append(Append(Log(p), h), b)
    <3>1. Grown(Log(p), side[p].egressAes, sent[p], size, Log(p)', side'[p].egressAes, sent'[p])
      BY SaidWritten
    <3>2. Log(p)' = mac.log
      BY DEF Log
    <3> QED
      BY <3>1, <3>2, Zenon DEF Grown, h, b
  <2> QED
    BY <2>1, <2>2, Zenon
<1> DEFINE w == Len(before)
<1>9. /\ IsSequence(before) /\ w \in Nat
      /\ IF Ready(p) THEN w = 0 ELSE w = 1 /\ Len(old) = 0 /\ n = 0 /\ before[1] = s.initMsg
  <2>1. CASE Ready(p)
    BY <1>6, <2>1, EmptyIs
  <2>2. CASE ~Ready(p)
    <3>1. before = <<s.initMsg>> /\ old = <<>> /\ sent[p] = <<>>
      BY <1>6, <2>2
    <3>2. IsSequence(before)
      <4>1. before \in Seq({s.initMsg})
        BY <3>1
      <4> QED
        BY <4>1 DEF IsSequence
    <3>3. Len(before) = 1 /\ before[1] = s.initMsg
      BY <3>1
    <3>4. Len(old) = 0 /\ Len(sent[p]) = 0
      BY <3>1, EmptyIs
    <3> HIDE DEF old
    <3> QED
      BY <1>1, <2>2, <3>2, <3>3, <3>4
  <2> QED
    BY <2>1, <2>2
<1>10. /\ IsSequence(mid) /\ Len(mid) = Len(old) + w
       /\ \A k \in 1..Len(old) : mid[k] = old[k]
       /\ \A k \in (Len(old) + 1)..(Len(old) + w) : mid[k] = before[k - Len(old)]
  BY <1>1, <1>9, ConcatIs
<1> HIDE DEF mid, old, hp, bp
<1> DEFINE frame == <<hp, bp>>
<1>11. IsSequence(frame) /\ Len(frame) = 2 /\ frame[1] = hp /\ frame[2] = bp
  <2>1. frame \in Seq({hp, bp})
    OBVIOUS
  <2>2. IsSequence(frame)
    BY <2>1 DEF IsSequence
  <2> QED
    BY <2>2
<1>12. /\ IsSequence(new) /\ Len(new) = Len(mid) + 2
       /\ \A k \in 1..Len(mid) : new[k] = mid[k]
       /\ \A k \in (Len(mid) + 1)..(Len(mid) + 2) : new[k] = frame[k - Len(mid)]
  <2> HIDE DEF frame, new
  <2>1. new = mid \o frame
    BY <1>2 DEF frame, new
  <2>2. /\ IsSequence(mid \o frame)
        /\ Len(mid \o frame) = Len(mid) + Len(frame)
        /\ \A k \in 1..Len(mid) : (mid \o frame)[k] = mid[k]
        /\ \A k \in (Len(mid) + 1)..(Len(mid) + Len(frame)) :
             (mid \o frame)[k] = frame[k - Len(mid)]
    BY <1>10, <1>11, ConcatIs, Zenon
  <2>3. Len(frame) = 2
    BY <1>11
  <2> QED
    BY <2>1, <2>2, <2>3
<1> HIDE DEF frame, new, w, n
<1>13. /\ Len(new) = Len(old) + w + 2 /\ Len(new) \in Nat
       /\ \A k \in 1..Len(old) : new[k] = old[k]
       /\ w = 1 => new[1] = s.initMsg
       /\ new[Len(old) + w + 1] = hp /\ new[Len(old) + w + 2] = bp
  <2>1. Len(mid) \in Nat /\ Len(mid) = Len(old) + w
    BY <1>1, <1>9, <1>10
  <2>2. Len(new) = Len(old) + w + 2 /\ Len(new) \in Nat
    BY <1>1, <1>9, <1>12, <2>1
  <2>3. ASSUME NEW k \in 1..Len(old) PROVE new[k] = old[k]
    <3>1. k \in 1..Len(mid)
      BY <1>1, <1>9, <2>1
    <3> QED
      BY <1>10, <1>12, <3>1
  <2>4. ASSUME w = 1 PROVE new[1] = s.initMsg
    <3>1. Len(old) = 0 /\ before[1] = s.initMsg
      BY <1>9, <2>4
    <3>2. 1 \in 1..Len(mid) /\ 1 \in (Len(old) + 1)..(Len(old) + w) /\ 1 - Len(old) = 1
      BY <2>1, <2>4, <3>1
    <3> QED
      BY <1>10, <1>12, <3>1, <3>2
  <2>5. new[Len(mid) + 1] = frame[1] /\ new[Len(mid) + 2] = frame[2]
    <3>1. /\ Len(mid) + 1 \in (Len(mid) + 1)..(Len(mid) + 2) /\ Len(mid) + 1 - Len(mid) = 1
          /\ Len(mid) + 2 \in (Len(mid) + 1)..(Len(mid) + 2) /\ Len(mid) + 2 - Len(mid) = 2
      BY <2>1
    <3> QED
      BY <1>12, <3>1
  <2> QED
    BY <1>11, <2>1, <2>2, <2>3, <2>4, <2>5
<1>14. Consumed(q) = n - Len(old) /\ Consumed(q)' = n - Len(old) - w
  <2>1. Consumed(q) = n - Len(old)
    BY <1>1 DEF Consumed, n, old
  <2>2. Consumed(q)' = Len(mac.log) - Len(new)
    BY <1>1 DEF Consumed, Log, new
  <2> HIDE DEF mac
  <2> QED
    BY <1>1, <1>8, <1>9, <1>13, <2>1, <2>2
<1>15. Began(p)'
  BY <1>4 DEF Began
<1>16. damaged' = damaged /\ arrived' = arrived
  BY DEF Saying
<1>17. ASSUME NEW k \in 1..Len(old)
       PROVE  IsPacket(stream[q][k], p, Consumed(q) + k, damaged)'
  <2>1. w = 0 /\ Ready(p)
    BY <1>1, <1>9
  <2>2. side[p].egressMac = s.egressMac /\ s.initMsg = side[p].initMsg
    <3>1. Ready(p)
      BY <2>1
    <3> QED
      BY <1>6, <3>1
  <2>3. PICK j : j = Consumed(q) + k
    OBVIOUS
  <2>4. j = Consumed(q)' + k /\ j \in Int /\ j <= n
    BY <1>1, <1>14, <2>1, <2>3
  <2>5. PICK packet : packet = old[k]
    OBVIOUS
  <2>6. IsPacket(packet, p, j, damaged)
    BY <1>1, <2>3, <2>5 DEF Whereabouts, Underway, old
  <2>7. IsPacket(packet, p, j, damaged)'
    <3> HIDE DEF mac
    <3>1. CASE j >= 1
      <4>1. IsPiece(packet, side[p].egressMac, sent[p], j, damaged)
        BY <2>6, <3>1 DEF IsPacket
      <4>2. j \in 1..n /\ j \in 0..n
        BY <1>1, <2>4, <3>1
      <4>3. side[p].egressMac.seed = seed /\ side[p].egressMac.log = Log(p)
        BY <2>2 DEF Log, Saying, IsKeyed, KeyedMAC, seed
      <4>4. /\ mac.seed = side[p].egressMac.seed
            /\ SubSeq(mac.log, 1, j) = SubSeq(side[p].egressMac.log, 1, j)
            /\ mac.log[j] = side[p].egressMac.log[j]
            /\ Span(sent'[p], j) = Span(sent[p], j)
        BY <1>8, <4>2, <4>3
      <4>5. IsPiece(packet, mac, sent'[p], j, damaged)
        BY <4>1, <4>4 DEF IsPiece
      <4> QED
        BY <1>16, <3>1, <4>5 DEF IsPacket, mac
    <3>2. CASE ~(j >= 1)
      <4>1. j = 0 /\ IsOpening(packet, side[p].initMsg, damaged)
        BY <2>6, <3>2 DEF IsPacket
      <4> QED
        BY <1>2, <1>15, <1>16, <2>2, <3>2, <4>1 DEF IsPacket
    <3> QED
      BY <3>1, <3>2
  <2>8. stream'[q][k] = packet
    BY <1>13, <2>5 DEF new
  <2> QED
    BY <2>4, <2>7, <2>8
<1>18. ASSUME NEW k, w = 1, k = 1
       PROVE  IsPacket(stream[q][k], p, Consumed(q) + k, damaged)'
  <2>1. PICK packet, j : packet = stream'[q][k] /\ j = Consumed(q)' + k
    OBVIOUS
  <2>2. packet = s.initMsg
    BY <1>13, <1>18, <2>1 DEF new
  <2>3. j = 0
    BY <1>9, <1>14, <1>18, <2>1
  <2>4. IsPacket(packet, p, j, damaged)'
    BY <1>2, <1>15, <2>2, <2>3 DEF IsPacket, IsOpening
  <2> QED
    BY <2>1, <2>4
<1>19. ASSUME NEW k, k = Len(old) + w + 1 \/ k = Len(old) + w + 2
       PROVE  IsPacket(stream[q][k], p, Consumed(q) + k, damaged)'
  <2>1. PICK packet, j, span, i :
          /\ packet = stream'[q][k] /\ j = Consumed(q)' + k
          /\ i = IF k = Len(old) + w + 1 THEN 1 ELSE 2
          /\ span = IF i = 1 THEN 16 ELSE Blocks(size)
    OBVIOUS
  <2>2. j = n + i /\ j >= 1
    <3>1. /\ n \in Nat /\ w \in Nat /\ Len(old) \in Nat
          /\ j = n - Len(old) - w + k
      BY <1>1, <1>9, <1>14, <2>1
    <3>2. (i = 1 /\ k = Len(old) + w + 1) \/ (i = 2 /\ k = Len(old) + w + 2)
      BY <1>19, <2>1
    <3> QED
      BY <3>1, <3>2
  <2>3. /\ packet = IF i = 1 THEN hp ELSE bp
        /\ i \in {1, 2}
    BY <1>1, <1>9, <1>13, <1>19, <2>1 DEF new
  <2>4. /\ packet = [kind |-> IF i = 1 THEN "Header" ELSE "Body", first |-> None,
                     len |-> span + 16, content |-> mac.log[j],
                     tag |-> KeyedMAC(seed, SubSeq(mac.log, 1, j))]
        /\ Span(sent'[p], j) = span
    <3> HIDE DEF mac
    <3>1. CASE i = 1
      <4>1. packet = hp /\ j = n + 1 /\ span = 16 /\ span + 16 = 32
        BY <2>1, <2>2, <2>3, <3>1
      <4>2. mac.log[j] = h /\ SubSeq(mac.log, 1, j) = Append(Log(p), h) /\ Span(sent'[p], j) = span
        BY <1>8, <4>1
      <4> QED
        BY <1>7, <3>1, <4>1, <4>2
    <3>2. CASE i = 2
      <4>1. packet = bp /\ j = n + 2 /\ span = Blocks(size)
        BY <2>1, <2>2, <2>3, <3>2
      <4>2. /\ mac.log[j] = b /\ SubSeq(mac.log, 1, j) = Append(Append(Log(p), h), b)
            /\ Span(sent'[p], j) = span
        BY <1>8, <4>1
      <4>3. (IF i = 1 THEN "Header" ELSE "Body") = "Body" /\ span + 16 = Blocks(size) + 16
        BY <3>2, <4>1
      <4> QED
        BY <1>7, <4>1, <4>2, <4>3, Zenon
    <3> QED
      BY <2>3, <3>1, <3>2
  <2>5. IsPiece(packet, mac, sent'[p], j, damaged')
    <3>1. PICK kind, content, tag :
            /\ kind = IF i = 1 THEN "Header" ELSE "Body"
            /\ content = mac.log[j] /\ tag = KeyedMAC(seed, SubSeq(mac.log, 1, j))
      OBVIOUS
    <3>2. packet = [kind |-> kind, first |-> None, len |-> span + 16, content |-> content,
                    tag |-> tag]
      BY <2>4, <3>1
    <3> HIDE DEF mac
    <3>3. packet.kind = kind /\ packet.content = content /\ kind \in {"Header", "Body"}
      BY <3>1, <3>2
    <3>4. tag = KeyedMAC(mac.seed, SubSeq(mac.log, 1, j)) /\ Span(sent'[p], j) = span
      BY <1>8, <2>4, <3>1
    <3> QED
      BY <3>1, <3>2, <3>3, <3>4 DEF IsPiece
  <2>6. IsPacket(packet, p, j, damaged)'
    BY <2>2, <2>5 DEF IsPacket
  <2> QED
    BY <2>1, <2>6
<1>20. ASSUME NEW k \in 1..Len(new)
       PROVE  IsPacket(stream[q][k], p, Consumed(q) + k, damaged)'
  <2>1. \/ k \in 1..Len(old)
        \/ w = 1 /\ k = 1
        \/ k = Len(old) + w + 1 \/ k = Len(old) + w + 2
    BY <1>1, <1>9, <1>13
  <2> QED
    BY <1>17, <1>18, <1>19, <2>1
<1>21. arrived'[q] <= BytesOf(new, Len(new))
  <2>1. Lined(old) /\ arrived[q] <= BytesOf(old, Len(old))
    BY <1>1, LinedUp DEF Whereabouts, Underway, old
  <2>2. IsHail(s.initMsg, p)
    BY DEF Saying, IsKeyed
  <2>3. Lined(new)
    <3>1. ASSUME NEW k \in 1..Len(new) PROVE new[k].len \in Nat
      <4>1. CASE k \in 1..Len(old)
        BY <1>13, <2>1, <4>1 DEF Lined
      <4>2. CASE w = 1 /\ k = 1
        BY <1>13, <2>2, <4>2 DEF IsHail
      <4>3. CASE k = Len(old) + w + 1 \/ k = Len(old) + w + 2
        <5>1. hp.len = 32 /\ bp.len = Blocks(size) + 16
          BY <1>7
        <5> QED
          BY <1>5, <1>13, <4>3, <5>1
      <4> QED
        BY <1>1, <1>9, <1>13, <4>1, <4>2, <4>3
    <3> QED
      BY <1>13, <3>1 DEF Lined
  <2>4. /\ Len(old) <= Len(new) /\ Len(old) \in 0..Len(old) /\ Len(old) \in 0..Len(new)
        /\ Len(new) \in 0..Len(new)
    BY <1>1, <1>9, <1>13
  <2>5. \A k \in 1..Len(old) : new[k].len = old[k].len
    BY <1>13
  <2>6. BytesOf(new, Len(old)) = BytesOf(old, Len(old))
    BY <2>1, <2>3, <2>4, <2>5, BytesFront
  <2>7. /\ BytesOf(new, Len(old)) \in Nat /\ BytesOf(new, Len(new)) \in Nat
        /\ BytesOf(new, Len(old)) <= BytesOf(new, Len(new))
    BY <2>3, <2>4, BytesGrow
  <2> QED
    BY <1>1, <1>16, <2>1, <2>6, <2>7
<1>22. Underway(q)'
  BY <1>1, <1>20, <1>21 DEF Underway, new
<1>23. Consumed(q)' = IF Ready(p) THEN Consumed(q) ELSE -1
  BY <1>1, <1>9, <1>14
<1> QED
  BY <1>4, <1>12, <1>22, <1>23 DEF new

\* A message of p keeps the invariant.
LEMMA SaidKeeps ==
    ASSUME Inv, NEW p \in Sides, NEW s, NEW size, NEW before, Saying(p, s, size, before)
    PROVE  Inv'
<1> DEFINE q == Other(p)
           t == side'[p]
           n == Len(Log(p))
           seed == <<q, s.initMsg>>
<1>1. /\ q \in Sides /\ q # p /\ Other(q) = p /\ n \in Nat /\ n = 2 * Len(sent[p])
      /\ Whereabouts(p) /\ Whereabouts(q) /\ Len(sent[p]) \in Nat
      /\ sent[p] \in Seq(Messages) /\ Len(read[q]) \in Nat /\ sent[q] \in Seq(Messages)
      /\ Framing(p) /\ size \in Nat /\ size > 0 /\ Len(sent[p]) < MaxFrames
      /\ arrived' = arrived /\ read' = read /\ damaged' = damaged
  BY TwoSides, Known DEF Saying
<1>2. /\ side' = [r \in Sides |-> side'[r]] /\ side'[q] = side[q]
      /\ IsSide(t) /\ t.gotEIP8 = side[p].gotEIP8 /\ t.next = side[p].next
      /\ t.state = side[p].state /\ t.tick = "none" /\ t.remote = side[p].remote
      /\ t.bodySize = side[p].bodySize /\ t.initMsg = s.initMsg
      /\ t.ingressMac = s.ingressMac
      /\ t.ingressAes = side[p].ingressAes
      /\ stream' = [r \in Sides |-> stream'[r]] /\ stream'[p] = stream[p]
      /\ sent' = [r \in Sides |-> sent'[r]] /\ sent'[q] = sent[q]
  <2>1. Said(p, s, size, before)
    BY SaidIs
  <2> QED
    BY <2>1 DEF Said
<1>3. t.egressMac = KeyedMAC(seed, Log(p)')
  <2>1. PICK log2 : t.egressMac = KeyedMAC(seed, log2)
    <3>1. Said(p, s, size, before)
      BY SaidIs
    <3> QED
      BY <3>1 DEF Said
  <2>2. t.egressMac.log = log2
    BY <2>1 DEF KeyedMAC
  <2> QED
    BY <2>1, <2>2 DEF Log
<1> HIDE DEF t
<1>4. /\ IsSequence(Log(p)') /\ Len(Log(p)') = n + 2
      /\ sent'[p] \in Seq(Messages) /\ Len(sent'[p]) = Len(sent[p]) + 1
      /\ \A i \in 1..Len(sent[p]) : sent'[p][i] = sent[p][i]
      /\ sent'[p][Len(sent[p]) + 1].size = size
      /\ \A j \in 1..(n + 1) :
           Place(Log(p)', t.egressAes, j) = Place(Log(p), side[p].egressAes, j)
      /\ \A j \in 0..n : SubSeq(Log(p)', 1, j) = SubSeq(Log(p), 1, j)
      /\ IsLog(Log(p)', t.egressAes, sent'[p])
  <2>1. Grown(Log(p), side[p].egressAes, sent[p], size, Log(p)', t.egressAes, sent'[p])
    BY SaidWritten DEF t
  <2>2. PICK log2 : log2 = Log(p)'
    OBVIOUS
  <2>3. PICK message : message = [n |-> Len(sent[p]) + 1, size |-> size]
    OBVIOUS
  <2>4. message.size = size /\ sent'[p][Len(sent[p]) + 1] = message
    BY <2>1, <2>3 DEF Grown
  <2> QED
    BY <2>1, <2>4 DEF Grown
<1>5. /\ Underway(q)' /\ IsSequence(stream'[q])
      /\ Consumed(q)' = IF Ready(p) THEN Consumed(q) ELSE -1
      /\ Ready(p)' /\ Ready(q)' = Ready(q) /\ Log(q)' = Log(q)
  BY SaidUnderway
<1>6. Underway(p)' /\ Consumed(p)' = Consumed(p)
  BY <1>1, <1>2, UnderwayStays
<1>7. Began(p)' /\ Began(q)' = Began(q)
  BY <1>5 DEF Began
<1>8. /\ IsHail(s.initMsg, p)
      /\ s.ingressMac = KeyedMAC(<<p, side[q].initMsg>>, SubSeq(Log(q), 1, Consumed(p)))
      /\ \/ before = <<>> /\ s.initMsg = side[p].initMsg /\ Ready(p)
         \/ p = "listener" /\ ~Ready(p) /\ ~Ready(q)
  BY DEF Saying, IsKeyed
<1>9. Shapes'
  <2>1. Shapes
    BY DEF Inv
  <2>2. sent' \in [Sides -> Seq(Messages)]
    <3>1. \A r \in Sides : sent'[r] \in Seq(Messages)
      BY <1>1, <1>2, <1>4, TwoSides
    <3> QED
      BY <1>2, <3>1
  <2> QED
    BY <1>1, <1>2, <2>1, <2>2 DEF Shapes
<1>10. Order'
  <2>1. Order
    BY DEF Inv
  <2> QED
    BY <1>5, <1>8, <2>1, TwoSides DEF Order, Sides, Other
<1>11. Shape(p)' /\ Shape(q)'
  <2>1. Shape(p) /\ Shape(q)
    BY <1>1 DEF Whereabouts
  <2>2. Shape(p)'
    <3>1. IsSequence(t.egressMac.log)
      BY <1>4 DEF Log, t
    <3> QED
      BY <1>2, <2>1, <3>1 DEF Shape, t
  <2>3. Shape(q)'
    BY <1>2, <1>5, <2>1 DEF Shape
  <2> QED
    BY <2>2, <2>3
<1>12. Written(p)'
  <2>1. Written(p)
    BY <1>1 DEF Whereabouts
  <2>2. Len(sent'[p]) <= MaxFrames
    <3>1. MaxFrames \in Nat
      BY FramesAssumption
    <3> QED
      BY <1>1, <1>4, <3>1
  <2>3. ASSUME NEW i \in 1..Len(sent'[p]) PROVE sent'[p][i].size > 0
    <3>1. i \in 1..Len(sent[p]) \/ i = Len(sent[p]) + 1
      BY <1>1, <1>4
    <3> QED
      BY <1>1, <1>4, <2>1, <3>1 DEF Written
  <2> QED
    BY <1>4, <2>2, <2>3 DEF Written, t
<1>13. Written(q)' /\ Opened(p)' /\ Opened(q)'
  <2>1. Written(q) /\ Opened(q)
    BY <1>1 DEF Whereabouts
  <2>2. Written(q)'
    BY <1>2, <1>5, <2>1 DEF Written
  <2>3. Opened(p)'
    BY <1>2, <1>7, <1>8 DEF Opened, t
  <2>4. Opened(q)'
    BY <1>2, <1>7, <2>1 DEF Opened
  <2> QED
    BY <2>2, <2>3, <2>4
<1>14. Keys(p)'
  <2>1. t.ingressMac = KeyedMAC(<<p, side[q].initMsg>>, t.ingressMac.log)
    BY <1>2, <1>8 DEF KeyedMAC
  <2> QED
    BY <1>2, <1>3, <1>5, <2>1 DEF Keys, t, Log
<1>15. Keys(q)'
  <2>1. Keys(q)
    BY <1>1 DEF Whereabouts
  <2>2. CASE Ready(q)
    <3>1. s.initMsg = side[p].initMsg
      BY <1>8, <2>2
    <3> QED
      BY <1>1, <1>2, <1>5, <2>1, <2>2, <3>1 DEF Keys, t
  <2>3. CASE ~Ready(q)
    BY <1>1, <1>2, <1>5, <2>1, <2>3 DEF Keys
  <2> QED
    BY <2>2, <2>3
<1>16. Reader(p)'
  <2>1. Reader(p)
    BY <1>1 DEF Whereabouts
  <2>2. side[p].remote # "nobody"
    <3>1. ~Waiting(p) \/ side[p].state \notin {"Header", "Body"}
      BY DEF Waiting
    <3> QED
      BY <1>1, <2>1, <3>1 DEF Reader, Framing
  <2>3. t.ingressMac.log = SubSeq(Log(q), 1, Consumed(p))
    <3>1. PICK front : front = SubSeq(Log(q), 1, Consumed(p))
      OBVIOUS
    <3>2. s.ingressMac = KeyedMAC(<<p, side[q].initMsg>>, front)
      BY <1>8, <3>1
    <3>3. s.ingressMac.log = front
      BY <3>2 DEF KeyedMAC
    <3> QED
      BY <1>2, <3>1, <3>3
  <2>4. Framing(p)'
    <3>1. Framing(p)
      BY <1>1
    <3> QED
      BY <1>1, <1>2, <1>5, <1>6, <1>7, <2>3, <3>1 DEF Framing, Expects, t
  <2> QED
    BY <1>1, <1>2, <2>1, <2>2, <2>4 DEF Reader, t
<1>17. Reader(q)'
  <2>1. Reader(q)
    BY <1>1 DEF Whereabouts
  <2>2. Len(read'[q]) <= Len(sent'[p])
    BY <1>1, <1>4, <2>1 DEF Reader
  <2>3. ASSUME NEW i \in 1..Len(read'[q]) PROVE read'[q][i] = sent'[p][i]
    <3>1. i \in 1..Len(read[q]) /\ i \in 1..Len(sent[p]) /\ read[q][i] = sent[p][i]
      BY <1>1, <2>1 DEF Reader
    <3> QED
      BY <1>1, <1>4, <3>1
  <2>4. CASE side[q].remote = "nobody"
    <3>1. Waiting(q)
      BY <2>1, <2>4 DEF Reader
    <3>2. CASE Ready(p)
      <4>1. Began(p) /\ s.initMsg = side[p].initMsg /\ Consumed(q)' = Consumed(q)
        BY <1>5, <1>8, <3>2 DEF Began
      <4> QED
        BY <1>1, <1>2, <1>5, <1>7, <2>1, <2>2, <2>3, <2>4, <3>1, <4>1 DEF Reader, Waiting, t
    <3>3. CASE ~Ready(p)
      <4>1. ~Began(p) /\ Consumed(q)' = -1
        BY <1>5, <1>8, <3>3 DEF Began
      <4>2. ~side[q].gotEIP8
        BY <1>1, <3>1, <4>1 DEF Waiting
      <4> QED
        BY <1>1, <1>2, <1>5, <1>7, <2>1, <2>2, <2>3, <2>4, <3>1, <4>1, <4>2 DEF Reader, Waiting
    <3> QED
      BY <3>2, <3>3
  <2>5. CASE side[q].remote # "nobody" /\ side[q].state = "lost"
    <3>1. Ready(q)
      BY <2>1, <2>5 DEF Reader, Framing
    <3> QED
      BY <1>1, <1>2, <1>5, <2>1, <2>2, <2>3, <2>5, <3>1 DEF Reader
  <2>6. CASE side[q].remote # "nobody" /\ side[q].state # "lost"
    <3>1. Framing(q)
      BY <2>1, <2>6 DEF Reader
    <3>2. Began(p)
      BY <1>1, <3>1 DEF Framing
    <3>3. Ready(p)
      BY <1>8, <3>2 DEF Began
    <3>4. Ready(q)
      <4>1. Order
        BY DEF Inv
      <4> QED
        BY <1>1, <3>1, <3>3, <4>1 DEF Framing, Answering, Order, Other
    <3>5. PICK c : c = Consumed(q)
      OBVIOUS
    <3>6. Consumed(q)' = c /\ c \in 0..n /\ c + 1 \in 1..(n + 1)
      <4>1. c \in Int /\ c >= 0
        BY <1>1, <3>1, <3>5, Known DEF Framing
      <4>2. c <= n
        <5>1. Len(stream[q]) \in Nat /\ c = n - Len(stream[q])
          BY <1>1, <3>5, Known DEF Consumed
        <5>2. n \in Nat
          BY <1>1
        <5> HIDE DEF n
        <5> QED
          BY <5>1, <5>2
      <4> QED
        BY <1>1, <1>5, <3>3, <3>5, <4>1, <4>2
    <3>7. side[q].ingressMac.log = SubSeq(Log(p)', 1, c)
      BY <1>1, <1>4, <3>1, <3>4, <3>5, <3>6 DEF Framing
    <3>8. side[q].ingressAes = Place(Log(p)', t.egressAes, c + 1)
      BY <1>1, <1>4, <3>1, <3>5, <3>6 DEF Framing
    <3>9. Expects(side[q], sent'[p], c)
      <4>1. Expects(side[q], sent[p], c)
        BY <1>1, <3>1, <3>5 DEF Framing
      <4>2. CASE side[q].state = "Header"
        BY <4>1, <4>2 DEF Expects
      <4>3. CASE side[q].state # "Header"
        <5>1. c % 2 = 1
          BY <4>1, <4>3 DEF Expects
        <5>2. (c + 1) \div 2 \in 1..Len(sent[p])
          BY <1>1, <3>6, <5>1
        <5>3. sent'[p][(c + 1) \div 2] = sent[p][(c + 1) \div 2]
          BY <1>4, <5>2
        <5> QED
          BY <4>1, <4>3, <5>3 DEF Expects
      <4> QED
        BY <4>2, <4>3
    <3>10. Framing(q)'
      BY <1>1, <1>2, <1>5, <1>7, <3>1, <3>4, <3>5, <3>6, <3>7, <3>8, <3>9 DEF Framing, t
    <3> QED
      BY <1>1, <1>2, <2>1, <2>2, <2>3, <2>6, <3>10 DEF Reader
  <2> QED
    BY <2>4, <2>5, <2>6
<1>18. Whereabouts(p)' /\ Whereabouts(q)'
  BY <1>5, <1>6, <1>11, <1>12, <1>13, <1>14, <1>15, <1>16, <1>17 DEF Whereabouts
<1> QED
  BY <1>9, <1>10, <1>18, BothSides

\* A side with keys whose loop is not lost reads frames.
LEMMA KeyedIs ==
    ASSUME Inv, NEW p \in Sides, Ready(p), side[p].state # "lost"
    PROVE  Framing(p) /\ IsKeyed(p, side[p])
<1>1. Whereabouts(p)
  BY Known
<1>2. Framing(p)
  BY <1>1 DEF Whereabouts, Reader, Waiting
<1>3. IsHail(side[p].initMsg, p) /\ IsSide(side[p])
  BY <1>1 DEF Whereabouts, Opened, Began, Shape
<1>4. /\ side[p].ingressMac = KeyedMAC(<<p, side[Other(p)].initMsg>>, side[p].ingressMac.log)
      /\ side[p].egressMac = KeyedMAC(<<Other(p), side[p].initMsg>>, Log(p))
  BY <1>1 DEF Whereabouts, Keys
<1>5. side[p].ingressMac.log = SubSeq(Log(Other(p)), 1, Consumed(p))
  BY <1>2 DEF Framing
<1> QED
  BY <1>2, <1>3, <1>4, <1>5 DEF IsKeyed

\* HELLO of the dialer.
LEMMA SendHelloKeeps ==
    ASSUME Inv, NEW p \in Sides, SendHello(p)
    PROVE  Inv'
<1>1. /\ side[p].state # "lost" /\ side[p].tick = "hello" /\ Sends(p, side[p], HelloSize, <<>>)
      /\ arrived' = arrived /\ read' = read /\ damaged' = damaged
  BY DEF SendHello, Idle
<1>2. Ready(p) /\ sent[p] = <<>>
  BY <1>1, Known DEF Whereabouts, Keys
<1>3. Framing(p) /\ IsKeyed(p, side[p])
  BY <1>1, <1>2, KeyedIs
<1>4. Len(sent[p]) < MaxFrames
  <2>1. Len(sent[p]) = 0
    BY <1>2, EmptyIs
  <2> QED
    BY <2>1, FramesAssumption
<1>5. HelloSize \in Nat /\ HelloSize > 0
  BY SizesAssumption
<1>6. Saying(p, side[p], HelloSize, <<>>)
  BY <1>1, <1>2, <1>3, <1>4, <1>5 DEF Saying
<1> QED
  BY <1>6, SaidKeeps

\* A message of the Peer or of a subprotocol.
LEMMA SendMessageKeeps ==
    ASSUME Inv, NEW p \in Sides, SendMessage(p)
    PROVE  Inv'
<1>1. PICK size \in Sizes : Sends(p, side[p], size, <<>>)
  BY DEF SendMessage
<1>2. /\ side[p].state # "lost" /\ side[p].egressMac # NoMAC /\ Len(sent[p]) < MaxFrames
      /\ arrived' = arrived /\ read' = read /\ damaged' = damaged
  BY DEF SendMessage, Idle
<1>3. Ready(p)
  BY <1>2, Known DEF Whereabouts, Keys
<1>4. Framing(p) /\ IsKeyed(p, side[p])
  BY <1>2, <1>3, KeyedIs
<1>5. size \in Nat /\ size > 0
  BY SizesAssumption
<1>6. Saying(p, side[p], size, <<>>)
  BY <1>1, <1>2, <1>3, <1>4, <1>5 DEF Saying
<1> QED
  BY <1>6, SaidKeeps

\* AUTH and ACK are what the other side waits for.
LEMMA EIP8Is ==
    ASSUME NEW p \in Sides, NEW pad \in Pads, NEW for
    PROVE  IsHail(EIP8(IF p = "dialer" THEN "AUTH" ELSE "ACK", pad, Content(p, for)), p)
<1> DEFINE kind == IF p = "dialer" THEN "AUTH" ELSE "ACK"
           size == RLPLength(kind) + pad + overheadLength
           first == SubSeq(int2buffer(size) \o <<4>>, 1, 2)
           len == Len(int2buffer(size)) + size
<1>1. pad \in 100..250
  BY PadsAssumption
<1>2. size \in 256..1000 /\ size >= 310
  BY <1>1 DEF RLPLength, overheadLength
<1>3. EIP8(kind, pad, Content(p, for)) =
        [kind |-> kind, first |-> first, len |-> len, content |-> Content(p, for),
         tag |-> Content(p, for)]
  BY DEF EIP8, Encrypted
<1> HIDE DEF size
<1>4. Len(int2buffer(size)) = 2 /\ buffer2int(first) = size
  BY <1>2, LengthRead
<1>5. len \in Nat /\ len >= 310 /\ len = buffer2int(first) + 2
  BY <1>2, <1>4
<1>6. Content(p, for).for = for
  BY DEF Content
<1> HIDE DEF first, len
<1>7. /\ EIP8(kind, pad, Content(p, for)).first = first
      /\ EIP8(kind, pad, Content(p, for)).len = len
      /\ EIP8(kind, pad, Content(p, for)).content = Content(p, for)
  BY <1>3
<1> QED
  BY <1>3, <1>5, <1>6, <1>7 DEF IsHail

\* ACK and HELLO of the listener.
LEMMA SendAckKeeps ==
    ASSUME Inv, NEW p \in Sides, SendAck(p)
    PROVE  Inv'
<1> DEFINE q == Other(p)
<1>1. /\ side[p].state # "lost" /\ side[p].tick = "ack"
      /\ arrived' = arrived /\ read' = read /\ damaged' = damaged
  BY DEF SendAck, Idle
<1>2. PICK pad \in Pads :
        LET s == [side[p] EXCEPT !.initMsg = Ack(pad), !.state = "Header", !.next = 32]
        IN  Sends(p, _setupFrame(p, s, s.remoteInitMsg, TRUE), HelloSize, <<Ack(pad)>>)
  BY DEF SendAck
<1>3. Whereabouts(p) /\ Whereabouts(q) /\ q \in Sides /\ Other(q) = p
  BY Known, TwoSides
<1>4. p = "listener" /\ q = "dialer" /\ ~Ready(p)
  BY <1>1, <1>3 DEF Whereabouts, Keys, Other
<1>5. ~Ready(q)
  <2>1. Order
    BY DEF Inv
  <2> QED
    BY <1>4, <2>1 DEF Order
<1>6. Framing(p) /\ Answering(p) /\ side[p].remote = q
  BY <1>1, <1>3, <1>4 DEF Whereabouts, Reader, Waiting, Framing
<1>7. sent[p] = <<>> /\ stream[p] = <<>> /\ side[p].remoteInitMsg = side[q].initMsg
  BY <1>6 DEF Answering
<1>8. stream[q] = <<>>
  <2>1. Waiting(q)
    <3>1. ~Framing(q)
      BY <1>4, <1>5 DEF Framing, Answering
    <3> QED
      BY <1>3, <1>5, <3>1 DEF Whereabouts, Reader
  <2>2. ~Began(p)
    BY <1>4 DEF Began
  <2> QED
    BY <1>3, <2>1, <2>2 DEF Waiting
<1>9. /\ Log(p) = <<>> /\ Log(q) = <<>>
      /\ Consumed(p) = 0
  <2>1. side[p].egressMac = NoMAC /\ side[q].egressMac = NoMAC
    BY <1>3, <1>4, <1>5 DEF Whereabouts, Keys
  <2>2. Log(p) = <<>> /\ Log(q) = <<>>
    BY <2>1 DEF Log, NoMAC, None
  <2>3. Consumed(p) = 0
    BY <1>7, <2>2, EmptyIs DEF Consumed
  <2> QED
    BY <2>2, <2>3
<1>10. side[p].state = "Header" /\ side[p].next = 32
  <2>1. Expects(side[p], sent[q], 0)
    BY <1>6, <1>9 DEF Framing
  <2> QED
    BY <2>1 DEF Expects
<1>11. IsHail(Ack(pad), p)
  <2>1. Ack(pad) = EIP8(IF p = "dialer" THEN "AUTH" ELSE "ACK", pad, Content(p, "dialer"))
    BY <1>4 DEF Ack
  <2> QED
    BY <2>1, EIP8Is
<1> DEFINE ack == Ack(pad)
           r == [side[p] EXCEPT !.initMsg = ack, !.state = "Header", !.next = 32]
           s == _setupFrame(p, r, r.remoteInitMsg, TRUE)
<1>12. Sends(p, s, HelloSize, <<ack>>)
  BY <1>2
<1> HIDE DEF ack
<1>13. IsSide(side[p])
  BY <1>3 DEF Whereabouts, Shape
<1>14. /\ IsSide(r) /\ r.initMsg = ack /\ r.state = "Header" /\ r.next = 32
       /\ r.gotEIP8 = side[p].gotEIP8 /\ r.tick = side[p].tick /\ r.remote = q
       /\ r.bodySize = side[p].bodySize /\ r.remoteInitMsg = side[q].initMsg
       /\ r.ingressAes = side[p].ingressAes /\ r.egressAes = side[p].egressAes
  <2>1. PICK u : u = side[p]
    OBVIOUS
  <2>2. r = [u EXCEPT !.initMsg = ack, !.state = "Header", !.next = 32] /\ IsSide(u)
    BY <1>13, <2>1
  <2> HIDE DEF r
  <2> QED
    BY <1>6, <1>7, <2>1, <2>2 DEF IsSide
<1> HIDE DEF r
<1> DEFINE in == KeyedMAC(<<p, side[q].initMsg>>, None)
           out == KeyedMAC(<<q, ack>>, None)
<1>15. [shared |-> {p, r.remote}, nonces |-> nonceMaterial(p, r, TRUE)] = Secret
  <2>1. {p, r.remote} = Sides
    BY <1>3, <1>14, TwoSides
  <2>2. nonceMaterial(p, r, TRUE) = <<"listener", "dialer">>
    BY <1>4, <1>14 DEF nonceMaterial
  <2> QED
    BY <2>1, <2>2 DEF Secret
<1>16. s = [r EXCEPT !.ingressMac = in, !.egressMac = out]
  BY <1>14, <1>15 DEF _setupFrame, MAC, KeyedMAC
<1> HIDE DEF s, in, out
<1>17. /\ IsSide(s) /\ s.initMsg = ack /\ s.state = "Header" /\ s.next = 32
       /\ s.gotEIP8 = side[p].gotEIP8 /\ s.remote = q
       /\ s.bodySize = side[p].bodySize
       /\ s.ingressAes = side[p].ingressAes /\ s.egressAes = side[p].egressAes
       /\ s.ingressMac = in /\ s.egressMac = out
  BY <1>14, <1>16 DEF IsSide
<1>18. IsKeyed(p, s)
  <2>1. SubSeq(Log(q), 1, Consumed(p)) = None
    <3>1. IsSequence(Log(q)) /\ 0 \in 0..Len(Log(q))
      BY <1>3, <1>9, EmptyIs, Known
    <3>2. IsSequence(SubSeq(Log(q), 1, 0)) /\ Len(SubSeq(Log(q), 1, 0)) = 0
      BY <3>1, FrontIs
    <3>3. SubSeq(Log(q), 1, 0) = <<>>
      BY <3>2, LengthOf
    <3> QED
      BY <1>9, <3>3 DEF None
  <2> QED
    BY <1>6, <1>9, <1>10, <1>11, <1>17, <2>1 DEF IsKeyed, in, out, None, ack
<1>19. Len(sent[p]) < MaxFrames
  <2>1. Len(sent[p]) = 0
    BY <1>7, LengthOf
  <2> QED
    BY <2>1, FramesAssumption
<1>20. HelloSize \in Nat /\ HelloSize > 0
  BY SizesAssumption
<1>21. Saying(p, s, HelloSize, <<ack>>)
  BY <1>1, <1>4, <1>5, <1>6, <1>7, <1>8, <1>12, <1>17, <1>18, <1>19, <1>20 DEF Saying
<1> QED
  BY <1>21, SaidKeeps
-----------------------------------------------------------------------------
(* The invariant *)

\* The dialer has sent AUTH and nothing else has happened.
LEMMA InitHolds == Init => Inv
<1> SUFFICES ASSUME Init PROVE Inv
  OBVIOUS
<1>1. PICK pad \in Pads :
        /\ stream = [dialer |-> <<>>, listener |-> <<Auth(pad)>>]
        /\ side = [dialer |-> [NewSide("dialer") EXCEPT !.initMsg = Auth(pad)],
                   listener |-> NewSide("listener")]
  BY DEF Init
<1>2. /\ arrived = [p \in Sides |-> 0] /\ sent = [p \in Sides |-> <<>>]
      /\ read = [p \in Sides |-> <<>>] /\ damaged = FALSE
  BY DEF Init
<1> DEFINE auth == Auth(pad)
<1>3. IsHail(auth, "dialer")
  <2>1. auth = EIP8("AUTH", pad, Content("dialer", IF rightKey THEN "listener" ELSE "nobody"))
    BY DEF Auth
  <2>2. "dialer" \in Sides
    BY DEF Sides
  <2>3. IsHail(EIP8(IF "dialer" = "dialer" THEN "AUTH" ELSE "ACK", pad,
                    Content("dialer", IF rightKey THEN "listener" ELSE "nobody")), "dialer")
    BY <2>2, EIP8Is
  <2> QED
    BY <2>1, <2>3
<1>4. /\ stream = [dialer |-> <<>>, listener |-> <<auth>>]
      /\ side = [dialer |-> [NewSide("dialer") EXCEPT !.initMsg = auth],
                 listener |-> NewSide("listener")]
  BY <1>1
<1> HIDE DEF auth
<1>5. /\ side = [p \in Sides |-> side[p]] /\ stream = [p \in Sides |-> stream[p]]
      /\ side["dialer"] = [NewSide("dialer") EXCEPT !.initMsg = auth]
      /\ side["listener"] = NewSide("listener")
      /\ stream["dialer"] = <<>> /\ stream["listener"] = <<auth>>
  BY <1>4 DEF Sides
<1>6. <<>> \in Seq(Messages) /\ Len(<<>>) = 0 /\ IsSequence(<<>>)
  BY EmptyIs
<1>7. Shapes
  BY <1>2, <1>5, <1>6 DEF Shapes
<1>8. \A p \in Sides :
        /\ arrived[p] = 0 /\ sent[p] = <<>> /\ read[p] = <<>>
        /\ IsSide(side[p])
        /\ side[p].state = (IF p = "dialer" THEN "Ack" ELSE "Auth")
        /\ side[p].next = (IF p = "dialer" THEN 210 ELSE 307)
        /\ side[p].gotEIP8 = FALSE /\ side[p].tick = "none" /\ side[p].remote = "nobody"
        /\ side[p].bodySize = 0 /\ side[p].ingressMac = NoMAC /\ side[p].egressMac = NoMAC
        /\ side[p].ingressAes = 0 /\ side[p].egressAes = 0
        /\ p = "dialer" => side[p].initMsg = auth
  <2>1. SUFFICES ASSUME NEW p \in Sides
        PROVE  /\ IsSide(side[p])
               /\ side[p].state = (IF p = "dialer" THEN "Ack" ELSE "Auth")
               /\ side[p].next = (IF p = "dialer" THEN 210 ELSE 307)
               /\ side[p].gotEIP8 = FALSE /\ side[p].tick = "none" /\ side[p].remote = "nobody"
               /\ side[p].bodySize = 0 /\ side[p].ingressMac = NoMAC /\ side[p].egressMac = NoMAC
               /\ side[p].ingressAes = 0 /\ side[p].egressAes = 0
               /\ p = "dialer" => side[p].initMsg = auth
    BY <1>2, ZenonT(60)
  <2>2. CASE p = "dialer"
    <3>1. PICK s : s = side[p]
      OBVIOUS
    <3>2. s = [NewSide("dialer") EXCEPT !.initMsg = auth]
      BY <1>5, <2>2, <3>1
    <3>3. PICK new : new = NewSide("dialer")
      OBVIOUS
    <3>4. /\ IsSide(new) /\ new.state = "Ack" /\ new.next = 210
          /\ new.gotEIP8 = FALSE /\ new.tick = "none" /\ new.remote = "nobody"
          /\ new.bodySize = 0 /\ new.ingressMac = NoMAC /\ new.egressMac = NoMAC
          /\ new.ingressAes = 0 /\ new.egressAes = 0
      BY <3>3 DEF NewSide, IsSide
    <3>5. s = [new EXCEPT !.initMsg = auth]
      BY <3>2, <3>3
    <3>6. /\ IsSide(s) /\ s.state = "Ack" /\ s.next = 210
          /\ s.gotEIP8 = FALSE /\ s.tick = "none" /\ s.remote = "nobody"
          /\ s.bodySize = 0 /\ s.ingressMac = NoMAC /\ s.egressMac = NoMAC
          /\ s.ingressAes = 0 /\ s.egressAes = 0 /\ s.initMsg = auth
      BY <3>4, <3>5 DEF IsSide
    <3> QED
      BY <2>2, <3>1, <3>6
  <2>3. CASE p = "listener"
    <3>1. PICK s : s = side[p]
      OBVIOUS
    <3>2. s = NewSide("listener")
      BY <1>5, <2>3, <3>1
    <3> QED
      BY <2>3, <3>1, <3>2 DEF NewSide, IsSide
  <2> QED
    BY <2>2, <2>3 DEF Sides
<1>9. \A p \in Sides : ~Ready(p) /\ Log(p) = <<>> /\ (Began(p) <=> p = "dialer")
  <2>1. NoMAC.log = <<>>
    BY DEF NoMAC, None
  <2> QED
    BY <1>8, <2>1 DEF Ready, Log, Began
<1>10. Order
  BY <1>9 DEF Order, Sides
<1>11. \A p \in Sides : IsSequence(stream[p])
  <2>1. <<auth>> \in Seq({auth})
    OBVIOUS
  <2>2. IsSequence(<<auth>>)
    BY <2>1 DEF IsSequence
  <2> QED
    BY <1>5, <1>6, <2>2 DEF Sides
<1>12. Len(stream["listener"]) = 1 /\ stream["listener"][1] = auth /\ Len(stream["dialer"]) = 0
  <2>1. Len(<<auth>>) = 1 /\ <<auth>>[1] = auth
    OBVIOUS
  <2> QED
    BY <1>5, <1>6, <2>1, Zenon
<1>13. \A p \in Sides : Consumed(p) = IF p = "dialer" THEN 0 ELSE -1
  <2>1. ASSUME NEW p \in Sides PROVE Consumed(p) = 0 - Len(stream[p])
    <3>1. Len(Log(Other(p))) = 0
      BY <1>6, <1>9, TwoSides
    <3> QED
      BY <3>1 DEF Consumed
  <2>2. 0 - 0 = 0 /\ 0 - 1 = -1
    OBVIOUS
  <2>3. Consumed("dialer") = 0 /\ Consumed("listener") = -1
    <3>1. "dialer" \in Sides /\ "listener" \in Sides
      BY DEF Sides
    <3> QED
      BY <1>12, <2>1, <2>2, <3>1
  <2> QED
    BY <2>3 DEF Sides
<1>14. ASSUME NEW p \in Sides PROVE Whereabouts(p)
  <2>1. Shape(p)
    <3>1. IsSequence(side[p].egressMac.log)
      BY <1>6, <1>9 DEF Log
    <3> QED
      BY <1>8, <1>11, <3>1 DEF Shape
  <2>2. Written(p)
    <3>1. Len(sent[p]) = 0 /\ Len(Log(p)) = 0 /\ MaxFrames \in Nat
      BY <1>6, <1>8, <1>9, FramesAssumption
    <3>2. Place(Log(p), side[p].egressAes, 1) = 0
      BY <1>8, <3>1 DEF Place
    <3>3. IsLog(Log(p), side[p].egressAes, sent[p])
      BY <3>1, <3>2 DEF IsLog
    <3> QED
      BY <3>1, <3>3 DEF Written
  <2>3. Keys(p)
    BY <1>8, <1>9 DEF Keys
  <2>4. Opened(p)
    BY <1>3, <1>8, <1>9 DEF Opened
  <2>5. Underway(p)
    <3>1. CASE p = "dialer"
      <4>1. Lined(stream[p])
        BY <1>12, <3>1 DEF Lined
      <4>2. BytesOf(stream[p], Len(stream[p])) = 0
        BY <1>12, <3>1, <4>1, BytesAdd
      <4> QED
        BY <1>8, <1>12, <3>1, <4>2 DEF Underway
    <3>2. CASE p = "listener"
      <4>1. Lined(stream[p])
        BY <1>3, <1>12, <3>2 DEF Lined, IsHail
      <4>2. BytesOf(stream[p], Len(stream[p])) \in Nat
        <5>1. Len(stream[p]) \in 0..Len(stream[p])
          BY <1>12, <3>2
        <5> QED
          BY <4>1, <5>1, BytesGrow
      <4>3. ASSUME NEW k \in 1..Len(stream[p])
            PROVE  IsPacket(stream[p][k], Other(p), Consumed(p) + k, damaged)
        <5>1. k = 1 /\ Consumed(p) + k = 0 /\ stream[p][k] = auth
          <6>1. Len(stream[p]) = 1 /\ stream[p][1] = auth
            BY <1>12, <3>2
          <6>2. Consumed(p) = -1
            BY <1>13, <3>2
          <6>3. k = 1
            BY <6>1
          <6> QED
            BY <6>1, <6>2, <6>3
        <5>2. Other(p) = "dialer" /\ Other(p) \in Sides
          BY <3>2 DEF Other, Sides
        <5>3. side[Other(p)].initMsg = auth /\ Began(Other(p))
          BY <1>8, <1>9, <5>2
        <5> QED
          BY <5>1, <5>3 DEF IsPacket, IsOpening
      <4> QED
        BY <1>8, <4>2, <4>3 DEF Underway
    <3> QED
      BY <3>1, <3>2 DEF Sides
  <2>6. Reader(p)
    <3>1. Waiting(p)
      <4>1. IF Began(Other(p)) THEN Consumed(p) = -1 ELSE stream[p] = <<>>
        BY <1>5, <1>9, <1>13 DEF Sides, Other
      <4> QED
        BY <1>8, <1>9, <4>1 DEF Waiting
    <3>2. Len(read[p]) = 0 /\ Len(sent[Other(p)]) = 0
      BY <1>6, <1>8, TwoSides
    <3> QED
      BY <1>8, <3>1, <3>2 DEF Reader
  <2> QED
    BY <2>1, <2>2, <2>3, <2>4, <2>5, <2>6 DEF Whereabouts
<1> QED
  BY <1>7, <1>10, <1>14 DEF Inv

\* Every step keeps it.
LEMMA StepHolds == Inv /\ [Next]_vars => Inv'
<1> SUFFICES ASSUME Inv, [Next]_vars PROVE Inv'
  OBVIOUS
<1>1. CASE Next
  <2>1. PICK p \in Sides :
          \/ Round(p) \/ SendAck(p) \/ SendHello(p) \/ SendMessage(p) \/ Arrive(p) \/ Damage(p)
    BY <1>1 DEF Next
  <2>2. CASE Round(p)
    BY <2>2, ReadLengthKeeps, _handleAuthKeeps, _handleAckKeeps, _handleHeaderKeeps,
       _handleBodyKeeps, LoseKeeps DEF Round
  <2> QED
    BY <2>1, <2>2, SendAckKeeps, SendHelloKeeps, SendMessageKeeps, ArriveKeeps, DamageKeeps
<1>2. CASE UNCHANGED vars
  <2>1. /\ rightKey' = rightKey /\ side' = side /\ stream' = stream /\ arrived' = arrived
        /\ sent' = sent /\ read' = read /\ damaged' = damaged
    BY <1>2 DEF vars
  <2>2. ASSUME NEW p \in Sides PROVE Whereabouts(p)' /\ Whereabouts(Other(p))'
    <3> DEFINE q == Other(p)
    <3>1. Rest(p)
      BY <2>1 DEF Rest, Log, Began, Ready
    <3>2. Whereabouts(q)'
      BY <3>1, RestStays
    <3>3. Rest(q)
      BY <2>1 DEF Rest, Log, Began, Ready
    <3>4. Whereabouts(Other(q))'
      BY <3>3, RestStays, TwoSides
    <3> QED
      BY <3>2, <3>4, TwoSides
  <2>3. Shapes' /\ Order'
    BY <2>1 DEF Inv, Shapes, Order, Ready
  <2> QED
    BY <2>2, <2>3 DEF Inv
<1> QED
  BY <1>1, <1>2

\* The invariant holds in every state.
THEOREM Invariance == Spec => []Inv
<1> QED
  BY InitHolds, StepHolds, PTL DEF Spec

(***************************************************************************)
(* The state of a side and its buffer are within their bounds, at every    *)
(* length of padding and of messages (Peer._nextPacketSize, _socketData).  *)
(***************************************************************************)
LEMMA TypeOKHolds == Inv => TypeOK
<1> SUFFICES ASSUME Inv, NEW p \in Sides
    PROVE  /\ side[p].state \in {"Auth", "Ack", "Header", "Body", "lost"}
           /\ side[p].tick \in {"none", "ack", "hello"}
           /\ side[p].next \in Nat /\ side[p].next >= 17
           /\ side[p].bodySize \in Nat
           /\ Ready(p) = (side[p].egressMac # NoMAC)
           /\ arrived[p] \in 0..UpTo(p, Len(stream[p]))
           /\ Len(sent[p]) <= MaxFrames
  BY DEF TypeOK
<1>1. Shape(p) /\ Written(p) /\ Keys(p) /\ Underway(p)
  BY Known DEF Whereabouts
<1>2. Ready(p) = (side[p].egressMac # NoMAC)
  <2>1. CASE Ready(p)
    <3>1. PICK mac : mac = side[p].egressMac
      OBVIOUS
    <3>2. mac = KeyedMAC(<<Other(p), side[p].initMsg>>, Log(p))
      BY <1>1, <2>1, <3>1 DEF Keys
    <3>3. mac.secret.shared = Sides /\ NoMAC.secret.shared = {} /\ Sides # {}
      BY <3>2 DEF KeyedMAC, Secret, NoMAC, Sides
    <3>4. side[p].egressMac # NoMAC
      BY <3>1, <3>3
    <3> QED
      BY <2>1, <3>4
  <2>2. CASE ~Ready(p)
    <3>1. side[p].egressMac = NoMAC
      BY <1>1, <2>2 DEF Keys
    <3> QED
      BY <2>2, <3>1 DEF Ready
  <2> QED
    BY <2>1, <2>2
<1>3. arrived[p] \in 0..UpTo(p, Len(stream[p]))
  <2>1. Len(stream[p]) \in 0..Len(stream[p]) /\ arrived[p] \in Nat
    BY Known
  <2>2. BytesOf(stream[p], Len(stream[p])) \in Nat
    BY <2>1, LinedUp, BytesGrow
  <2> QED
    BY <1>1, <2>1, <2>2 DEF Underway, UpTo
<1> QED
  BY <1>1, <1>2, <1>3 DEF Shape, Written

THEOREM Types == Spec => []TypeOK
BY Invariance, TypeOKHolds, PTL

(***************************************************************************)
(* The read loop cuts the stream where the packets end, wherever the       *)
(* socket cut it: what the writer rounded up is what the reader waits for, *)
(* and the first wait for AUTH or ACK is not too long for any padding.     *)
(***************************************************************************)
LEMMA AlignedHolds == Inv => Aligned
<1> SUFFICES ASSUME Inv, NEW p \in Sides, stream[p] # <<>>, side[p].state # "lost",
                    ~TooLong(p), ~damaged
    PROVE  IF side[p].gotEIP8 THEN Whole(p) ELSE side[p].next <= Head(stream[p]).len
  BY DEF Aligned
<1> DEFINE q == Other(p)
<1>1. Whereabouts(p) /\ Whereabouts(q) /\ q \in Sides /\ IsSequence(stream[p])
      /\ Len(stream[p]) \in Nat /\ sent[q] \in Seq(Messages) /\ Consumed(p) \in Int
      /\ Len(Log(q)) = 2 * Len(sent[q]) /\ Len(sent[q]) \in Nat
  BY Known, TwoSides
<1>2. 1 \in 1..Len(stream[p]) /\ Head(stream[p]) = stream[p][1]
  BY <1>1, LengthOf, TailIs
<1>3. PICK packet, j : packet = stream[p][1] /\ j = Consumed(p) + 1
  OBVIOUS
<1>4. IsPacket(packet, q, j, damaged) /\ j \in Int /\ j <= 2 * Len(sent[q])
  BY <1>1, <1>2, <1>3, EntriesUnderway DEF Whereabouts, Underway
<1>5. CASE side[p].remote = "nobody"
  <2>1. Waiting(p)
    BY <1>1, <1>5 DEF Whereabouts, Reader
  <2>2. Began(q) /\ j = 0
    BY <1>3, <2>1 DEF Waiting
  <2>3. packet = side[q].initMsg
    BY <1>4, <2>2 DEF IsPacket, IsOpening
  <2>4. packet.len \in Nat /\ packet.len >= 310
    BY <1>1, <2>2, <2>3 DEF Whereabouts, Opened, IsHail
  <2> QED
    BY <1>2, <1>3, <2>1, <2>3, <2>4 DEF Waiting, Whole
<1>6. CASE side[p].remote # "nobody"
  <2>1. Framing(p)
    BY <1>1, <1>6 DEF Whereabouts, Reader
  <2>2. PICK c : c = Consumed(p)
    OBVIOUS
  <2>3. c \in Nat /\ j = c + 1 /\ j >= 1 /\ Expects(side[p], sent[q], c)
    BY <1>1, <1>3, <2>1, <2>2 DEF Framing
  <2>4. packet.len = Span(sent[q], j) + 16
    <3>1. PICK mac : mac = side[q].egressMac
      OBVIOUS
    <3>2. IsPiece(packet, mac, sent[q], j, damaged)
      BY <1>4, <2>3, <3>1 DEF IsPacket
    <3> QED
      BY <3>2 DEF IsPiece
  <2>5. side[p].next = Span(sent[q], j) + 16
    <3>1. CASE side[p].state = "Header"
      <4>1. c % 2 = 0 /\ side[p].next = 32
        BY <2>3, <3>1 DEF Expects
      <4>2. j % 2 = 1
        BY <2>3, <4>1
      <4> QED
        BY <4>1, <4>2 DEF Span
    <3>2. CASE side[p].state # "Header"
      <4> DEFINE size == sent[q][(c + 1) \div 2].size
      <4>1. c % 2 = 1 /\ side[p].bodySize = SizeField(size)
            /\ side[p].next = BodyLength(side[p].bodySize)
        BY <2>3, <3>2 DEF Expects
      <4>2. j % 2 = 0 /\ (j + 1) \div 2 = (c + 1) \div 2 /\ (c + 1) \div 2 \in 1..Len(sent[q])
        BY <1>1, <1>4, <2>3, <4>1, SMTT(30)
      <4>3. size \in Nat
        <5>1. sent[q][(c + 1) \div 2] \in Messages
          BY <1>1, <4>2
        <5> QED
          BY <5>1 DEF Messages
      <4>4. Sayable(size)
        BY <1>1, <4>2 DEF TooLong
      <4>5. Span(sent[q], j) = Blocks(size)
        BY <4>2 DEF Span
      <4> HIDE DEF size
      <4>6. SizeField(size) = size
        BY <4>3, <4>4, BlocksTell
      <4>7. BodyLength(size) = Blocks(size) + 16
        BY <4>3, BodyLengthIs
      <4> QED
        BY <4>1, <4>5, <4>6, <4>7
    <3> QED
      BY <3>1, <3>2
  <2>6. side[p].gotEIP8
    BY <2>1 DEF Framing
  <2> QED
    BY <1>2, <1>3, <2>4, <2>5, <2>6 DEF Whole
<1> QED
  BY <1>5, <1>6

THEOREM Alignment == Spec => []Aligned
BY Invariance, AlignedHolds, PTL

(***************************************************************************)
(* No frame is there before the keys are: the dialer sends none before it  *)
(* has read the ACK, and the listener reads no AUTH without sending ACK,   *)
(* and sets its keys up, before the dialer can have it.                    *)
(***************************************************************************)
LEMMA KeysBeforeFramesHolds == Inv => KeysBeforeFrames
<1> SUFFICES ASSUME Inv, NEW p \in Sides, side[p].state = "Header", ~Ready(p)
    PROVE  stream[p] = <<>>
  BY DEF KeysBeforeFrames
<1>1. Reader(p)
  BY Known DEF Whereabouts
<1>2. Framing(p)
  BY <1>1 DEF Reader, Waiting
<1> QED
  BY <1>2 DEF Framing, Answering

THEOREM KeysFirst == Spec => []KeysBeforeFrames
BY Invariance, KeysBeforeFramesHolds, PTL

(***************************************************************************)
(* The two ends of a direction agree: what the reader has put into its     *)
(* ingressMac and what is on its way make the writer's egressMac, secrets  *)
(* and seeds are the same, and the reader's place in the key stream is     *)
(* that of the first packet on its way, or the writer's if there is none   *)
(* (_setupFrame, parseHeader, createHeader).                               *)
(***************************************************************************)
LEMMA DirectionsMatchHolds == Inv => DirectionsMatch
<1> SUFFICES ASSUME Inv, NEW p \in Sides, Ready(p), Ready(Other(p)), ~damaged,
                    side[p].state \in {"Header", "Body"}
    PROVE  LET between == [k \in DOMAIN stream[p] |-> stream[p][k].content]
           IN  /\ [side[p].ingressMac EXCEPT !.log = @ \o between] = side[Other(p)].egressMac
               /\ side[p].ingressAes = IF between = <<>> THEN side[Other(p)].egressAes
                                        ELSE between[1].position
  BY DEF DirectionsMatch
<1> DEFINE q == Other(p)
           between == [k \in DOMAIN stream[p] |-> stream[p][k].content]
           log == Log(q)
           front == side[p].ingressMac.log
<1>1. Whereabouts(p) /\ Whereabouts(q) /\ q \in Sides /\ Other(q) = p
      /\ Len(stream[p]) \in Nat /\ DOMAIN stream[p] = 1..Len(stream[p])
      /\ IsSequence(log) /\ Len(log) \in Nat /\ sent[q] \in Seq(Messages)
      /\ Consumed(p) \in Int /\ Consumed(p) = Len(log) - Len(stream[p])
  BY Known, TwoSides DEF Consumed
<1>2. Framing(p)
  <2>1. Reader(p)
    BY <1>1 DEF Whereabouts
  <2> QED
    BY <2>1 DEF Reader, Waiting
<1>3. PICK c : c = Consumed(p)
  OBVIOUS
<1>4. c \in 0..Len(log) /\ Len(stream[p]) = Len(log) - c
  BY <1>1, <1>2, <1>3 DEF Framing
<1>5. front = SubSeq(log, 1, c)
  BY <1>2, <1>3 DEF Framing
<1>6. \A k \in 1..Len(stream[p]) : between[k] = log[c + k]
  <2>1. ASSUME NEW k \in 1..Len(stream[p]) PROVE stream[p][k].content = log[c + k]
    <3>1. PICK packet, mac, j : packet = stream[p][k] /\ mac = side[q].egressMac /\ j = c + k
      OBVIOUS
    <3>2. IsPacket(packet, q, j, damaged)
      BY <1>1, <1>3, <3>1 DEF Whereabouts, Underway
    <3>3. j >= 1
      BY <1>4, <3>1
    <3>4. packet.content = mac.log[j]
      BY <3>1, <3>2, <3>3 DEF IsPacket, IsPiece
    <3> QED
      BY <3>1, <3>4 DEF Log
  <2> QED
    BY <1>1, <2>1
<1>7. IsSequence(between) /\ Len(between) = Len(stream[p])
  <2> DEFINE contents == {stream[p][k].content : k \in DOMAIN stream[p]}
  <2>1. between \in [1..Len(stream[p]) -> contents]
    BY <1>1
  <2>2. between \in Seq(contents)
    BY <1>1, <2>1
  <2>3. DOMAIN between = 1..Len(stream[p])
    BY <1>1
  <2> HIDE DEF between, contents
  <2>4. Len(between) = Len(stream[p])
    BY <1>1, <2>2, <2>3
  <2> QED
    BY <2>2, <2>4 DEF IsSequence
<1>8. IsSequence(front) /\ Len(front) = c /\ \A k \in 1..c : front[k] = log[k]
  BY <1>1, <1>4, <1>5, FrontIs
<1> HIDE DEF between, front, log
<1>9. front \o between = log
  <2> DEFINE whole == front \o between
  <2>1. /\ IsSequence(whole) /\ Len(whole) = Len(front) + Len(between)
        /\ \A k \in 1..Len(front) : whole[k] = front[k]
        /\ \A k \in (Len(front) + 1)..(Len(front) + Len(between)) :
             whole[k] = between[k - Len(front)]
    BY <1>7, <1>8, ConcatIs
  <2> HIDE DEF whole
  <2>2. Len(whole) = Len(log)
    BY <1>1, <1>4, <1>7, <1>8, <2>1
  <2>3. ASSUME NEW k \in 1..Len(whole) PROVE whole[k] = log[k]
    <3>1. CASE k \in 1..c
      BY <1>8, <2>1, <3>1
    <3>2. CASE k \notin 1..c
      <4>1. k \in (c + 1)..(c + Len(stream[p])) /\ k - c \in 1..Len(stream[p]) /\ c + (k - c) = k
        BY <1>1, <1>4, <2>2, <3>2
      <4>2. whole[k] = between[k - c]
        BY <1>7, <1>8, <2>1, <4>1
      <4> QED
        BY <1>6, <4>1, <4>2
    <3> QED
      BY <3>1, <3>2
  <2>4. whole = log
    BY <1>1, <2>1, <2>2, <2>3, SameItems
  <2> QED
    BY <2>4 DEF whole
<1>10. [side[p].ingressMac EXCEPT !.log = @ \o between] = side[q].egressMac
  <2>1. PICK r, w, seed : r = side[p].ingressMac /\ w = side[q].egressMac
                          /\ seed = <<p, side[q].initMsg>>
    OBVIOUS
  <2>2. r = KeyedMAC(seed, front) /\ w = KeyedMAC(seed, log)
    BY <1>1, <2>1 DEF Whereabouts, Keys, front, log
  <2>3. r.log = front
    BY <2>1 DEF front
  <2>4. [r EXCEPT !.log = front \o between] = KeyedMAC(seed, front \o between)
    <3> DEFINE all == front \o between
    <3> HIDE DEF all
    <3>1. [r EXCEPT !.log = all] = KeyedMAC(seed, all)
      BY <2>2 DEF KeyedMAC
    <3> QED
      BY <3>1 DEF all
  <2> QED
    BY <1>9, <2>1, <2>2, <2>3, <2>4
<1>11. side[p].ingressAes = IF between = <<>> THEN side[q].egressAes ELSE between[1].position
  <2>1. side[p].ingressAes = Place(log, side[q].egressAes, c + 1)
    BY <1>2, <1>3 DEF Framing, log
  <2>2. between = <<>> <=> Len(stream[p]) = 0
    BY <1>7, LengthOf
  <2>3. CASE Len(stream[p]) = 0
    <3>1. c + 1 = Len(log) + 1
      BY <1>1, <1>4, <2>3
    <3> QED
      BY <2>1, <2>2, <2>3, <3>1 DEF Place
  <2>4. CASE Len(stream[p]) # 0
    <3>1. c + 1 # Len(log) + 1 /\ 1 \in 1..Len(stream[p])
      BY <1>1, <1>4, <2>4
    <3>2. between[1] = log[c + 1]
      BY <1>6, <3>1
    <3> QED
      BY <2>1, <2>2, <2>4, <3>1, <3>2 DEF Place
  <2> QED
    BY <2>3, <2>4
<1> QED
  BY <1>10, <1>11 DEF between

THEOREM Directions == Spec => []DirectionsMatch
BY Invariance, DirectionsMatchHolds, PTL

(***************************************************************************)
(* What a side reads is what the other sent, from the first message on and *)
(* in order, even if a packet was altered on its way or a length did not   *)
(* fit its header (_handleHeader, _handleBody).                            *)
(***************************************************************************)
LEMMA ReadAsSentHolds == Inv => ReadAsSent
<1> SUFFICES ASSUME Inv, NEW p \in Sides PROVE IsPrefix(read[p], sent[Other(p)])
  BY DEF ReadAsSent
<1> DEFINE q == Other(p)
           n == Len(read[p])
<1>1. Reader(p) /\ q \in Sides /\ n \in Nat /\ Len(sent[q]) \in Nat
      /\ read[p] \in Seq(Messages) /\ sent[q] \in Seq(Messages)
  BY Known, TwoSides DEF Whereabouts
<1>2. IsSequence(read[p]) /\ IsSequence(sent[q])
  BY <1>1 DEF IsSequence
<1>3. n <= Len(sent[q]) /\ \A i \in 1..n : sent[q][i] = read[p][i]
  BY <1>1 DEF Reader
<1>4. n \in 0..n
  BY <1>1
<1>5. SubSeq(sent[q], 1, n) = SubSeq(read[p], 1, n)
  BY <1>2, <1>3, <1>4, FrontOfAppend
<1> QED
  BY <1>3, <1>5 DEF IsPrefix

THEOREM Reads == Spec => []ReadAsSent
BY Invariance, ReadAsSentHolds, PTL
=============================================================================
