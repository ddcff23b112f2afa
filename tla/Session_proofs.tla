---------------------------- MODULE Session_proofs ---------------------------
(***************************************************************************)
(* Theorems about Session, for every setup, every code that applications   *)
(* send and every bound.  Inv is the inductive invariant.  Its parts say   *)
(* what a Peer can be (Sane), who has sent HELLO when a frame is on its    *)
(* way (Timely), where a DISCONNECT can be and what its sender is then     *)
(* (Byes), and what a Peer knows of the other that has taken a DISCONNECT  *)
(* for an answer (Told).                                                   *)
(***************************************************************************)
EXTENDS Session, Induction_proofs

\* What p takes the shared subprotocols to be, once it has the HELLO.
Agreed(p) ==
    IF p \in setup.filters THEN {} ELSE Shared(setup.caps[p], setup.caps[Other(p)])

AllProtocols == {{}} \cup {Agreed(p) : p \in Sides}

Peers ==
    [mode : {"auth", "ack", "frames", "lost"}, tick : {"none", "ack", "hello"},
     weHello : BOOLEAN, hello : BOOLEAN, protocols : AllProtocols,
     connected : BOOLEAN, pinging : BOOLEAN, waiting : BOOLEAN,
     closed : BOOLEAN, reason : Reasons \cup {"none"}, we : {"unset", "we", "they"},
     ending : BOOLEAN, ended : BOOLEAN, gone : BOOLEAN,
     emitted : SUBSET {"connect", "close"}]

AllCodes == UNION {Codes[c] : c \in UNION AllProtocols}

\* The value of an offset does not matter here.
Subs == {Sub(Offset(P, c) + code, [cap |-> c, code |-> code]) :
            P \in AllProtocols, c \in UNION AllProtocols, code \in AllCodes}

Frames == [kind : {"AUTH", "ACK", "HELLO", "PING", "PONG"}]
          \cup [kind : {"DISCONNECT"}, reason : Reasons] \cup Subs

Shape ==
    /\ peer \in [Sides -> Peers]
    /\ data \in [Sides -> Seq(Frames)]
    /\ wire \in [Sides -> Seq(Frames)]

\* A Peer s of the side p.
Sane(p, s) ==
    /\ s.protocols = IF s.hello THEN Agreed(p) ELSE {}
    /\ s.connected => s.hello /\ Agreed(p) # {}
    /\ s.pinging => s.connected
    /\ s.waiting => s.hello
    /\ "connect" \in s.emitted <=> s.hello /\ s.weHello /\ Agreed(p) # {}
    /\ "close" \in s.emitted => "connect" \in s.emitted
    /\ s.hello /\ ~s.closed => Agreed(p) # {}
    /\ s.hello \/ s.weHello \/ s.tick # "none" => s.mode \in {"frames", "lost"}
    /\ (s.mode = "frames" \/ s.hello) /\ s.tick = "none" /\ Agreed(p) # {} => s.weHello
    /\ s.closed /\ s.tick # "none" /\ Agreed(p) # {} => s.weHello
    /\ s.closed => s.gone \/ s.mode \in {"frames", "lost"}
    /\ s.gone => s.closed /\ s.tick = "none"
    /\ s.we # "unset" => s.closed

\* Who has sent HELLO before a frame f: "to" and "from" are weHello of the
\* receiver and of the sender.
Timed(f, to, from) ==
    /\ f.kind \in {"HELLO", "PING", "PONG", "SUB"} => from
    /\ f.kind \in {"PING", "PONG", "SUB", "DISCONNECT"} => to

AllTimed(s, to, from) == \A k \in DOMAIN s : Timed(s[k], to, from)

Timely(p) ==
    /\ peer[p].hello => peer[Other(p)].weHello
    /\ AllTimed(data[p], peer[p].weHello, peer[Other(p)].weHello)
    /\ AllTimed(wire[p], peer[p].weHello, peer[Other(p)].weHello)

HasBye(s) == \E k \in DOMAIN s : s[k].kind = "DISCONNECT"
ByeLast(s) == \A k \in DOMAIN s : s[k].kind = "DISCONNECT" => k = Len(s)

\* A DISCONNECT on its way to p.
Byes(p) ==
    /\ HasBye(data[p]) => /\ peer[Other(p)].closed
                          /\ peer[Other(p)].we = "we"
                          /\ ~HasBye(data[Other(p)])
                          /\ wire[p] = <<>>
    /\ HasBye(wire[p]) => /\ peer[Other(p)].closed
                          /\ peer[Other(p)].we = "we" \/ peer[p].closed
    /\ ByeLast(data[p])
    /\ ByeLast(wire[p])

Told(p) ==
    peer[p].we = "they" => /\ peer[Other(p)].we = "we"
                           /\ peer[Other(p)].closed
                           /\ ~HasBye(data[Other(p)])

GoneIdle(p) == peer[p].gone => data[p] = <<>>

Inv ==
    /\ Shape
    /\ \A p \in Sides : Sane(p, peer[p]) /\ GoneIdle(p) /\ Timely(p) /\ Byes(p) /\ Told(p)

-----------------------------------------------------------------------------
(* Sequences of frames *)

LEMMA SidesFacts ==
    /\ \A p \in Sides : Other(p) \in Sides /\ Other(p) # p /\ Other(Other(p)) = p
    /\ \A p, q \in Sides : q = p \/ q = Other(p)
BY DEF Sides, Other

LEMMA AgreedStays ==
    ASSUME setup' = setup
    PROVE  /\ \A p : Agreed(p)' = Agreed(p)
           /\ AllProtocols' = AllProtocols /\ Peers' = Peers /\ Frames' = Frames
           /\ \A p, s : Sane(p, s)' <=> Sane(p, s)
<1>1. \A p : Agreed(p)' = Agreed(p)
  BY DEF Agreed
<1>2. AllProtocols' = AllProtocols
  BY <1>1 DEF AllProtocols
<1>3. Peers' = Peers /\ Frames' = Frames
  BY <1>2 DEF Peers, Frames, Subs, AllCodes
<1> QED
  BY <1>1, <1>2, <1>3 DEF Sane

LEMMA EmptyFrames ==
    ASSUME NEW s, s = <<>>
    PROVE  ~HasBye(s) /\ ByeLast(s) /\ \A to, from : AllTimed(s, to, from)
BY DEF HasBye, ByeLast, AllTimed

LEMMA TailFrames ==
    ASSUME NEW F, NEW s \in Seq(F), s # <<>>
    PROVE  /\ Tail(s) \in Seq(F) /\ Head(s) \in F
           /\ HasBye(Tail(s)) => HasBye(s)
           /\ ByeLast(s) => ByeLast(Tail(s))
           /\ \A to, from : AllTimed(s, to, from) =>
                AllTimed(Tail(s), to, from) /\ Timed(Head(s), to, from)
           /\ Head(s).kind = "DISCONNECT" => HasBye(s)
<1> DEFINE t == Tail(s)
<1>1. /\ t \in Seq(F) /\ Len(t) = Len(s) - 1 /\ DOMAIN t = 1..(Len(s) - 1)
      /\ DOMAIN s = 1..Len(s) /\ Len(s) \in Nat /\ 1 \in DOMAIN s
      /\ Head(s) = s[1] /\ Head(s) \in F
  OBVIOUS
<1>2. \A k \in DOMAIN t : k + 1 \in DOMAIN s /\ t[k] = s[k + 1]
  BY <1>1
<1> HIDE DEF t
<1>3. HasBye(t) => HasBye(s)
  BY <1>2 DEF HasBye
<1>4. ByeLast(s) => ByeLast(t)
  BY <1>1, <1>2 DEF ByeLast
<1>5. \A to, from : AllTimed(s, to, from) => AllTimed(t, to, from) /\ Timed(Head(s), to, from)
  BY <1>1, <1>2 DEF AllTimed
<1>6. Head(s).kind = "DISCONNECT" => HasBye(s)
  BY <1>1 DEF HasBye
<1> QED
  BY <1>1, <1>3, <1>4, <1>5, <1>6 DEF t

\* The frames of s after the first n.
LEMMA RestFrames ==
    ASSUME NEW F, NEW s \in Seq(F), NEW n \in Nat, NEW l, l = Len(s), n <= l,
           NEW b, b = SubSeq(s, n + 1, l)
    PROVE  /\ b \in Seq(F) /\ Len(b) = l - n /\ DOMAIN b = 1..(l - n)
           /\ \A k \in 1..(l - n) : k + n \in 1..l /\ b[k] = s[k + n]
<1>1. l \in Nat /\ n + 1 \in Int /\ l \in Int
  OBVIOUS
<1>2. \A i \in (n + 1)..l : s[i] \in F
  BY <1>1
<1>3. /\ SubSeq(s, n + 1, l) \in Seq(F)
      /\ Len(SubSeq(s, n + 1, l)) = IF n + 1 <= l THEN l - (n + 1) + 1 ELSE 0
      /\ \A i \in 1..(l - (n + 1) + 1) : SubSeq(s, n + 1, l)[i] = s[(n + 1) + i - 1]
  BY <1>1, <1>2, SubSeqProperties
<1>4. b \in Seq(F) /\ Len(b) = l - n
  BY <1>1, <1>3
<1>5. DOMAIN b = 1..(l - n)
  BY <1>4
<1>6. ASSUME NEW k \in 1..(l - n) PROVE k + n \in 1..l /\ b[k] = s[k + n]
  <2>1. k \in 1..(l - (n + 1) + 1) /\ (n + 1) + k - 1 = k + n /\ k + n \in 1..l
    BY <1>1
  <2>2. b[k] = s[(n + 1) + k - 1]
    BY <1>3, <2>1, Zenon
  <2> QED
    BY <2>1, <2>2, Zenon
<1> QED
  BY <1>4, <1>5, <1>6

LEMMA SplitFrames ==
    ASSUME NEW F, NEW s \in Seq(F), NEW n \in 1..Len(s)
    PROVE  LET a == SubSeq(s, 1, n)
               b == SubSeq(s, n + 1, Len(s))
           IN  /\ a \in Seq(F) /\ b \in Seq(F)
               /\ HasBye(a) => HasBye(s)
               /\ HasBye(b) => HasBye(s)
               /\ ByeLast(s) => ByeLast(a) /\ ByeLast(b)
               /\ ByeLast(s) /\ HasBye(a) => b = <<>>
               /\ \A to, from : AllTimed(s, to, from) =>
                    AllTimed(a, to, from) /\ AllTimed(b, to, from)
<1> DEFINE a == SubSeq(s, 1, n)
           b == SubSeq(s, n + 1, Len(s))
<1>0. n \in Nat /\ n <= Len(s)
  OBVIOUS
<1>1. DOMAIN s = 1..Len(s) /\ Len(s) \in Nat
  OBVIOUS
<1>2. /\ a \in Seq(F) /\ Len(a) = n /\ DOMAIN a = 1..n
      /\ \A k \in DOMAIN a : k \in DOMAIN s /\ a[k] = s[k]
  BY <1>1
<1>3. /\ b \in Seq(F) /\ Len(b) = Len(s) - n /\ DOMAIN b = 1..(Len(s) - n)
      /\ \A k \in DOMAIN b : k + n \in DOMAIN s /\ b[k] = s[k + n]
  <2>1. /\ b \in Seq(F) /\ Len(b) = Len(s) - n /\ DOMAIN b = 1..(Len(s) - n)
        /\ \A k \in 1..(Len(s) - n) : k + n \in 1..Len(s) /\ b[k] = s[k + n]
    <3>1. \A l, c : l = Len(s) /\ c = SubSeq(s, n + 1, l) =>
            /\ c \in Seq(F) /\ Len(c) = l - n /\ DOMAIN c = 1..(l - n)
            /\ \A k \in 1..(l - n) : k + n \in 1..l /\ c[k] = s[k + n]
      BY <1>0, RestFrames
    <3> QED
      BY <3>1, Zenon
  <2> QED
    BY <1>1, <2>1, Zenon
<1> HIDE DEF a, b
<1>4. (HasBye(a) => HasBye(s)) /\ (HasBye(b) => HasBye(s))
  BY <1>2, <1>3 DEF HasBye
<1>5. ByeLast(s) => ByeLast(a) /\ ByeLast(b)
  BY <1>1, <1>2, <1>3 DEF ByeLast
<1>6. ASSUME ByeLast(s), HasBye(a) PROVE b = <<>>
  <2> PICK k \in DOMAIN a : a[k].kind = "DISCONNECT"
    BY <1>6 DEF HasBye
  <2>0. k \in DOMAIN s /\ s[k].kind = "DISCONNECT" /\ k \in 1..n
    BY <1>2
  <2>k. k \in Nat /\ k <= n
    BY <1>0, <2>0
  <2>1. k = Len(s)
    BY <1>6, <2>0 DEF ByeLast
  <2>2. n = Len(s)
    <3>1. Len(s) <= n
      BY <2>k, <2>1, Zenon
    <3> QED
      BY <1>0, <3>1
  <2>3. Len(b) = 0
    BY <1>1, <1>3, <2>2
  <2> QED
    BY <1>3, <2>3
<1>7. \A to, from : AllTimed(s, to, from) => AllTimed(a, to, from) /\ AllTimed(b, to, from)
  BY <1>2, <1>3 DEF AllTimed
<1> QED
  BY <1>2, <1>3, <1>4, <1>5, <1>6, <1>7 DEF a, b

LEMMA JoinedFrames ==
    ASSUME NEW F, NEW s \in Seq(F), NEW t \in Seq(F)
    PROVE  /\ s \o t \in Seq(F)
           /\ HasBye(s \o t) => HasBye(s) \/ HasBye(t)
           /\ ~HasBye(s) /\ ByeLast(t) => ByeLast(s \o t)
           /\ t = <<>> => s \o t = s
           /\ \A to, from : AllTimed(s, to, from) /\ AllTimed(t, to, from) =>
                AllTimed(s \o t, to, from)
<1> DEFINE u == s \o t
<1>1. /\ DOMAIN s = 1..Len(s) /\ Len(s) \in Nat
      /\ DOMAIN t = 1..Len(t) /\ Len(t) \in Nat
  OBVIOUS
<1>2. /\ u \in Seq(F) /\ Len(u) = Len(s) + Len(t) /\ DOMAIN u = 1..(Len(s) + Len(t))
      /\ \A k \in DOMAIN u : u[k] = IF k <= Len(s) THEN s[k] ELSE t[k - Len(s)]
  BY <1>1
<1>3. t = <<>> => u = s
  BY <1>1
<1> HIDE DEF u
<1>4. \A k \in DOMAIN u : \/ k \in DOMAIN s /\ u[k] = s[k]
                          \/ k - Len(s) \in DOMAIN t /\ u[k] = t[k - Len(s)] /\ k \in Int
  BY <1>1, <1>2
<1>5. HasBye(u) => HasBye(s) \/ HasBye(t)
  BY <1>4 DEF HasBye
<1>6. ASSUME ~HasBye(s), ByeLast(t) PROVE ByeLast(u)
  BY <1>1, <1>2, <1>4, <1>6 DEF HasBye, ByeLast
<1>7. \A to, from : AllTimed(s, to, from) /\ AllTimed(t, to, from) => AllTimed(u, to, from)
  BY <1>4 DEF AllTimed
<1> QED
  BY <1>2, <1>3, <1>5, <1>6, <1>7 DEF u

-----------------------------------------------------------------------------
(* A step of one Peer *)

\* p becomes s, has d left of its chunk, and may write fs to the other; or p's
\* connection breaks.
LEMMA PeerStep ==
    ASSUME Inv, setup' = setup,
           NEW p \in Sides, NEW s \in Peers, NEW d \in Seq(Frames), NEW fs \in Seq(Frames),
           peer' = [peer EXCEPT ![p] = s],
           data' = [data EXCEPT ![p] = d],
           \/ wire' = wire
           \/ wire' = [wire EXCEPT ![Other(p)] = @ \o fs]
           \/ wire' = [wire EXCEPT ![p] = <<>>],
           d = data[p] \/ (data[p] # <<>> /\ d = Tail(data[p])),
           Sane(p, s),
           s.hello => peer[Other(p)].weHello,
           peer[p].weHello => s.weHello,
           peer[p].closed => s.closed,
           s.gone => d = <<>>,
           fs = <<>> \/ ~peer[p].closed,
           ByeLast(fs),
           HasBye(fs) => s.closed /\ s.we = "we",
           AllTimed(fs, peer[Other(p)].weHello, s.weHello),
           \/ s.we = peer[p].we
           \/ ~peer[p].closed /\ s.we = "we"
           \/ s.we = "they" /\ s.closed /\ HasBye(data[p])
    PROVE  Inv'
<1> PICK q \in Sides : q = Other(p) /\ q # p /\ Other(q) = p
  BY SidesFacts
<1>q. \A r \in Sides : r = p \/ r = q
  BY SidesFacts
<1>t. /\ peer \in [Sides -> Peers]
      /\ data \in [Sides -> Seq(Frames)] /\ wire \in [Sides -> Seq(Frames)]
  BY DEF Inv, Shape
<1>p. peer'[p] = s /\ peer'[q] = peer[q] /\ data'[p] = d /\ data'[q] = data[q]
  BY <1>t
<1>c. Shape'
  <2>1. wire[q] \o fs \in Seq(Frames)
    BY <1>t, JoinedFrames
  <2>0. <<>> \in Seq(Frames)
    OBVIOUS
  <2>2. wire' \in [Sides -> Seq(Frames)]
    BY <1>t, <2>0, <2>1, Zenon
  <2>3. peer' \in [Sides -> Peers] /\ data' \in [Sides -> Seq(Frames)]
    BY <1>t
  <2> QED
    BY <2>2, <2>3, AgreedStays DEF Shape
<1>w. /\ wire'[p] = wire[p] \/ wire'[p] = <<>>
      /\ wire'[q] \in {wire[q], wire[q] \o fs}
  BY <1>t
<1>e. /\ HasBye(wire'[p]) => HasBye(wire[p])
      /\ ByeLast(wire[p]) => ByeLast(wire'[p])
      /\ wire[p] = <<>> => wire'[p] = <<>>
      /\ \A to, from : AllTimed(wire[p], to, from) => AllTimed(wire'[p], to, from)
  BY <1>w, EmptyFrames
<1>o. /\ Sane(p, peer[p]) /\ GoneIdle(p) /\ Timely(p) /\ Byes(p) /\ Told(p)
      /\ Sane(q, peer[q]) /\ GoneIdle(q) /\ Timely(q) /\ Byes(q) /\ Told(q)
  BY DEF Inv
<1>d. /\ HasBye(d) => HasBye(data[p])
      /\ ByeLast(data[p]) => ByeLast(d)
      /\ \A to, from : AllTimed(data[p], to, from) => AllTimed(d, to, from)
  <2>1. CASE d = data[p]
    BY <2>1
  <2>2. CASE data[p] # <<>> /\ d = Tail(data[p])
    <3>1. data[p] \in Seq(Frames)
      BY <1>t
    <3> QED
      BY <2>2, <3>1, TailFrames, Zenon
  <2> QED
    BY <2>1, <2>2
<1>m. ASSUME NEW u, NEW to, NEW from, NEW to1, NEW from1,
             AllTimed(u, to, from), to => to1, from => from1
      PROVE  AllTimed(u, to1, from1)
  BY <1>m DEF AllTimed, Timed
<1>j. /\ HasBye(wire'[q]) => HasBye(wire[q]) \/ HasBye(fs)
      /\ ~HasBye(wire[q]) \/ fs = <<>> => (ByeLast(wire[q]) => ByeLast(wire'[q]))
      /\ fs = <<>> => wire'[q] = wire[q]
      /\ \A to, from : AllTimed(wire[q], to, from) /\ AllTimed(fs, to, from)
                        => AllTimed(wire'[q], to, from)
  <2>1. CASE wire'[q] = wire[q]
    BY <2>1
  <2>2. CASE wire'[q] = wire[q] \o fs
    <3>1. wire[q] \in Seq(Frames)
      BY <1>t
    <3>2. /\ HasBye(wire[q] \o fs) => HasBye(wire[q]) \/ HasBye(fs)
          /\ ~HasBye(wire[q]) /\ ByeLast(fs) => ByeLast(wire[q] \o fs)
          /\ fs = <<>> => wire[q] \o fs = wire[q]
          /\ \A to, from : AllTimed(wire[q], to, from) /\ AllTimed(fs, to, from)
                            => AllTimed(wire[q] \o fs, to, from)
      BY <3>1, JoinedFrames, ZenonT(60)
    <3> QED
      BY <2>2, <3>2, Zenon
  <2> QED
    BY <1>w, <2>1, <2>2
<1>1. Sane(p, peer[p])' /\ Sane(q, peer[q])'
  <2>1. Agreed(p)' = Agreed(p) /\ Agreed(q)' = Agreed(q)
    BY AgreedStays
  <2>2. Sane(p, s)' /\ Sane(q, peer[q])
    BY <2>1, <1>o DEF Sane
  <2>3. Sane(q, peer[q])'
    BY <2>1, <2>2, <1>p DEF Sane
  <2> QED
    BY <2>2, <2>3, <1>p DEF Sane
<1>2. GoneIdle(p)' /\ GoneIdle(q)'
  BY <1>p, <1>o DEF GoneIdle
<1>3. Timely(p)' /\ Timely(q)'
  <2>0. Other(p) = q /\ Other(q) = p
    OBVIOUS
  <2>1. AllTimed(d, s.weHello, peer[q].weHello) /\ AllTimed(wire[p], s.weHello, peer[q].weHello)
    BY <1>o, <1>d, <1>m, <2>0 DEF Timely
  <2>2. AllTimed(data[q], peer[q].weHello, s.weHello) /\ AllTimed(wire[q], peer[q].weHello, s.weHello)
    BY <1>o, <1>m, <2>0 DEF Timely
  <2>3. AllTimed(wire'[q], peer[q].weHello, s.weHello) /\ AllTimed(wire'[p], s.weHello, peer[q].weHello)
    BY <2>1, <2>2, <1>e, <1>j, <2>0
  <2> QED
    BY <1>o, <1>p, <2>0, <2>1, <2>2, <2>3 DEF Timely
<1>4. Byes(p)' /\ Byes(q)'
  <2>0. Other(p) = q /\ Other(q) = p
    OBVIOUS
  <2>1. /\ HasBye(data[p]) => /\ peer[q].closed /\ peer[q].we = "we"
                              /\ ~HasBye(data[q]) /\ wire[p] = <<>>
        /\ HasBye(wire[p]) => peer[q].closed /\ (peer[q].we = "we" \/ peer[p].closed)
        /\ ByeLast(data[p]) /\ ByeLast(wire[p])
    BY <1>o, <2>0 DEF Byes
  <2>2. /\ HasBye(data[q]) => /\ peer[p].closed /\ peer[p].we = "we"
                              /\ ~HasBye(data[p]) /\ wire[q] = <<>>
        /\ HasBye(wire[q]) => peer[p].closed /\ (peer[p].we = "we" \/ peer[q].closed)
        /\ ByeLast(data[q]) /\ ByeLast(wire[q])
    BY <1>o, <2>0 DEF Byes
  <2>3. Byes(p)'
    BY <2>0, <2>1, <1>p, <1>e, <1>d DEF Byes
  <2>4. HasBye(data[q]) => s.closed /\ s.we = "we" /\ ~HasBye(d) /\ wire'[q] = <<>>
    BY <2>1, <2>2, <1>d, <1>j
  <2>5. HasBye(wire'[q]) => s.closed /\ (s.we = "we" \/ peer[q].closed)
    <3>1. CASE HasBye(fs)
      BY <3>1
    <3>2. CASE HasBye(wire[q])
      BY <3>2, <2>1, <2>2
    <3> QED
      BY <3>1, <3>2, <1>j
  <2>6. ByeLast(wire'[q])
    BY <2>2, <1>j
  <2>7. Byes(q)'
    BY <2>0, <2>2, <2>4, <2>5, <2>6, <1>p DEF Byes
  <2> QED
    BY <2>3, <2>7
<1>5. Told(p)' /\ Told(q)'
  <2>0. Other(p) = q /\ Other(q) = p
    OBVIOUS
  <2>1. HasBye(data[p]) => peer[q].closed /\ peer[q].we = "we" /\ ~HasBye(data[q])
    BY <1>o, <2>0 DEF Byes
  <2>2. peer[p].we = "they" => peer[q].we = "we" /\ peer[q].closed /\ ~HasBye(data[q])
    BY <1>o, <2>0 DEF Told
  <2>3. peer[q].we = "they" => peer[p].we = "we" /\ peer[p].closed /\ ~HasBye(data[p])
    BY <1>o, <2>0 DEF Told
  <2>4. s.we = "they" => peer[q].we = "we" /\ peer[q].closed /\ ~HasBye(data[q])
    BY <2>1, <2>2
  <2>5. peer[q].we = "they" => s.we = "we" /\ s.closed /\ ~HasBye(d)
    BY <2>3, <1>d
  <2> QED
    BY <2>0, <2>4, <2>5, <1>p DEF Told
<1> QED
  BY <1>c, <1>1, <1>2, <1>3, <1>4, <1>5, <1>q DEF Inv

LEMMA KindFrames ==
    /\ \A k \in {"AUTH", "ACK", "HELLO", "PING", "PONG"} : Plain(k) \in Frames
    /\ \A r \in Reasons : Bye(r) \in Frames
BY DEF Frames, Plain, Bye

LEMMA OneFrame ==
    ASSUME NEW f \in Frames
    PROVE  /\ <<f>> \in Seq(Frames)
           /\ HasBye(<<f>>) <=> f.kind = "DISCONNECT"
           /\ ByeLast(<<f>>)
           /\ \A to, from : Timed(f, to, from) => AllTimed(<<f>>, to, from)
<1> DEFINE u == <<f>>
<1>1. u \in Seq(Frames) /\ DOMAIN u = {1} /\ u[1] = f /\ Len(u) = 1
  OBVIOUS
<1> HIDE DEF u
<1>2. (HasBye(u) <=> f.kind = "DISCONNECT") /\ ByeLast(u)
  BY <1>1 DEF HasBye, ByeLast
<1>3. \A to, from : Timed(f, to, from) => AllTimed(u, to, from)
  BY <1>1 DEF AllTimed
<1> QED
  BY <1>1, <1>2, <1>3 DEF u

LEMMA ClosedPeer ==
    ASSUME NEW s \in Peers, NEW reason \in Reasons \cup {"none"}
    PROVE  [s EXCEPT !.closed = TRUE, !.reason = reason, !.we = "we", !.ending = TRUE] \in Peers
BY DEF Peers

\* The Peer s of p becomes t and writes fs, none of it before the HELLO of the
\* other.
Wrote(p, s, t, fs) ==
    /\ t \in Peers /\ Sane(p, t)
    /\ t.weHello = s.weHello /\ t.hello = s.hello /\ t.gone = s.gone
    /\ s.closed => t.closed
    /\ t.we = s.we \/ (~s.closed /\ t.we = "we")
    /\ fs \in Seq(Frames) /\ ByeLast(fs)
    /\ fs = <<>> \/ ~s.closed
    /\ HasBye(fs) => t.closed /\ t.we = "we"
    /\ \A to, from : to => AllTimed(fs, to, from)

LEMMA WroteNothing ==
    ASSUME NEW p, NEW s \in Peers, Sane(p, s)
    PROVE  Wrote(p, s, s, <<>>)
<1>1. <<>> \in Seq(Frames)
  OBVIOUS
<1>2. ~HasBye(<<>>) /\ ByeLast(<<>>) /\ \A to, from : AllTimed(<<>>, to, from)
  BY EmptyFrames
<1> QED
  BY <1>1, <1>2, Zenon DEF Wrote

\* A Peer s that may close disconnects.
LEMMA ClosingFacts ==
    ASSUME NEW p \in Sides, NEW s \in Peers, NEW reason \in Reasons,
           Sane(p, [s EXCEPT !.closed = TRUE])
    PROVE  Wrote(p, s, Disconnected(s, reason), Farewell(s, reason))
<1> DEFINE u == [s EXCEPT !.closed = TRUE]
<1>u. /\ u.protocols = s.protocols /\ u.hello = s.hello /\ u.weHello = s.weHello
      /\ u.connected = s.connected /\ u.pinging = s.pinging /\ u.waiting = s.waiting
      /\ u.emitted = s.emitted /\ u.mode = s.mode /\ u.tick = s.tick /\ u.gone = s.gone
      /\ u.closed = TRUE /\ u.we = s.we
  BY DEF Peers
<1>1. CASE s.closed
  <2>0. u = s
    BY <1>1 DEF Peers
  <2>1. Disconnected(s, reason) = s /\ Farewell(s, reason) = <<>>
    BY <1>1 DEF Disconnected, Farewell
  <2> QED
    BY <1>1, <2>0, <2>1, WroteNothing
<1>2. CASE ~s.closed
  <2> DEFINE t  == Disconnected(s, reason)
             fs == Farewell(s, reason)
  <2>1. /\ t = [s EXCEPT !.closed = TRUE, !.reason = reason, !.we = "we", !.ending = TRUE]
        /\ fs = <<Bye(reason)>>
    BY <1>2 DEF Disconnected, Farewell
  <2>2. t \in Peers
    <3>1. reason \in Reasons \cup {"none"}
      OBVIOUS
    <3> QED
      BY <2>1, <3>1, ClosedPeer, Zenon
  <2>3. /\ t.protocols = s.protocols /\ t.hello = s.hello /\ t.weHello = s.weHello
        /\ t.connected = s.connected /\ t.pinging = s.pinging /\ t.waiting = s.waiting
        /\ t.emitted = s.emitted /\ t.mode = s.mode /\ t.tick = s.tick /\ t.gone = s.gone
        /\ t.closed = TRUE /\ t.we = "we"
    BY <2>1 DEF Peers
  <2>4. Sane(p, t)
    <3>1. Sane(p, u)
      OBVIOUS
    <3> HIDE DEF u, t
    <3> QED
      BY <1>u, <2>3, <3>1 DEF Sane
  <2>5. Bye(reason) \in Frames /\ Bye(reason).kind = "DISCONNECT"
    BY KindFrames DEF Bye
  <2>6. \A to, from : to => Timed(Bye(reason), to, from)
    BY <2>5 DEF Timed
  <2>7. fs \in Seq(Frames) /\ ByeLast(fs) /\ \A to, from : to => AllTimed(fs, to, from)
    BY <2>1, <2>5, <2>6, OneFrame
  <2> HIDE DEF t, fs
  <2>8. Wrote(p, s, t, fs)
    BY <1>2, <2>2, <2>3, <2>4, <2>7 DEF Wrote
  <2> QED
    BY <2>8 DEF t, fs
<1> QED
  BY <1>1, <1>2

LEMMA DisconnectedFacts ==
    ASSUME NEW p \in Sides, NEW s \in Peers, Sane(p, s), NEW reason \in Reasons,
           ~s.closed => s.mode \in {"frames", "lost"},
           ~s.closed /\ s.tick # "none" /\ Agreed(p) # {} => s.weHello
    PROVE  Wrote(p, s, Disconnected(s, reason), Farewell(s, reason))
<1> DEFINE u == [s EXCEPT !.closed = TRUE]
<1>1. /\ u.protocols = s.protocols /\ u.hello = s.hello /\ u.weHello = s.weHello
      /\ u.connected = s.connected /\ u.pinging = s.pinging /\ u.waiting = s.waiting
      /\ u.emitted = s.emitted /\ u.mode = s.mode /\ u.tick = s.tick /\ u.gone = s.gone
      /\ u.closed = TRUE /\ u.we = s.we
  BY DEF Peers
<1>2. Sane(p, u)
  <2> HIDE DEF u
  <2> QED
    BY <1>1 DEF Sane
<1> QED
  BY <1>2, ClosingFacts

LEMMA PeerFacts ==
    ASSUME Inv, NEW p \in Sides
    PROVE  /\ peer \in [Sides -> Peers] /\ peer[p] \in Peers
           /\ data \in [Sides -> Seq(Frames)] /\ data[p] \in Seq(Frames)
           /\ wire \in [Sides -> Seq(Frames)] /\ wire[p] \in Seq(Frames)
           /\ Sane(p, peer[p]) /\ GoneIdle(p) /\ Timely(p) /\ Byes(p) /\ Told(p)
           /\ peer[p].hello => peer[Other(p)].weHello
           /\ \A q \in Sides : Sane(q, peer[q])
BY DEF Inv, Shape, Timely

\* A frame that p reads.
LEMMA ReadFacts ==
    ASSUME Inv, NEW p \in Sides, NEW mode, NEW kind, Reads(p, mode, kind)
    PROVE  /\ data[p] # <<>> /\ ~peer[p].gone /\ peer[p].mode = mode
           /\ Head(data[p]) \in Frames /\ Head(data[p]).kind = kind
           /\ kind \in {"HELLO", "PING", "PONG", "SUB"} => peer[Other(p)].weHello
           /\ kind \in {"PING", "PONG", "SUB", "DISCONNECT"} => peer[p].weHello
           /\ kind = "DISCONNECT" => HasBye(data[p])
<1>1. /\ data[p] # <<>> /\ peer[p].mode = mode /\ Head(data[p]).kind = kind
  BY DEF Reads
<1>2. data[p] \in Seq(Frames) /\ GoneIdle(p) /\ Timely(p)
  BY PeerFacts
<1>3. /\ Head(data[p]) \in Frames
      /\ \A to, from : AllTimed(data[p], to, from) => Timed(Head(data[p]), to, from)
      /\ Head(data[p]).kind = "DISCONNECT" => HasBye(data[p])
  BY <1>1, <1>2, TailFrames, Zenon
<1>4. Timed(Head(data[p]), peer[p].weHello, peer[Other(p)].weHello)
  BY <1>2, <1>3 DEF Timely
<1>5. ~peer[p].gone
  BY <1>1, <1>2 DEF GoneIdle
<1> QED
  BY <1>1, <1>3, <1>4, <1>5 DEF Timed

\* PeerStep, in the words of the actions.
LEMMA WriteStep ==
    ASSUME Inv, setup' = setup,
           NEW p \in Sides, NEW s \in Peers, NEW fs \in Seq(Frames),
           peer' = [peer EXCEPT ![p] = s],
           data' = data \/ (data[p] # <<>> /\ Consume(p)),
           wire' = wire \/ Write(p, fs) \/ wire' = [wire EXCEPT ![p] = <<>>],
           Sane(p, s),
           s.hello => peer[Other(p)].weHello,
           peer[p].weHello => s.weHello,
           peer[p].closed => s.closed,
           s.gone => data' = data /\ data[p] = <<>>,
           fs = <<>> \/ ~peer[p].closed,
           ByeLast(fs),
           HasBye(fs) => s.closed /\ s.we = "we",
           AllTimed(fs, peer[Other(p)].weHello, s.weHello),
           \/ s.we = peer[p].we
           \/ ~peer[p].closed /\ s.we = "we"
           \/ s.we = "they" /\ s.closed /\ HasBye(data[p])
    PROVE  Inv'
<1>1. data \in [Sides -> Seq(Frames)] /\ data[p] \in Seq(Frames)
  BY PeerFacts
<1>2. PICK d \in Seq(Frames) : /\ data' = [data EXCEPT ![p] = d]
                               /\ d = data[p] \/ (data[p] # <<>> /\ d = Tail(data[p]))
                               /\ data' = data => d = data[p]
  <2>1. CASE data' = data
    <3>1. data' = [data EXCEPT ![p] = data[p]]
      BY <1>1, <2>1
    <3> QED
      BY <1>1, <2>1, <3>1
  <2>2. CASE data' # data /\ data[p] # <<>> /\ Consume(p)
    <3>1. Tail(data[p]) \in Seq(Frames)
      BY <1>1, <2>2, TailFrames, Zenon
    <3>2. data' = [data EXCEPT ![p] = Tail(data[p])]
      BY <2>2 DEF Consume
    <3> QED
      BY <2>2, <3>1, <3>2
  <2> QED
    BY <2>1, <2>2
<1>3. \/ wire' = wire
      \/ wire' = [wire EXCEPT ![Other(p)] = @ \o fs]
      \/ wire' = [wire EXCEPT ![p] = <<>>]
  BY DEF Write
<1>4. s.gone => d = <<>>
  BY <1>2
<1> QED
  BY <1>2, <1>3, <1>4, PeerStep, Zenon

LEMMA QuietStep ==
    ASSUME Inv, setup' = setup,
           NEW p \in Sides, NEW s \in Peers,
           peer' = [peer EXCEPT ![p] = s],
           data' = data \/ (data[p] # <<>> /\ Consume(p)),
           wire' = wire \/ wire' = [wire EXCEPT ![p] = <<>>],
           Sane(p, s),
           s.hello => peer[Other(p)].weHello,
           peer[p].weHello => s.weHello,
           peer[p].closed => s.closed,
           s.gone => data' = data /\ data[p] = <<>>,
           \/ s.we = peer[p].we
           \/ s.we = "they" /\ s.closed /\ HasBye(data[p])
    PROVE  Inv'
<1>1. <<>> \in Seq(Frames)
  OBVIOUS
<1>2. ~HasBye(<<>>) /\ ByeLast(<<>>) /\ AllTimed(<<>>, peer[Other(p)].weHello, s.weHello)
  BY EmptyFrames
<1> QED
  BY <1>1, <1>2, WriteStep, Zenon

-----------------------------------------------------------------------------
(* One lemma per action *)

LEMMA ReadAuthKeeps ==
    ASSUME Inv, NEW p \in Sides, ReadAuth(p)
    PROVE  Inv'
<1> DEFINE o == peer[p]
<1>1. Reads(p, "auth", "AUTH") /\ setup' = setup /\ wire' = wire
  BY DEF ReadAuth
<1>2. /\ data[p] # <<>> /\ ~o.gone /\ o.mode = "auth"
  BY <1>1, ReadFacts
<1>3. o \in Peers /\ peer \in [Sides -> Peers] /\ Sane(p, o) /\ (o.hello => peer[Other(p)].weHello)
  BY PeerFacts
<1>4. ~o.hello /\ ~o.weHello /\ o.tick = "none" /\ ~o.closed
  BY <1>2, <1>3 DEF Sane
<1>5. CASE setup.rightId
  <2> DEFINE s == [o EXCEPT !.mode = "frames", !.tick = "ack"]
  <2>1. peer' = [peer EXCEPT ![p] = s] /\ Consume(p)
    BY <1>3, <1>5 DEF ReadAuth
  <2>2. s \in Peers
    BY <1>3 DEF Peers
  <2>3. Sane(p, s)
    BY <1>3, <1>4 DEF Sane, Peers
  <2>4. s.hello = o.hello /\ s.weHello = o.weHello /\ s.closed = o.closed /\ s.gone = o.gone
        /\ s.we = o.we
    BY <1>3 DEF Peers
  <2> QED
    BY <1>1, <1>2, <1>3, <2>1, <2>2, <2>3, <2>4, QuietStep
<1>6. CASE ~setup.rightId
  <2> DEFINE s == [o EXCEPT !.mode = "lost"]
  <2>1. peer' = [peer EXCEPT ![p] = s] /\ data' = data
    BY <1>3, <1>6 DEF ReadAuth
  <2>2. s \in Peers
    BY <1>3 DEF Peers
  <2>3. Sane(p, s)
    BY <1>3, <1>4 DEF Sane, Peers
  <2>4. s.hello = o.hello /\ s.weHello = o.weHello /\ s.closed = o.closed /\ s.gone = o.gone
        /\ s.we = o.we
    BY <1>3 DEF Peers
  <2> QED
    BY <1>1, <1>2, <1>3, <2>1, <2>2, <2>3, <2>4, QuietStep
<1> QED
  BY <1>5, <1>6

LEMMA ReadAckKeeps ==
    ASSUME Inv, NEW p \in Sides, ReadAck(p)
    PROVE  Inv'
<1> DEFINE o == peer[p]
           s == [o EXCEPT !.mode = "frames", !.tick = "hello"]
<1>1. Reads(p, "ack", "ACK") /\ setup' = setup /\ wire' = wire
  BY DEF ReadAck
<1>2. /\ data[p] # <<>> /\ ~o.gone /\ o.mode = "ack"
  BY <1>1, ReadFacts
<1>3. o \in Peers /\ peer \in [Sides -> Peers] /\ Sane(p, o) /\ (o.hello => peer[Other(p)].weHello)
  BY PeerFacts
<1>4. ~o.hello /\ ~o.weHello /\ o.tick = "none" /\ ~o.closed
  BY <1>2, <1>3 DEF Sane
<1>5. peer' = [peer EXCEPT ![p] = s] /\ Consume(p)
  BY <1>3 DEF ReadAck
<1>6. s \in Peers
  BY <1>3 DEF Peers
<1>7. Sane(p, s)
  BY <1>3, <1>4 DEF Sane, Peers
<1>8. /\ s.hello = o.hello /\ s.weHello = o.weHello /\ s.closed = o.closed /\ s.gone = o.gone
      /\ s.we = o.we
  BY <1>3 DEF Peers
<1> QED
  BY <1>1, <1>2, <1>3, <1>5, <1>6, <1>7, <1>8, QuietStep

LEMMA ReadDisconnectKeeps ==
    ASSUME Inv, NEW p \in Sides, ReadDisconnect(p)
    PROVE  Inv'
<1> DEFINE o    == peer[p]
           told == [o EXCEPT !.closed = TRUE]
           s    == IF Head(data[p]).reason = "requested" THEN told
                   ELSE [told EXCEPT !.we = "they", !.reason = "none", !.ended = TRUE]
<1>1. /\ Reads(p, "frames", "DISCONNECT") /\ setup' = setup /\ wire' = wire
      /\ peer' = [peer EXCEPT ![p] = s] /\ Consume(p)
  BY DEF ReadDisconnect
<1>2. /\ data[p] # <<>> /\ ~o.gone /\ o.mode = "frames" /\ o.weHello /\ HasBye(data[p])
  BY <1>1, ReadFacts
<1>3. o \in Peers /\ peer \in [Sides -> Peers] /\ Sane(p, o) /\ (o.hello => peer[Other(p)].weHello)
  BY PeerFacts
<1>4. told \in Peers
  BY <1>3 DEF Peers
<1>5. s \in Peers
  <2>1. [told EXCEPT !.we = "they", !.reason = "none", !.ended = TRUE] \in Peers
    <3> HIDE DEF told
    <3> QED
      BY <1>4 DEF Peers
  <2> QED
    BY <1>4, <2>1
<1>6. /\ s.protocols = o.protocols /\ s.hello = o.hello /\ s.weHello = o.weHello
      /\ s.connected = o.connected /\ s.pinging = o.pinging /\ s.waiting = o.waiting
      /\ s.emitted = o.emitted /\ s.mode = o.mode /\ s.tick = o.tick /\ s.gone = o.gone
      /\ s.closed = TRUE /\ s.we \in {o.we, "they"}
  BY <1>3, <1>4 DEF Peers
<1>7. Sane(p, s)
  BY <1>2, <1>3, <1>6 DEF Sane
<1> HIDE DEF s
<1> QED
  BY <1>1, <1>2, <1>3, <1>5, <1>6, <1>7, QuietStep

LEMMA ReadPingKeeps ==
    ASSUME Inv, NEW p \in Sides, ReadPing(p)
    PROVE  Inv'
<1> DEFINE o  == peer[p]
           fs == IF o.closed THEN <<>> ELSE <<Plain("PONG")>>
<1>1. /\ Reads(p, "frames", "PING") /\ setup' = setup /\ peer' = peer
      /\ Write(p, fs) /\ Consume(p)
  BY DEF ReadPing
<1>2. /\ data[p] # <<>> /\ ~o.gone /\ peer[Other(p)].weHello /\ o.weHello
  BY <1>1, ReadFacts
<1>3. o \in Peers /\ peer \in [Sides -> Peers] /\ Sane(p, o) /\ (o.hello => peer[Other(p)].weHello)
  BY PeerFacts
<1>4. peer' = [peer EXCEPT ![p] = o]
  BY <1>1, <1>3
<1>5. Plain("PONG") \in Frames /\ Plain("PONG").kind = "PONG"
  BY KindFrames DEF Plain
<1>6. Timed(Plain("PONG"), peer[Other(p)].weHello, o.weHello)
  BY <1>2, <1>5 DEF Timed
<1>7. /\ fs \in Seq(Frames) /\ ~HasBye(fs) /\ ByeLast(fs) /\ (fs = <<>> \/ ~o.closed)
      /\ AllTimed(fs, peer[Other(p)].weHello, o.weHello)
  BY <1>5, <1>6, OneFrame, EmptyFrames
<1> HIDE DEF fs
<1> QED
  BY <1>1, <1>2, <1>3, <1>4, <1>7, WriteStep

LEMMA ReadPongKeeps ==
    ASSUME Inv, NEW p \in Sides, ReadPong(p)
    PROVE  Inv'
<1> DEFINE o == peer[p]
           s == [o EXCEPT !.waiting = FALSE]
<1>1. Reads(p, "frames", "PONG") /\ setup' = setup /\ wire' = wire /\ Consume(p)
  BY DEF ReadPong
<1>2. /\ data[p] # <<>> /\ ~o.gone
  BY <1>1, ReadFacts
<1>3. o \in Peers /\ peer \in [Sides -> Peers] /\ Sane(p, o) /\ (o.hello => peer[Other(p)].weHello)
  BY PeerFacts
<1>5. peer' = [peer EXCEPT ![p] = s]
  BY <1>3 DEF ReadPong
<1>6. s \in Peers
  BY <1>3 DEF Peers
<1>7. Sane(p, s)
  BY <1>3 DEF Sane, Peers
<1>8. /\ s.hello = o.hello /\ s.weHello = o.weHello /\ s.closed = o.closed /\ s.gone = o.gone
      /\ s.we = o.we
  BY <1>3 DEF Peers
<1> QED
  BY <1>1, <1>2, <1>3, <1>5, <1>6, <1>7, <1>8, QuietStep

\* p, having changed to s, becomes t and writes fs.
LEMMA WroteStep ==
    ASSUME Inv, NEW p \in Sides, NEW s \in Peers, NEW t, NEW fs,
           Wrote(p, s, t, fs),
           peer' = [peer EXCEPT ![p] = t], Write(p, fs),
           setup' = setup,
           data' = data \/ (data[p] # <<>> /\ Consume(p)),
           s.closed = peer[p].closed, s.we = peer[p].we,
           ~peer[p].gone, s.gone = peer[p].gone,
           peer[p].weHello => s.weHello,
           peer[Other(p)].weHello
    PROVE  Inv'
<1>1. /\ t \in Peers /\ Sane(p, t)
      /\ t.weHello = s.weHello /\ ~t.gone
      /\ peer[p].closed => t.closed
      /\ t.we = peer[p].we \/ (~peer[p].closed /\ t.we = "we")
      /\ fs \in Seq(Frames) /\ ByeLast(fs)
      /\ fs = <<>> \/ ~peer[p].closed
      /\ HasBye(fs) => t.closed /\ t.we = "we"
      /\ AllTimed(fs, peer[Other(p)].weHello, t.weHello)
  BY DEF Wrote
<1> QED
  BY <1>1, WriteStep

\* p disconnects, in a callback in which it knows of the other's HELLO.
LEMMA DisconnectKeeps ==
    ASSUME Inv, NEW p \in Sides, NEW reason \in Reasons, Disconnect(p, reason),
           setup' = setup,
           data' = data \/ (data[p] # <<>> /\ Consume(p)),
           ~peer[p].gone, peer[Other(p)].weHello,
           peer[p].hello,
           peer[p].tick # "none" => peer[p].weHello
    PROVE  Inv'
<1> DEFINE o == peer[p]
<1>1. o \in Peers /\ peer \in [Sides -> Peers] /\ Sane(p, o)
  BY PeerFacts
<1>2. /\ peer' = [peer EXCEPT ![p] = Disconnected(o, reason)]
      /\ Write(p, Farewell(o, reason))
  BY <1>1 DEF Disconnect
<1>3. o.mode \in {"frames", "lost"}
  BY <1>1 DEF Sane
<1>4. Wrote(p, o, Disconnected(o, reason), Farewell(o, reason))
  BY <1>1, <1>3, DisconnectedFacts
<1> QED
  BY <1>1, <1>2, <1>4, WroteStep

LEMMA ReadSubKeeps ==
    ASSUME Inv, NEW p \in Sides, NEW outcome \in {"fine", "subprotocol", "requested"},
           ReadSub(p, outcome)
    PROVE  Inv'
<1>1. /\ Reads(p, "frames", "SUB") /\ setup' = setup /\ Consume(p)
      /\ Routable(peer[p], Head(data[p]))
  BY DEF ReadSub
<1>2. /\ data[p] # <<>> /\ ~peer[p].gone /\ peer[Other(p)].weHello /\ peer[p].weHello
  BY <1>1, ReadFacts
<1>3. peer[p].hello
  BY <1>1 DEF Routable
<1>4. CASE outcome = "fine"
  <2>1. peer' = peer /\ wire' = wire
    BY <1>4 DEF ReadSub
  <2>2. peer[p] \in Peers /\ peer \in [Sides -> Peers] /\ Sane(p, peer[p])
    BY PeerFacts
  <2>3. peer' = [peer EXCEPT ![p] = peer[p]]
    BY <2>1, <2>2
  <2> QED
    BY <1>1, <1>2, <2>1, <2>2, <2>3, QuietStep
<1>5. CASE outcome # "fine"
  <2>1. Disconnect(p, outcome) /\ outcome \in Reasons
    BY <1>5 DEF ReadSub, Reasons
  <2> QED
    BY <1>1, <1>2, <1>3, <2>1, DisconnectKeeps
<1> QED
  BY <1>4, <1>5

LEMMA ReadUnroutableKeeps ==
    ASSUME Inv, NEW p \in Sides, ReadUnroutable(p)
    PROVE  Inv'
<1> DEFINE o  == peer[p]
           t  == Disconnected(o, "protocol")
           s  == [t EXCEPT !.mode = "lost"]
           fs == Farewell(o, "protocol")
<1>1. PICK kind \in {"PING", "PONG", "SUB"} : Reads(p, "frames", kind)
  BY DEF ReadUnroutable
<1>2. /\ setup' = setup /\ data' = data /\ Write(p, fs)
  BY DEF ReadUnroutable
<1>3. /\ ~o.gone /\ o.mode = "frames" /\ peer[Other(p)].weHello /\ o.weHello
  BY <1>1, ReadFacts
<1>4. o \in Peers /\ peer \in [Sides -> Peers] /\ Sane(p, o)
  BY PeerFacts
<1>5. peer' = [peer EXCEPT ![p] = s]
  BY <1>4 DEF ReadUnroutable
<1>6. "protocol" \in Reasons
  BY DEF Reasons
<1>7. Wrote(p, o, t, fs)
  BY <1>3, <1>4, <1>6, DisconnectedFacts
<1> HIDE DEF t, fs
<1>8. t \in Peers /\ Sane(p, t) /\ t.weHello = o.weHello
  BY <1>7 DEF Wrote
<1>9. s \in Peers
  BY <1>8 DEF Peers
<1>10. /\ s.protocols = t.protocols /\ s.hello = t.hello /\ s.weHello = t.weHello
       /\ s.connected = t.connected /\ s.pinging = t.pinging /\ s.waiting = t.waiting
       /\ s.emitted = t.emitted /\ s.mode = "lost" /\ s.tick = t.tick /\ s.gone = t.gone
       /\ s.closed = t.closed /\ s.we = t.we
  BY <1>8 DEF Peers
<1> HIDE DEF s
<1>11. Sane(p, s)
  BY <1>3, <1>8, <1>10 DEF Sane
<1>12. Wrote(p, o, s, fs)
  BY <1>7, <1>9, <1>10, <1>11 DEF Wrote
<1> QED
  BY <1>2, <1>3, <1>4, <1>5, <1>12, WroteStep

\* A Peer s that emits 'connect'.
LEMMA ConnectedFacts ==
    ASSUME NEW p \in Sides, NEW s \in Peers, NEW refuse \in BOOLEAN,
           Sane(p, [s EXCEPT !.emitted = @ \cup {"connect"}]),
           s.hello, s.weHello
    PROVE  Wrote(p, s, Connected(s, refuse), ByeIf(s, refuse))
<1> DEFINE u  == [s EXCEPT !.emitted = @ \cup {"connect"}]
<1>1. u \in Peers
  BY DEF Peers
<1>2. /\ u.mode = s.mode /\ u.hello = s.hello /\ u.weHello = s.weHello /\ u.closed = s.closed
      /\ u.gone = s.gone /\ u.we = s.we
  BY DEF Peers
<1>3. Sane(p, u)
  OBVIOUS
<1>4. /\ Connected(s, refuse) = IF refuse THEN Disconnected(u, "refused") ELSE u
      /\ ByeIf(s, refuse) = IF refuse THEN Farewell(u, "refused") ELSE <<>>
  BY <1>2 DEF Connected, ByeIf, Farewell
<1> HIDE DEF u
<1>5. Wrote(p, u, u, <<>>)
  BY <1>1, <1>3, WroteNothing
<1>6. Wrote(p, u, Disconnected(u, "refused"), Farewell(u, "refused"))
  <2>1. ~u.closed => u.mode \in {"frames", "lost"}
    BY <1>2, <1>3 DEF Sane
  <2>2. ~u.closed /\ u.tick # "none" /\ Agreed(p) # {} => u.weHello
    BY <1>2
  <2>3. "refused" \in Reasons
    BY DEF Reasons
  <2> QED
    BY <1>1, <1>3, <2>1, <2>2, <2>3, DisconnectedFacts
<1>7. Wrote(p, u, Connected(s, refuse), ByeIf(s, refuse))
  BY <1>4, <1>5, <1>6
<1> QED
  BY <1>2, <1>7 DEF Wrote

LEMMA ReadHelloKeeps ==
    ASSUME Inv, NEW p \in Sides, NEW refuse \in BOOLEAN, ReadHello(p, refuse)
    PROVE  Inv'
<1> DEFINE o     == peer[p]
           heard == [o EXCEPT !.hello = TRUE, !.protocols = Agreed(p)]
           up    == [heard EXCEPT !.connected = TRUE, !.pinging = TRUE]
<1>1. /\ Reads(p, "frames", "HELLO") /\ setup' = setup /\ Consume(p)
      /\ refuse => Agreed(p) # {} /\ Greeted(heard)
      /\ peer' = [peer EXCEPT ![p] =
                    IF Agreed(p) = {} THEN Disconnected(heard, "useless")
                    ELSE IF Greeted(heard) THEN Connected(up, refuse) ELSE up]
      /\ Write(p, IF Agreed(p) = {} THEN Farewell(heard, "useless") ELSE ByeIf(up, refuse))
  BY DEF ReadHello, Agreed
<1>2. /\ data[p] # <<>> /\ ~o.gone /\ o.mode = "frames" /\ peer[Other(p)].weHello
  BY <1>1, ReadFacts
<1>3. o \in Peers /\ peer \in [Sides -> Peers] /\ Sane(p, o)
  BY PeerFacts
<1>4. Agreed(p) \in AllProtocols
  BY DEF AllProtocols
<1>5. heard \in Peers
  BY <1>3, <1>4 DEF Peers
<1>6. /\ heard.protocols = Agreed(p) /\ heard.hello = TRUE /\ heard.weHello = o.weHello
      /\ heard.connected = o.connected /\ heard.pinging = o.pinging
      /\ heard.waiting = o.waiting /\ heard.emitted = o.emitted /\ heard.mode = o.mode
      /\ heard.tick = o.tick /\ heard.gone = o.gone /\ heard.closed = o.closed
      /\ heard.we = o.we
  BY <1>3 DEF Peers
<1> HIDE DEF heard
<1>7. up \in Peers
  BY <1>5 DEF Peers
<1>8. /\ up.protocols = Agreed(p) /\ up.hello = TRUE /\ up.weHello = o.weHello
      /\ up.connected = TRUE /\ up.pinging = TRUE
      /\ up.waiting = o.waiting /\ up.emitted = o.emitted /\ up.mode = o.mode
      /\ up.tick = o.tick /\ up.gone = o.gone /\ up.closed = o.closed
      /\ up.we = o.we
  BY <1>5, <1>6 DEF Peers
<1> HIDE DEF up
<1>9. CASE Agreed(p) = {}
  <2> DEFINE u == [heard EXCEPT !.closed = TRUE]
  <2>0. /\ u.protocols = heard.protocols /\ u.hello = TRUE /\ u.weHello = heard.weHello
        /\ u.connected = heard.connected /\ u.pinging = heard.pinging
        /\ u.waiting = heard.waiting /\ u.emitted = heard.emitted
        /\ u.mode = heard.mode /\ u.tick = heard.tick /\ u.gone = heard.gone
        /\ u.closed = TRUE /\ u.we = heard.we
    BY <1>5, <1>6 DEF Peers
  <2>1. Sane(p, u)
    <3> HIDE DEF u
    <3> QED
      BY <1>2, <1>3, <1>6, <1>9, <2>0 DEF Sane
  <2>2. "useless" \in Reasons
    BY DEF Reasons
  <2>3. Wrote(p, heard, Disconnected(heard, "useless"), Farewell(heard, "useless"))
    BY <1>5, <2>1, <2>2, ClosingFacts
  <2>4. /\ peer' = [peer EXCEPT ![p] = Disconnected(heard, "useless")]
        /\ Write(p, Farewell(heard, "useless"))
    BY <1>1, <1>9
  <2> QED
    BY <1>1, <1>2, <1>5, <1>6, <2>3, <2>4, WroteStep
<1>10. CASE Agreed(p) # {} /\ ~Greeted(heard)
  <2>1. ~refuse /\ ~o.weHello
    BY <1>1, <1>6, <1>10 DEF Greeted
  <2>2. Sane(p, up)
    BY <1>2, <1>3, <1>8, <1>10, <2>1 DEF Sane
  <2>3. Wrote(p, up, up, <<>>)
    BY <1>7, <2>2, WroteNothing
  <2>4. peer' = [peer EXCEPT ![p] = up] /\ Write(p, <<>>)
    BY <1>1, <1>10, <2>1 DEF ByeIf
  <2> QED
    BY <1>1, <1>2, <1>7, <1>8, <2>3, <2>4, WroteStep
<1>11. CASE Agreed(p) # {} /\ Greeted(heard)
  <2> DEFINE t == [up EXCEPT !.emitted = @ \cup {"connect"}]
  <2>1. o.weHello
    BY <1>6, <1>11 DEF Greeted
  <2>2. /\ t.protocols = up.protocols /\ t.hello = up.hello /\ t.weHello = up.weHello
        /\ t.connected = up.connected /\ t.pinging = up.pinging
        /\ t.waiting = up.waiting /\ t.emitted = up.emitted \cup {"connect"}
        /\ t.mode = up.mode
        /\ t.tick = up.tick /\ t.gone = up.gone /\ t.closed = up.closed
        /\ t.we = up.we
    BY <1>7 DEF Peers
  <2>3. Sane(p, t)
    <3> HIDE DEF t
    <3> QED
      BY <1>2, <1>3, <1>8, <1>11, <2>1, <2>2 DEF Sane
  <2>4. Wrote(p, up, Connected(up, refuse), ByeIf(up, refuse))
    BY <1>7, <1>8, <2>1, <2>3, ConnectedFacts
  <2>5. peer' = [peer EXCEPT ![p] = Connected(up, refuse)] /\ Write(p, ByeIf(up, refuse))
    BY <1>1, <1>11
  <2> QED
    BY <1>1, <1>2, <1>7, <1>8, <2>4, <2>5, WroteStep
<1> QED
  BY <1>9, <1>10, <1>11

LEMMA TickKeeps ==
    ASSUME Inv, NEW p \in Sides, NEW refuse \in BOOLEAN, Tick(p, refuse)
    PROVE  Inv'
<1> DEFINE o      == peer[p]
           idle   == [o EXCEPT !.tick = "none"]
           hailed == [idle EXCEPT !.weHello = TRUE]
<1>1. /\ setup' = setup /\ data' = data /\ o.tick # "none"
      /\ refuse => Greeted(hailed)
  BY DEF Tick
<1>2. o \in Peers /\ peer \in [Sides -> Peers] /\ Sane(p, o) /\ (o.hello => peer[Other(p)].weHello)
  BY PeerFacts
<1>3. ~o.gone /\ o.mode \in {"frames", "lost"}
  BY <1>1, <1>2 DEF Sane
<1>4. /\ idle \in Peers
      /\ idle.protocols = o.protocols /\ idle.hello = o.hello /\ idle.weHello = o.weHello
      /\ idle.connected = o.connected /\ idle.pinging = o.pinging
      /\ idle.waiting = o.waiting /\ idle.emitted = o.emitted /\ idle.mode = o.mode
      /\ idle.tick = "none" /\ idle.gone = o.gone /\ idle.closed = o.closed
      /\ idle.we = o.we
  BY <1>2 DEF Peers
<1>5. CASE o.closed
  <2>1. peer' = [peer EXCEPT ![p] = idle] /\ wire' = wire
    BY <1>5 DEF Tick
  <2> HIDE DEF idle
  <2>2. Sane(p, idle)
    BY <1>1, <1>2, <1>4, <1>5 DEF Sane
  <2> QED
    BY <1>1, <1>2, <1>3, <1>4, <2>1, <2>2, QuietStep
<1>6. CASE ~o.closed
  <2> DEFINE first == (IF o.tick = "ack" THEN <<Plain("ACK")>> ELSE <<>>) \o <<Plain("HELLO")>>
             bye   == ByeIf(hailed, refuse)
             t     == IF Greeted(hailed) THEN Connected(hailed, refuse) ELSE hailed
  <2>1. peer' = [peer EXCEPT ![p] = t] /\ Write(p, first \o bye)
    BY <1>6 DEF Tick
  <2> HIDE DEF idle
  <2>2. /\ hailed \in Peers
        /\ hailed.protocols = o.protocols /\ hailed.hello = o.hello /\ hailed.weHello = TRUE
        /\ hailed.connected = o.connected /\ hailed.pinging = o.pinging
        /\ hailed.waiting = o.waiting /\ hailed.emitted = o.emitted /\ hailed.mode = o.mode
        /\ hailed.tick = "none" /\ hailed.gone = o.gone /\ hailed.closed = o.closed
        /\ hailed.we = o.we
    BY <1>4 DEF Peers
  <2>3. Wrote(p, hailed, t, bye) /\ (~Greeted(hailed) => bye = <<>>)
    <3> HIDE DEF hailed
    <3>1. CASE Greeted(hailed)
      <4> DEFINE u == [hailed EXCEPT !.emitted = @ \cup {"connect"}]
      <4>1. /\ u.protocols = hailed.protocols /\ u.hello = hailed.hello
            /\ u.weHello = hailed.weHello
            /\ u.connected = hailed.connected /\ u.pinging = hailed.pinging
            /\ u.waiting = hailed.waiting /\ u.emitted = hailed.emitted \cup {"connect"}
            /\ u.mode = hailed.mode /\ u.tick = hailed.tick /\ u.gone = hailed.gone
            /\ u.closed = hailed.closed /\ u.we = hailed.we
        BY <2>2 DEF Peers
      <4>2. Sane(p, u)
        <5> HIDE DEF u
        <5> QED
          BY <1>2, <1>3, <1>6, <2>2, <3>1, <4>1 DEF Sane, Greeted
      <4>3. hailed.hello /\ hailed.weHello
        BY <3>1 DEF Greeted
      <4> QED
        BY <2>2, <3>1, <4>2, <4>3, ConnectedFacts
    <3>2. CASE ~Greeted(hailed)
      <4>1. ~hailed.hello /\ ~refuse
        BY <1>1, <2>2, <3>2 DEF Greeted
      <4>2. Sane(p, hailed)
        BY <1>2, <1>3, <1>6, <2>2, <4>1 DEF Sane
      <4>3. bye = <<>> /\ t = hailed
        BY <3>2, <4>1 DEF ByeIf
      <4> QED
        BY <2>2, <4>2, <4>3, WroteNothing
    <3> QED
      BY <3>1, <3>2
  <2>4. /\ first \in Seq(Frames) /\ ~HasBye(first)
        /\ \A to : AllTimed(first, to, TRUE)
    <3> DEFINE ack == IF o.tick = "ack" THEN <<Plain("ACK")>> ELSE <<>>
    <3>1. /\ Plain("ACK") \in Frames /\ Plain("ACK").kind = "ACK"
          /\ Plain("HELLO") \in Frames /\ Plain("HELLO").kind = "HELLO"
      BY KindFrames DEF Plain
    <3>2. \A to : Timed(Plain("ACK"), to, TRUE) /\ Timed(Plain("HELLO"), to, TRUE)
      BY <3>1 DEF Timed
    <3>3. ack \in Seq(Frames) /\ ~HasBye(ack) /\ \A to : AllTimed(ack, to, TRUE)
      <4>1. CASE o.tick = "ack"
        BY <3>1, <3>2, <4>1, OneFrame
      <4>2. CASE o.tick # "ack"
        <5>1. ack = <<>> /\ <<>> \in Seq(Frames)
          BY <4>2
        <5> QED
          BY <5>1, EmptyFrames
      <4> QED
        BY <4>1, <4>2
    <3>4. /\ <<Plain("HELLO")>> \in Seq(Frames) /\ ~HasBye(<<Plain("HELLO")>>)
          /\ \A to : AllTimed(<<Plain("HELLO")>>, to, TRUE)
      BY <3>1, <3>2, OneFrame
    <3> HIDE DEF ack
    <3>5. /\ ack \o <<Plain("HELLO")>> \in Seq(Frames)
          /\ ~HasBye(ack \o <<Plain("HELLO")>>)
          /\ \A to : AllTimed(ack \o <<Plain("HELLO")>>, to, TRUE)
      BY <3>3, <3>4, JoinedFrames, Zenon
    <3> QED
      BY <3>5 DEF ack
  <2> HIDE DEF hailed, first, bye, t
  <2>5. /\ t \in Peers /\ Sane(p, t) /\ t.weHello = TRUE /\ t.hello = o.hello /\ ~t.gone
        /\ t.we = o.we \/ (~o.closed /\ t.we = "we")
        /\ bye \in Seq(Frames) /\ ByeLast(bye)
        /\ HasBye(bye) => t.closed /\ t.we = "we"
    BY <1>3, <2>2, <2>3 DEF Wrote
  <2>6. AllTimed(bye, peer[Other(p)].weHello, TRUE)
    <3>1. CASE Greeted(hailed)
      <4>1. peer[Other(p)].weHello
        BY <1>2, <2>2, <3>1 DEF Greeted
      <4> QED
        BY <2>3, <4>1 DEF Wrote
    <3>2. CASE ~Greeted(hailed)
      BY <2>3, <3>2, EmptyFrames
    <3> QED
      BY <3>1, <3>2
  <2>7. /\ first \o bye \in Seq(Frames) /\ ByeLast(first \o bye)
        /\ HasBye(first \o bye) => HasBye(bye)
        /\ AllTimed(first \o bye, peer[Other(p)].weHello, TRUE)
    BY <2>4, <2>5, <2>6, JoinedFrames, Zenon
  <2> DEFINE fs == first \o bye
  <2>8. /\ fs \in Seq(Frames) /\ ByeLast(fs) /\ (HasBye(fs) => t.closed /\ t.we = "we")
        /\ AllTimed(fs, peer[Other(p)].weHello, t.weHello)
        /\ Write(p, fs)
    BY <2>1, <2>5, <2>7
  <2> HIDE DEF fs
  <2> QED
    BY <1>1, <1>2, <1>6, <2>1, <2>5, <2>8, WriteStep
<1> QED
  BY <1>5, <1>6

LEMMA ReceiveKeeps ==
    ASSUME Inv, NEW p \in Sides, Receive(p)
    PROVE  Inv'
<1> PICK q \in Sides : q = Other(p) /\ q # p /\ Other(q) = p /\ p = Other(q)
  BY SidesFacts
<1>q. \A r \in Sides : r = p \/ r = q
  BY SidesFacts
<1>1. PICK n \in 1..Len(wire[p]) :
        /\ data' = [data EXCEPT ![p] = Appended(peer[p], SubSeq(wire[p], 1, n))]
        /\ wire' = [wire EXCEPT ![p] = SubSeq(wire[p], n + 1, Len(wire[p]))]
  BY DEF Receive
<1>2. setup' = setup /\ peer' = peer /\ ~peer[p].gone
  BY DEF Receive, Idle
<1>3. /\ peer \in [Sides -> Peers]
      /\ data \in [Sides -> Seq(Frames)] /\ wire \in [Sides -> Seq(Frames)]
      /\ wire[p] \in Seq(Frames)
      /\ Sane(p, peer[p]) /\ GoneIdle(p) /\ Timely(p) /\ Byes(p) /\ Told(p)
      /\ Sane(q, peer[q]) /\ GoneIdle(q) /\ Timely(q) /\ Byes(q) /\ Told(q)
  BY PeerFacts
<1> DEFINE a == SubSeq(wire[p], 1, n)
           b == SubSeq(wire[p], n + 1, Len(wire[p]))
           d == Appended(peer[p], a)
<1>4. /\ a \in Seq(Frames) /\ b \in Seq(Frames)
      /\ HasBye(a) => HasBye(wire[p])
      /\ HasBye(b) => HasBye(wire[p])
      /\ ByeLast(wire[p]) => ByeLast(a) /\ ByeLast(b)
      /\ ByeLast(wire[p]) /\ HasBye(a) => b = <<>>
      /\ \A to, from : AllTimed(wire[p], to, from) => AllTimed(a, to, from) /\ AllTimed(b, to, from)
  BY <1>3, SplitFrames, Zenon
<1>5. data' = [data EXCEPT ![p] = d] /\ wire' = [wire EXCEPT ![p] = b]
  BY <1>1
<1> HIDE DEF a, b
<1>6. IF peer[p].closed THEN d = <<>> ELSE d = a
  BY DEF Appended
<1> HIDE DEF d
<1>7. <<>> \in Seq(Frames)
  OBVIOUS
<1>8. /\ d \in Seq(Frames)
      /\ HasBye(d) => HasBye(a) /\ ~peer[p].closed
      /\ ByeLast(a) => ByeLast(d)
      /\ \A to, from : AllTimed(a, to, from) => AllTimed(d, to, from)
  BY <1>4, <1>6, <1>7, EmptyFrames
<1>9. /\ data'[p] = d /\ data'[q] = data[q] /\ wire'[p] = b /\ wire'[q] = wire[q]
  BY <1>3, <1>5
<1>10. Shape'
  <2>1. data' \in [Sides -> Seq(Frames)] /\ wire' \in [Sides -> Seq(Frames)]
    BY <1>3, <1>4, <1>5, <1>8
  <2> QED
    BY <1>2, <1>3, <2>1, AgreedStays DEF Shape
<1>11. Sane(p, peer[p])' /\ Sane(q, peer[q])'
  <2>1. Agreed(p)' = Agreed(p) /\ Agreed(q)' = Agreed(q)
    BY <1>2, AgreedStays
  <2> QED
    BY <1>2, <1>3, <2>1 DEF Sane
<1>12. GoneIdle(p)' /\ GoneIdle(q)'
  BY <1>2, <1>3, <1>9 DEF GoneIdle
<1>13. Timely(p)' /\ Timely(q)'
  BY <1>2, <1>3, <1>4, <1>8, <1>9 DEF Timely
<1>14. Byes(p)' /\ Byes(q)'
  <2>1. /\ HasBye(wire[p]) => peer[q].closed /\ (peer[q].we = "we" \/ peer[p].closed)
        /\ ByeLast(wire[p])
    BY <1>3 DEF Byes
  <2>2. /\ HasBye(data[q]) => peer[p].closed /\ peer[p].we = "we" /\ wire[q] = <<>>
        /\ HasBye(wire[q]) => peer[p].closed /\ (peer[p].we = "we" \/ peer[q].closed)
        /\ ByeLast(data[q]) /\ ByeLast(wire[q])
    BY <1>3 DEF Byes
  <2>3. HasBye(d) => peer[q].closed /\ peer[q].we = "we" /\ ~HasBye(data[q]) /\ b = <<>>
    BY <1>4, <1>8, <2>1, <2>2
  <2>4. HasBye(b) => peer[q].closed /\ (peer[q].we = "we" \/ peer[p].closed)
    BY <1>4, <2>1
  <2>5. ByeLast(d) /\ ByeLast(b)
    BY <1>4, <1>8, <2>1
  <2>6. HasBye(data[q]) => ~HasBye(d)
    BY <1>8, <2>2
  <2> QED
    BY <1>2, <1>9, <2>2, <2>3, <2>4, <2>5, <2>6 DEF Byes
<1>15. Told(p)' /\ Told(q)'
  BY <1>2, <1>3, <1>8, <1>9 DEF Told
<1> QED
  BY <1>10, <1>11, <1>12, <1>13, <1>14, <1>15, <1>q DEF Inv

\* 'close' comes to p.
LEMMA CloseKeeps ==
    ASSUME Inv, NEW p \in Sides, Idle(p), setup' = setup, data' = data,
           peer' = [peer EXCEPT ![p] = Closed(@)],
           wire' = wire \/ wire' = [wire EXCEPT ![p] = <<>>]
    PROVE  Inv'
<1> DEFINE o == peer[p]
           s == Closed(o)
<1>1. o \in Peers /\ peer \in [Sides -> Peers] /\ Sane(p, o) /\ (o.hello => peer[Other(p)].weHello)
  BY PeerFacts
<1>2. o.tick = "none" /\ data[p] = <<>>
  BY DEF Idle
<1>3. s \in Peers
  <2>1. (IF o.connected THEN o.emitted \cup {"close"} ELSE o.emitted) \in SUBSET {"connect", "close"}
    BY <1>1 DEF Peers
  <2> QED
    BY <1>1, <2>1 DEF Closed, Peers
<1>4. /\ s.protocols = o.protocols /\ s.hello = o.hello /\ s.weHello = o.weHello
      /\ s.connected = o.connected /\ s.pinging = FALSE /\ s.waiting = FALSE
      /\ s.emitted = IF o.connected THEN o.emitted \cup {"close"} ELSE o.emitted
      /\ s.mode = o.mode /\ s.tick = "none" /\ s.gone = TRUE /\ s.closed = TRUE
      /\ s.we = o.we
  BY <1>1, <1>2 DEF Closed, Peers
<1>5. o.connected => "connect" \in o.emitted
  BY <1>1, <1>2 DEF Sane
<1>6. peer' = [peer EXCEPT ![p] = s]
  BY <1>1
<1> HIDE DEF s
<1>7. Sane(p, s)
  BY <1>1, <1>2, <1>4, <1>5 DEF Sane
<1> QED
  BY <1>1, <1>2, <1>3, <1>4, <1>6, <1>7, QuietStep

LEMMA SocketCloseKeeps ==
    ASSUME Inv, NEW p \in Sides, SocketClose(p)
    PROVE  Inv'
BY CloseKeeps DEF SocketClose

LEMMA BreakKeeps ==
    ASSUME Inv, NEW p \in Sides, Break(p)
    PROVE  Inv'
BY CloseKeeps DEF Break

LEMMA CrashKeeps ==
    ASSUME Inv, UNCHANGED <<setup, peer, data, wire>>
    PROVE  Inv'
<1>1. \A p \in Sides : Sane(p, peer[p])'
  <2>1. \A p : Agreed(p)' = Agreed(p)
    BY AgreedStays
  <2> QED
    BY <2>1 DEF Inv, Sane
<1>2. Shape'
  BY AgreedStays DEF Inv, Shape
<1> QED
  BY <1>1, <1>2 DEF Inv, GoneIdle, Timely, Byes, Told

LEMMA PingKeeps ==
    ASSUME Inv, NEW p \in Sides, Ping(p)
    PROVE  Inv'
<1> DEFINE o  == peer[p]
           s  == [o EXCEPT !.waiting = TRUE]
           fs == <<Plain("PING")>>
<1>1. /\ setup' = setup /\ data' = data /\ Write(p, fs) /\ ~o.closed /\ o.pinging
      /\ o.tick = "none" /\ ~o.gone
  BY DEF Ping, Idle
<1>2. o \in Peers /\ peer \in [Sides -> Peers] /\ Sane(p, o) /\ (o.hello => peer[Other(p)].weHello)
  BY PeerFacts
<1>3. o.hello /\ o.weHello /\ peer[Other(p)].weHello
  BY <1>1, <1>2 DEF Sane
<1>4. peer' = [peer EXCEPT ![p] = s]
  BY <1>2 DEF Ping, Asked
<1>5. s \in Peers
  BY <1>2 DEF Peers
<1>6. /\ s.protocols = o.protocols /\ s.hello = o.hello /\ s.weHello = o.weHello
      /\ s.connected = o.connected /\ s.pinging = o.pinging
      /\ s.emitted = o.emitted /\ s.mode = o.mode /\ s.tick = o.tick /\ s.gone = o.gone
      /\ s.closed = o.closed /\ s.we = o.we
  BY <1>2 DEF Peers
<1> HIDE DEF s
<1>7. Sane(p, s)
  BY <1>2, <1>3, <1>6 DEF Sane
<1>8. Plain("PING") \in Frames /\ Plain("PING").kind = "PING"
  BY KindFrames DEF Plain
<1>9. Timed(Plain("PING"), peer[Other(p)].weHello, s.weHello)
  BY <1>3, <1>6, <1>8 DEF Timed
<1>10. /\ fs \in Seq(Frames) /\ ~HasBye(fs) /\ ByeLast(fs)
       /\ AllTimed(fs, peer[Other(p)].weHello, s.weHello)
  BY <1>8, <1>9, OneFrame
<1> HIDE DEF fs
<1> QED
  BY <1>1, <1>2, <1>3, <1>4, <1>5, <1>6, <1>7, <1>10, WriteStep

LEMMA PingTimeoutKeeps ==
    ASSUME Inv, NEW p \in Sides, PingTimeout(p)
    PROVE  Inv'
<1>1. /\ setup' = setup /\ data' = data /\ Disconnect(p, "timeout")
      /\ peer[p].waiting /\ peer[p].tick = "none" /\ ~peer[p].gone
  BY DEF PingTimeout, Idle
<1>2. Sane(p, peer[p]) /\ (peer[p].hello => peer[Other(p)].weHello)
  BY PeerFacts
<1>3. peer[p].hello
  BY <1>1, <1>2 DEF Sane
<1>4. "timeout" \in Reasons
  BY DEF Reasons
<1> QED
  BY <1>1, <1>2, <1>3, <1>4, DisconnectKeeps

LEMMA EndKeeps ==
    ASSUME Inv, NEW p \in Sides, End(p)
    PROVE  Inv'
<1> DEFINE o == peer[p]
           s == [o EXCEPT !.ending = FALSE, !.ended = TRUE]
<1>1. setup' = setup /\ data' = data /\ wire' = wire /\ ~o.gone
  BY DEF End, Idle
<1>2. o \in Peers /\ peer \in [Sides -> Peers] /\ Sane(p, o) /\ (o.hello => peer[Other(p)].weHello)
  BY PeerFacts
<1>3. peer' = [peer EXCEPT ![p] = s]
  BY <1>2 DEF End
<1>4. s \in Peers
  BY <1>2 DEF Peers
<1>5. /\ s.protocols = o.protocols /\ s.hello = o.hello /\ s.weHello = o.weHello
      /\ s.connected = o.connected /\ s.pinging = o.pinging /\ s.waiting = o.waiting
      /\ s.emitted = o.emitted /\ s.mode = o.mode /\ s.tick = o.tick /\ s.gone = o.gone
      /\ s.closed = o.closed /\ s.we = o.we
  BY <1>2 DEF Peers
<1> HIDE DEF s
<1>6. Sane(p, s)
  BY <1>2, <1>5 DEF Sane
<1> QED
  BY <1>1, <1>2, <1>3, <1>4, <1>5, <1>6, QuietStep

LEMMA LeaveKeeps ==
    ASSUME Inv, NEW p \in Sides, Leave(p)
    PROVE  Inv'
<1>1. /\ setup' = setup /\ data' = data /\ Disconnect(p, "requested")
      /\ "connect" \in peer[p].emitted /\ peer[p].tick = "none" /\ ~peer[p].gone
  BY DEF Leave, Idle
<1>2. Sane(p, peer[p]) /\ (peer[p].hello => peer[Other(p)].weHello)
  BY PeerFacts
<1>3. peer[p].hello
  BY <1>1, <1>2 DEF Sane
<1>4. "requested" \in Reasons
  BY DEF Reasons
<1> QED
  BY <1>1, <1>2, <1>3, <1>4, DisconnectKeeps

LEMMA SendKeeps ==
    ASSUME Inv, NEW p \in Sides, NEW c \in peer[p].protocols, NEW code \in Codes[c],
           Send(p, c, code)
    PROVE  Inv'
<1> DEFINE o  == peer[p]
           f  == Sub(Offset(o.protocols, c) + code, [cap |-> c, code |-> code])
           fs == <<f>>
<1>1. /\ setup' = setup /\ data' = data /\ peer' = peer /\ Write(p, fs)
      /\ ~o.closed /\ "connect" \in o.emitted /\ ~o.gone
  BY DEF Send, Idle, MaySend
<1>2. o \in Peers /\ peer \in [Sides -> Peers] /\ Sane(p, o) /\ (o.hello => peer[Other(p)].weHello)
  BY PeerFacts
<1>3. o.hello /\ o.weHello /\ peer[Other(p)].weHello
  BY <1>1, <1>2 DEF Sane
<1>4. f \in Frames /\ f.kind = "SUB"
  <2>1. o.protocols \in AllProtocols
    BY <1>2 DEF Peers
  <2>2. c \in UNION AllProtocols
    BY <2>1
  <2>3. code \in AllCodes
    BY <2>2 DEF AllCodes
  <2>4. f \in Subs
    BY <2>1, <2>2, <2>3 DEF Subs
  <2> QED
    BY <2>4 DEF Frames, Sub
<1> HIDE DEF f
<1>5. Timed(f, peer[Other(p)].weHello, o.weHello)
  BY <1>3, <1>4 DEF Timed
<1>6. /\ fs \in Seq(Frames) /\ ~HasBye(fs) /\ ByeLast(fs)
      /\ AllTimed(fs, peer[Other(p)].weHello, o.weHello)
  BY <1>4, <1>5, OneFrame
<1>7. peer' = [peer EXCEPT ![p] = o]
  BY <1>1, <1>2
<1> HIDE DEF fs
<1> QED
  BY <1>1, <1>2, <1>3, <1>6, <1>7, WriteStep

-----------------------------------------------------------------------------
(* The codes of the subprotocols *)

\* Where the codes of each name begin, up to the name n.
Starts(P, n) ==
    {g \in [0..n -> Nat] :
        /\ g[0] = BASE_PROTOCOL_LENGTH
        /\ \A k \in 1..n : g[k] = g[k - 1] + Reserved(P, k - 1)}

LEMMA ReservedIs ==
    ASSUME NEW P \in SUBSET Capability, NEW n
    PROVE  Reserved(P, n) \in Nat
<1>1. \A c \in P : c.length \in Nat
  BY DEF Capability
<1>2. CASE \E c \in P : c.name = n
  <2>1. (CHOOSE c \in P : c.name = n) \in P
    BY <1>2
  <2> QED
    BY <1>1, <1>2, <2>1 DEF Reserved
<1>3. CASE ~(\E c \in P : c.name = n)
  BY <1>3 DEF Reserved
<1> QED
  BY <1>2, <1>3

\* Offset looks up such a table.
LEMMA OffsetIs ==
    ASSUME NEW P \in SUBSET Capability, NEW c, c.name \in Nat
    PROVE  \E g \in Starts(P, c.name) : Offset(P, c) = g[c.name]
<1> DEFINE n == c.name
           Rec(f) == [k \in 0..n |-> IF k = 0 THEN BASE_PROTOCOL_LENGTH
                                     ELSE f[k - 1] + Reserved(P, k - 1)]
           F == CHOOSE f : f = Rec(f)
           step == [k \in 1..n |-> [x \in Nat |-> x + Reserved(P, k - 1)]]
<1>0. n \in Nat /\ \A k \in 1..n : Reserved(P, k - 1) \in Nat
  BY ReservedIs
<1>1. step \in [1..n -> [Nat -> Nat]]
  BY <1>0
<1>2. \A k \in 1..n : \A x \in Nat : step[k][x] = x + Reserved(P, k - 1)
  OBVIOUS
<1>3. Offset(P, c) = F[n]
  BY DEF Offset
<1> HIDE DEF step, n
<1>4. PICK g \in [0..n -> Nat] : /\ g[0] = BASE_PROTOCOL_LENGTH
                                 /\ \A k \in 1..n : g[k] = step[k][g[k - 1]]
  <2>1. BASE_PROTOCOL_LENGTH \in Nat /\ n \in Nat
    BY <1>0 DEF BASE_PROTOCOL_LENGTH
  <2>2. PICK g : g \in Tables(Nat, BASE_PROTOCOL_LENGTH, n, step)
    BY <1>1, <2>1, Recursion, Zenon
  <2> QED
    BY <2>2 DEF Tables
<1>5. \A k \in 1..n : g[k] = g[k - 1] + Reserved(P, k - 1)
  <2> TAKE k \in 1..n
  <2>1. k - 1 \in 0..n
    BY <1>0
  <2>2. g[k - 1] \in Nat
    BY <1>4, <2>1
  <2> QED
    BY <1>2, <1>4, <2>2
<1>6. g = Rec(g)
  <2>1. ASSUME NEW k \in 0..n PROVE g[k] = Rec(g)[k]
    <3>1. CASE k = 0
      BY <1>4, <3>1
    <3>2. CASE k # 0
      <4>1. k \in 1..n
        BY <1>0, <3>2
      <4> QED
        BY <1>5, <3>2, <4>1
    <3> QED
      BY <3>1, <3>2
  <2>2. g = [k \in 0..n |-> g[k]]
    BY <1>4
  <2> QED
    BY <2>1, <2>2
<1>7. F = Rec(F)
  BY <1>6
<1>8. g \in Starts(P, n)
  BY <1>4, <1>5 DEF Starts
<1>9. F \in Starts(P, n)
  <2> DEFINE Good == {k \in 0..n : F[k] = g[k]}
  <2>1. 0 \in Good
    <3>1. 0 \in 0..n
      BY <1>0
    <3> QED
      BY <1>4, <1>7, <3>1
  <2>2. ASSUME NEW k \in 1..n, k - 1 \in Good PROVE k \in Good
    <3>1. k \in 0..n /\ k # 0
      BY <1>0
    <3>2. Rec(F)[k] = F[k - 1] + Reserved(P, k - 1)
      BY <3>1
    <3>3. F[k] = F[k - 1] + Reserved(P, k - 1)
      BY <1>7, <3>2
    <3> QED
      BY <1>5, <2>2, <3>1, <3>3
  <2>3. \A k \in 0..n : k \in Good
    <3> HIDE DEF Good, F
    <3> QED
      BY <1>0, <2>1, <2>2, UpToNat
  <2>4. F = [k \in 0..n |-> F[k]]
    <3>1. Rec(F) = [k \in 0..n |-> Rec(F)[k]]
      OBVIOUS
    <3> HIDE DEF Rec, F
    <3> QED
      BY <1>7, <3>1
  <2>5. F = g
    <3>1. \A k \in 0..n : F[k] = g[k]
      BY <2>3
    <3>2. g = [k \in 0..n |-> g[k]]
      BY <1>4
    <3> HIDE DEF F
    <3> QED
      BY <2>4, <3>1, <3>2
  <2> QED
    BY <1>8, <2>5
<1> HIDE DEF F
<1> QED
  BY <1>3, <1>9 DEF n

\* Two tables agree as far as both go.
LEMMA StartsAgree ==
    ASSUME NEW P, NEW m \in Nat, NEW n \in Nat, m <= n,
           NEW g \in Starts(P, m), NEW h \in Starts(P, n)
    PROVE  g[m] = h[m]
<1> DEFINE Good == {k \in 0..m : g[k] = h[k]}
<1>1. 0 \in Good
  BY DEF Starts
<1>2. ASSUME NEW k \in 1..m, k - 1 \in Good PROVE k \in Good
  <2>1. k \in 1..n /\ k \in 0..m
    OBVIOUS
  <2> QED
    BY <1>2, <2>1 DEF Starts
<1>3. \A k \in 0..m : k \in Good
  <2> HIDE DEF Good
  <2> QED
    BY <1>1, <1>2, UpToNat
<1> QED
  BY <1>3

\* Offsets are numbers, and a subprotocol begins where those of the names
\* before it have ended.
LEMMA OffsetNat ==
    ASSUME NEW P \in SUBSET Capability, NEW c, c.name \in Nat
    PROVE  Offset(P, c) \in Nat /\ Offset(P, c) >= BASE_PROTOCOL_LENGTH
<1> DEFINE n == c.name
<1>1. PICK g \in Starts(P, n) : Offset(P, c) = g[n]
  BY OffsetIs
<1>2. \A k \in 1..n : Reserved(P, k - 1) \in Nat
  BY ReservedIs
<1>3. /\ g \in [0..n -> Nat] /\ g[0] = BASE_PROTOCOL_LENGTH
      /\ \A k \in 1..n : g[k] = g[k - 1] + Reserved(P, k - 1)
  BY DEF Starts
<1> DEFINE Good == {k \in 0..n : g[k] >= BASE_PROTOCOL_LENGTH}
<1> HIDE DEF n
<1>n. n \in Nat
  BY DEF n
<1>4. 0 \in Good
  BY <1>3, <1>n DEF BASE_PROTOCOL_LENGTH
<1>5. ASSUME NEW k \in 1..n, k - 1 \in Good PROVE k \in Good
  <2>1. k \in 0..n /\ g[k] \in Nat /\ g[k - 1] \in Nat /\ g[k] = g[k - 1] + Reserved(P, k - 1)
        /\ Reserved(P, k - 1) \in Nat
    BY <1>2, <1>3, <1>5, <1>n
  <2> QED
    BY <1>5, <2>1 DEF BASE_PROTOCOL_LENGTH
<1>6. \A k \in 0..n : k \in Good
  <2> HIDE DEF Good
  <2> QED
    BY <1>4, <1>5, <1>n, UpToNat
<1> QED
  BY <1>1, <1>3, <1>6, <1>n

LEMMA OffsetsApart ==
    ASSUME NEW P \in SUBSET Capability, \A c, d \in P : c.name = d.name => c = d,
           NEW c \in P, NEW d \in P, d.name < c.name
    PROVE  Offset(P, d) + d.length <= Offset(P, c)
<1> DEFINE m == d.name
           n == c.name
<1>1. m \in Nat /\ n \in Nat /\ d.length \in Nat
  BY DEF Capability
<1>2. PICK g \in Starts(P, n) : Offset(P, c) = g[n]
  BY <1>1, OffsetIs
<1>3. PICK h \in Starts(P, m) : Offset(P, d) = h[m]
  BY <1>1, OffsetIs
<1>4. Offset(P, d) = g[m]
  BY <1>1, <1>3, StartsAgree
<1>5. Reserved(P, m) = d.length
  <2>1. \E e \in P : e.name = m
    OBVIOUS
  <2>2. (CHOOSE e \in P : e.name = m) = d
    <3>1. \A e \in P : e.name = m => e = d
      OBVIOUS
    <3> HIDE DEF m
    <3> QED
      BY <2>1, <3>1
  <2> QED
    BY <2>1, <2>2 DEF Reserved
<1>6. \A k \in 1..n : Reserved(P, k - 1) \in Nat
  BY ReservedIs
<1>7. /\ g \in [0..n -> Nat]
      /\ \A k \in 1..n : g[k] = g[k - 1] + Reserved(P, k - 1)
  BY DEF Starts
<1>8. m < n
  OBVIOUS
<1> HIDE DEF m, n
<1> DEFINE Good == {k \in 0..n : k > m => g[m] + d.length <= g[k]}
<1>9. 0 \in Good
  BY <1>1
<1>10. ASSUME NEW k \in 1..n, k - 1 \in Good PROVE k \in Good
  <2>1. /\ k \in 0..n /\ k - 1 \in 0..n /\ g[k] \in Nat /\ g[k - 1] \in Nat
        /\ g[k] = g[k - 1] + Reserved(P, k - 1)
        /\ Reserved(P, k - 1) \in Nat /\ m \in 0..n /\ g[m] \in Nat
    BY <1>1, <1>6, <1>7, <1>8
  <2>2. CASE k - 1 = m
    BY <1>1, <1>5, <2>1, <2>2
  <2>3. CASE k - 1 > m
    BY <1>1, <1>10, <2>1, <2>3
  <2>4. CASE k <= m
    BY <1>1, <2>1, <2>4
  <2> QED
    BY <1>1, <2>1, <2>2, <2>3, <2>4
<1>11. \A k \in 0..n : k \in Good
  <2> HIDE DEF Good
  <2> QED
    BY <1>1, <1>9, <1>10, UpToNat
<1>12. g[m] + d.length <= g[n]
  BY <1>1, <1>8, <1>11
<1> QED
  BY <1>2, <1>4, <1>12

\* A code that is in the range of a subprotocol goes to it and to no other.
LEMMA RoutedTo ==
    ASSUME NEW P \in SUBSET Capability, \A c, d \in P : c.name = d.name => c = d,
           NEW c \in P, NEW code \in 0..(c.length - 1)
    PROVE  Routed(P, Offset(P, c) + code) = {c}
<1> DEFINE n == Offset(P, c) + code
<1>1. /\ \A d \in P : d.name \in Nat /\ d.length \in Nat /\ Offset(P, d) \in Nat
      /\ code \in Nat /\ code < c.length /\ n \in Nat
  BY OffsetNat DEF Capability
<1>2. n >= Offset(P, c) /\ n < Offset(P, c) + c.length
  BY <1>1
<1>3. ASSUME NEW d \in P, n >= Offset(P, d), n < Offset(P, d) + d.length PROVE d = c
  <2>1. CASE d.name < c.name
    <3>1. Offset(P, d) + d.length <= Offset(P, c)
      BY <2>1, OffsetsApart
    <3> QED
      BY <1>1, <1>2, <1>3, <3>1
  <2>2. CASE c.name < d.name
    <3>1. Offset(P, c) + c.length <= Offset(P, d)
      BY <2>2, OffsetsApart
    <3> QED
      BY <1>1, <1>2, <1>3, <3>1
  <2> QED
    BY <1>1, <2>1, <2>2
<1> HIDE DEF n
<1>4. Routed(P, n) = {c}
  BY <1>2, <1>3 DEF Routed
<1> QED
  BY <1>4 DEF n

\* What two Peers make of their lists: at most one capability of each name,
\* and the same on both sides.
LEMMA SharedIs ==
    ASSUME NEW s \in Setups, NEW p \in Sides
    PROVE  LET P == Shared(s.caps[p], s.caps[Other(p)])
           IN  /\ P \subseteq s.caps[p] /\ P \subseteq Capability
               /\ \A c, d \in P : c.name = d.name => c = d
               /\ P = Shared(s.caps[Other(p)], s.caps[p])
<1> DEFINE q == Other(p)
           M == Matching(s.caps[p], s.caps[q])
           N == Matching(s.caps[q], s.caps[p])
           P == Shared(s.caps[p], s.caps[q])
<1>1. /\ q \in Sides
      /\ s.caps[p] \subseteq Capability /\ s.caps[q] \subseteq Capability
      /\ \A c \in s.caps[p], d \in s.caps[q] :
            c.name = d.name /\ c.version = d.version => c = d
      /\ \A c, d \in s.caps[p] : c.name = d.name /\ c.version = d.version => c = d
  BY SetupsAssumption, SidesFacts
<1>2. M = N
  BY <1>1 DEF Matching
<1>3. P = Shared(s.caps[q], s.caps[p])
  BY <1>2 DEF Shared
<1>4. P \subseteq M /\ M \subseteq s.caps[p]
  BY DEF Shared, Matching
<1>5. ASSUME NEW c \in P, NEW d \in P, c.name = d.name PROVE c = d
  <2>1. c.version <= d.version /\ d.version <= c.version
    BY <1>4, <1>5 DEF Shared
  <2>2. c.version \in Nat /\ d.version \in Nat
    BY <1>1, <1>4 DEF Capability
  <2>3. c.version = d.version
    BY <2>1, <2>2
  <2> QED
    BY <1>1, <1>4, <1>5, <2>3
<1> QED
  BY <1>1, <1>3, <1>4, <1>5

LEMMA AgreedIs ==
    ASSUME setup \in Setups, NEW p \in Sides
    PROVE  /\ Agreed(p) \subseteq setup.caps[p] /\ Agreed(p) \subseteq Capability
           /\ \A c, d \in Agreed(p) : c.name = d.name => c = d
           /\ Agreed(p) # {} /\ Agreed(Other(p)) # {} => Agreed(p) = Agreed(Other(p))
<1>1. Other(p) \in Sides /\ Other(Other(p)) = p
  BY SidesFacts
<1>2. LET P == Shared(setup.caps[p], setup.caps[Other(p)])
      IN  /\ P \subseteq setup.caps[p] /\ P \subseteq Capability
          /\ \A c, d \in P : c.name = d.name => c = d
          /\ P = Shared(setup.caps[Other(p)], setup.caps[p])
  BY SharedIs, Zenon
<1> QED
  BY <1>1, <1>2 DEF Agreed

-----------------------------------------------------------------------------
(* What is on its way *)

\* A message on its way to p has the number that its sender gives it.
Meant(p, f) ==
    f.kind = "SUB" =>
      \E c \in Agreed(Other(p)) : \E code \in Codes[c] :
        f = Sub(Offset(Agreed(Other(p)), c) + code, [cap |-> c, code |-> code])

AllMeant(p, s) == \A k \in DOMAIN s : Meant(p, s[k])

Meaning == \A p \in Sides : AllMeant(p, data[p]) /\ AllMeant(p, wire[p])

NoSub(s) == \A k \in DOMAIN s : s[k].kind # "SUB"

\* A step of p, which may take a frame from its chunk and writes fs.
Calm(p, fs) ==
    /\ setup' = setup
    /\ fs \in Seq(Frames)
    /\ data' = data \/ (data[p] # <<>> /\ Consume(p))
    /\ wire' = wire \/ Write(p, fs) \/ wire' = [wire EXCEPT ![p] = <<>>]

LEMMA MeantStays ==
    ASSUME setup' = setup
    PROVE  \A p, f : Meant(p, f)' <=> Meant(p, f)
<1>1. \A p : Agreed(p)' = Agreed(p)
  BY AgreedStays
<1> QED
  BY <1>1 DEF Meant

\* The frames of a chunk, of what is left of it, and of two in a row.
LEMMA MeantFrames ==
    ASSUME NEW p
    PROVE  /\ AllMeant(p, <<>>)
           /\ \A s \in Seq(Frames) : s # <<>> /\ AllMeant(p, s) => AllMeant(p, Tail(s))
           /\ \A s, t \in Seq(Frames) : AllMeant(p, s) /\ AllMeant(p, t) => AllMeant(p, s \o t)
           /\ \A s \in Seq(Frames) : NoSub(s) => AllMeant(p, s)
           /\ \A s \in Seq(Frames) : \A n \in 1..Len(s) : AllMeant(p, s) =>
                /\ AllMeant(p, SubSeq(s, 1, n))
                /\ AllMeant(p, SubSeq(s, n + 1, Len(s)))
<1>1. AllMeant(p, <<>>)
  BY DEF AllMeant
<1>2. ASSUME NEW s \in Seq(Frames), s # <<>>, AllMeant(p, s) PROVE AllMeant(p, Tail(s))
  <2>1. IsSequence(s)
    BY DEF IsSequence
  <2>2. /\ IsSequence(Tail(s)) /\ Len(Tail(s)) = Len(s) - 1
        /\ \A k \in 1..(Len(s) - 1) : Tail(s)[k] = s[k + 1]
    BY <1>2, <2>1, TailIs
  <2>3. DOMAIN Tail(s) = 1..(Len(s) - 1) /\ DOMAIN s = 1..Len(s) /\ Len(s) \in Nat
    BY <2>1, <2>2, LengthOf
  <2>4. \A k \in 1..(Len(s) - 1) : k + 1 \in 1..Len(s)
    BY <2>3
  <2> QED
    BY <1>2, <2>2, <2>3, <2>4 DEF AllMeant
<1>3. ASSUME NEW s \in Seq(Frames), NEW t \in Seq(Frames), AllMeant(p, s), AllMeant(p, t)
      PROVE  AllMeant(p, s \o t)
  <2> DEFINE u == s \o t
  <2>1. /\ DOMAIN s = 1..Len(s) /\ Len(s) \in Nat
        /\ DOMAIN t = 1..Len(t) /\ Len(t) \in Nat
        /\ DOMAIN u = 1..(Len(s) + Len(t))
        /\ \A k \in DOMAIN u : u[k] = IF k <= Len(s) THEN s[k] ELSE t[k - Len(s)]
    OBVIOUS
  <2> HIDE DEF u
  <2>2. \A k \in DOMAIN u : \/ k \in DOMAIN s /\ u[k] = s[k]
                            \/ k - Len(s) \in DOMAIN t /\ u[k] = t[k - Len(s)]
    BY <2>1
  <2>3. AllMeant(p, u)
    BY <1>3, <2>2 DEF AllMeant
  <2> QED
    BY <2>3 DEF u
<1>4. ASSUME NEW s \in Seq(Frames), NoSub(s) PROVE AllMeant(p, s)
  BY <1>4 DEF NoSub, AllMeant, Meant
<1>5. ASSUME NEW s \in Seq(Frames), NEW n \in 1..Len(s), AllMeant(p, s)
      PROVE  /\ AllMeant(p, SubSeq(s, 1, n))
             /\ AllMeant(p, SubSeq(s, n + 1, Len(s)))
  <2> DEFINE l == Len(s)
             a == SubSeq(s, 1, n)
             b == SubSeq(s, n + 1, l)
  <2>1. DOMAIN s = 1..l /\ l \in Nat /\ n \in Nat /\ n <= l
    OBVIOUS
  <2>2. DOMAIN a = 1..n /\ \A k \in 1..n : k \in DOMAIN s /\ a[k] = s[k]
    BY <2>1
  <2>3. /\ DOMAIN b = 1..(l - n)
        /\ \A k \in 1..(l - n) : k + n \in 1..l /\ b[k] = s[k + n]
    BY <2>1, RestFrames
  <2> HIDE DEF a, b
  <2>4. AllMeant(p, a) /\ AllMeant(p, b)
    BY <1>5, <2>1, <2>2, <2>3 DEF AllMeant
  <2> QED
    BY <2>4 DEF a, b
<1> QED
  BY <1>1, <1>2, <1>3, <1>4, <1>5

LEMMA CalmKeeps ==
    ASSUME Inv, Meaning, NEW p \in Sides, NEW fs, Calm(p, fs), AllMeant(Other(p), fs)
    PROVE  Meaning'
<1> PICK q \in Sides : q = Other(p) /\ q # p /\ Other(q) = p
  BY SidesFacts
<1>q. \A r \in Sides : r = p \/ r = q
  BY SidesFacts
<1>1. /\ data \in [Sides -> Seq(Frames)] /\ wire \in [Sides -> Seq(Frames)]
      /\ data[p] \in Seq(Frames) /\ wire[p] \in Seq(Frames)
      /\ wire[q] \in Seq(Frames) /\ fs \in Seq(Frames)
  BY PeerFacts DEF Calm
<1>2. AllMeant(p, data'[p]) /\ AllMeant(q, data'[q])
  <2>1. CASE data' = data
    BY <2>1 DEF Meaning
  <2>2. CASE data[p] # <<>> /\ Consume(p)
    <3>1. data'[p] = Tail(data[p]) /\ data'[q] = data[q]
      BY <1>1, <2>2 DEF Consume
    <3>2. AllMeant(p, Tail(data[p]))
      BY <1>1, <2>2, MeantFrames DEF Meaning
    <3> QED
      BY <3>1, <3>2 DEF Meaning
  <2> QED
    BY <2>1, <2>2 DEF Calm
<1>3. AllMeant(p, wire'[p]) /\ AllMeant(q, wire'[q])
  <2>1. CASE wire' = wire
    BY <2>1 DEF Meaning
  <2>2. CASE wire' = [wire EXCEPT ![p] = <<>>]
    BY <1>1, <2>2, MeantFrames DEF Meaning
  <2>3. CASE wire' # wire /\ Write(p, fs)
    <3>1. wire'[p] = wire[p] /\ wire'[q] = wire[q] \o fs
      BY <1>1, <2>3 DEF Write
    <3>2. AllMeant(q, wire[q] \o fs)
      BY <1>1, MeantFrames DEF Meaning
    <3> QED
      BY <3>1, <3>2 DEF Meaning
  <2> QED
    BY <2>1, <2>2, <2>3 DEF Calm
<1>5. AllMeant(p, data[p])' /\ AllMeant(q, data[q])' /\ AllMeant(p, wire[p])' /\ AllMeant(q, wire[q])'
  BY <1>2, <1>3, MeantStays DEF AllMeant, Calm
<1> QED
  BY <1>q, <1>5 DEF Meaning

LEMMA NoSubFrames ==
    /\ <<>> \in Seq(Frames) /\ NoSub(<<>>)
    /\ \A k \in {"AUTH", "ACK", "HELLO", "PING", "PONG"} :
          <<Plain(k)>> \in Seq(Frames) /\ NoSub(<<Plain(k)>>)
    /\ \A s : \A r \in Reasons : Farewell(s, r) \in Seq(Frames) /\ NoSub(Farewell(s, r))
    /\ \A s : \A refuse \in BOOLEAN : ByeIf(s, refuse) \in Seq(Frames) /\ NoSub(ByeIf(s, refuse))
    /\ \A s, t \in Seq(Frames) : NoSub(s) /\ NoSub(t) => NoSub(s \o t)
<1>1. <<>> \in Seq(Frames) /\ NoSub(<<>>)
  BY DEF NoSub
<1>2. ASSUME NEW f \in Frames, f.kind # "SUB" PROVE <<f>> \in Seq(Frames) /\ NoSub(<<f>>)
  BY <1>2 DEF NoSub
<1>3. ASSUME NEW k \in {"AUTH", "ACK", "HELLO", "PING", "PONG"}
      PROVE  <<Plain(k)>> \in Seq(Frames) /\ NoSub(<<Plain(k)>>)
  <2>1. Plain(k) \in Frames /\ Plain(k).kind # "SUB"
    BY KindFrames DEF Plain
  <2> QED
    BY <1>2, <2>1
<1>4. ASSUME NEW s, NEW r \in Reasons
      PROVE  Farewell(s, r) \in Seq(Frames) /\ NoSub(Farewell(s, r))
  <2>1. Bye(r) \in Frames /\ Bye(r).kind # "SUB"
    BY KindFrames DEF Bye
  <2> QED
    BY <1>1, <1>2, <2>1 DEF Farewell
<1>5. ASSUME NEW s, NEW refuse \in BOOLEAN
      PROVE  ByeIf(s, refuse) \in Seq(Frames) /\ NoSub(ByeIf(s, refuse))
  <2>1. "refused" \in Reasons
    BY DEF Reasons
  <2> QED
    BY <1>1, <1>4, <2>1 DEF ByeIf
<1>6. ASSUME NEW s \in Seq(Frames), NEW t \in Seq(Frames), NoSub(s), NoSub(t)
      PROVE  NoSub(s \o t)
  <2> DEFINE u == s \o t
  <2>1. /\ DOMAIN s = 1..Len(s) /\ Len(s) \in Nat
        /\ DOMAIN t = 1..Len(t) /\ Len(t) \in Nat
        /\ DOMAIN u = 1..(Len(s) + Len(t))
        /\ \A k \in DOMAIN u : u[k] = IF k <= Len(s) THEN s[k] ELSE t[k - Len(s)]
    OBVIOUS
  <2> HIDE DEF u
  <2>2. \A k \in DOMAIN u : \/ k \in DOMAIN s /\ u[k] = s[k]
                            \/ k - Len(s) \in DOMAIN t /\ u[k] = t[k - Len(s)]
    BY <2>1
  <2>3. NoSub(u)
    BY <1>6, <2>2 DEF NoSub
  <2> QED
    BY <2>3 DEF u
<1> QED
  BY <1>1, <1>3, <1>4, <1>5, <1>6

\* What p writes in a step in which it neither sends a message nor receives.
LEMMA CalmSteps ==
    ASSUME NEW p \in Sides,
           \/ Read(p)
           \/ \E refuse \in BOOLEAN : Tick(p, refuse)
           \/ SocketClose(p) \/ Break(p) \/ Crash(p)
           \/ Ping(p) \/ PingTimeout(p) \/ End(p) \/ Leave(p)
    PROVE  \E fs : Calm(p, fs) /\ NoSub(fs)
<1>0. \A fs : Calm(p, fs) <=> /\ setup' = setup
                              /\ fs \in Seq(Frames)
                              /\ data' = data \/ (data[p] # <<>> /\ Consume(p))
                              /\ wire' = wire \/ Write(p, fs) \/ wire' = [wire EXCEPT ![p] = <<>>]
  BY DEF Calm
<1>1. ASSUME setup' = setup, data' = data \/ (data[p] # <<>> /\ Consume(p)),
             wire' = wire \/ wire' = [wire EXCEPT ![p] = <<>>]
      PROVE  \E fs : Calm(p, fs) /\ NoSub(fs)
  BY <1>0, <1>1, NoSubFrames
<1>2. ASSUME setup' = setup, data' = data \/ (data[p] # <<>> /\ Consume(p)),
             NEW r \in Reasons, Disconnect(p, r)
      PROVE  \E fs : Calm(p, fs) /\ NoSub(fs)
  <2>1. Write(p, Farewell(peer[p], r))
    BY <1>2 DEF Disconnect
  <2> QED
    BY <1>0, <1>2, <2>1, NoSubFrames
<1>3. CASE Read(p)
  <2>1. CASE ReadAuth(p)
    BY <1>1, <2>1 DEF ReadAuth, Reads
  <2>2. CASE ReadAck(p)
    BY <1>1, <2>2 DEF ReadAck, Reads
  <2>3. CASE \E refuse \in BOOLEAN : ReadHello(p, refuse)
    <3> PICK refuse \in BOOLEAN : ReadHello(p, refuse)
      BY <2>3
    <3>1. setup' = setup /\ data[p] # <<>> /\ Consume(p)
      BY DEF ReadHello, Reads
    <3>2. \E s : Write(p, Farewell(s, "useless")) \/ Write(p, ByeIf(s, refuse))
      BY DEF ReadHello
    <3>3. "useless" \in Reasons
      BY DEF Reasons
    <3> QED
      BY <1>0, <3>1, <3>2, <3>3, NoSubFrames
  <2>4. CASE ReadDisconnect(p)
    BY <1>1, <2>4 DEF ReadDisconnect, Reads
  <2>5. CASE ReadPing(p)
    <3>1. setup' = setup /\ data[p] # <<>> /\ Consume(p)
      BY <2>5 DEF ReadPing, Reads
    <3>2. Write(p, <<>>) \/ Write(p, <<Plain("PONG")>>)
      BY <2>5 DEF ReadPing
    <3> QED
      BY <1>0, <3>1, <3>2, NoSubFrames
  <2>6. CASE ReadPong(p)
    BY <1>1, <2>6 DEF ReadPong, Reads
  <2>7. CASE \E outcome \in {"fine", "subprotocol", "requested"} : ReadSub(p, outcome)
    <3> PICK outcome \in {"fine", "subprotocol", "requested"} : ReadSub(p, outcome)
      BY <2>7
    <3>1. setup' = setup /\ data[p] # <<>> /\ Consume(p)
      BY DEF ReadSub, Reads
    <3>2. CASE outcome = "fine"
      BY <1>1, <3>1, <3>2 DEF ReadSub
    <3>3. CASE outcome # "fine"
      <4>1. outcome \in Reasons /\ Disconnect(p, outcome)
        BY <3>3 DEF ReadSub, Reasons
      <4> QED
        BY <1>2, <3>1, <4>1
    <3> QED
      BY <3>2, <3>3
  <2>8. CASE ReadUnroutable(p)
    <3>1. setup' = setup /\ data' = data /\ Write(p, Farewell(peer[p], "protocol"))
      BY <2>8 DEF ReadUnroutable
    <3>2. "protocol" \in Reasons
      BY DEF Reasons
    <3> QED
      BY <1>0, <3>1, <3>2, NoSubFrames
  <2> QED
    BY <1>3, <2>1, <2>2, <2>3, <2>4, <2>5, <2>6, <2>7, <2>8 DEF Read
<1>4. CASE \E refuse \in BOOLEAN : Tick(p, refuse)
  <2> PICK refuse \in BOOLEAN : Tick(p, refuse)
    BY <1>4
  <2>1. setup' = setup /\ data' = data
    BY DEF Tick
  <2>2. \/ wire' = wire
        \/ \E s, a : /\ a \in {<<Plain("ACK")>>, <<>>}
                     /\ Write(p, a \o <<Plain("HELLO")>> \o ByeIf(s, refuse))
    BY DEF Tick
  <2>3. CASE wire' = wire
    BY <1>1, <2>1, <2>3
  <2>4. CASE wire' # wire
    <3> PICK s, a : /\ a \in {<<Plain("ACK")>>, <<>>}
                    /\ Write(p, a \o <<Plain("HELLO")>> \o ByeIf(s, refuse))
      BY <2>2, <2>4
    <3> DEFINE h == <<Plain("HELLO")>>
               b == ByeIf(s, refuse)
    <3>1. a \in Seq(Frames) /\ h \in Seq(Frames) /\ b \in Seq(Frames) /\ NoSub(a) /\ NoSub(h) /\ NoSub(b)
      BY NoSubFrames
    <3> HIDE DEF h, b
    <3>2. a \o h \in Seq(Frames) /\ a \o h \o b \in Seq(Frames)
      BY <3>1
    <3>3. NoSub(a \o h \o b)
      BY <3>1, <3>2, NoSubFrames
    <3> QED
      BY <1>0, <2>1, <3>2, <3>3 DEF h, b
  <2> QED
    BY <2>3, <2>4
<1>5. CASE SocketClose(p)
  BY <1>1, <1>5 DEF SocketClose
<1>6. CASE Break(p)
  BY <1>1, <1>6 DEF Break
<1>7. CASE Crash(p)
  BY <1>1, <1>7 DEF Crash
<1>8. CASE Ping(p)
  <2>1. setup' = setup /\ data' = data /\ Write(p, <<Plain("PING")>>)
    BY <1>8 DEF Ping
  <2> QED
    BY <1>0, <2>1, NoSubFrames
<1>9. CASE PingTimeout(p)
  BY <1>2, <1>9 DEF PingTimeout, Reasons
<1>10. CASE End(p)
  BY <1>1, <1>10 DEF End
<1>11. CASE Leave(p)
  BY <1>2, <1>11 DEF Leave, Reasons
<1> QED
  BY <1>3, <1>4, <1>5, <1>6, <1>7, <1>8, <1>9, <1>10, <1>11

\* A message that p sends.
LEMMA SendCalm ==
    ASSUME Inv, NEW p \in Sides, NEW c \in peer[p].protocols, NEW code \in Codes[c],
           Send(p, c, code)
    PROVE  LET f == Sub(Offset(Agreed(p), c) + code, [cap |-> c, code |-> code])
           IN  /\ Calm(p, <<f>>) /\ f.kind = "SUB" /\ f \in Frames
               /\ peer[p].protocols = Agreed(p) /\ c \in Agreed(p)
               /\ Write(p, <<f>>) /\ data' = data /\ peer' = peer /\ dead' = dead
               /\ "connect" \in peer[p].emitted /\ ~peer[p].closed /\ Idle(p)
<1> DEFINE f == Sub(Offset(Agreed(p), c) + code, [cap |-> c, code |-> code])
<1>1. /\ setup' = setup /\ data' = data /\ peer' = peer /\ dead' = dead
      /\ "connect" \in peer[p].emitted /\ ~peer[p].closed /\ Idle(p)
      /\ Write(p, <<Sub(Offset(peer[p].protocols, c) + code, [cap |-> c, code |-> code])>>)
  BY DEF Send, MaySend
<1>2. Sane(p, peer[p]) /\ peer[p] \in Peers
  BY PeerFacts
<1>3. peer[p].protocols = Agreed(p)
  BY <1>2 DEF Sane
<1>4. Write(p, <<f>>) /\ c \in Agreed(p)
  BY <1>1, <1>3
<1>5. f \in Frames /\ f.kind = "SUB"
  <2>1. Agreed(p) \in AllProtocols
    BY DEF AllProtocols
  <2>2. c \in UNION AllProtocols
    BY <1>4, <2>1
  <2>3. code \in AllCodes
    BY <2>2 DEF AllCodes
  <2>4. f \in Subs
    BY <2>1, <2>2, <2>3 DEF Subs
  <2> QED
    BY <2>4 DEF Frames, Sub
<1>6. Calm(p, <<f>>)
  <2> HIDE DEF f
  <2>1. <<f>> \in Seq(Frames)
    BY <1>5
  <2> QED
    BY <1>1, <1>4, <2>1 DEF Calm
<1> QED
  BY <1>1, <1>3, <1>4, <1>5, <1>6

LEMMA SendMeans ==
    ASSUME Inv, Meaning, NEW p \in Sides, NEW c \in peer[p].protocols, NEW code \in Codes[c],
           Send(p, c, code)
    PROVE  Meaning'
<1> DEFINE f == Sub(Offset(Agreed(p), c) + code, [cap |-> c, code |-> code])
<1>1. Calm(p, <<f>>) /\ c \in Agreed(p)
  BY SendCalm
<1>2. Meant(Other(p), f)
  BY <1>1, SidesFacts DEF Meant
<1> HIDE DEF f
<1>3. AllMeant(Other(p), <<f>>)
  BY <1>2 DEF AllMeant
<1> QED
  BY <1>1, <1>3, CalmKeeps

\* What Receive makes of the wire.
LEMMA ReceiveIs ==
    ASSUME Inv, NEW p \in Sides, Receive(p)
    PROVE  /\ setup' = setup /\ peer' = peer /\ dead' = dead /\ Idle(p) /\ data[p] = <<>>
           /\ wire[p] \in Seq(Frames)
           /\ \E n \in 1..Len(wire[p]) :
                /\ data' = [data EXCEPT ![p] = IF peer[p].closed THEN <<>> ELSE SubSeq(wire[p], 1, n)]
                /\ wire' = [wire EXCEPT ![p] = SubSeq(wire[p], n + 1, Len(wire[p]))]
<1>1. PICK n \in 1..Len(wire[p]) :
        /\ data' = [data EXCEPT ![p] = Appended(peer[p], SubSeq(wire[p], 1, n))]
        /\ wire' = [wire EXCEPT ![p] = SubSeq(wire[p], n + 1, Len(wire[p]))]
  BY DEF Receive
<1>2. data' = [data EXCEPT ![p] = IF peer[p].closed THEN <<>> ELSE SubSeq(wire[p], 1, n)]
  BY <1>1 DEF Appended
<1>3. wire[p] \in Seq(Frames)
  BY PeerFacts
<1> QED
  BY <1>1, <1>2, <1>3 DEF Receive, Idle

LEMMA ReceiveMeans ==
    ASSUME Inv, Meaning, NEW p \in Sides, Receive(p)
    PROVE  Meaning'
<1> PICK q \in Sides : q = Other(p) /\ q # p /\ Other(q) = p
  BY SidesFacts
<1>q. \A r \in Sides : r = p \/ r = q
  BY SidesFacts
<1>1. /\ setup' = setup
      /\ wire[p] \in Seq(Frames)
      /\ \E n \in 1..Len(wire[p]) :
           /\ data' = [data EXCEPT ![p] = IF peer[p].closed THEN <<>> ELSE SubSeq(wire[p], 1, n)]
           /\ wire' = [wire EXCEPT ![p] = SubSeq(wire[p], n + 1, Len(wire[p]))]
  BY ReceiveIs
<1>2. data \in [Sides -> Seq(Frames)] /\ wire \in [Sides -> Seq(Frames)]
  BY PeerFacts
<1>3. PICK n \in 1..Len(wire[p]) :
        /\ data' = [data EXCEPT ![p] = IF peer[p].closed THEN <<>> ELSE SubSeq(wire[p], 1, n)]
        /\ wire' = [wire EXCEPT ![p] = SubSeq(wire[p], n + 1, Len(wire[p]))]
  BY <1>1
<1>4. /\ AllMeant(p, <<>>) /\ AllMeant(p, SubSeq(wire[p], 1, n))
      /\ AllMeant(p, SubSeq(wire[p], n + 1, Len(wire[p])))
  BY <1>1, MeantFrames DEF Meaning
<1>5. AllMeant(p, data'[p]) /\ AllMeant(p, wire'[p]) /\ AllMeant(q, data'[q]) /\ AllMeant(q, wire'[q])
  BY <1>2, <1>3, <1>4 DEF Meaning
<1>6. AllMeant(p, data[p])' /\ AllMeant(q, data[q])' /\ AllMeant(p, wire[p])' /\ AllMeant(q, wire[q])'
  BY <1>1, <1>5, MeantStays DEF AllMeant
<1> QED
  BY <1>q, <1>6 DEF Meaning

LEMMA NextMeans ==
    ASSUME Inv, Meaning, [Next]_vars
    PROVE  Meaning'
<1>1. CASE UNCHANGED vars
  BY <1>1, MeantStays DEF vars, Meaning, AllMeant
<1>2. CASE Next
  <2> PICK p \in Sides :
        \/ Read(p)
        \/ \E refuse \in BOOLEAN : Tick(p, refuse)
        \/ Receive(p)
        \/ SocketClose(p)
        \/ Break(p)
        \/ Crash(p)
        \/ Ping(p)
        \/ PingTimeout(p)
        \/ End(p)
        \/ Leave(p)
        \/ \E c \in peer[p].protocols : \E code \in Codes[c] : Send(p, c, code)
    BY <1>2 DEF Next
  <2>1. CASE Receive(p)
    BY <2>1, ReceiveMeans
  <2>2. CASE \E c \in peer[p].protocols : \E code \in Codes[c] : Send(p, c, code)
    BY <2>2, SendMeans
  <2>3. ASSUME NEW fs, Calm(p, fs), NoSub(fs) PROVE Meaning'
    <3>1. AllMeant(Other(p), fs)
      BY <2>3, MeantFrames DEF Calm
    <3> QED
      BY <2>3, <3>1, CalmKeeps
  <2> QED
    BY <2>1, <2>2, <2>3, CalmSteps
<1> QED
  BY <1>1, <1>2

-----------------------------------------------------------------------------
(* The theorems *)

LEMMA InitInv == Init => Inv
<1> SUFFICES ASSUME Init PROVE Inv
  OBVIOUS
<1>1. /\ peer = [dialer |-> NewPeer("ack"), listener |-> NewPeer("auth")]
      /\ data = [p \in Sides |-> <<>>]
      /\ wire = [dialer |-> <<>>, listener |-> <<Plain("AUTH")>>]
  BY DEF Init
<1>2. \A mode \in {"auth", "ack"} : NewPeer(mode) \in Peers
  BY DEF NewPeer, Peers, AllProtocols
<1>3. \A mode \in {"auth", "ack"}, p \in Sides : Sane(p, NewPeer(mode))
  BY DEF NewPeer, Sane
<1>4. /\ <<Plain("AUTH")>> \in Seq(Frames) /\ ~HasBye(<<Plain("AUTH")>>)
      /\ ByeLast(<<Plain("AUTH")>>)
      /\ AllTimed(<<Plain("AUTH")>>, FALSE, FALSE)
  <2>1. Plain("AUTH") \in Frames /\ Plain("AUTH").kind = "AUTH"
    BY KindFrames DEF Plain
  <2>2. Timed(Plain("AUTH"), FALSE, FALSE)
    BY <2>1 DEF Timed
  <2> QED
    BY <2>1, <2>2, OneFrame
<1>5. <<>> \in Seq(Frames) /\ ~HasBye(<<>>) /\ ByeLast(<<>>) /\ AllTimed(<<>>, FALSE, FALSE)
  <2>1. <<>> \in Seq(Frames)
    OBVIOUS
  <2> QED
    BY <2>1, EmptyFrames, Zenon
<1>6. \A p \in Sides : /\ \E mode \in {"auth", "ack"} : peer[p] = NewPeer(mode)
                       /\ data[p] = <<>>
                       /\ wire[p] = <<>> \/ wire[p] = <<Plain("AUTH")>>
  BY <1>1 DEF Sides
<1>7. Shape
  <2>1. peer \in [Sides -> Peers]
    BY <1>1, <1>2 DEF Sides
  <2>2. data \in [Sides -> Seq(Frames)]
    BY <1>1, <1>5, Zenon
  <2>3. wire \in [Sides -> Seq(Frames)]
    <3>1. /\ wire = [p \in Sides |-> IF p = "dialer" THEN <<>> ELSE <<Plain("AUTH")>>]
      BY <1>1 DEF Sides
    <3> QED
      BY <1>4, <1>5, <3>1, Zenon
  <2> QED
    BY <2>1, <2>2, <2>3 DEF Shape
<1>8. ASSUME NEW p \in Sides
      PROVE  Sane(p, peer[p]) /\ GoneIdle(p) /\ Timely(p) /\ Byes(p) /\ Told(p)
  <2>1. \A q \in Sides : /\ peer[q].hello = FALSE /\ peer[q].weHello = FALSE
                         /\ peer[q].gone = FALSE /\ peer[q].we = "unset"
    BY <1>6 DEF NewPeer
  <2>2. Other(p) \in Sides
    BY SidesFacts
  <2>3. Sane(p, peer[p])
    BY <1>3, <1>6
  <2>4. GoneIdle(p) /\ Told(p)
    BY <2>1 DEF GoneIdle, Told
  <2>5. Timely(p)
    BY <1>4, <1>5, <1>6, <2>1, <2>2 DEF Timely
  <2>6. Byes(p)
    BY <1>4, <1>5, <1>6 DEF Byes
  <2> QED
    BY <2>3, <2>4, <2>5, <2>6
<1> QED
  BY <1>7, <1>8 DEF Inv

LEMMA NextInv ==
    ASSUME Inv, [Next]_vars
    PROVE  Inv'
<1>1. CASE UNCHANGED vars
  BY <1>1, CrashKeeps DEF vars
<1>2. CASE Next
  <2> PICK p \in Sides :
        \/ Read(p)
        \/ \E refuse \in BOOLEAN : Tick(p, refuse)
        \/ Receive(p)
        \/ SocketClose(p)
        \/ Break(p)
        \/ Crash(p)
        \/ Ping(p)
        \/ PingTimeout(p)
        \/ End(p)
        \/ Leave(p)
        \/ \E c \in peer[p].protocols : \E code \in Codes[c] : Send(p, c, code)
    BY <1>2 DEF Next
  <2>1. CASE Read(p)
    <3>1. CASE ReadAuth(p)
      BY <3>1, ReadAuthKeeps
    <3>2. CASE ReadAck(p)
      BY <3>2, ReadAckKeeps
    <3>3. CASE \E refuse \in BOOLEAN : ReadHello(p, refuse)
      BY <3>3, ReadHelloKeeps
    <3>4. CASE ReadDisconnect(p)
      BY <3>4, ReadDisconnectKeeps
    <3>5. CASE ReadPing(p)
      BY <3>5, ReadPingKeeps
    <3>6. CASE ReadPong(p)
      BY <3>6, ReadPongKeeps
    <3>7. CASE \E outcome \in {"fine", "subprotocol", "requested"} : ReadSub(p, outcome)
      BY <3>7, ReadSubKeeps
    <3>8. CASE ReadUnroutable(p)
      BY <3>8, ReadUnroutableKeeps
    <3> QED
      BY <2>1, <3>1, <3>2, <3>3, <3>4, <3>5, <3>6, <3>7, <3>8 DEF Read
  <2>2. CASE \E refuse \in BOOLEAN : Tick(p, refuse)
    BY <2>2, TickKeeps
  <2>3. CASE Receive(p)
    BY <2>3, ReceiveKeeps
  <2>4. CASE SocketClose(p)
    BY <2>4, SocketCloseKeeps
  <2>5. CASE Break(p)
    BY <2>5, BreakKeeps
  <2>6. CASE Crash(p)
    BY <2>6, CrashKeeps DEF Crash
  <2>7. CASE Ping(p)
    BY <2>7, PingKeeps
  <2>8. CASE PingTimeout(p)
    BY <2>8, PingTimeoutKeeps
  <2>9. CASE End(p)
    BY <2>9, EndKeeps
  <2>10. CASE Leave(p)
    BY <2>10, LeaveKeeps
  <2>11. CASE \E c \in peer[p].protocols : \E code \in Codes[c] : Send(p, c, code)
    BY <2>11, SendKeeps
  <2> QED
    BY <2>1, <2>2, <2>3, <2>4, <2>5, <2>6, <2>7, <2>8, <2>9, <2>10, <2>11
<1> QED
  BY <1>1, <1>2

\* Inv holds always, whatever the two Peers support, accept and send.
THEOREM Invariance == Spec => []Inv
<1>1. Init => Inv
  BY InitInv
<1>2. Inv /\ [Next]_vars => Inv'
  BY NextInv
<1> QED
  BY <1>1, <1>2, PTL DEF Spec

\* 'connect' waits for both HELLOs, 'close' comes only after 'connect', and
\* so does every message that a subprotocol is given (peer.ts, _handleMessage).
THEOREM ConnectBeforeAll == Spec => []StartInOrder
<1>1. Inv => StartInOrder
  <2> SUFFICES ASSUME Inv, NEW p \in Sides
               PROVE  LET s == peer[p]
                      IN  /\ "connect" \in s.emitted => s.hello /\ s.weHello /\ s.protocols # {}
                          /\ "close" \in s.emitted => "connect" \in s.emitted
                          /\ Reads(p, "frames", "SUB") /\ Routable(s, Head(data[p]))
                                => "connect" \in s.emitted
    BY DEF StartInOrder
  <2>1. Sane(p, peer[p])
    BY PeerFacts
  <2>2. /\ "connect" \in peer[p].emitted => peer[p].hello /\ peer[p].weHello /\ peer[p].protocols # {}
        /\ "close" \in peer[p].emitted => "connect" \in peer[p].emitted
    BY <2>1 DEF Sane
  <2>3. ASSUME Reads(p, "frames", "SUB"), Routable(peer[p], Head(data[p]))
        PROVE  "connect" \in peer[p].emitted
    <3>1. peer[p].weHello /\ Head(data[p]).kind = "SUB"
      BY <2>3, ReadFacts
    <3>2. peer[p].hello /\ Routed(peer[p].protocols, Head(data[p]).code) # {}
      BY <2>3, <3>1 DEF Routable
    <3>3. peer[p].protocols # {}
      BY <3>2 DEF Routed
    <3> QED
      BY <2>1, <3>1, <3>2, <3>3 DEF Sane
  <2> QED
    BY <2>2, <2>3
<1> QED
  BY <1>1, Invariance, PTL

\* Nothing follows a DISCONNECT that is on its way (peer.ts, _sendDisconnect
\* and _sendMessage): a Peer sends one, and it is the last frame it sends.
THEOREM GoodbyeIsLast == Spec => []LastIsDisconnect
<1>1. Inv => LastIsDisconnect
  <2> SUFFICES ASSUME Inv, NEW p \in Sides PROVE ByeLast(Coming(p))
    BY DEF LastIsDisconnect, ByeLast
  <2>1. data[p] \in Seq(Frames) /\ wire[p] \in Seq(Frames) /\ Byes(p)
    BY PeerFacts
  <2>2. CASE HasBye(data[p])
    <3>1. wire[p] = <<>> /\ ByeLast(data[p])
      BY <2>1, <2>2 DEF Byes
    <3>2. data[p] \o wire[p] = data[p]
      BY <2>1, <3>1, JoinedFrames, Zenon
    <3> QED
      BY <3>1, <3>2 DEF Coming
  <2>3. CASE ~HasBye(data[p])
    <3>1. ByeLast(wire[p])
      BY <2>1 DEF Byes
    <3>2. ByeLast(data[p] \o wire[p])
      BY <2>1, <2>3, <3>1, JoinedFrames, Zenon
    <3> QED
      BY <3>2 DEF Coming
  <2> QED
    BY <2>2, <2>3
<1> QED
  BY <1>1, Invariance, PTL

\* A Peer that was told to disconnect was told by one that holds that it did
\* so itself (peer.ts, _disconnectWe), though both may disconnect at once.
THEOREM OneSideDisconnects == Spec => []OneDisconnects
<1>1. Inv => OneDisconnects
  BY DEF Inv, Told, OneDisconnects
<1> QED
  BY <1>1, Invariance, PTL

\* Besides Inv: what is on its way, and what the other variables can be.
Rest ==
    /\ setup \in Setups
    /\ dead \subseteq Sides
    /\ sent \in [Sides -> Nat]
    /\ Meaning

LEMMA InitRest ==
    ASSUME Init
    PROVE  Rest
<1>1. \A p \in Sides : /\ data[p] = <<>>
                       /\ wire[p] = <<>> \/ wire[p] = <<Plain("AUTH")>>
  BY DEF Init, Sides
<1>2. \A p \in Sides : AllMeant(p, <<>>) /\ AllMeant(p, <<Plain("AUTH")>>)
  <2>1. <<Plain("AUTH")>> \in Seq(Frames) /\ NoSub(<<Plain("AUTH")>>)
    BY NoSubFrames
  <2> QED
    BY <2>1, MeantFrames
<1>3. Meaning
  BY <1>1, <1>2 DEF Meaning
<1> QED
  BY <1>3 DEF Init, Rest

LEMMA NextRest ==
    ASSUME Inv, Rest, [Next]_vars
    PROVE  Rest'
<1>1. Meaning'
  BY NextMeans DEF Rest
<1>2. /\ setup' = setup
      /\ dead' = dead \/ \E p \in Sides : dead' = dead \cup {p}
      /\ sent' = sent \/ \E p \in Sides : sent' = [sent EXCEPT ![p] = @ + 1]
  BY ZenonT(60) DEF Next, vars, Read, ReadAuth, ReadAck, ReadHello, ReadDisconnect, ReadPing, ReadPong,
         ReadSub, ReadUnroutable, Tick, Receive, SocketClose, Break, Crash, Ping, PingTimeout,
         End, Leave, Send
<1>3. sent' \in [Sides -> Nat]
  BY <1>2 DEF Rest
<1> QED
  BY <1>1, <1>2, <1>3 DEF Rest

\* Inv and Rest hold together.
THEOREM Everything == Spec => [](Inv /\ Rest)
<1>1. Init => Inv /\ Rest
  BY InitInv, InitRest
<1>2. Inv /\ Rest /\ [Next]_vars => (Inv /\ Rest)'
  BY NextInv, NextRest
<1> QED
  BY <1>1, <1>2, PTL DEF Spec

\* Every frame that Inv speaks of is one of the types of frames, and every
\* Peer one of the types of Peers.
LEMMA AllTyped ==
    ASSUME Rest
    PROVE  Peers \subseteq PeerState /\ Frames \subseteq Frame
<1>1. \A p \in Sides : Agreed(p) \subseteq setup.caps[p] /\ Agreed(p) \subseteq Capability
  BY AgreedIs DEF Rest
<1>2. \A P \in AllProtocols : P \subseteq Capability
  BY <1>1 DEF AllProtocols
<1>3. Peers \subseteq PeerState
  <2>1. AllProtocols \subseteq SUBSET Capability
    BY <1>2
  <2> QED
    BY <2>1 DEF Peers, PeerState
<1>4. \A c \in UNION AllProtocols : c \in Capability /\ Codes[c] \subseteq Nat
  <2> TAKE c \in UNION AllProtocols
  <2>1. PICK p \in Sides : c \in Agreed(p)
    BY DEF AllProtocols
  <2> QED
    BY <1>1, <2>1, CodesAssumption DEF Rest
<1>5. AllCodes \subseteq Nat
  BY <1>4 DEF AllCodes
<1>6. Subs \subseteq [kind : {"SUB"}, code : Nat, meant : Message]
  <2> SUFFICES ASSUME NEW f \in Subs
               PROVE  f \in [kind : {"SUB"}, code : Nat, meant : Message]
    OBVIOUS
  <2> PICK P \in AllProtocols, c \in UNION AllProtocols, code \in AllCodes :
        f = Sub(Offset(P, c) + code, [cap |-> c, code |-> code])
    BY DEF Subs
  <2>1. P \in SUBSET Capability /\ c \in Capability /\ c.name \in Nat /\ code \in Nat
    BY <1>2, <1>4, <1>5 DEF Capability
  <2>2. Offset(P, c) \in Nat
    BY <2>1, OffsetNat
  <2>3. Offset(P, c) + code \in Nat
    BY <2>1, <2>2
  <2>4. [cap |-> c, code |-> code] \in Message
    BY <2>1 DEF Message
  <2> QED
    BY <2>3, <2>4 DEF Sub
<1>7. Frames \subseteq Frame
  BY <1>6 DEF Frames, Frame
<1> QED
  BY <1>3, <1>7

\* Every variable keeps its type: a Peer knows nothing but capabilities, codes
\* on the wire are numbers, whatever the lists of the two Peers (peer.ts,
\* _handleHello and _sendMessage).
THEOREM Types == Spec => []TypeOK
<1>1. Inv /\ Rest => TypeOK
  <2> SUFFICES ASSUME Inv, Rest PROVE TypeOK
    OBVIOUS
  <2>1. Peers \subseteq PeerState /\ Frames \subseteq Frame
    BY AllTyped
  <2>2. Seq(Frames) \subseteq Seq(Frame)
    BY <2>1, SeqMonotonic
  <2>3. /\ peer \in [Sides -> Peers]
        /\ data \in [Sides -> Seq(Frames)] /\ wire \in [Sides -> Seq(Frames)]
    BY DEF Inv, Shape
  <2>4. peer \in [Sides -> PeerState]
    BY <2>1, <2>3
  <2>5. data \in [Sides -> Seq(Frame)] /\ wire \in [Sides -> Seq(Frame)]
    BY <2>2, <2>3
  <2> QED
    BY <2>4, <2>5 DEF TypeOK, Rest
<1> QED
  BY <1>1, Everything, PTL

\* Applications send no code that their subprotocol has not reserved.
\* _sendMessage itself lets one more through (peer.ts, "code > obj.length").
InRange ==
    \A s \in Setups : \A p \in Sides : \A c \in s.caps[p] : Codes[c] \subseteq 0..(c.length - 1)

\* A frame that its sender means a message by is understood so by a receiver
\* that is connected.
LEMMA Understanding ==
    ASSUME InRange, Inv, Rest, NEW p \in Sides, NEW f, Meant(p, f), f.kind = "SUB",
           "connect" \in peer[p].emitted
    PROVE  /\ Routed(peer[p].protocols, f.code) = {f.meant.cap}
           /\ f.code - Offset(peer[p].protocols, f.meant.cap) = f.meant.code
           /\ f.meant = [cap |-> f.meant.cap, code |-> f.meant.code]
<1> DEFINE q == Other(p)
           P == Agreed(p)
<1>1. /\ q \in Sides /\ Other(q) = p
  BY SidesFacts
<1>2. PICK c \in Agreed(q) : \E code \in Codes[c] :
        f = Sub(Offset(Agreed(q), c) + code, [cap |-> c, code |-> code])
  BY DEF Meant
<1>3. PICK code \in Codes[c] : f = Sub(Offset(Agreed(q), c) + code, [cap |-> c, code |-> code])
  BY <1>2
<1>4. Sane(p, peer[p])
  BY PeerFacts
<1>5. peer[p].protocols = P /\ P # {}
  BY <1>4 DEF Sane
<1>6. /\ Agreed(q) = P /\ P \subseteq Capability /\ c \in setup.caps[q]
      /\ \A d, e \in P : d.name = e.name => d = e
  BY <1>1, <1>2, <1>5, AgreedIs DEF Rest
<1>7. code \in 0..(c.length - 1)
  BY <1>1, <1>3, <1>6 DEF InRange, Rest
<1> HIDE DEF P
<1>8. P \in SUBSET Capability /\ c \in P /\ c.name \in Nat /\ code \in Nat
  BY <1>6, <1>7 DEF Capability
<1>9. Routed(P, Offset(P, c) + code) = {c} /\ Offset(P, c) \in Nat
  BY <1>6, <1>7, <1>8, RoutedTo, OffsetNat
<1>10. Offset(P, c) + code - Offset(P, c) = code
  BY <1>8, <1>9
<1>11. f.code = Offset(P, c) + code /\ f.meant = [cap |-> c, code |-> code]
  BY <1>3, <1>6 DEF Sub
<1>12. f.meant.cap = c /\ f.meant.code = code
  BY <1>11
<1>13. Routed(P, f.code) = {f.meant.cap}
  <2>1. Routed(P, f.code) = Routed(P, Offset(P, c) + code)
    BY <1>11
  <2> QED
    BY <1>9, <1>12, <2>1
<1>14. f.code - Offset(P, f.meant.cap) = f.meant.code
  <2>1. Offset(P, f.meant.cap) = Offset(P, c)
    BY <1>12
  <2>2. f.code - Offset(P, c) = code
    <3> DEFINE n == Offset(P, c)
    <3>1. \A m : m = n + code => m - n = code
      BY <1>8, <1>9
    <3> HIDE DEF n
    <3>2. f.code = n + code
      BY <1>11 DEF n
    <3>3. f.code - n = code
      BY <3>1, <3>2, Zenon
    <3> QED
      BY <3>3 DEF n
  <2> QED
    BY <1>12, <2>1, <2>2
<1>15. f.meant = [cap |-> f.meant.cap, code |-> f.meant.code]
  BY <1>11, <1>12
<1> QED
  BY <1>5, <1>13, <1>14, <1>15

\* The two Peers number the messages alike, each from its own list and from
\* the other's HELLO (peer.ts, _handleHello, _getProtocol and _sendMessage):
\* whatever the lists, every message on its way to a Peer that is connected
\* will be handed to the subprotocol, with the code, that the sender meant, if
\* applications send codes of the range of their subprotocol.
THEOREM Routes == InRange => (Spec => []RoutedAsSent)
<1>1. InRange /\ Inv /\ Rest => RoutedAsSent
  <2> SUFFICES ASSUME InRange, Inv, Rest, NEW p \in Sides, NEW k \in DOMAIN Coming(p),
                      Coming(p)[k].kind = "SUB", "connect" \in peer[p].emitted
               PROVE  LET f  == Coming(p)[k]
                          at == Routed(peer[p].protocols, f.code)
                      IN  /\ at = {f.meant.cap}
                          /\ f.code - Offset(peer[p].protocols, f.meant.cap) = f.meant.code
    BY DEF RoutedAsSent
  <2>1. data[p] \in Seq(Frames) /\ wire[p] \in Seq(Frames)
    BY PeerFacts
  <2>2. AllMeant(p, Coming(p))
    BY <2>1, MeantFrames DEF Rest, Meaning, Coming
  <2>3. Meant(p, Coming(p)[k])
    BY <2>2 DEF AllMeant
  <2> DEFINE f == Coming(p)[k]
  <2> HIDE DEF f
  <2>4. Meant(p, f) /\ f.kind = "SUB"
    BY <2>3 DEF f
  <2>5. /\ Routed(peer[p].protocols, f.code) = {f.meant.cap}
        /\ f.code - Offset(peer[p].protocols, f.meant.cap) = f.meant.code
    BY <2>4, Understanding
  <2> QED
    BY <2>5 DEF f
<1>2. InRange => (Spec => [](InRange /\ Inv /\ Rest))
  <2>1. InRange /\ Inv /\ Rest /\ [Next]_vars => (InRange /\ Inv /\ Rest)'
    BY NextInv, NextRest
  <2>2. InRange /\ Init => InRange /\ Inv /\ Rest
    BY InitInv, InitRest
  <2> QED
    BY <2>1, <2>2, PTL DEF Spec
<1> QED
  BY <1>1, <1>2, PTL
=============================================================================
