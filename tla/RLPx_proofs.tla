----------------------------- MODULE RLPx_proofs -----------------------------
(***************************************************************************)
(* Theorems about RLPx, for every set of nodes and sockets and every       *)
(* maxPeers.  Inv is the inductive invariant: the type invariant, two      *)
(* invariants of the run, AnnouncedIsUp, which says which sockets are      *)
(* announced, and IdKnown, which says that a socket whose close will touch *)
(* the table has an identity.  AddedHasConnection follows step by step.    *)
(***************************************************************************)
EXTENDS RLPx, Filter_proofs, FiniteSetTheorems

\* A dialed socket, and a socket past its handshake that was not let in only
\* to be turned away, know the identity of the remote node; only a dialed
\* socket is dialing.
IdKnown ==
    \A c \in Conns : /\ Outbound(c) \/ Reported(c) => sock[c].rid \in Nodes
                     /\ sock[c].phase = "dialing" => Outbound(c)

\* An announced socket has been through its handshake, and its close is listened
\* to.
AnnouncedIsUp ==
    \A c \in Conns : sock[c].announced =>
        /\ sock[c].phase = "up"
        /\ sock[c].kind # "excess"
        /\ sock[c].rid \in Nodes \ {Self}

Inv == TypeOK /\ EntryHasOwner /\ AnnouncedIsUp /\ ListedIsAnnounced /\ IdKnown

Table == [Nodes -> Entry \cup {Free}]

-----------------------------------------------------------------------------
(* The operators of the model *)

LEMMA ClosedType == Closed \in Socket
BY DEF Closed, Socket, Phases, Kinds, Closings

LEMMA OpenedType ==
    ASSUME NEW phase \in Phases, NEW kind \in Kinds, NEW id \in Nodes \cup {NoId}
    PROVE  /\ Opened(phase, kind, id) \in Socket
           /\ Opened(phase, kind, id).phase = phase
           /\ Opened(phase, kind, id).kind = kind
           /\ Opened(phase, kind, id).rid = id
           /\ Opened(phase, kind, id).closing = "none"
           /\ ~Opened(phase, kind, id).announced
BY DEF Opened, Closed, Socket, Phases, Kinds, Closings

\* What a set of new dials does to the sockets and to the table.
DialsDone(ids, free, f, socks, table) ==
    /\ WithSockets(socks, f) \in [Conns -> Socket]
    /\ WithDials(table, f) \in Table
    /\ \A i \in ids : /\ f[i] \in free
                      /\ WithSockets(socks, f)[f[i]] = Opened("dialing", "auto", i)
                      /\ WithDials(table, f)[i] = RawSocket(f[i])
    /\ \A i \in Nodes \ ids : WithDials(table, f)[i] = table[i]
    /\ \A c \in Conns : \/ WithSockets(socks, f)[c] = socks[c]
                        \/ \E i \in ids : /\ c = f[i]
                                          /\ WithSockets(socks, f)[c] =
                                                Opened("dialing", "auto", i)
    /\ \A c \in Conns \ free : WithSockets(socks, f)[c] = socks[c]

LEMMA DialsEffect ==
    ASSUME NEW ids \in SUBSET Nodes, NEW free \in SUBSET Conns,
           NEW f \in Injection(ids, free),
           NEW socks \in [Conns -> Socket], NEW table \in Table
    PROVE  DialsDone(ids, free, f, socks, table)
<1>1. f \in [ids -> free] /\ DOMAIN f = ids /\ IsInjective(f)
  BY DEF Injection
<1>2. \A i, j \in ids : f[i] = f[j] => i = j
  BY <1>1 DEF IsInjective
<1>3. ASSUME NEW i \in ids PROVE Opened("dialing", "auto", i) \in Socket
  <2>1. "dialing" \in Phases /\ "auto" \in Kinds /\ i \in Nodes \cup {NoId}
    BY DEF Phases, Kinds
  <2> QED
    BY <2>1, OpenedType
<1>4. \A i \in ids : (CHOOSE j \in DOMAIN f : f[j] = f[i]) = i
  BY <1>1, <1>2
<1>5. \A c \in Conns : (\E i \in DOMAIN f : f[i] = c) => \E i \in ids : c = f[i]
  BY <1>1
<1>6. \A i \in ids : f[i] \in free /\ f[i] \in Conns
  BY <1>1
<1>7. \A i \in ids : WithSockets(socks, f)[f[i]] = Opened("dialing", "auto", i)
  BY <1>1, <1>4, <1>6 DEF WithSockets
<1>8. \A c \in Conns : (~ \E i \in ids : c = f[i]) => WithSockets(socks, f)[c] = socks[c]
  BY <1>1 DEF WithSockets
<1>9. \A c \in Conns : WithSockets(socks, f)[c] \in Socket
  BY <1>3, <1>7, <1>8
<1>10. WithSockets(socks, f) \in [Conns -> Socket]
  BY <1>9 DEF WithSockets
<1>11. \A i \in ids : WithDials(table, f)[i] = RawSocket(f[i])
  BY <1>1 DEF WithDials
<1>12. \A i \in Nodes \ ids : WithDials(table, f)[i] = table[i]
  BY <1>1 DEF WithDials
<1>13. \A i \in ids : RawSocket(f[i]) \in Entry
  BY <1>6 DEF RawSocket, Entry
<1>14. \A i \in Nodes : WithDials(table, f)[i] \in Entry \cup {Free}
  BY <1>11, <1>12, <1>13 DEF Table
<1>15. WithDials(table, f) \in Table
  BY <1>14 DEF WithDials, Table
<1> QED
  BY <1>6, <1>7, <1>8, <1>10, <1>11, <1>12, <1>15 DEF DialsDone

-----------------------------------------------------------------------------
(* The slots of a refill *)

\* The nodes of the queue that a refill reaches are finitely many, have no
\* entry, and are at most one more than those of the items before.
LEMMA DialedByStep ==
    ASSUME NEW table \in Table, NEW k \in Nat
    PROVE  /\ DialedBy(table, k) \subseteq Nodes \ Taken(table)
           /\ IsFiniteSet(DialedBy(table, k))
           /\ Cardinality(DialedBy(table, k)) \in Nat
           /\ Cardinality(DialedBy(table, k + 1)) <= Cardinality(DialedBy(table, k)) + 1
           /\ Cardinality(DialedBy(table, k)) <= Cardinality(DialedBy(table, k + 1))
<1> DEFINE D == DialedBy(table, k)
           E == DialedBy(table, k + 1)
           x == queue[k + 1].id
<1>1. IsFiniteSet(Nodes) /\ D \subseteq Nodes \ Taken(table) /\ E \subseteq Nodes
  BY NodesAssumption DEF DialedBy
<1>2. IsFiniteSet(D) /\ IsFiniteSet(E)
  BY <1>1, FS_Subset
<1>3. Cardinality(D) \in Nat /\ Cardinality(E) \in Nat
  BY <1>2, FS_CardinalityType
<1>4. 1..(k + 1) = (1..k) \cup {k + 1}
  OBVIOUS
<1>5. D \subseteq E /\ E \subseteq D \cup {x}
  BY <1>4 DEF DialedBy
<1> HIDE DEF D, E, x
<1>6. IsFiniteSet(D \cup {x}) /\ Cardinality(D \cup {x}) <= Cardinality(D) + 1
  <2>1. /\ IsFiniteSet(D \cup {x})
        /\ Cardinality(D \cup {x}) = IF x \in D THEN Cardinality(D) ELSE Cardinality(D) + 1
    BY <1>2, FS_AddElement
  <2> QED
    BY <2>1, <1>3
<1>7. Cardinality(D) <= Cardinality(E)
  BY <1>2, <1>5, FS_Subset
<1>8. Cardinality(E) <= Cardinality(D \cup {x}) /\ Cardinality(D \cup {x}) \in Nat
  BY <1>5, <1>6, FS_Subset, FS_CardinalityType
<1>9. Cardinality(E) <= Cardinality(D) + 1
  BY <1>3, <1>6, <1>8
<1> QED
  BY <1>1, <1>2, <1>3, <1>7, <1>9 DEF D, E

\* A longer prefix of the queue dials no fewer nodes.
LEMMA DialedByMonotone ==
    ASSUME NEW table \in Table, NEW j \in Nat, NEW k \in Nat, j <= k
    PROVE  Cardinality(DialedBy(table, j)) <= Cardinality(DialedBy(table, k))
<1>1. DialedBy(table, j) \subseteq DialedBy(table, k)
  <2>1. 1..j \subseteq 1..k
    OBVIOUS
  <2> QED
    BY <2>1 DEF DialedBy
<1>2. IsFiniteSet(DialedBy(table, k))
  BY DialedByStep
<1> QED
  BY <1>1, <1>2, FS_Subset

LEMMA SlotsType ==
    ASSUME NEW table \in Table
    PROVE  /\ IsFiniteSet(Taken(table))
           /\ Cardinality(Taken(table)) \in Nat
           /\ OpenSlots(table) \in Nat
           /\ OpenSlots(table) > 0 =>
                 OpenSlots(table) = MaxPeers - Cardinality(Taken(table))
<1>1. IsFiniteSet(Nodes) /\ Taken(table) \subseteq Nodes /\ MaxPeers \in Nat
  BY NodesAssumption, MaxPeersAssumption DEF Taken
<1>2. IsFiniteSet(Taken(table))
  BY <1>1, FS_Subset
<1>3. Cardinality(Taken(table)) \in Nat
  BY <1>2, FS_CardinalityType
<1> QED
  BY <1>1, <1>2, <1>3 DEF OpenSlots

\* One pass over the queue never dials more nodes than there are slots: the
\* items that are reached with a slot left are a prefix of the queue, and the
\* last of them adds one node at most.
LEMMA RefillWithinSlots ==
    ASSUME NEW table \in Table, queue \in Seq(Item)
    PROVE  /\ Dialed(table) \subseteq Nodes \ Taken(table)
           /\ IsFiniteSet(Dialed(table))
           /\ Cardinality(Dialed(table)) <= OpenSlots(table)
<1> DEFINE C(k) == Cardinality(DialedBy(table, k))
           K == {k \in DOMAIN queue : C(k - 1) < OpenSlots(table)}
           n == ReachedWithSlot(table)
<1>1. Len(queue) \in Nat /\ DOMAIN queue = 1..Len(queue)
  BY LenProperties
<1>2. OpenSlots(table) \in Nat
  BY SlotsType
<1>3. K \subseteq 1..Len(queue) /\ IsFiniteSet(1..Len(queue))
  BY <1>1, FS_Interval
<1>4. IsFiniteSet(K) /\ n = Cardinality(K) /\ n \in Nat
  BY <1>3, FS_Subset, FS_CardinalityType DEF ReachedWithSlot
<1>5. \A k \in Nat : C(k) \in Nat /\ C(k + 1) <= C(k) + 1
  BY DialedByStep
<1>6. C(n) <= OpenSlots(table)
  <2>1. CASE n = 0
    <3>1. DialedBy(table, 0) = {}
      BY DEF DialedBy
    <3>2. C(0) = 0
      BY <3>1, FS_EmptySet
    <3> QED
      BY <2>1, <3>2, <1>2
  <2>2. CASE n # 0
    <3>1. n - 1 \in Nat /\ (n - 1) + 1 = n
      BY <2>2, <1>4
    <3>2. n \in K
      <4> SUFFICES ASSUME n \notin K PROVE FALSE
        OBVIOUS
      <4>1. ASSUME NEW k \in K PROVE k \in 1..(n - 1)
        <5> HIDE DEF n
        <5>1. k \in 1..Len(queue) /\ k - 1 \in Nat /\ C(k - 1) < OpenSlots(table)
          BY <1>3, <1>1
        <5>2. CASE k < n
          BY <5>1, <5>2, <1>4
        <5>3. CASE k >= n
          <6>1. n \in DOMAIN queue
            BY <5>1, <5>3, <1>1, <1>4, <3>1
          <6>2. C(n - 1) <= C(k - 1)
            BY <5>1, <5>3, <3>1, <1>4, DialedByMonotone
          <6>3. C(n - 1) < OpenSlots(table)
            <7>1. C(n - 1) \in Nat /\ C(k - 1) \in Nat
              BY <3>1, <5>1, <1>5
            <7> HIDE DEF C
            <7> QED
              BY <7>1, <6>2, <5>1, <1>2
          <6> QED
            BY <6>1, <6>3
        <5> QED
          BY <5>1, <5>2, <5>3, <1>4
      <4>2. IsFiniteSet(1..(n - 1)) /\ Cardinality(1..(n - 1)) = n - 1
        BY <3>1, <1>4, FS_Interval
      <4>3. Cardinality(K) <= n - 1
        BY <4>1, <4>2, FS_Subset, ZenonT(60)
      <4> QED
        BY <4>3, <1>4
    <3>3. C(n - 1) < OpenSlots(table)
      BY <3>2
    <3>4. C(n - 1) \in Nat /\ C(n) \in Nat /\ C(n) <= C(n - 1) + 1
      <4>1. C((n - 1) + 1) <= C(n - 1) + 1
        BY <3>1, <1>5
      <4> QED
        BY <4>1, <3>1, <1>4, <1>5
    <3> HIDE DEF C, n
    <3> QED
      BY <3>3, <3>4, <1>2
  <2> QED
    BY <2>1, <2>2
<1>7. /\ DialedBy(table, n) \subseteq Nodes \ Taken(table)
      /\ IsFiniteSet(DialedBy(table, n))
  BY <1>4, DialedByStep
<1> QED
  BY <1>6, <1>7 DEF Dialed

-----------------------------------------------------------------------------
(* The invariant *)

\* The part of Inv that is about sockets and the table.
Core == /\ peers \in Table
        /\ sock \in [Conns -> Socket]
        /\ app \subseteq Nodes
        /\ EntryHasOwner /\ AnnouncedIsUp /\ ListedIsAnnounced /\ IdKnown

Rest == alive \in BOOLEAN /\ seen \subseteq Nodes /\ queue \in Seq(Item)

LEMMA InvParts == (Inv <=> Core /\ Rest) /\ (Inv' <=> Core' /\ Rest')
BY DEF Inv, Core, Rest, TypeOK, Table

LEMMA WithoutType ==
    ASSUME NEW q \in Seq(Item), NEW i
    PROVE  Without(q, i) \in Seq(Item)
BY KeptType DEF Without

LEMMA RefilledType ==
    ASSUME NEW table, queue \in Seq(Item)
    PROVE  Refilled(table) \in Seq(Item)
BY KeptType DEF Refilled

LEMMA InitInv == Init => Inv
<1> SUFFICES ASSUME Init PROVE Inv
  OBVIOUS
<1> USE DEF Init
<1>1. /\ sock \in [Conns -> Socket]
      /\ \A c \in Conns : sock[c] = Closed
  BY ClosedType
<1>2. \A c \in Conns : sock[c].phase = "unused" /\ sock[c].kind = "inbound" /\ ~sock[c].announced
  BY <1>1 DEF Closed
<1>3. peers \in Table /\ \A i \in Nodes : peers[i] = Free
  BY DEF Table
<1>4. queue \in Seq(Item)
  BY EmptySeq
<1>5. EntryHasOwner /\ AnnouncedIsUp /\ ListedIsAnnounced /\ IdKnown
  BY <1>2, <1>3 DEF EntryHasOwner, AnnouncedIsUp, ListedIsAnnounced, IdKnown,
                    HasPeer, Outbound, Reported
<1>6. alive \in BOOLEAN /\ seen \subseteq Nodes /\ app \subseteq Nodes
  OBVIOUS
<1> QED
  BY <1>1, <1>3, <1>4, <1>5, <1>6, InvParts DEF Core, Rest

\* A step that only marks sockets as closing keeps Core.
LEMMA ClosingOnly ==
    ASSUME Core, UNCHANGED <<peers, app>>, sock' \in [Conns -> Socket],
           \A c \in Conns : /\ sock'[c].phase = sock[c].phase
                            /\ sock'[c].kind = sock[c].kind
                            /\ sock'[c].rid = sock[c].rid
                            /\ sock'[c].announced = sock[c].announced
    PROVE  Core'
<1> USE DEF Core
<1>1. \A i \in Nodes : peers[i] # Free => peers[i].conn \in Conns
  BY DEF Table, Entry
<1>2. EntryHasOwner'
  BY <1>1 DEF EntryHasOwner, Outbound
<1>3. AnnouncedIsUp'
  BY DEF AnnouncedIsUp
<1>4. ListedIsAnnounced'
  BY DEF ListedIsAnnounced, HasPeer
<1>5. IdKnown'
  BY DEF IdKnown, Outbound, Reported
<1> QED
  BY <1>2, <1>3, <1>4, <1>5 DEF Table

\* A step that closes some sockets, frees some entries and dials some nodes on
\* sockets that were closed keeps Core, if it frees the entry of every socket
\* that it closes.  table is the table at the moment of the dials; the entries
\* in gone are freed after them.
LEMMA ClosesAndDials ==
    ASSUME Core,
           NEW closing \in SUBSET Conns, NEW gone \in SUBSET Nodes, NEW table \in Table,
           NEW ids \in SUBSET Nodes, NEW f \in Injection(ids, Unused \cup closing),
           \A i \in Nodes : table[i] = peers[i] \/ table[i] = Free,
           \A i \in Nodes \ gone : table[i] # Free => table[i].conn \notin closing,
           sock' = WithSockets([c \in Conns |-> IF c \in closing THEN Closed ELSE sock[c]], f),
           peers' = [i \in Nodes |-> IF i \in gone THEN Free ELSE WithDials(table, f)[i]],
           app' = app \ gone
    PROVE  Core'
<1> DEFINE socks == [c \in Conns |-> IF c \in closing THEN Closed ELSE sock[c]]
           free  == Unused \cup closing
<1>1. socks \in [Conns -> Socket] /\ free \in SUBSET Conns
  BY ClosedType DEF Core, Unused
<1>a. f \in Injection(ids, free) /\ sock' = WithSockets(socks, f)
  OBVIOUS
<1>b. \A c \in Conns : socks[c] = IF c \in closing THEN Closed ELSE sock[c]
  OBVIOUS
<1>c. \A c \in Conns : c \notin free => c \notin Unused /\ c \notin closing
  OBVIOUS
<1> HIDE DEF socks, free
<1>d. DialsDone(ids, free, f, socks, table)
  BY <1>1, <1>a, DialsEffect
<1>2. /\ sock' \in [Conns -> Socket]
      /\ WithDials(table, f) \in Table
      /\ \A i \in ids : /\ f[i] \in free
                        /\ sock'[f[i]] = Opened("dialing", "auto", i)
                        /\ WithDials(table, f)[i] = RawSocket(f[i])
      /\ \A i \in Nodes \ ids : WithDials(table, f)[i] = table[i]
      /\ \A c \in Conns : \/ sock'[c] = socks[c]
                          \/ \E i \in ids : /\ c = f[i]
                                            /\ sock'[c] = Opened("dialing", "auto", i)
      /\ \A c \in Conns \ free : sock'[c] = socks[c]
  BY <1>a, <1>d, ZenonT(60) DEF DialsDone
<1>3. ASSUME NEW i \in ids
      PROVE  /\ Opened("dialing", "auto", i).phase = "dialing"
             /\ Opened("dialing", "auto", i).kind = "auto"
             /\ Opened("dialing", "auto", i).rid = i
             /\ ~Opened("dialing", "auto", i).announced
  BY DEF Opened, Closed
<1>4. \A c \in Conns : \/ sock'[c] = sock[c] /\ c \notin closing
                       \/ c \in closing /\ sock'[c] = Closed
                       \/ \E i \in ids : c = f[i] /\ sock'[c] = Opened("dialing", "auto", i)
  <2> SUFFICES ASSUME NEW c \in Conns
               PROVE  \/ sock'[c] = sock[c] /\ c \notin closing
                      \/ c \in closing /\ sock'[c] = Closed
                      \/ \E i \in ids : c = f[i] /\ sock'[c] = Opened("dialing", "auto", i)
    OBVIOUS
  <2>1. CASE sock'[c] = socks[c]
    BY <2>1, <1>b
  <2> QED
    BY <2>1, <1>2
<1>5. \A i \in Nodes : peers'[i] # Free =>
         \/ i \in ids /\ f[i] \in Conns /\ peers'[i] = RawSocket(f[i])
            /\ sock'[f[i]] = Opened("dialing", "auto", i)
         \/ /\ i \notin gone
            /\ peers'[i] = peers[i]
            /\ peers[i].conn \in Conns
            /\ sock'[peers[i].conn] = sock[peers[i].conn]
  <2> SUFFICES ASSUME NEW i \in Nodes, peers'[i] # Free
               PROVE  \/ i \in ids /\ f[i] \in Conns /\ peers'[i] = RawSocket(f[i])
                         /\ sock'[f[i]] = Opened("dialing", "auto", i)
                      \/ /\ i \notin gone
                         /\ peers'[i] = peers[i]
                         /\ peers[i].conn \in Conns
                         /\ sock'[peers[i].conn] = sock[peers[i].conn]
    OBVIOUS
  <2>1. i \notin gone /\ peers'[i] = WithDials(table, f)[i]
    OBVIOUS
  <2>2. CASE i \in ids
    BY <2>1, <2>2, <1>1, <1>2, <1>a
  <2>3. CASE i \notin ids
    <3>1. peers'[i] = table[i] /\ table[i] = peers[i] /\ peers[i] # Free
      BY <2>1, <2>3, <1>2
    <3>2. peers[i].conn \in Conns /\ peers[i].conn \notin closing
      BY <3>1, <2>1 DEF Core, Table, Entry
    <3>3. peers[i].conn \notin Unused
      BY <3>1, <3>2 DEF Core, EntryHasOwner, Unused
    <3>4. peers[i].conn \notin free
      BY <3>2, <3>3 DEF free
    <3>5. sock'[peers[i].conn] = socks[peers[i].conn]
      BY <3>2, <3>4, <1>2, <1>a
    <3> QED
      BY <3>1, <3>2, <3>5, <2>1, <1>b
  <2> QED
    BY <2>2, <2>3
<1>6. EntryHasOwner'
  <2> SUFFICES ASSUME NEW i \in Nodes, peers'[i] # Free
               PROVE  /\ sock'[peers'[i].conn].phase # "unused"
                      /\ sock'[peers'[i].conn].rid = i
                      /\ IF peers'[i].isPeer
                         THEN /\ sock'[peers'[i].conn].phase = "up"
                              /\ sock'[peers'[i].conn].announced
                         ELSE sock'[peers'[i].conn].kind \in {"app", "auto", "outbound"}
    BY DEF EntryHasOwner, Outbound
  <2>1. CASE i \in ids /\ peers'[i] = RawSocket(f[i]) /\ sock'[f[i]] = Opened("dialing", "auto", i)
    <3>1. peers'[i].conn = f[i] /\ peers'[i].isPeer = FALSE
      BY <2>1 DEF RawSocket
    <3>2. sock'[f[i]].phase = "dialing" /\ sock'[f[i]].kind = "auto" /\ sock'[f[i]].rid = i
      BY <2>1, <1>3
    <3> QED
      BY <3>1, <3>2
  <2>2. CASE /\ peers'[i] = peers[i]
             /\ sock'[peers[i].conn] = sock[peers[i].conn]
    <3> DEFINE c == peers[i].conn
    <3>1. /\ peers[i] # Free
          /\ sock[c].phase # "unused"
          /\ sock[c].rid = i
          /\ IF peers[i].isPeer
             THEN sock[c].phase = "up" /\ sock[c].announced
             ELSE sock[c].kind \in {"app", "auto", "outbound"}
      BY <2>2 DEF Core, EntryHasOwner, Outbound
    <3> QED
      BY <2>2, <3>1
  <2> QED
    BY <1>5, <2>1, <2>2
<1>7. ASSUME NEW c \in Conns
      PROVE  /\ sock'[c].announced =>
                   /\ sock'[c].phase = "up"
                   /\ sock'[c].kind # "excess"
                   /\ sock'[c].rid \in Nodes \ {Self}
             /\ \/ sock'[c].kind \in {"app", "auto", "outbound"}
                \/ sock'[c].phase = "up" /\ sock'[c].kind # "excess"
                => sock'[c].rid \in Nodes
             /\ sock'[c].phase = "dialing" => sock'[c].kind \in {"app", "auto", "outbound"}
  <2>1. CASE sock'[c] = sock[c]
    BY <2>1 DEF Core, AnnouncedIsUp, IdKnown, Outbound, Reported
  <2>2. CASE sock'[c] = Closed
    BY <2>2 DEF Closed
  <2>3. CASE \E i \in ids : c = f[i] /\ sock'[c] = Opened("dialing", "auto", i)
    <3>1. PICK i \in ids : sock'[c] = Opened("dialing", "auto", i)
      BY <2>3
    <3>2. sock'[c].rid = i /\ i \in Nodes /\ sock'[c].kind = "auto"
      BY <3>1, <1>3
    <3>3. ~sock'[c].announced
      BY <3>1, <1>3, ZenonT(60)
    <3> QED
      BY <3>2, <3>3
  <2> QED
    BY <1>4, <2>1, <2>2, <2>3
<1>8. ListedIsAnnounced'
  <2> SUFFICES ASSUME NEW i \in Nodes, peers'[i] # Free, peers'[i].isPeer
               PROVE  i \in app'
    BY DEF ListedIsAnnounced, HasPeer
  <2>1. CASE peers'[i] = RawSocket(f[i])
    BY <2>1 DEF RawSocket
  <2>2. CASE i \notin gone /\ peers'[i] = peers[i]
    BY <2>2 DEF Core, ListedIsAnnounced, HasPeer
  <2> QED
    BY <1>5, <2>1, <2>2
<1>9. AnnouncedIsUp' /\ IdKnown'
  BY <1>7 DEF AnnouncedIsUp, IdKnown, Outbound, Reported
<1>10. peers' \in Table
  <2>1. \A i \in Nodes : peers'[i] \in Entry \cup {Free}
    BY <1>2 DEF Table
  <2> QED
    BY <2>1 DEF Table
<1>11. sock' \in [Conns -> Socket] /\ app' \subseteq Nodes
  BY <1>2, <1>a DEF Core
<1> QED
  BY <1>6, <1>8, <1>9, <1>10, <1>11 DEF Core

-----------------------------------------------------------------------------
(* Each action keeps the invariant *)

LEMMA ConnectInv ==
    ASSUME Inv, NEW i \in Nodes, NEW c \in Conns, Connect(i, c)
    PROVE  Inv'
<1> USE InvParts DEF Connect
<1>1. Core /\ Rest
  OBVIOUS
<1>2. /\ "dialing" \in Phases /\ "app" \in Kinds /\ i \in Nodes \cup {NoId}
      /\ sock[c].phase = "unused"
  BY DEF Phases, Kinds, Unused
<1>3. /\ Opened("dialing", "app", i) \in Socket
      /\ Opened("dialing", "app", i).phase = "dialing"
      /\ Opened("dialing", "app", i).kind = "app"
      /\ Opened("dialing", "app", i).rid = i
      /\ ~Opened("dialing", "app", i).announced
  BY <1>2, OpenedType
<1>4. sock' \in [Conns -> Socket] /\ peers' \in Table
  BY <1>1, <1>3 DEF Core, Table, RawSocket, Entry
<1>5. \A d \in Conns : sock'[d] = IF d = c THEN Opened("dialing", "app", i) ELSE sock[d]
  BY <1>1 DEF Core
<1>6. \A j \in Nodes : peers'[j] = IF j = i THEN RawSocket(c) ELSE peers[j]
  BY <1>1 DEF Core, Table
<1>7. \A j \in Nodes : peers[j] # Free => peers[j].conn \in Conns /\ peers[j].conn # c
  BY <1>1, <1>2 DEF Core, Table, Entry, EntryHasOwner
<1>8. RawSocket(c).conn = c /\ ~RawSocket(c).isPeer
  BY DEF RawSocket
<1>9. EntryHasOwner'
  BY <1>1, <1>3, <1>5, <1>6, <1>7, <1>8 DEF Core, EntryHasOwner, Outbound
<1>10. AnnouncedIsUp'
  BY <1>1, <1>3, <1>5 DEF Core, AnnouncedIsUp
<1>11. ListedIsAnnounced'
  BY <1>1, <1>6, <1>8 DEF Core, ListedIsAnnounced, HasPeer
<1>12. IdKnown'
  BY <1>1, <1>3, <1>5 DEF Core, IdKnown, Outbound, Reported
<1> QED
  BY <1>1, <1>4, <1>9, <1>10, <1>11, <1>12 DEF Core, Rest

\* disconnect(), destroy(), a Peer that gives up, and the remote's DISCONNECT
\* change nothing but closing.
LEMMA DisconnectInv ==
    ASSUME Inv, NEW i \in Nodes, Disconnect(i)
    PROVE  Inv'
<1> DEFINE c == peers[i].conn
<1>1. Core /\ Rest /\ c \in Conns
  BY InvParts DEF Disconnect, HasPeer, Core, Table, Entry
<1>2. sock' = [sock EXCEPT ![c].closing = "we"] /\ "we" \in Closings
  BY DEF Disconnect, Closings
<1> HIDE DEF c
<1>3. /\ sock' \in [Conns -> Socket]
      /\ \A d \in Conns : /\ sock'[d].phase = sock[d].phase
                          /\ sock'[d].kind = sock[d].kind
                          /\ sock'[d].rid = sock[d].rid
                          /\ sock'[d].announced = sock[d].announced
  BY <1>1, <1>2 DEF Core, Socket
<1> QED
  BY <1>1, <1>3, ClosingOnly, InvParts DEF Disconnect, Rest

LEMMA DestroyInv ==
    ASSUME Inv, Destroy
    PROVE  Inv'
<1>1. Core /\ Rest
  BY InvParts
<1>2. "we" \in Closings
  BY DEF Closings
<1>3. /\ sock' \in [Conns -> Socket]
      /\ \A d \in Conns : /\ sock'[d].phase = sock[d].phase
                          /\ sock'[d].kind = sock[d].kind
                          /\ sock'[d].rid = sock[d].rid
                          /\ sock'[d].announced = sock[d].announced
  BY <1>1, <1>2 DEF Destroy, Core, Socket
<1> QED
  BY <1>1, <1>3, ClosingOnly, InvParts DEF Destroy, Rest

LEMMA CloseStartsInv ==
    ASSUME Inv, NEW c \in Conns, NEW reason \in Closings,
           sock' = [sock EXCEPT ![c].closing = reason],
           UNCHANGED <<alive, peers, queue, seen, app>>
    PROVE  Inv'
<1>1. Core /\ Rest
  BY InvParts
<1>2. /\ sock' \in [Conns -> Socket]
      /\ \A d \in Conns : /\ sock'[d].phase = sock[d].phase
                          /\ sock'[d].kind = sock[d].kind
                          /\ sock'[d].rid = sock[d].rid
                          /\ sock'[d].announced = sock[d].announced
  BY <1>1 DEF Core, Socket
<1> QED
  BY <1>1, <1>2, ClosingOnly, InvParts DEF Rest

\* A socket that is not listed and moves on without being announced keeps its
\* identity or stays out of the table.
LEMMA PhaseInv ==
    ASSUME Core, NEW c \in Conns, NEW s \in Socket,
           sock' = [sock EXCEPT ![c] = s], UNCHANGED <<peers, app>>,
           \A i \in Nodes : peers[i] # Free /\ peers[i].conn = c =>
              ~peers[i].isPeer /\ s.phase # "unused" /\ s.rid = sock[c].rid
              /\ s.kind \in {"app", "auto", "outbound"},
           ~s.announced, s.phase # "dialing",
           s.kind \in {"app", "auto", "outbound"} \/ (s.phase = "up" /\ s.kind # "excess")
              => s.rid \in Nodes
    PROVE  Core'
<1> USE DEF Core
<1>1. sock' \in [Conns -> Socket] /\ \A d \in Conns : sock'[d] = IF d = c THEN s ELSE sock[d]
  OBVIOUS
<1>2. \A i \in Nodes : peers[i] # Free => peers[i].conn \in Conns
  BY DEF Table, Entry
<1>3. EntryHasOwner'
  BY <1>1, <1>2 DEF EntryHasOwner, Outbound
<1>4. AnnouncedIsUp' /\ IdKnown'
  BY <1>1 DEF AnnouncedIsUp, IdKnown, Outbound, Reported
<1>5. ListedIsAnnounced'
  BY DEF ListedIsAnnounced, HasPeer
<1> QED
  BY <1>1, <1>3, <1>4, <1>5 DEF Table

\* A socket in a phase before 'connect' is not announced, and if it holds an
\* entry, the entry is a raw socket of its own dial.
LEMMA BeforeUp ==
    ASSUME Core, NEW c \in Conns, sock[c].phase # "up"
    PROVE  /\ ~sock[c].announced
           /\ \A i \in Nodes : peers[i] # Free /\ peers[i].conn = c =>
                 ~peers[i].isPeer /\ Outbound(c) /\ sock[c].rid = i
                 /\ sock[c].phase # "unused"
BY DEF Core, AnnouncedIsUp, EntryHasOwner

\* A dial moves on, to the handshake or to a rejected promise.
LEMMA DialMovesOn ==
    ASSUME Core, NEW c \in Conns, NEW phase \in {"handshake", "rejected"},
           sock[c].phase = "dialing",
           sock' = [sock EXCEPT ![c].phase = phase, ![c].kind = "outbound"],
           UNCHANGED <<peers, app>>
    PROVE  Core'
<1> DEFINE s == [sock[c] EXCEPT !.phase = phase, !.kind = "outbound"]
<1>1. /\ s \in Socket /\ s.phase = phase /\ s.kind = "outbound"
      /\ s.rid = sock[c].rid /\ s.announced = sock[c].announced
  BY DEF Core, Socket, Phases, Kinds
<1>2. sock' = [sock EXCEPT ![c] = s]
  BY DEF Core, Socket
<1> HIDE DEF s
<1>3. ~sock[c].announced /\ \A i \in Nodes : peers[i] # Free /\ peers[i].conn = c =>
         ~peers[i].isPeer /\ Outbound(c) /\ sock[c].rid = i /\ sock[c].phase # "unused"
  BY BeforeUp
<1>4. s.rid \in Nodes
  BY <1>1 DEF Core, IdKnown
<1>5. ~s.announced
  BY <1>1, <1>3
<1>6. s.phase # "unused" /\ s.phase # "dialing"
  BY <1>1
<1> QED
  BY <1>1, <1>2, <1>3, <1>4, <1>5, <1>6, PhaseInv

LEMMA EstablishedInv ==
    ASSUME Inv, NEW c \in Conns, Established(c)
    PROVE  Inv'
<1>1. Core /\ Rest /\ Rest' /\ UNCHANGED <<peers, app>>
  BY InvParts DEF Established, Rest
<1>2. /\ sock[c].phase = "dialing"
      /\ sock' = [sock EXCEPT ![c].phase = "handshake", ![c].kind = "outbound"]
  BY DEF Established
<1>3. Core'
  BY <1>1, <1>2, DialMovesOn
<1> QED
  BY <1>1, <1>3, InvParts

LEMMA DialRejectedInv ==
    ASSUME Inv, NEW c \in Conns, NEW dropped \in BOOLEAN, DialRejected(c, dropped)
    PROVE  Inv'
<1>1. Core /\ Rest /\ UNCHANGED <<alive, seen, peers, app>>
  BY InvParts DEF DialRejected
<1>2. /\ sock[c].phase = "dialing"
      /\ sock' = [sock EXCEPT ![c].phase = "rejected", ![c].kind = "outbound"]
  BY DEF DialRejected
<1>3. Core'
  BY <1>1, <1>2, DialMovesOn
<1>4. Without(queue, sock[c].rid) \in Seq(Item)
  BY <1>1, WithoutType DEF Rest
<1>5. Rest'
  BY <1>1, <1>4 DEF Rest, DialRejected
<1> QED
  BY <1>3, <1>5, InvParts

LEMMA AcceptInv ==
    ASSUME Inv, NEW c \in Conns, Accept(c)
    PROVE  Inv'
<1> DEFINE kind == IF OpenSlots(peers) = 0 THEN "excess" ELSE "inbound"
           s    == Opened("handshake", kind, NoId)
<1>1. Core /\ Rest /\ Rest' /\ UNCHANGED <<peers, app>>
  BY InvParts DEF Accept, Rest
<1>2. sock[c].phase = "unused" /\ sock' = [sock EXCEPT ![c] = s]
  BY DEF Accept, Unused
<1>3. kind \in Kinds /\ "handshake" \in Phases /\ kind \notin {"app", "auto", "outbound"}
  BY DEF Kinds, Phases
<1> HIDE DEF kind
<1>4. s \in Socket /\ s.phase = "handshake" /\ s.kind = kind /\ ~s.announced
  BY <1>3, OpenedType
<1> HIDE DEF s
<1>5. \A i \in Nodes : peers[i] # Free => peers[i].conn # c
  BY <1>1, <1>2, BeforeUp
<1>6. Core'
  BY <1>1, <1>2, <1>3, <1>4, <1>5, PhaseInv
<1> QED
  BY <1>1, <1>6, InvParts

LEMMA DisconnectBeforeConnectInv ==
    ASSUME Inv, NEW c \in Conns, NEW reason \in {"they", "tooMany"},
           DisconnectBeforeConnect(c, reason)
    PROVE  Inv'
<1> DEFINE s == [sock[c] EXCEPT !.phase = "up", !.closing = reason]
<1>1. Core /\ Rest /\ Rest' /\ UNCHANGED <<peers, app>>
  BY InvParts DEF DisconnectBeforeConnect, Rest
<1>2. sock[c].phase = "handshake" /\ Outbound(c)
  BY DEF DisconnectBeforeConnect
<1>3. /\ s \in Socket /\ s.phase = "up" /\ s.kind = sock[c].kind
      /\ s.rid = sock[c].rid /\ s.announced = sock[c].announced
  BY <1>1 DEF Core, Socket, Phases, Closings
<1>4. sock' = [sock EXCEPT ![c] = s]
  BY <1>1 DEF DisconnectBeforeConnect, Core, Socket
<1> HIDE DEF s
<1>5. ~sock[c].announced /\ \A i \in Nodes : peers[i] # Free /\ peers[i].conn = c =>
         ~peers[i].isPeer /\ sock[c].rid = i
  BY <1>1, <1>2, BeforeUp
<1>6. sock[c].rid \in Nodes /\ s.kind \in {"app", "auto", "outbound"}
  BY <1>1, <1>2, <1>3 DEF Core, IdKnown, Outbound
<1>7. Core'
  BY <1>1, <1>3, <1>4, <1>5, <1>6, PhaseInv
<1> QED
  BY <1>1, <1>7, InvParts

LEMMA TurnAwayInv ==
    ASSUME Inv, NEW c \in Conns, TurnAway(c)
    PROVE  Inv'
<1> DEFINE s == [sock[c] EXCEPT !.phase = "up", !.closing = "we"]
<1>1. Core /\ Rest /\ Rest' /\ UNCHANGED <<peers, app>>
  BY InvParts DEF TurnAway, Rest
<1>2. sock[c].phase = "handshake" /\ sock[c].kind = "excess"
  BY DEF TurnAway
<1>3. /\ s \in Socket /\ s.phase = "up" /\ s.kind = "excess"
      /\ s.announced = sock[c].announced
  BY <1>1, <1>2 DEF Core, Socket, Phases, Closings
<1>4. sock' = [sock EXCEPT ![c] = s]
  BY <1>1 DEF TurnAway, Core, Socket
<1> HIDE DEF s
<1>5. ~sock[c].announced /\ \A i \in Nodes : peers[i] # Free => peers[i].conn # c
  BY <1>1, <1>2, BeforeUp DEF Outbound
<1>6. ~s.announced
  BY <1>3, <1>5
<1>7. Core'
  BY <1>1, <1>3, <1>4, <1>5, <1>6, PhaseInv
<1> QED
  BY <1>1, <1>7, InvParts

LEMMA EmitConnectInv ==
    ASSUME Inv, NEW c \in Conns, NEW i \in Nodes, NEW next \in {"none", "they", "tooMany"},
           EmitConnect(c, i, next)
    PROVE  Inv'
<1> DEFINE listed == ~Refused(i)
<1>1. Core /\ Rest /\ Rest'
  BY InvParts DEF EmitConnect, Rest
<1>2. /\ sock[c].phase = "handshake" /\ sock[c].kind # "excess"
      /\ Outbound(c) => i = sock[c].rid
  BY DEF EmitConnect
<1>3. /\ sock' \in [Conns -> Socket]
      /\ \A d \in Conns \ {c} : sock'[d] = sock[d]
      /\ sock'[c].phase = "up" /\ sock'[c].kind = sock[c].kind /\ sock'[c].rid = i
      /\ sock'[c].announced = listed
  <2> DEFINE closing == IF next = "none" /\ ~listed THEN "we" ELSE next
             s == [sock[c] EXCEPT !.phase = "up", !.rid = i, !.announced = listed,
                                  !.closing = closing]
  <2>1. closing \in Closings /\ listed \in BOOLEAN /\ "up" \in Phases
    BY DEF Closings, Phases, Refused, HasPeer
  <2>2. sock' = [sock EXCEPT ![c] = s]
    BY <1>1 DEF EmitConnect, RemoteId, Core, Socket
  <2> HIDE DEF closing, listed
  <2>3. sock[c] \in Socket
    BY <1>1 DEF Core
  <2>4. s \in Socket /\ s.phase = "up" /\ s.kind = sock[c].kind /\ s.rid = i /\ s.announced = listed
    BY <2>1, <2>3 DEF Socket
  <2> HIDE DEF s
  <2> QED
    BY <1>1, <2>2, <2>4 DEF Core
<1>4. ~sock[c].announced /\ \A j \in Nodes : peers[j] # Free /\ peers[j].conn = c =>
         ~peers[j].isPeer /\ Outbound(c) /\ sock[c].rid = j
  BY <1>1, <1>2, BeforeUp
<1>5. /\ PeerOn(c).conn = c /\ PeerOn(c).isPeer /\ PeerOn(c) \in Entry
  BY DEF PeerOn, Entry
<1>6. peers' \in Table /\ app' \subseteq Nodes
  BY <1>1, <1>5 DEF EmitConnect, Core, Table
<1>7. \A j \in Nodes : peers'[j] = IF j = i /\ listed THEN PeerOn(c) ELSE peers[j]
  BY <1>1 DEF EmitConnect, Core, Table
<1>8. listed => i # Self /\ i \in app'
  BY DEF EmitConnect, Refused
<1>9. app \subseteq app'
  BY DEF EmitConnect
<1> HIDE DEF listed
<1>10. EntryHasOwner'
  <2> SUFFICES ASSUME NEW j \in Nodes, peers'[j] # Free
               PROVE  /\ sock'[peers'[j].conn].phase # "unused"
                      /\ sock'[peers'[j].conn].rid = j
                      /\ IF peers'[j].isPeer
                         THEN /\ sock'[peers'[j].conn].phase = "up"
                              /\ sock'[peers'[j].conn].announced
                         ELSE sock'[peers'[j].conn].kind \in {"app", "auto", "outbound"}
    BY DEF EntryHasOwner, Outbound
  <2>1. CASE j = i /\ listed
    <3>1. peers'[j] = PeerOn(c) /\ sock'[c].announced
      BY <2>1, <1>3, <1>7
    <3> QED
      BY <3>1, <2>1, <1>3, <1>5
  <2>2. CASE ~(j = i /\ listed)
    <3>1. peers'[j] = peers[j] /\ peers[j] # Free
      BY <2>2, <1>7
    <3>2. /\ sock[peers[j].conn].phase # "unused"
          /\ sock[peers[j].conn].rid = j
          /\ IF peers[j].isPeer
             THEN sock[peers[j].conn].phase = "up" /\ sock[peers[j].conn].announced
             ELSE sock[peers[j].conn].kind \in {"app", "auto", "outbound"}
      BY <3>1, <1>1 DEF Core, EntryHasOwner, Outbound
    <3>3. peers[j].conn \in Conns
      BY <3>1, <1>1 DEF Core, Table, Entry
    <3>4. CASE peers[j].conn = c
      <4>1. ~peers[j].isPeer /\ j = i
        BY <3>1, <3>4, <1>2, <1>4
      <4> QED
        BY <4>1, <3>1, <3>2, <3>4, <1>3
    <3>5. CASE peers[j].conn # c
      BY <3>1, <3>2, <3>3, <3>5, <1>3
    <3> QED
      BY <3>4, <3>5
  <2> QED
    BY <2>1, <2>2
<1>11. AnnouncedIsUp'
  BY <1>1, <1>2, <1>3, <1>8 DEF Core, AnnouncedIsUp
<1>12. ListedIsAnnounced'
  BY <1>1, <1>7, <1>8, <1>9 DEF Core, ListedIsAnnounced, HasPeer
<1>13. IdKnown'
  BY <1>1, <1>3 DEF Core, IdKnown, Outbound, Reported
<1> QED
  BY <1>1, <1>3, <1>6, <1>10, <1>11, <1>12, <1>13, InvParts DEF Core

LEMMA SocketCloseInv ==
    ASSUME Inv, NEW c \in Conns, SocketClose(c)
    PROVE  Inv'
<1> DEFINE refills == Outbound(c) /\ alive
           table   == AfterConnectClose(c)
           ids     == IF refills THEN Dialed(table) ELSE {}
           left    == IF refills THEN Refilled(table) ELSE queue
           gone    == IF Reported(c) THEN {sock[c].rid} ELSE {}
<1>1. Core /\ Rest
  BY InvParts
<1>2. /\ table \in Table
      /\ \A i \in Nodes : table[i] = IF Outbound(c) /\ i = sock[c].rid THEN Free ELSE peers[i]
  BY <1>1 DEF AfterConnectClose, Core, Table
<1>3. gone \in SUBSET Nodes
  BY <1>1 DEF Core, IdKnown
<1>4. ASSUME NEW i \in Nodes \ gone, table[i] # Free
      PROVE  table[i].conn # c
  <2> SUFFICES ASSUME table[i].conn = c PROVE FALSE
    OBVIOUS
  <2>1. table[i] = peers[i] /\ peers[i] # Free /\ peers[i].conn = c
    BY <1>2, <1>4
  <2>2. /\ sock[c].rid = i
        /\ IF peers[i].isPeer THEN sock[c].phase = "up" /\ sock[c].announced ELSE Outbound(c)
    BY <2>1, <1>1 DEF Core, EntryHasOwner
  <2>3. peers[i].isPeer
    BY <1>2, <1>4, <2>2
  <2>4. sock[c].kind # "excess"
    BY <2>2, <2>3, <1>1 DEF Core, AnnouncedIsUp
  <2> QED
    BY <2>2, <2>3, <2>4 DEF Reported
<1>5. ids \in SUBSET Nodes
  BY DEF Dialed, DialedBy
<1>6. PICK f \in Injection(ids, Unused \cup {c}) :
         /\ sock' = WithSockets([sock EXCEPT ![c] = Closed], f)
         /\ peers' = AfterPeerClose(c, WithDials(table, f))
  BY DEF SocketClose
<1>7. app' = app \ gone
  BY DEF SocketClose
<1>8. left \in Seq(Item)
  BY <1>1, RefilledType DEF Rest
<1>9. queue' = IF Reported(c) /\ sock[c].closing = "tooMany"
               THEN Append(left, [id |-> sock[c].rid, ready |-> FALSE]) ELSE left
  BY DEF SocketClose
<1>10. UNCHANGED <<alive, seen>>
  BY DEF SocketClose
<1>11. WithDials(table, f) = [i \in Nodes |-> WithDials(table, f)[i]]
  BY DEF WithDials
<1> HIDE DEF table, ids, left
<1>12. peers' = [i \in Nodes |-> IF i \in gone THEN Free ELSE WithDials(table, f)[i]]
  <2>1. CASE Reported(c)
    BY <1>6, <1>11, <2>1 DEF AfterPeerClose
  <2>2. CASE ~Reported(c)
    BY <1>6, <1>11, <2>2 DEF AfterPeerClose
  <2> QED
    BY <2>1, <2>2
<1>13. [sock EXCEPT ![c] = Closed] = [d \in Conns |-> IF d \in {c} THEN Closed ELSE sock[d]]
  BY <1>1 DEF Core
<1>14. \A i \in Nodes : table[i] = peers[i] \/ table[i] = Free
  BY <1>2
<1>15. \A i \in Nodes \ gone : table[i] # Free => table[i].conn \notin {c}
  BY <1>4
<1>16. Rest'
  <2>1. CASE Reported(c) /\ sock[c].closing = "tooMany"
    <3>1. [id |-> sock[c].rid, ready |-> FALSE] \in Item
      BY <1>1, <2>1 DEF Core, IdKnown, Item
    <3>2. queue' \in Seq(Item)
      BY <1>8, <1>9, <2>1, <3>1, AppendProperties
    <3> QED
      BY <1>1, <1>10, <3>2 DEF Rest
  <2>2. CASE ~(Reported(c) /\ sock[c].closing = "tooMany")
    <3>1. queue' \in Seq(Item)
      BY <1>8, <1>9, <2>2
    <3> QED
      BY <1>1, <1>10, <3>1 DEF Rest
  <2> QED
    BY <2>1, <2>2
<1> HIDE DEF gone
<1>17. sock' = WithSockets([d \in Conns |-> IF d \in {c} THEN Closed ELSE sock[d]], f)
  BY <1>6, <1>13
<1>18. Core'
  <2> DEFINE closing == {c}
  <2>1. closing \in SUBSET Conns /\ f \in Injection(ids, Unused \cup closing)
    OBVIOUS
  <2>2. \A i \in Nodes \ gone : table[i] # Free => table[i].conn \notin closing
    BY <1>15
  <2>3. sock' = WithSockets([d \in Conns |-> IF d \in closing THEN Closed ELSE sock[d]], f)
    BY <1>17
  <2>4. table \in Table
    BY <1>2
  <2> HIDE DEF closing
  <2> QED
    BY <1>1, <1>3, <1>5, <1>7, <1>12, <1>14, <2>1, <2>2, <2>3, <2>4, ClosesAndDials
<1> QED
  BY <1>16, <1>18, InvParts

\* A step that closes nothing and dials some nodes.
LEMMA OnlyDials ==
    ASSUME Core, NEW ids \in SUBSET Nodes, NEW f \in Injection(ids, Unused),
           sock' = WithSockets(sock, f), peers' = WithDials(peers, f), app' = app
    PROVE  Core'
<1> DEFINE none == {}
<1>1. none \in SUBSET Conns /\ none \in SUBSET Nodes /\ Unused \cup none = Unused
  OBVIOUS
<1>2. sock = [c \in Conns |-> IF c \in none THEN Closed ELSE sock[c]]
  BY DEF Core
<1>3. peers' = [i \in Nodes |-> IF i \in none THEN Free ELSE WithDials(peers, f)[i]]
  BY DEF WithDials
<1>4. app' = app \ none
  OBVIOUS
<1>5. peers \in Table
  BY DEF Core
<1>6. \A i \in Nodes \ none : peers[i] # Free => peers[i].conn \notin none
  OBVIOUS
<1>7. f \in Injection(ids, Unused \cup none)
  BY <1>1
<1>8. sock' = WithSockets([c \in Conns |-> IF c \in none THEN Closed ELSE sock[c]], f)
  BY <1>2
<1> HIDE DEF none
<1> QED
  BY <1>1, <1>3, <1>4, <1>5, <1>6, <1>7, <1>8, ClosesAndDials

LEMMA RefillTickInv ==
    ASSUME Inv, RefillTick
    PROVE  Inv'
<1>1. Core /\ Rest
  BY InvParts
<1>2. PICK f \in Injection(Dialed(peers), Unused) :
         sock' = WithSockets(sock, f) /\ peers' = WithDials(peers, f)
  BY DEF RefillTick
<1>3. Dialed(peers) \in SUBSET Nodes /\ app' = app
  BY DEF Dialed, DialedBy, RefillTick
<1>4. Core'
  BY <1>1, <1>2, <1>3, OnlyDials
<1>5. Rest'
  BY <1>1, RefilledType DEF Rest, RefillTick
<1> QED
  BY <1>4, <1>5, InvParts

LEMMA PeerNewInv ==
    ASSUME Inv, NEW i \in Nodes, PeerNew(i)
    PROVE  Inv'
<1>1. Core /\ Rest /\ app' = app /\ alive' = alive /\ seen' \subseteq Nodes
  BY InvParts DEF PeerNew, Rest
<1>2. CASE OpenSlots(peers) > 0
  <2> DEFINE ids == IF alive /\ peers[i] = Free THEN {i} ELSE {}
  <2>1. ids \in SUBSET Nodes
    OBVIOUS
  <2>2. PICK f \in Injection(ids, Unused) :
           sock' = WithSockets(sock, f) /\ peers' = WithDials(peers, f)
    BY <1>2 DEF PeerNew
  <2>3. queue' = queue
    BY <1>2 DEF PeerNew
  <2> HIDE DEF ids
  <2>4. Core'
    BY <1>1, <2>1, <2>2, OnlyDials
  <2> QED
    BY <1>1, <2>3, <2>4, InvParts DEF Rest
<1>3. CASE ~(OpenSlots(peers) > 0)
  <2>1. /\ queue' = Append(queue, [id |-> i, ready |-> TRUE])
        /\ UNCHANGED <<peers, sock>>
    BY <1>3 DEF PeerNew
  <2>2. queue' \in Seq(Item)
    <3>1. [id |-> i, ready |-> TRUE] \in Item
      BY DEF Item
    <3> QED
      BY <1>1, <2>1, <3>1, AppendProperties DEF Rest
  <2>3. Core'
    BY <1>1, <2>1, ClosingOnly DEF Core
  <2> QED
    BY <1>1, <2>2, <2>3, InvParts DEF Rest
<1> QED
  BY <1>2, <1>3

LEMMA QueueStepInv ==
    ASSUME Inv, queue' \in Seq(Item), UNCHANGED <<alive, peers, seen, sock, app>>
    PROVE  Inv'
<1>1. Core /\ Rest
  BY InvParts
<1>2. Core'
  BY <1>1, ClosingOnly DEF Core
<1> QED
  BY <1>1, <1>2, InvParts DEF Rest

LEMMA BackoffElapsesInv ==
    ASSUME Inv, BackoffElapses
    PROVE  Inv'
<1>1. queue \in Seq(Item)
  BY DEF Inv, TypeOK
<1>2. PICK k \in DOMAIN queue : queue' = [queue EXCEPT ![k].ready = TRUE]
  BY DEF BackoffElapses
<1>3. k \in 1..Len(queue)
  BY <1>1, LenProperties
<1>4. [queue[k] EXCEPT !.ready = TRUE] \in Item
  <2>1. queue[k] \in Item
    BY <1>1, <1>3, ElementOfSeq
  <2> QED
    BY <2>1 DEF Item
<1>5. queue' = [queue EXCEPT ![k] = [queue[k] EXCEPT !.ready = TRUE]]
  BY <1>2
<1>6. queue' \in Seq(Item)
  BY <1>1, <1>3, <1>4, <1>5, ExceptSeq
<1> QED
  BY <1>6, QueueStepInv DEF BackoffElapses

LEMMA DptRemovedInv ==
    ASSUME Inv, NEW i \in Nodes, DptRemoved(i)
    PROVE  Inv'
<1>1. queue' \in Seq(Item)
  BY WithoutType DEF Inv, TypeOK, DptRemoved
<1> QED
  BY <1>1, QueueStepInv DEF DptRemoved

LEMMA NextInv == Inv /\ [Next]_vars => Inv'
<1> SUFFICES ASSUME Inv, [Next]_vars PROVE Inv'
  OBVIOUS
<1>1. ASSUME NEW i \in Nodes, NEW c \in Conns, Connect(i, c) PROVE Inv'
  BY <1>1, ConnectInv
<1>2. ASSUME NEW i \in Nodes, Disconnect(i) PROVE Inv'
  BY <1>2, DisconnectInv
<1>3. CASE Destroy
  BY <1>3, DestroyInv
<1>4. ASSUME NEW c \in Conns, Established(c) PROVE Inv'
  BY <1>4, EstablishedInv
<1>5. ASSUME NEW c \in Conns, NEW dropped \in BOOLEAN, DialRejected(c, dropped) PROVE Inv'
  BY <1>5, DialRejectedInv
<1>6. ASSUME NEW c \in Conns, Accept(c) PROVE Inv'
  BY <1>6, AcceptInv
<1>7. ASSUME NEW c \in Conns, NEW i \in Nodes, NEW next \in {"none", "they", "tooMany"},
             EmitConnect(c, i, next)
      PROVE  Inv'
  BY <1>7, EmitConnectInv
<1>8. ASSUME NEW c \in Conns, TurnAway(c) PROVE Inv'
  BY <1>8, TurnAwayInv
<1>9. ASSUME NEW c \in Conns, PeerGivesUp(c) PROVE Inv'
  <2>1. "we" \in Closings
    BY DEF Closings
  <2> QED
    BY <1>9, <2>1, CloseStartsInv DEF PeerGivesUp
<1>10. ASSUME NEW c \in Conns, NEW reason \in {"they", "tooMany"}, RemoteDisconnect(c, reason)
       PROVE  Inv'
  <2>1. reason \in Closings
    BY DEF Closings
  <2> QED
    BY <1>10, <2>1, CloseStartsInv DEF RemoteDisconnect
<1>11. ASSUME NEW c \in Conns, SocketClose(c) PROVE Inv'
  BY <1>11, SocketCloseInv
<1>12. ASSUME NEW i \in Nodes, PeerNew(i) PROVE Inv'
  BY <1>12, PeerNewInv
<1>13. ASSUME NEW i \in Nodes, DptRemoved(i) PROVE Inv'
  BY <1>13, DptRemovedInv
<1>14. CASE RefillTick
  BY <1>14, RefillTickInv
<1>15. CASE BackoffElapses
  BY <1>15, BackoffElapsesInv
<1>16. CASE UNCHANGED vars
  <2>1. queue' \in Seq(Item)
    BY <1>16 DEF vars, Inv, TypeOK
  <2> QED
    BY <1>16, <2>1, QueueStepInv DEF vars
<1>17. ASSUME NEW c \in Conns, NEW reason \in {"they", "tooMany"},
              DisconnectBeforeConnect(c, reason)
       PROVE  Inv'
  BY <1>17, DisconnectBeforeConnectInv
<1>18. CASE Application
  BY <1>1, <1>2, <1>3, <1>18 DEF Application
<1>19. CASE Network
  BY <1>4, <1>5, <1>6, <1>7, <1>8, <1>9, <1>10, <1>11, <1>17, <1>19 DEF Network
<1>20. CASE Discovery
  BY <1>12, <1>13, <1>20 DEF Discovery
<1> QED
  BY <1>14, <1>15, <1>16, <1>18, <1>19, <1>20 DEF Next

LEMMA InvHolds == Spec => []Inv
BY InitInv, NextInv, PTL DEF Spec

-----------------------------------------------------------------------------
(* The theorems *)

\* Type correctness of the connection manager (rlpx.ts:40-44, 94-97): in every
\* reachable state the table maps identities to sockets or Peers, and the queue
\* holds nodes.
THEOREM TypeCorrect == Spec => []TypeOK
<1>1. Inv => TypeOK
  BY DEF Inv
<1> QED
  BY <1>1, InvHolds, PTL

\* No slot of maxPeers leaks: an entry of _peers always has an open socket to
\* that node behind it, although the close listeners (rlpx.ts:134-137, 225-252)
\* free entries by identity and a second socket may have taken the entry over.
THEOREM SlotsHaveOwners == Spec => []EntryHasOwner
<1>1. Inv => EntryHasOwner
  BY DEF Inv
<1> QED
  BY <1>1, InvHolds, PTL

\* Every Peer that getPeers() returns (rlpx.ts:147-149) has been announced and
\* its node has not been reported as removed since.
THEOREM ListedPeersAnnounced == Spec => []ListedIsAnnounced
<1>1. Inv => ListedIsAnnounced
  BY DEF Inv
<1> QED
  BY <1>1, InvHolds, PTL

\* New dials leave alone the sockets that are in use.
LEMMA SocketsKept ==
    ASSUME NEW ids, NEW free, NEW f \in Injection(ids, free), NEW socks,
           NEW c \in Conns, c \notin free
    PROVE  WithSockets(socks, f)[c] = socks[c]
<1>1. DOMAIN f = ids /\ \A i \in ids : f[i] \in free
  BY DEF Injection
<1> QED
  BY <1>1 DEF WithSockets

\* Announced sockets stay so.
AllAnnounced ==
    \A d \in Conns : sock[d].announced => /\ sock'[d].announced
                                          /\ sock'[d].rid = sock[d].rid

\* The application is told of the close of an announced socket, whatever has
\* become of the entry, and no other step takes an announced socket away.
LEMMA AddedStep ==
    ASSUME Inv, Inv', AddedHasConnection, [Next]_vars
    PROVE  AddedHasConnection'
<1>0. /\ sock \in [Conns -> Socket] /\ app \subseteq Nodes /\ peers \in Table
      /\ \A d \in Conns : sock[d].announced => sock[d].phase = "up" /\ Reported(d)
  BY InvParts DEF Core, AnnouncedIsUp, Reported
<1>a. ASSUME AllAnnounced, app' \subseteq app PROVE AddedHasConnection'
  <2> SUFFICES ASSUME NEW i \in app'
               PROVE  \E d \in Conns : sock'[d].announced /\ sock'[d].phase = "up" /\ sock'[d].rid = i
    BY DEF AddedHasConnection
  <2>1. PICK d \in Conns : sock[d].announced /\ sock[d].rid = i
    BY <1>a DEF AddedHasConnection
  <2>2. sock'[d].announced /\ sock'[d].rid = i
    BY <1>a, <2>1 DEF AllAnnounced
  <2>3. sock'[d].phase = "up"
    BY <2>2, InvParts DEF Core, AnnouncedIsUp
  <2> QED
    BY <2>2, <2>3
<1>b. \A d \in Unused : ~sock[d].announced
  BY <1>0 DEF Unused
<1>1. ASSUME NEW i \in Nodes, NEW c \in Conns, Connect(i, c) PROVE AddedHasConnection'
  BY <1>0, <1>1, <1>a, <1>b DEF Connect, AllAnnounced
<1>2. ASSUME NEW i \in Nodes, Disconnect(i) PROVE AddedHasConnection'
  <2>1. AllAnnounced
    BY <1>0, <1>2 DEF Disconnect, AllAnnounced, Socket
  <2> QED
    BY <1>2, <1>a, <2>1 DEF Disconnect
<1>3. ASSUME Destroy PROVE AddedHasConnection'
  <2>1. AllAnnounced
    BY <1>0, <1>3 DEF Destroy, AllAnnounced, Socket
  <2> QED
    BY <1>3, <1>a, <2>1 DEF Destroy
<1>4. ASSUME NEW c \in Conns, Established(c) \/ (\E dropped \in BOOLEAN : DialRejected(c, dropped))
      PROVE  AddedHasConnection'
  <2>1. sock[c].phase = "dialing" /\ app' = app /\ \A d \in Conns \ {c} : sock'[d] = sock[d]
    BY <1>0, <1>4 DEF Established, DialRejected
  <2> QED
    BY <1>0, <1>a, <2>1 DEF AllAnnounced
<1>5. ASSUME NEW c \in Conns, Accept(c) PROVE AddedHasConnection'
  BY <1>0, <1>5, <1>a, <1>b DEF Accept, AllAnnounced
<1>6. ASSUME NEW c \in Conns, NEW i \in Nodes, NEW next \in {"none", "they", "tooMany"},
             EmitConnect(c, i, next)
      PROVE  AddedHasConnection'
  <2>1. /\ sock[c].phase = "handshake" /\ \A d \in Conns \ {c} : sock'[d] = sock[d]
        /\ sock'[c].phase = "up" /\ sock'[c].rid = i /\ sock'[c].announced = ~Refused(i)
        /\ app' = IF ~Refused(i) THEN app \cup {i} ELSE app
    <3>1. sock[c] \in Socket
      BY <1>0
    <3> QED
      BY <1>0, <1>6, <3>1 DEF EmitConnect, RemoteId, Socket
  <2>2. AllAnnounced
    BY <1>0, <2>1 DEF AllAnnounced
  <2>3. CASE Refused(i)
    BY <1>a, <2>1, <2>2, <2>3
  <2>4. CASE ~Refused(i)
    <3> SUFFICES ASSUME NEW j \in app'
                 PROVE  \E d \in Conns : sock'[d].announced /\ sock'[d].phase = "up" /\ sock'[d].rid = j
      BY DEF AddedHasConnection
    <3>1. CASE j = i
      BY <2>1, <2>4, <3>1
    <3>2. CASE j \in app
      <4>1. PICK d \in Conns : sock[d].announced /\ sock[d].phase = "up" /\ sock[d].rid = j
        BY <3>2 DEF AddedHasConnection
      <4> QED
        BY <2>1, <4>1
    <3> QED
      BY <2>1, <2>4, <3>1, <3>2
  <2> QED
    BY <2>3, <2>4
<1>7. ASSUME NEW c \in Conns,
             \/ TurnAway(c) \/ PeerGivesUp(c)
             \/ \E reason \in {"they", "tooMany"} :
                   RemoteDisconnect(c, reason) \/ DisconnectBeforeConnect(c, reason)
      PROVE  AddedHasConnection'
  <2>1. /\ app' = app /\ \A d \in Conns \ {c} : sock'[d] = sock[d]
        /\ sock'[c].announced = sock[c].announced /\ sock'[c].rid = sock[c].rid
    <3>1. sock[c] \in Socket
      BY <1>0
    <3> QED
      BY <1>0, <1>7, <3>1 DEF TurnAway, PeerGivesUp, RemoteDisconnect, DisconnectBeforeConnect, Socket
  <2> QED
    BY <1>a, <2>1 DEF AllAnnounced
<1>8. ASSUME NEW c \in Conns, SocketClose(c) PROVE AddedHasConnection'
  <2> DEFINE ids == IF Outbound(c) /\ alive THEN Dialed(AfterConnectClose(c)) ELSE {}
  <2>1. PICK f \in Injection(ids, Unused \cup {c}) :
           sock' = WithSockets([sock EXCEPT ![c] = Closed], f)
    BY <1>8 DEF SocketClose
  <2>2. app' = IF Reported(c) THEN app \ {sock[c].rid} ELSE app
    BY <1>8 DEF SocketClose
  <2> HIDE DEF ids
  <2>3. ASSUME NEW d \in Conns \ {c}, sock[d].announced PROVE sock'[d] = sock[d]
    <3>1. d \notin Unused \cup {c}
      BY <1>b, <2>3
    <3> DEFINE free  == Unused \cup {c}
               socks == [sock EXCEPT ![c] = Closed]
    <3>2. f \in Injection(ids, free) /\ d \notin free /\ sock' = WithSockets(socks, f)
      BY <2>1, <3>1
    <3>3. socks[d] = sock[d]
      BY <1>0, <2>3
    <3> HIDE DEF free, socks
    <3>4. WithSockets(socks, f)[d] = socks[d]
      BY <3>2, SocketsKept
    <3> QED
      BY <3>2, <3>3, <3>4
  <2> SUFFICES ASSUME NEW i \in app'
               PROVE  \E d \in Conns : sock'[d].announced /\ sock'[d].phase = "up" /\ sock'[d].rid = i
    BY DEF AddedHasConnection
  <2>4. PICK d \in Conns : sock[d].announced /\ sock[d].phase = "up" /\ sock[d].rid = i
    BY <2>2 DEF AddedHasConnection
  <2>5. d # c
    BY <1>0, <2>2, <2>4
  <2> QED
    BY <2>3, <2>4, <2>5
<1>9. ASSUME NEW ids, NEW f \in Injection(ids, Unused), sock' = WithSockets(sock, f), app' = app
      PROVE  AddedHasConnection'
  <2>1. ASSUME NEW d \in Conns, sock[d].announced PROVE sock'[d] = sock[d]
    <3>1. d \notin Unused
      BY <1>b, <2>1
    <3> QED
      BY <1>9, <3>1, SocketsKept
  <2> QED
    BY <1>9, <1>a, <2>1 DEF AllAnnounced
<1>10. CASE RefillTick
  BY <1>9, <1>10 DEF RefillTick
<1>11. ASSUME NEW i \in Nodes, PeerNew(i) PROVE AddedHasConnection'
  <2>1. CASE OpenSlots(peers) > 0
    BY <1>9, <1>11, <2>1 DEF PeerNew
  <2>2. CASE ~(OpenSlots(peers) > 0)
    BY <1>11, <1>a, <2>2 DEF PeerNew, AllAnnounced
  <2> QED
    BY <2>1, <2>2
<1>12. ASSUME UNCHANGED <<sock, app>> PROVE AddedHasConnection'
  BY <1>12, <1>a DEF AllAnnounced
<1>13. CASE Application
  BY <1>1, <1>2, <1>3, <1>13 DEF Application
<1>14. CASE Network
  BY <1>4, <1>5, <1>6, <1>7, <1>8, <1>14 DEF Network
<1>15. CASE Discovery
  <2>1. ASSUME NEW i \in Nodes, DptRemoved(i) PROVE UNCHANGED <<sock, app>>
    BY <2>1 DEF DptRemoved
  <2> QED
    BY <1>11, <1>12, <1>15, <2>1 DEF Discovery
<1>16. CASE BackoffElapses \/ UNCHANGED vars
  <2>1. UNCHANGED <<sock, app>>
    BY <1>16 DEF BackoffElapses, vars
  <2> QED
    BY <1>12, <2>1
<1> QED
  BY <1>10, <1>13, <1>14, <1>15, <1>16 DEF Next

\* Whoever the application holds to be connected is (rlpx.ts:221-252): no order
\* of dials, refusals, closes and refills makes it miss the end of a Peer.
THEOREM AddedPeersConnected == Spec => []AddedHasConnection
<1>1. Init => AddedHasConnection
  BY DEF Init, AddedHasConnection
<1>2. Inv /\ Inv' /\ AddedHasConnection /\ [Next]_vars => AddedHasConnection'
  BY AddedStep
<1> QED
  BY <1>1, <1>2, InvHolds, PTL DEF Spec

-----------------------------------------------------------------------------
(* Action properties *)

LEMMA DialsPointwise ==
    ASSUME NEW ids, NEW free, NEW f \in Injection(ids, free), NEW table
    PROVE  \A i \in Nodes : WithDials(table, f)[i] = IF i \in ids THEN RawSocket(f[i]) ELSE table[i]
<1>1. DOMAIN f = ids
  BY DEF Injection
<1> QED
  BY <1>1 DEF WithDials

LEMMA RawIsNotPeer == \A c : ~RawSocket(c).isPeer
BY DEF RawSocket

\* Only EmitConnect writes a Peer into the table, and only where there is none.
LEMMA PeerEntryStep ==
    ASSUME Inv, [Next]_vars, NEW i \in Nodes, HasPeer(i), HasPeer(i)'
    PROVE  peers'[i] = peers[i]
<1>0. peers \in Table
  BY InvParts DEF Core
<1>1. ASSUME NEW j \in Nodes, NEW c \in Conns, Connect(j, c) PROVE peers'[i] = peers[i]
  BY <1>0, <1>1 DEF Connect, Table, HasPeer
<1>2. ASSUME NEW j \in Nodes, Disconnect(j) PROVE peers'[i] = peers[i]
  BY <1>2 DEF Disconnect
<1>3. CASE Destroy
  BY <1>3 DEF Destroy
<1>4. ASSUME NEW c \in Conns, NEW j \in Nodes, NEW next \in {"none", "they", "tooMany"},
             EmitConnect(c, j, next)
      PROVE  peers'[i] = peers[i]
  BY <1>0, <1>4 DEF EmitConnect, Table, Refused
<1>5. ASSUME NEW c \in Conns, SocketClose(c) PROVE peers'[i] = peers[i]
  <2> DEFINE table == AfterConnectClose(c)
             ids   == IF Outbound(c) /\ alive THEN Dialed(table) ELSE {}
  <2>1. PICK f \in Injection(ids, Unused \cup {c}) :
           peers' = AfterPeerClose(c, WithDials(table, f))
    BY <1>5 DEF SocketClose
  <2>2. peers'[i] # Free /\ peers'[i].isPeer
    BY DEF HasPeer
  <2>3. table[i] = peers[i] \/ table[i] = Free
    BY <1>0 DEF AfterConnectClose, Table
  <2> HIDE DEF table, ids
  <2>4. WithDials(table, f)[i] = IF i \in ids THEN RawSocket(f[i]) ELSE table[i]
    BY DialsPointwise
  <2>5. peers'[i] = WithDials(table, f)[i]
    <3>1. WithDials(table, f) = [j \in Nodes |-> WithDials(table, f)[j]]
      BY DEF WithDials
    <3> QED
      BY <2>1, <2>2, <3>1 DEF AfterPeerClose
  <2> QED
    BY <2>2, <2>3, <2>4, <2>5, RawIsNotPeer
<1>6. CASE RefillTick
  <2>1. PICK f \in Injection(Dialed(peers), Unused) : peers' = WithDials(peers, f)
    BY <1>6 DEF RefillTick
  <2> QED
    BY <2>1, DialsPointwise, RawIsNotPeer DEF HasPeer
<1>7. ASSUME NEW j \in Nodes, PeerNew(j) PROVE peers'[i] = peers[i]
  <2> DEFINE ids == IF alive /\ peers[j] = Free THEN {j} ELSE {}
  <2>1. CASE OpenSlots(peers) > 0
    <3>1. PICK f \in Injection(ids, Unused) : peers' = WithDials(peers, f)
      BY <1>7, <2>1 DEF PeerNew
    <3> HIDE DEF ids
    <3> QED
      BY <3>1, DialsPointwise, RawIsNotPeer DEF HasPeer
  <2>2. CASE ~(OpenSlots(peers) > 0)
    BY <1>7, <2>2 DEF PeerNew
  <2> QED
    BY <2>1, <2>2
<1>8. CASE UNCHANGED peers
  BY <1>8
<1>9. CASE Application
  BY <1>1, <1>2, <1>3, <1>9 DEF Application
<1>10. CASE Network
  <2>1. ASSUME NEW c \in Conns,
               \/ Established(c) \/ Accept(c) \/ TurnAway(c) \/ PeerGivesUp(c)
               \/ \E dropped \in BOOLEAN : DialRejected(c, dropped)
               \/ \E reason \in {"they", "tooMany"} :
                  RemoteDisconnect(c, reason) \/ DisconnectBeforeConnect(c, reason)
        PROVE  UNCHANGED peers
    BY <2>1 DEF Established, Accept, TurnAway, PeerGivesUp, DialRejected, RemoteDisconnect,
                   DisconnectBeforeConnect
  <2> QED
    BY <1>4, <1>5, <1>8, <1>10, <2>1 DEF Network
<1>11. CASE Discovery
  <2>1. ASSUME NEW j \in Nodes, DptRemoved(j) PROVE UNCHANGED peers
    BY <2>1 DEF DptRemoved
  <2> QED
    BY <1>7, <1>8, <1>11, <2>1 DEF Discovery
<1>12. CASE BackoffElapses
  BY <1>8, <1>12 DEF BackoffElapses
<1>13. CASE UNCHANGED vars
  BY <1>8, <1>13 DEF vars
<1> QED
  BY <1>6, <1>9, <1>10, <1>11, <1>12, <1>13 DEF Next

\* The ALREADY_CONNECTED check (rlpx.ts:216-219) does its work for every
\* interleaving: a listed Peer is never replaced by another one.
THEOREM ListedPeerStays == Spec => NoPeerReplaced
<1>1. Inv /\ [Next]_vars =>
         [\A i \in Nodes : HasPeer(i) /\ HasPeer(i)' => peers'[i] = peers[i]]_vars
  BY PeerEntryStep
<1> QED
  BY <1>1, InvHolds, PTL DEF Spec, NoPeerReplaced

\* A pass that dials at all ends with no more than maxPeers entries.
LEMMA DialsFit ==
    ASSUME NEW table \in Table, NEW ids \in SUBSET Nodes, ids # {}, IsFiniteSet(ids),
           Cardinality(ids) <= OpenSlots(table),
           NEW free, NEW f \in Injection(ids, free),
           NEW final, Taken(final) \subseteq Taken(WithDials(table, f))
    PROVE  Cardinality(Taken(final)) <= MaxPeers
<1>1. Taken(final) \subseteq Taken(table) \cup ids
  BY DialsPointwise DEF Taken
<1>2. /\ IsFiniteSet(Taken(table)) /\ Cardinality(Taken(table)) \in Nat
      /\ OpenSlots(table) \in Nat
      /\ OpenSlots(table) > 0 => OpenSlots(table) = MaxPeers - Cardinality(Taken(table))
  BY SlotsType
<1>3. Cardinality(ids) \in Nat /\ Cardinality(ids) # 0
  BY FS_EmptySet, FS_CardinalityType
<1>4. /\ IsFiniteSet(Taken(table) \cup ids)
      /\ Cardinality(Taken(table) \cup ids) =
            Cardinality(Taken(table)) + Cardinality(ids) - Cardinality(Taken(table) \cap ids)
  BY <1>2, FS_Union
<1>5. Cardinality(Taken(table) \cap ids) \in Nat
  BY <1>2, FS_Intersection, FS_CardinalityType
<1>6. Cardinality(Taken(final)) <= Cardinality(Taken(table) \cup ids)
  BY <1>1, <1>4, FS_Subset
<1>7. Cardinality(Taken(final)) \in Nat /\ Cardinality(Taken(table) \cup ids) \in Nat
  BY <1>1, <1>4, FS_Subset, FS_CardinalityType
<1>8. MaxPeers \in Nat
  BY MaxPeersAssumption
<1> QED
  BY <1>2, <1>3, <1>4, <1>5, <1>6, <1>7, <1>8

\* A socket that starts to dial is one of those that the step allocated.
LEMMA NewDialAllocated ==
    ASSUME NEW socks \in [Conns -> Socket], NEW table \in Table,
           NEW ids \in SUBSET Nodes, NEW free \in SUBSET Conns,
           NEW f \in Injection(ids, free), NEW d \in Conns,
           WithSockets(socks, f)[d].phase = "dialing", socks[d].phase # "dialing"
    PROVE  ids # {}
<1>1. DialsDone(ids, free, f, socks, table)
  BY DialsEffect
<1> QED
  BY <1>1 DEF DialsDone

NewDial(d) == sock'[d].phase = "dialing" /\ sock[d].phase # "dialing"

LEMMA DialStep ==
    ASSUME Inv, [Next]_vars, NEW d \in Conns, NewDial(d)
    PROVE  alive /\ Size' <= MaxPeers
<1>0. Core /\ Rest /\ sock \in [Conns -> Socket] /\ peers \in Table
  BY InvParts DEF Core
<1> USE DEF NewDial
<1>1. ASSUME NEW i \in Nodes, NEW c \in Conns, Connect(i, c) PROVE alive /\ Size' <= MaxPeers
  <2>1. Taken(peers)' \subseteq Taken(peers) \cup {i}
    BY <1>0, <1>1 DEF Connect, Taken, Table
  <2>2. /\ IsFiniteSet(Taken(peers)) /\ Cardinality(Taken(peers)) \in Nat
        /\ OpenSlots(peers) = MaxPeers - Cardinality(Taken(peers)) /\ OpenSlots(peers) > 0
    BY <1>0, <1>1, SlotsType DEF Connect
  <2>3. /\ IsFiniteSet(Taken(peers) \cup {i})
        /\ Cardinality(Taken(peers) \cup {i}) <= Cardinality(Taken(peers)) + 1
        /\ Cardinality(Taken(peers) \cup {i}) \in Nat
    <3>1. /\ IsFiniteSet(Taken(peers) \cup {i})
          /\ Cardinality(Taken(peers) \cup {i}) =
                IF i \in Taken(peers) THEN Cardinality(Taken(peers))
                                      ELSE Cardinality(Taken(peers)) + 1
      BY <2>2, FS_AddElement
    <3> QED
      BY <3>1, <2>2
  <2>4. /\ Size' <= Cardinality(Taken(peers) \cup {i})
        /\ Size' \in Nat
    BY <2>1, <2>3, FS_Subset, FS_CardinalityType DEF Size
  <2>5. MaxPeers \in Nat
    BY MaxPeersAssumption
  <2> QED
    BY <1>1, <2>2, <2>3, <2>4, <2>5 DEF Connect
<1>2. ASSUME NEW c \in Conns, SocketClose(c) PROVE alive /\ Size' <= MaxPeers
  <2> DEFINE table == AfterConnectClose(c)
             ids   == IF Outbound(c) /\ alive THEN Dialed(table) ELSE {}
             socks == [sock EXCEPT ![c] = Closed]
             free  == Unused \cup {c}
  <2>1. PICK f \in Injection(ids, free) :
           /\ sock' = WithSockets(socks, f)
           /\ peers' = AfterPeerClose(c, WithDials(table, f))
    BY <1>2 DEF SocketClose
  <2>2. table \in Table
    BY <1>0 DEF AfterConnectClose, Table
  <2>3. socks \in [Conns -> Socket] /\ socks[d].phase # "dialing"
    BY <1>0, ClosedType DEF Closed
  <2>4. ids \in SUBSET Nodes /\ free \in SUBSET Conns
    BY DEF Dialed, DialedBy, Unused
  <2>5. Taken(peers)' \subseteq Taken(WithDials(table, f))
    BY <2>1 DEF Taken, AfterPeerClose, WithDials
  <2>6. IsFiniteSet(ids) /\ Cardinality(ids) <= OpenSlots(table)
    <3>1. IsFiniteSet(Dialed(table)) /\ Cardinality(Dialed(table)) <= OpenSlots(table)
      BY <1>0, <2>2, RefillWithinSlots DEF Rest
    <3>2. IsFiniteSet({}) /\ Cardinality({}) = 0 /\ OpenSlots(table) \in Nat
      BY <2>2, SlotsType, FS_EmptySet
    <3> QED
      BY <3>1, <3>2
  <2>7. ids # {} => alive
    OBVIOUS
  <2> HIDE DEF table, ids, socks, free
  <2>8. ids # {}
    BY <2>1, <2>2, <2>3, <2>4, NewDialAllocated
  <2>9. Cardinality(Taken(peers')) <= MaxPeers
    BY <2>1, <2>2, <2>4, <2>5, <2>6, <2>8, DialsFit
  <2> QED
    BY <2>7, <2>8, <2>9 DEF Size
<1>3. CASE RefillTick
  <2>1. PICK f \in Injection(Dialed(peers), Unused) :
           sock' = WithSockets(sock, f) /\ peers' = WithDials(peers, f)
    BY <1>3 DEF RefillTick
  <2>2. Dialed(peers) \in SUBSET Nodes /\ Unused \in SUBSET Conns
    BY DEF Dialed, DialedBy, Unused
  <2>3. IsFiniteSet(Dialed(peers)) /\ Cardinality(Dialed(peers)) <= OpenSlots(peers)
    BY <1>0, RefillWithinSlots DEF Rest
  <2>4. Dialed(peers) # {}
    BY <1>0, <2>1, <2>2, NewDialAllocated
  <2>5. Taken(peers') \subseteq Taken(WithDials(peers, f))
    BY <2>1
  <2>6. Cardinality(Taken(peers')) <= MaxPeers
    BY <1>0, <2>2, <2>3, <2>4, <2>5, DialsFit
  <2> QED
    BY <1>3, <2>6 DEF Size, RefillTick
<1>4. ASSUME NEW i \in Nodes, PeerNew(i) PROVE alive /\ Size' <= MaxPeers
  <2>1. CASE OpenSlots(peers) > 0
    <3> DEFINE ids == IF alive /\ peers[i] = Free THEN {i} ELSE {}
    <3>1. PICK f \in Injection(ids, Unused) :
             sock' = WithSockets(sock, f) /\ peers' = WithDials(peers, f)
      BY <1>4, <2>1 DEF PeerNew
    <3>2. ids \in SUBSET Nodes /\ Unused \in SUBSET Conns
      BY DEF Unused
    <3>3. IsFiniteSet(ids) /\ Cardinality(ids) <= OpenSlots(peers)
      <4>1. IsFiniteSet({}) /\ Cardinality({}) = 0 /\ IsFiniteSet({i}) /\ Cardinality({i}) = 1
        BY FS_EmptySet, FS_Singleton
      <4>2. OpenSlots(peers) \in Nat
        BY <1>0, SlotsType
      <4> QED
        BY <4>1, <4>2, <2>1
    <3>4. ids # {} => alive
      OBVIOUS
    <3> HIDE DEF ids
    <3>5. ids # {}
      BY <1>0, <3>1, <3>2, NewDialAllocated
    <3>6. Taken(peers') \subseteq Taken(WithDials(peers, f))
      BY <3>1
    <3>7. Cardinality(Taken(peers')) <= MaxPeers
      BY <1>0, <3>1, <3>2, <3>3, <3>5, <3>6, DialsFit
    <3> QED
      BY <3>4, <3>5, <3>7 DEF Size
  <2>2. CASE ~(OpenSlots(peers) > 0)
    BY <1>4, <2>2 DEF PeerNew
  <2> QED
    BY <2>1, <2>2
<1>5. CASE Destroy
  BY <1>0, <1>5 DEF Destroy, Socket
<1>6. ASSUME NEW i \in Nodes, Disconnect(i) PROVE FALSE
  <2>1. peers[i].conn \in Conns
    BY <1>0, <1>6 DEF Disconnect, HasPeer, Table, Entry
  <2> QED
    BY <1>0, <1>6, <2>1 DEF Disconnect, Socket
<1>7. ASSUME NEW c \in Conns,
             \/ Established(c) \/ Accept(c) \/ TurnAway(c) \/ PeerGivesUp(c)
             \/ \E dropped \in BOOLEAN : DialRejected(c, dropped)
             \/ \E reason \in {"they", "tooMany"} :
                  RemoteDisconnect(c, reason) \/ DisconnectBeforeConnect(c, reason)
      PROVE  FALSE
  BY <1>0, <1>7, ZenonT(60) DEF Established, Accept, TurnAway, PeerGivesUp, DialRejected,
                    RemoteDisconnect, DisconnectBeforeConnect, Opened, Closed, Socket
<1>8. ASSUME NEW c \in Conns, NEW i \in Nodes, NEW next \in {"none", "they", "tooMany"},
             EmitConnect(c, i, next)
      PROVE  FALSE
  BY <1>0, <1>8 DEF EmitConnect, Socket
<1>9. ASSUME UNCHANGED sock PROVE FALSE
  BY <1>9
<1>10. CASE Application
  BY <1>1, <1>5, <1>6, <1>10 DEF Application
<1>11. CASE Network
  BY <1>2, <1>7, <1>8, <1>11 DEF Network
<1>12. CASE Discovery
  BY <1>4, <1>9, <1>12 DEF Discovery, DptRemoved
<1>13. CASE BackoffElapses
  BY <1>9, <1>13 DEF BackoffElapses
<1>14. CASE UNCHANGED vars
  BY <1>9, <1>14 DEF vars
<1> QED
  BY <1>3, <1>10, <1>11, <1>12, <1>13, <1>14 DEF Next

\* Whoever starts a dial (rlpx.ts:78, 127, 264, and the refill of a close,
\* 134-137), the table holds at most maxPeers entries when the step ends, and
\* the server is alive.
THEOREM DialsRespectMaxPeers == Spec => DialWithinMax
<1>1. Inv /\ [Next]_vars =>
         [\A c \in Conns :
             LET dials == sock'[c].phase = "dialing" /\ sock[c].phase # "dialing"
             IN  dials => alive /\ Size' <= MaxPeers]_vars
  BY DialStep DEF NewDial
<1> QED
  BY <1>1, InvHolds, PTL DEF Spec, DialWithinMax

-----------------------------------------------------------------------------
(* Who leaves the queue *)

Lists(q, i) == \E k \in DOMAIN q : q[k].id = i

\* What a filter keeps of the items of a node.
LEMMA KeptLists ==
    ASSUME NEW q \in Seq(Item), NEW keep, NEW i, NEW k \in DOMAIN q, k \in keep, q[k].id = i
    PROVE  Lists(Kept(q, keep), i)
<1> DEFINE r == Kept(q, keep)
<1>1. k \in 1..Len(q) /\ r \in Seq(Item)
  BY KeptType
<1>2. \A m \in 1..Len(q) : m \in keep => \E j \in 1..Len(r) : r[j] = q[m]
  BY KeptItems
<1> HIDE DEF r
<1>3. \E j \in 1..Len(r) : r[j] = q[k]
  BY <1>1, <1>2, Zenon
<1>4. DOMAIN r = 1..Len(r)
  BY <1>1
<1> QED
  BY <1>3, <1>4 DEF Lists, r

LEMMA WithoutLists ==
    ASSUME NEW q \in Seq(Item), NEW i, NEW j, i # j, Lists(q, i)
    PROVE  Lists(Without(q, j), i)
<1> DEFINE keep == {k \in DOMAIN q : q[k].id # j}
<1>1. PICK k \in DOMAIN q : q[k].id = i
  BY DEF Lists
<1>2. k \in keep
  BY <1>1
<1> HIDE DEF keep
<1>3. Lists(Kept(q, keep), i)
  BY <1>1, <1>2, KeptLists
<1> QED
  BY <1>3 DEF Without, keep

LEMMA AppendLists ==
    ASSUME NEW q \in Seq(Item), NEW x \in Item, NEW i, Lists(q, i)
    PROVE  Lists(Append(q, x), i)
<1>1. PICK k \in DOMAIN q : q[k].id = i
  BY DEF Lists
<1>2. k \in DOMAIN Append(q, x) /\ Append(q, x)[k] = q[k]
  BY <1>1
<1> QED
  BY <1>1, <1>2 DEF Lists

\* A refill drops the items of a node that it dials, or that has an entry.
LEMMA RefilledLists ==
    ASSUME NEW table, queue \in Seq(Item), NEW i \in Nodes, Queued(i), ~Lists(Refilled(table), i)
    PROVE  i \in Taken(table) \cup Dialed(table)
<1> DEFINE n == ReachedWithSlot(table)
           reached == {k \in DOMAIN queue :
                         Cardinality(DialedBy(table, k - 1)) < OpenSlots(table)}
           keep == {k \in DOMAIN queue : k > n \/ ~queue[k].ready}
<1>1. DOMAIN queue = 1..Len(queue) /\ Len(queue) \in Nat
  BY LenProperties
<1>2. n \in Nat
  <2>1. IsFiniteSet(1..Len(queue)) /\ reached \subseteq 1..Len(queue)
    BY <1>1, FS_Interval
  <2>2. Cardinality(reached) \in Nat
    BY <2>1, FS_Subset, FS_CardinalityType
  <2> QED
    BY <2>2 DEF ReachedWithSlot
<1>3. Refilled(table) = Kept(queue, keep)
  BY DEF Refilled
<1>4. PICK k \in DOMAIN queue : queue[k].id = i
  BY DEF Queued
<1>5. k \notin keep
  <2> HIDE DEF keep
  <2> QED
    BY <1>3, <1>4, KeptLists
<1> HIDE DEF n
<1>6. queue[k].ready /\ ~(k > n)
  BY <1>5
<1>7. k \in 1..n
  BY <1>1, <1>2, <1>6
<1>8. i \notin Taken(table) => i \in DialedBy(table, n)
  BY <1>4, <1>6, <1>7 DEF DialedBy
<1> QED
  BY <1>8 DEF Dialed, n

\* The node that leaves the queue in a refill has a socket afterwards: the one
\* that is dialed, or the one whose entry kept connect() from dialing.
LEMMA RefillLists ==
    ASSUME Core, Rest, NEW table \in Table, NEW free \in SUBSET Conns,
           NEW socks \in [Conns -> Socket], NEW f \in Injection(Dialed(table), free),
           sock' = WithSockets(socks, f),
           \A j \in Nodes : table[j] # Free =>
              /\ table[j] = peers[j] /\ peers[j].conn \notin free
              /\ socks[peers[j].conn] = sock[peers[j].conn],
           NEW i \in Nodes, Queued(i), ~Lists(Refilled(table), i)
    PROVE  HasSocket(i)'
<1>1. i \in Taken(table) \cup Dialed(table)
  BY RefilledLists DEF Rest
<1>2. Dialed(table) \in SUBSET Nodes
  BY DEF Dialed, DialedBy
<1>3. DialsDone(Dialed(table), free, f, socks, table)
  BY <1>2, DialsEffect
<1>4. CASE i \in Dialed(table)
  <2>1. f[i] \in free /\ sock'[f[i]] = Opened("dialing", "auto", i)
    BY <1>3, <1>4 DEF DialsDone
  <2>2. Opened("dialing", "auto", i).rid = i
    BY DEF Opened, Closed
  <2>3. f[i] \in Conns
    BY <2>1
  <2> QED
    BY <2>1, <2>2, <2>3 DEF HasSocket
<1>5. CASE i \in Taken(table)
  <2> DEFINE c == peers[i].conn
  <2>1. table[i] # Free /\ table[i] = peers[i] /\ c \notin free /\ socks[c] = sock[c]
    BY <1>5 DEF Taken
  <2>2. c \in Conns /\ sock[c].rid = i
    BY <2>1 DEF Core, EntryHasOwner, Table, Entry
  <2> HIDE DEF c
  <2>3. sock'[c] = sock[c]
    BY <1>3, <2>1, <2>2 DEF DialsDone
  <2> QED
    BY <2>2, <2>3 DEF HasSocket
<1> QED
  BY <1>1, <1>4, <1>5

LEMMA QueueStep ==
    ASSUME Inv, [Next]_vars, NEW i \in Nodes, Queued(i), ~Queued(i)'
    PROVE  HasSocket(i)' \/ Dropped(i)
<1>0. /\ Core /\ Rest /\ queue \in Seq(Item) /\ sock \in [Conns -> Socket] /\ peers \in Table
      /\ IsFiniteSet(Nodes)
  BY InvParts, NodesAssumption DEF Core, Rest
<1>q. Lists(queue, i) /\ ~Lists(queue', i)
  BY DEF Queued, Lists
<1>1. ASSUME queue' = queue PROVE FALSE
  BY <1>q, <1>1
<1>2. ASSUME NEW c \in Conns, NEW dropped \in BOOLEAN, DialRejected(c, dropped)
      PROVE  Dropped(i)
  <2>1. dropped /\ sock[c].rid = i
    BY <1>0, <1>q, <1>1, <1>2, WithoutLists DEF DialRejected
  <2>2. dropped = TRUE
    BY <2>1
  <2> QED
    BY <1>2, <2>1, <2>2 DEF Dropped
<1>3. ASSUME NEW c \in Conns, SocketClose(c) PROVE HasSocket(i)'
  <2> DEFINE table == AfterConnectClose(c)
             refills == Outbound(c) /\ alive
             ids   == IF refills THEN Dialed(table) ELSE {}
             left  == IF refills THEN Refilled(table) ELSE queue
             x     == [id |-> sock[c].rid, ready |-> FALSE]
             socks == [sock EXCEPT ![c] = Closed]
             free  == Unused \cup {c}
  <2>1. PICK f \in Injection(ids, free) : sock' = WithSockets(socks, f)
    BY <1>3 DEF SocketClose
  <2>2. queue' = IF Reported(c) /\ sock[c].closing = "tooMany" THEN Append(left, x) ELSE left
    BY <1>3 DEF SocketClose
  <2>3. left \in Seq(Item) /\ (Reported(c) => x \in Item)
    BY <1>0, RefilledType DEF Core, IdKnown, Item
  <2>4. ~Lists(left, i)
    <3> HIDE DEF left, x
    <3> QED
      BY <1>q, <2>2, <2>3, AppendLists
  <2>5. refills
    BY <1>q, <2>4
  <2>6. ~Lists(Refilled(table), i) /\ f \in Injection(Dialed(table), free)
    BY <2>4, <2>5
  <2>7. table \in Table /\ socks \in [Conns -> Socket] /\ free \in SUBSET Conns
    BY <1>0, ClosedType DEF AfterConnectClose, Table, Unused
  <2>8. ASSUME NEW j \in Nodes, table[j] # Free
        PROVE  /\ table[j] = peers[j] /\ peers[j].conn \notin free
               /\ socks[peers[j].conn] = sock[peers[j].conn]
    <3>1. table[j] = peers[j] /\ j # sock[c].rid
      BY <1>0, <2>5, <2>8 DEF AfterConnectClose, Table
    <3>2. /\ peers[j].conn \in Conns /\ sock[peers[j].conn].rid = j
          /\ sock[peers[j].conn].phase # "unused"
      BY <1>0, <2>8, <3>1 DEF Core, EntryHasOwner, Table, Entry
    <3>3. peers[j].conn # c
      BY <3>1, <3>2
    <3> QED
      BY <1>0, <3>1, <3>2, <3>3 DEF Unused
  <2> HIDE DEF table, socks, free, ids, left, x, refills
  <2> QED
    BY <1>0, <2>1, <2>6, <2>7, <2>8, RefillLists
<1>4. CASE RefillTick
  <2>1. PICK f \in Injection(Dialed(peers), Unused) : sock' = WithSockets(sock, f)
    BY <1>4 DEF RefillTick
  <2>2. ~Lists(Refilled(peers), i)
    BY <1>4, <1>q DEF RefillTick
  <2>3. \A j \in Nodes : peers[j] # Free => peers[j].conn \notin Unused
    BY <1>0 DEF Core, EntryHasOwner, Unused
  <2>4. Unused \in SUBSET Conns
    BY DEF Unused
  <2> QED
    BY <1>0, <2>1, <2>2, <2>3, <2>4, RefillLists
<1>5. ASSUME BackoffElapses PROVE FALSE
  <2>1. PICK k \in DOMAIN queue : queue' = [queue EXCEPT ![k].ready = TRUE]
    BY <1>5 DEF BackoffElapses
  <2>2. \A j \in DOMAIN queue : j \in DOMAIN queue' /\ queue'[j].id = queue[j].id
    <3>1. \A j \in DOMAIN queue : queue[j] \in Item
      BY <1>0
    <3> QED
      BY <2>1, <3>1 DEF Item
  <2> QED
    BY <1>q, <2>2 DEF Lists
<1>6. ASSUME NEW j \in Nodes, PeerNew(j) PROVE FALSE
  <2>1. [id |-> j, ready |-> TRUE] \in Item
    BY DEF Item
  <2>2. queue' = queue \/ queue' = Append(queue, [id |-> j, ready |-> TRUE])
    BY <1>6 DEF PeerNew
  <2> QED
    BY <1>0, <1>q, <1>1, <2>1, <2>2, AppendLists
<1>7. ASSUME NEW j \in Nodes, DptRemoved(j) PROVE Dropped(i)
  <2>1. i = j
    BY <1>0, <1>q, <1>7, WithoutLists DEF DptRemoved
  <2> QED
    BY <1>7, <2>1 DEF Dropped
<1>8. CASE Application
  BY <1>1, <1>8 DEF Application, Connect, Disconnect, Destroy
<1>9. CASE Network
  <2>1. ASSUME NEW c \in Conns,
               \/ Established(c) \/ Accept(c) \/ TurnAway(c) \/ PeerGivesUp(c)
               \/ \E j \in Nodes, next \in {"none", "they", "tooMany"} : EmitConnect(c, j, next)
               \/ \E reason \in {"they", "tooMany"} :
                  RemoteDisconnect(c, reason) \/ DisconnectBeforeConnect(c, reason)
        PROVE  FALSE
    BY <1>1, <2>1 DEF Established, Accept, TurnAway, PeerGivesUp, EmitConnect,
                      RemoteDisconnect, DisconnectBeforeConnect
  <2> QED
    BY <1>2, <1>3, <1>9, <2>1 DEF Network
<1>10. CASE Discovery
  BY <1>6, <1>7, <1>10 DEF Discovery
<1>11. CASE UNCHANGED vars
  BY <1>1, <1>11 DEF vars
<1> QED
  BY <1>4, <1>5, <1>8, <1>9, <1>10, <1>11 DEF Next

\* Discovery's queue loses nobody: the filter of _refillConnections
\* (rlpx.ts:258-272), which drops an item before connect() may throw, drops
\* only nodes that it dials or that have a socket; else it is discovery that
\* takes a node out (rlpx.ts:82-84).
THEOREM NobodyLost == Spec => QueueNotLost
<1>1. Inv /\ [Next]_vars =>
         [\A i \in Nodes : Queued(i) /\ ~Queued(i)' => HasSocket(i)' \/ Dropped(i)]_vars
  BY QueueStep
<1> QED
  BY <1>1, InvHolds, PTL DEF Spec, QueueNotLost
=============================================================================
