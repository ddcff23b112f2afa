------------------------------ MODULE DPT_proofs ----------------------------
(***************************************************************************)
(* Theorems about DPT, for every set of nodes and endpoints, every bucket  *)
(* size and every number of pings and calls.  Inv is the inductive         *)
(* invariant: the invariants of the run, and CacheIsOwn, as a call waits   *)
(* for the promise that it finds in the cache.                             *)
(***************************************************************************)
EXTENDS DPT, TLAPS, SequenceTheorems

\* A cached promise is that of a ping to the endpoint it is cached for.
CacheIsOwn ==
    \A e \in Endpoints :
        cache[e] # 0 => cache[e] \in DOMAIN pings /\ pings[cache[e]].to = e

Inv == TypeOK /\ TableAnswered /\ WaitsForOwnPing /\ RequestsMatch /\ CacheIsOwn

\* What TypeOK and RequestsMatch say of the requests and the timeouts.
Requested ==
    /\ requests \in [1..MaxPings -> 0..MaxPings]
    /\ fired \in 0..Len(pings)
    /\ since \in 0..Len(pings)
    /\ RequestsMatch

-----------------------------------------------------------------------------
(* Sequences *)

\* RemoveAt keeps what the others are.
LEMMA RemoveAtSeq ==
    ASSUME NEW T, NEW s \in Seq(T), NEW k \in DOMAIN s
    PROVE  /\ RemoveAt(s, k) \in Seq(T)
           /\ \A j \in DOMAIN RemoveAt(s, k) :
                \E i \in DOMAIN s : RemoveAt(s, k)[j] = s[i]
<1>1. Len(s) \in Nat /\ DOMAIN s = 1..Len(s) /\ k \in 1..Len(s) /\ s \in [1..Len(s) -> T]
  BY LenProperties
<1> DEFINE a == SubSeq(s, 1, k - 1)
           b == SubSeq(s, k + 1, Len(s))
<1>2. /\ a \in Seq(T) /\ Len(a) = k - 1
      /\ \A i \in 1..(k - 1) : a[i] = s[i]
  <2>1. \A i \in 1..(k - 1) : s[i] \in T
    BY <1>1
  <2> QED
    BY <1>1, <2>1, SubSeqProperties, 1 \in Int, k - 1 \in Int
<1>3. /\ b \in Seq(T) /\ Len(b) = Len(s) - k
      /\ \A i \in 1..(Len(s) - k) : b[i] = s[k + i]
  <2>1. \A i \in (k + 1)..Len(s) : s[i] \in T
    BY <1>1
  <2>2. k + 1 \in Int /\ Len(s) \in Int
    BY <1>1
  <2> QED
    BY <1>1, <2>1, <2>2, SubSeqProperties
<1> HIDE DEF a, b
<1>4. /\ a \o b \in Seq(T) /\ Len(a \o b) = Len(s) - 1
      /\ \A j \in 1..(Len(s) - 1) : (a \o b)[j] = IF j <= k - 1 THEN a[j] ELSE b[j - (k - 1)]
  <2>1. /\ a \o b \in Seq(T) /\ Len(a \o b) = Len(a) + Len(b)
        /\ \A j \in 1..(Len(a) + Len(b)) :
              (a \o b)[j] = IF j <= Len(a) THEN a[j] ELSE b[j - Len(a)]
    BY <1>2, <1>3, ConcatProperties
  <2>2. Len(a) + Len(b) = Len(s) - 1
    BY <1>1, <1>2, <1>3
  <2> QED
    BY <1>2, <2>1, <2>2
<1>5. DOMAIN (a \o b) = 1..(Len(s) - 1)
  BY <1>4, LenProperties
<1>6. ASSUME NEW j \in 1..(Len(s) - 1) PROVE \E i \in DOMAIN s : (a \o b)[j] = s[i]
  <2>1. CASE j <= k - 1
    <3>1. (a \o b)[j] = s[j] /\ j \in DOMAIN s
      BY <1>1, <1>2, <1>4, <2>1
    <3> QED
      BY <3>1
  <2>2. CASE ~(j <= k - 1)
    <3> DEFINE i == j - (k - 1)
    <3>1. i \in 1..(Len(s) - k) /\ k + i = j + 1 /\ j + 1 \in DOMAIN s
      BY <1>1, <2>2
    <3>2. (a \o b)[j] = b[i]
      BY <1>4, <2>2
    <3> HIDE DEF i
    <3>3. (a \o b)[j] = s[j + 1]
      BY <1>3, <3>1, <3>2
    <3> QED
      BY <3>1, <3>3
  <2> QED
    BY <2>1, <2>2
<1> QED
  BY <1>4, <1>5, <1>6 DEF RemoveAt, a, b

-----------------------------------------------------------------------------
(* What an action does to the pings, and what that does to the invariant *)

\* Pings are added, or settled once, and keep their endpoint.
Grown ==
    /\ pings' \in Seq(Ping)
    /\ Len(pings') <= MaxPings
    /\ \A k \in DOMAIN pings :
         /\ k \in DOMAIN pings'
         /\ pings'[k].to = pings[k].to
         /\ pings[k].state # "pending" => pings'[k].state = pings[k].state

LEMMA SameGrown == ASSUME Inv, UNCHANGED pingVars PROVE Grown /\ Requested'
<1>1. UNCHANGED <<pings, requests, fired, since>>
  BY DEF pingVars
<1>2. Grown
  BY <1>1 DEF Inv, TypeOK, Grown
<1>3. RequestsMatch'
  BY <1>1 DEF Inv, RequestsMatch, Superseded
<1> QED
  BY <1>1, <1>2, <1>3 DEF Inv, TypeOK, Requested

LEMMA PingTypes == ASSUME Inv PROVE
    /\ MaxPings \in Nat /\ Len(pings) \in Nat /\ Len(pings) <= MaxPings
    /\ pings \in Seq(Ping) /\ pings \in [1..Len(pings) -> Ping] /\ DOMAIN pings = 1..Len(pings)
    /\ \A k \in DOMAIN pings : k \in 1..MaxPings /\ pings[k] \in Ping /\ pings[k].hash \in 1..MaxPings
<1>1. pings \in Seq(Ping) /\ Len(pings) \in Nat /\ Len(pings) <= MaxPings /\ MaxPings \in Nat
  BY LenProperties, BoundsAssumption DEF Inv, TypeOK
<1>2. pings \in [1..Len(pings) -> Ping] /\ DOMAIN pings = 1..Len(pings)
  BY <1>1, LenProperties
<1>3. \A k \in DOMAIN pings : pings[k] \in Ping /\ k \in 1..MaxPings
  BY <1>1, <1>2
<1> QED
  BY <1>1, <1>2, <1>3 DEF Ping

LEMMA SettledGrown ==
    ASSUME Inv, NEW k \in DOMAIN pings, pings[k].state = "pending",
           NEW state \in {"answered", "failed"}, pings' = Settled(k, state)
    PROVE  /\ Grown
           /\ Len(pings') = Len(pings) /\ DOMAIN pings' = DOMAIN pings
           /\ \A j \in DOMAIN pings :
                /\ pings'[j].hash = pings[j].hash
                /\ pings'[j].state = IF j = k THEN state ELSE pings[j].state
<1>1. /\ pings \in Seq(Ping) /\ Len(pings) <= MaxPings /\ Len(pings) \in Nat
      /\ pings \in [1..Len(pings) -> Ping] /\ DOMAIN pings = 1..Len(pings)
      /\ \A j \in DOMAIN pings : pings[j] \in Ping
  BY PingTypes
<1>2. pings' = [pings EXCEPT ![k] = [pings[k] EXCEPT !.state = state]]
  BY DEF Settled
<1>3. [pings[k] EXCEPT !.state = state] \in Ping
  BY <1>1 DEF Ping
<1>4. pings' \in [1..Len(pings) -> Ping]
  BY <1>1, <1>2, <1>3
<1>5. pings' \in Seq(Ping) /\ DOMAIN pings' = 1..Len(pings)
  BY <1>1, <1>4, SeqDef
<1>6. Len(pings') = Len(pings)
  BY <1>1, <1>5, LenProperties
<1>7. \A j \in DOMAIN pings :
         /\ pings'[j].to = pings[j].to
         /\ pings'[j].hash = pings[j].hash
         /\ pings'[j].state = IF j = k THEN state ELSE pings[j].state
  BY <1>1, <1>2 DEF Ping
<1> QED
  BY <1>1, <1>5, <1>6, <1>7 DEF Grown

\* Who was superseded is so until it is settled.
LEMMA StaysSuperseded ==
    ASSUME Inv, Grown, NEW j \in DOMAIN pings, Superseded(j), pings'[j].state = "pending",
           \A i \in DOMAIN pings : pings'[i].hash = pings[i].hash
    PROVE  Superseded(j)'
<1>1. PICK q \in DOMAIN pings : pings[q].hash = pings[j].hash /\ pings[q].state # "pending"
  BY DEF Superseded
<1>2. q \in DOMAIN pings' /\ pings'[q].hash = pings'[j].hash /\ pings'[q].state # "pending"
  BY <1>1 DEF Grown
<1> QED
  BY <1>2 DEF Superseded

\* A PONG deletes the request of the promise it settles.
LEMMA PongRequested ==
    ASSUME Inv, NEW k \in DOMAIN pings, Pong(k)
    PROVE  Grown /\ Requested'
<1> DEFINE h == pings[k].hash
<1>0. /\ MaxPings \in Nat /\ Len(pings) \in Nat /\ DOMAIN pings = 1..Len(pings)
      /\ h \in 1..MaxPings /\ \A j \in DOMAIN pings : pings[j].hash \in 1..MaxPings
  BY PingTypes
<1>1. /\ requests \in [1..MaxPings -> 0..MaxPings] /\ fired \in 0..Len(pings) /\ since \in 0..Len(pings)
      /\ requests' = [requests EXCEPT ![h] = 0] /\ fired' = fired /\ since' = since
      /\ requests[h] = k /\ k # 0
  BY <1>0 DEF Inv, TypeOK, Pong
<1>2. pings[k].state = "pending"
  BY <1>0, <1>1 DEF Inv, RequestsMatch
<1>3. /\ Grown /\ Len(pings') = Len(pings) /\ DOMAIN pings' = DOMAIN pings
      /\ \A j \in DOMAIN pings :
           /\ pings'[j].hash = pings[j].hash
           /\ pings'[j].state = IF j = k THEN "answered" ELSE pings[j].state
  BY <1>2, SettledGrown DEF Pong
<1>4. \A g \in 1..MaxPings : requests'[g] = IF g = h THEN 0 ELSE requests[g]
  BY <1>1
<1>5. ASSUME NEW g \in 1..MaxPings, requests'[g] # 0
      PROVE  /\ requests'[g] \in (fired' + 1)..Len(pings')
             /\ pings'[requests'[g]].hash = g
             /\ pings'[requests'[g]].state = "pending"
  <2>1. g # h /\ requests'[g] = requests[g] /\ requests[g] # 0
    BY <1>4, <1>5
  <2>2. /\ requests[g] \in (fired + 1)..Len(pings) /\ pings[requests[g]].hash = g
        /\ pings[requests[g]].state = "pending"
    BY <2>1 DEF Inv, RequestsMatch
  <2>3. requests[g] \in DOMAIN pings /\ requests[g] # k
    BY <1>0, <1>1, <2>1, <2>2
  <2> QED
    BY <1>1, <1>3, <2>1, <2>2, <2>3
<1>6. ASSUME NEW j \in DOMAIN pings', pings'[j].state = "pending"
      PROVE  (j > fired' /\ requests'[pings'[j].hash] # 0) \/ Superseded(j)'
  <2>1. j \in DOMAIN pings /\ j # k /\ pings[j].state = "pending"
    BY <1>3, <1>6
  <2>2. CASE pings[j].hash = h
    <3>1. k \in DOMAIN pings' /\ pings'[k].hash = pings'[j].hash /\ pings'[k].state # "pending"
      BY <1>3, <2>1, <2>2
    <3> QED
      BY <1>6, <3>1 DEF Superseded
  <2>3. CASE pings[j].hash # h
    <3>1. CASE j > fired /\ requests[pings[j].hash] # 0
      BY <1>0, <1>1, <1>3, <1>4, <2>1, <2>3, <3>1
    <3>2. CASE Superseded(j)
      BY <1>3, <1>6, <2>1, <3>2, StaysSuperseded
    <3> QED
      BY <2>1, <3>1, <3>2 DEF Inv, RequestsMatch
  <2> QED
    BY <2>2, <2>3
<1>7. RequestsMatch'
  BY <1>5, <1>6 DEF RequestsMatch
<1>8. requests' \in [1..MaxPings -> 0..MaxPings] /\ fired' \in 0..Len(pings') /\ since' \in 0..Len(pings')
  BY <1>0, <1>1, <1>3
<1> QED
  BY <1>3, <1>7, <1>8 DEF Requested

\* A timeout deletes the request of its hash, and leaves the promises of that
\* hash settled or superseded.
LEMMA TimeoutRequested ==
    ASSUME Inv, Timeout
    PROVE  Grown /\ Requested'
<1> DEFINE k == fired + 1
           h == pings[k].hash
           rejects == requests[h] # 0 /\ pings[k].state = "pending"
<1>0. /\ MaxPings \in Nat /\ Len(pings) \in Nat /\ DOMAIN pings = 1..Len(pings)
      /\ k \in DOMAIN pings /\ h \in 1..MaxPings
      /\ \A j \in DOMAIN pings : pings[j].hash \in 1..MaxPings
  BY PingTypes DEF Timeout
<1>1. /\ requests \in [1..MaxPings -> 0..MaxPings] /\ fired \in 0..Len(pings) /\ since \in 0..Len(pings)
      /\ requests' = [requests EXCEPT ![h] = 0] /\ fired' = k /\ since' = since
      /\ pings' = IF rejects THEN Settled(k, "failed") ELSE pings
  BY DEF Inv, TypeOK, Timeout
<1> HIDE DEF k
<1>2. k = fired + 1
  BY DEF k
<1>3. /\ Grown /\ Len(pings') = Len(pings) /\ DOMAIN pings' = DOMAIN pings
      /\ \A j \in DOMAIN pings :
           /\ pings'[j].hash = pings[j].hash
           /\ pings'[j].state = IF j = k /\ rejects THEN "failed" ELSE pings[j].state
  <2>1. CASE rejects
    BY <1>0, <1>1, <2>1, SettledGrown
  <2>2. CASE ~rejects
    <3>1. pings' = pings
      BY <1>1, <2>2
    <3>2. Grown
      BY <3>1 DEF Grown, Inv, TypeOK
    <3> QED
      BY <2>2, <3>1, <3>2
  <2> QED
    BY <2>1, <2>2
<1>4. \A g \in 1..MaxPings : requests'[g] = IF g = h THEN 0 ELSE requests[g]
  BY <1>1
<1>5. ASSUME NEW g \in 1..MaxPings, requests'[g] # 0
      PROVE  /\ requests'[g] \in (fired' + 1)..Len(pings')
             /\ pings'[requests'[g]].hash = g
             /\ pings'[requests'[g]].state = "pending"
  <2>1. g # h /\ requests'[g] = requests[g] /\ requests[g] # 0
    BY <1>4, <1>5
  <2>2. /\ requests[g] \in (fired + 1)..Len(pings) /\ pings[requests[g]].hash = g
        /\ pings[requests[g]].state = "pending"
    BY <2>1 DEF Inv, RequestsMatch
  <2>3. requests[g] # k
    BY <2>1, <2>2
  <2>4. requests[g] \in DOMAIN pings /\ requests[g] \in (k + 1)..Len(pings)
    BY <1>0, <1>1, <1>2, <2>2, <2>3
  <2> QED
    BY <1>1, <1>3, <2>1, <2>2, <2>3, <2>4
<1>6. ASSUME NEW j \in DOMAIN pings', pings'[j].state = "pending"
      PROVE  (j > fired' /\ requests'[pings'[j].hash] # 0) \/ Superseded(j)'
  <2>1. j \in DOMAIN pings /\ pings[j].state = "pending" /\ ~(j = k /\ rejects)
    BY <1>3, <1>6
  <2>2. CASE Superseded(j)
    BY <1>3, <1>6, <2>1, <2>2, StaysSuperseded
  <2>3. CASE ~Superseded(j)
    <3>1. j > fired /\ requests[pings[j].hash] # 0
      BY <2>1, <2>3 DEF Inv, RequestsMatch
    <3>2. CASE pings[j].hash = h
      <4>1. j # k
        BY <2>1, <3>1, <3>2
      <4>2. pings'[k].state # "pending" /\ pings'[k].hash = pings'[j].hash
        BY <1>0, <1>3, <2>1, <3>1, <3>2
      <4> QED
        BY <1>0, <1>3, <1>6, <4>2 DEF Superseded
    <3>3. CASE pings[j].hash # h
      <4>1. j # k
        BY <3>3
      <4>2. j > k
        BY <1>0, <1>1, <1>2, <2>1, <3>1, <4>1
      <4> QED
        BY <1>0, <1>1, <1>3, <1>4, <2>1, <3>1, <3>3, <4>2
    <3> QED
      BY <3>2, <3>3
  <2> QED
    BY <2>2, <2>3
<1>7. RequestsMatch'
  BY <1>5, <1>6 DEF RequestsMatch
<1>8. requests' \in [1..MaxPings -> 0..MaxPings] /\ fired' \in 0..Len(pings') /\ since' \in 0..Len(pings')
  BY <1>0, <1>1, <1>3
<1> QED
  BY <1>3, <1>7, <1>8 DEF Requested

\* A ping that is sent takes the request of its hash.
LEMMA SendRequested ==
    ASSUME Inv, NEW e \in Endpoints, SendPing(e)
    PROVE  /\ Grown /\ Requested'
           /\ Len(pings) + 1 \in DOMAIN pings' /\ pings'[Len(pings) + 1].to = e
<1> DEFINE h == Hash(e)
           new == [to |-> e, hash |-> h, state |-> "pending"]
<1>0. /\ MaxPings \in Nat /\ Len(pings) \in Nat /\ DOMAIN pings = 1..Len(pings)
      /\ pings \in Seq(Ping) /\ Len(pings) < MaxPings
      /\ \A j \in DOMAIN pings : pings[j].hash \in 1..MaxPings
  BY PingTypes DEF SendPing
<1>1. h \in 1..MaxPings
  <2> DEFINE same == {k \in DOMAIN pings : k > since /\ Encoded[pings[k].to] = Encoded[e]}
  <2>1. h = IF same = {} THEN Len(pings) + 1 ELSE pings[CHOOSE k \in same : TRUE].hash
    BY DEF Hash
  <2>2. CASE same = {}
    BY <1>0, <2>1, <2>2
  <2>3. CASE same # {}
    <3>1. (CHOOSE k \in same : TRUE) \in same
      BY <2>3
    <3>2. (CHOOSE k \in same : TRUE) \in DOMAIN pings
      BY <3>1
    <3> QED
      BY <1>0, <2>1, <2>3, <3>2
  <2> QED
    BY <2>2, <2>3
<1> HIDE DEF h
<1>2. PICK n \in Nat : n = Len(pings) + 1
  BY <1>0
<1>3. /\ requests \in [1..MaxPings -> 0..MaxPings] /\ fired \in 0..Len(pings) /\ since \in 0..Len(pings)
      /\ requests' = [requests EXCEPT ![h] = n] /\ fired' = fired /\ since' = since
      /\ pings' = Append(pings, new)
  BY <1>2 DEF Inv, TypeOK, SendPing, h
<1>4. new \in Ping
  BY <1>1 DEF Ping
<1>5. /\ pings' \in Seq(Ping) /\ Len(pings') = n /\ pings'[n] = new
      /\ \A j \in 1..Len(pings) : pings'[j] = pings[j]
  BY <1>0, <1>2, <1>3, <1>4, AppendProperties
<1>6. DOMAIN pings' = 1..n
  BY <1>5, LenProperties
<1>7. Grown
  BY <1>0, <1>2, <1>5, <1>6 DEF Grown
<1>8. \A g \in 1..MaxPings : requests'[g] = IF g = h THEN n ELSE requests[g]
  BY <1>3
<1>9. ASSUME NEW g \in 1..MaxPings, requests'[g] # 0
      PROVE  /\ requests'[g] \in (fired' + 1)..Len(pings')
             /\ pings'[requests'[g]].hash = g
             /\ pings'[requests'[g]].state = "pending"
  <2>1. CASE g = h
    BY <1>0, <1>2, <1>3, <1>5, <1>8, <2>1
  <2>2. CASE g # h
    <3>1. requests'[g] = requests[g] /\ requests[g] # 0
      BY <1>8, <1>9, <2>2
    <3>2. /\ requests[g] \in (fired + 1)..Len(pings) /\ pings[requests[g]].hash = g
          /\ pings[requests[g]].state = "pending"
      BY <3>1 DEF Inv, RequestsMatch
    <3>3. requests[g] \in 1..Len(pings) /\ requests[g] \in (fired + 1)..n
      BY <1>0, <1>2, <1>3, <3>2
    <3> QED
      BY <1>3, <1>5, <3>1, <3>2, <3>3
  <2> QED
    BY <2>1, <2>2
<1>10. ASSUME NEW j \in DOMAIN pings', pings'[j].state = "pending"
       PROVE  (j > fired' /\ requests'[pings'[j].hash] # 0) \/ Superseded(j)'
  <2>1. CASE j = n
    <3>1. pings'[j].hash = h /\ requests'[h] = n
      BY <1>1, <1>5, <1>8, <2>1
    <3> QED
      BY <1>0, <1>2, <1>3, <2>1, <3>1
  <2>2. CASE j # n
    <3>1. j \in DOMAIN pings /\ pings'[j] = pings[j]
      BY <1>0, <1>2, <1>5, <1>6, <2>2
    <3>2. CASE Superseded(j)
      <4>1. \A i \in DOMAIN pings : pings'[i].hash = pings[i].hash
        BY <1>0, <1>5
      <4> QED
        BY <1>7, <1>10, <3>1, <3>2, <4>1, StaysSuperseded
    <3>3. CASE j > fired /\ requests[pings[j].hash] # 0
      <4>1. n # 0
        BY <1>0, <1>2
      <4>2. requests'[pings[j].hash] # 0
        BY <1>0, <1>8, <3>1, <3>3, <4>1
      <4> QED
        BY <1>3, <3>1, <3>3, <4>2
    <3> QED
      BY <1>10, <3>1, <3>2, <3>3 DEF Inv, RequestsMatch
  <2> QED
    BY <2>1, <2>2
<1>11. RequestsMatch'
  BY <1>9, <1>10 DEF RequestsMatch
<1>12. requests' \in [1..MaxPings -> 0..MaxPings] /\ fired' \in 0..Len(pings') /\ since' \in 0..Len(pings')
  BY <1>0, <1>1, <1>2, <1>3, <1>5
<1>13. n \in DOMAIN pings' /\ pings'[n].to = e
  BY <1>0, <1>2, <1>5, <1>6
<1> QED
  BY <1>2, <1>7, <1>11, <1>12, <1>13 DEF Requested

LEMMA GrownTable ==
    ASSUME Inv, Grown, table' \subseteq table
    PROVE  TableAnswered'
<1> SUFFICES ASSUME NEW i \in table'
             PROVE  \E k \in DOMAIN pings' : pings'[k].state = "answered" /\ Owner[pings'[k].to] = i
  BY DEF TableAnswered
<1>1. PICK k \in DOMAIN pings : pings[k].state = "answered" /\ Owner[pings[k].to] = i
  BY DEF Inv, TableAnswered
<1> QED
  BY <1>1 DEF Grown

\* Calls that are there were there before.
Fewer == \A j \in DOMAIN calls' : \E i \in DOMAIN calls : calls'[j] = calls[i]

LEMMA GrownCalls ==
    ASSUME Inv, Grown, Fewer
    PROVE  WaitsForOwnPing'
<1> SUFFICES ASSUME NEW j \in DOMAIN calls'
             PROVE  calls'[j].on \in DOMAIN pings' /\ pings'[calls'[j].on].to = calls'[j].obj.at
  BY DEF WaitsForOwnPing
<1>1. PICK i \in DOMAIN calls : calls'[j] = calls[i]
  BY DEF Fewer
<1> QED
  BY <1>1 DEF Inv, WaitsForOwnPing, Grown

LEMMA GrownCache ==
    ASSUME Inv, Grown, \A e \in Endpoints : cache'[e] \in {cache[e], 0}
    PROVE  CacheIsOwn'
BY DEF Inv, CacheIsOwn, Grown

-----------------------------------------------------------------------------
(* The actions *)

LEMMA InitInv == Init => Inv
<1> SUFFICES ASSUME Init PROVE Inv
  OBVIOUS
<1>1. TypeOK
  <2>1. Len(<<>>) = 0 /\ <<>> \in Seq(Ping) /\ <<>> \in Seq(Call)
    OBVIOUS
  <2>2. requests \in [1..MaxPings -> 0..MaxPings]
    BY BoundsAssumption DEF Init
  <2> QED
    BY <2>1, <2>2, BoundsAssumption DEF Init, TypeOK
<1>2. TableAnswered /\ WaitsForOwnPing /\ RequestsMatch /\ CacheIsOwn
  BY DEF Init, TableAnswered, WaitsForOwnPing, RequestsMatch, CacheIsOwn
<1> QED
  BY <1>1, <1>2 DEF Inv

LEMMA AddPeerInv ==
    ASSUME Inv, NEW obj \in Obj, AddPeer(obj), soon' \in SUBSET Endpoints
    PROVE  Inv'
<1>0. obj.at \in Endpoints /\ Keys(obj) \subseteq Nodes
  BY DEF Obj, Keys
<1>1. /\ pings \in Seq(Ping) /\ Len(pings) \in Nat /\ Len(pings) <= MaxPings
      /\ DOMAIN pings = 1..Len(pings) /\ calls \in Seq(Call) /\ Len(calls) \in Nat
      /\ DOMAIN calls = 1..Len(calls) /\ cache \in [Endpoints -> 0..MaxPings]
  BY LenProperties DEF Inv, TypeOK
<1>2. CASE UNCHANGED <<pingVars, cache, calls>>
  <2>1. Grown /\ Requested' /\ UNCHANGED calls /\ UNCHANGED cache
    BY <1>2, SameGrown
  <2>2. alive' = alive /\ table' = table /\ banned' \subseteq Nodes
    BY <1>0 DEF AddPeer, Inv, TypeOK
  <2>3. TypeOK'
    BY <2>1, <2>2 DEF Inv, TypeOK, Grown, Requested
  <2>4. TableAnswered' /\ WaitsForOwnPing' /\ CacheIsOwn'
    BY <2>1, <2>2, GrownTable, GrownCalls, GrownCache DEF Fewer
  <2> QED
    BY <2>1, <2>3, <2>4 DEF Inv, Requested
<1>3. CASE ~UNCHANGED <<pingVars, cache, calls>>
  <2> DEFINE k == IF Shared(obj.at) # 0 THEN Shared(obj.at) ELSE Len(pings) + 1
             call == [obj |-> obj, on |-> k]
  <2>1. /\ calls' = Append(calls, call)
        /\ UNCHANGED <<banned, alive, table>>
        /\ \/ Shared(obj.at) # 0 /\ UNCHANGED <<pingVars, cache>>
           \/ Shared(obj.at) = 0 /\ SendPing(obj.at)
    BY <1>3 DEF AddPeer
  <2>2. /\ Grown /\ Requested'
        /\ k \in DOMAIN pings' /\ pings'[k].to = obj.at
        /\ cache' \in [Endpoints -> 0..MaxPings]
        /\ \A e \in Endpoints : cache'[e] = IF e = obj.at THEN k ELSE cache[e]
    <3>1. CASE Shared(obj.at) # 0 /\ UNCHANGED <<pingVars, cache>>
      <4>1. k \in DOMAIN pings /\ pings[k].to = obj.at /\ k = cache[obj.at]
        BY <1>0, <3>1 DEF Inv, CacheIsOwn, Shared
      <4>2. Grown /\ Requested' /\ UNCHANGED <<pings, cache>>
        BY <3>1, SameGrown DEF pingVars
      <4> QED
        BY <1>1, <4>1, <4>2
    <3>2. CASE Shared(obj.at) = 0 /\ SendPing(obj.at)
      <4>1. k = Len(pings) + 1 /\ cache' = [cache EXCEPT ![obj.at] = k] /\ Len(pings) < MaxPings
        BY <3>2 DEF SendPing
      <4>2. /\ Grown /\ Requested'
            /\ k \in DOMAIN pings' /\ pings'[k].to = obj.at
        BY <1>0, <3>2, <4>1, SendRequested
      <4>3. k \in 0..MaxPings
        BY <1>1, <4>1, BoundsAssumption
      <4> HIDE DEF k
      <4> QED
        BY <1>0, <1>1, <4>1, <4>2, <4>3
    <3> QED
      BY <2>1, <3>1, <3>2
  <2> HIDE DEF k
  <2>4. k \in 1..MaxPings
    <3>1. pings' \in Seq(Ping) /\ Len(pings') <= MaxPings
      BY <2>2 DEF Grown
    <3>2. Len(pings') \in Nat /\ DOMAIN pings' = 1..Len(pings')
      BY <3>1, LenProperties
    <3> QED
      BY <2>2, <3>1, <3>2, BoundsAssumption
  <2>5. call \in Call
    BY <2>4 DEF Call
  <2>6. /\ calls' \in Seq(Call) /\ DOMAIN calls' = 1..(Len(calls) + 1)
        /\ \A j \in DOMAIN calls : calls'[j] = calls[j]
        /\ calls'[Len(calls) + 1] = call
    <3>1. /\ calls' \in Seq(Call) /\ Len(calls') = Len(calls) + 1
          /\ \A j \in 1..Len(calls) : calls'[j] = calls[j]
          /\ calls'[Len(calls) + 1] = call
      BY <1>1, <2>1, <2>5, AppendProperties
    <3> QED
      BY <1>1, <3>1, LenProperties
  <2>7. TypeOK'
    BY <2>1, <2>2, <2>6 DEF Inv, TypeOK, Grown, Requested
  <2>8. WaitsForOwnPing'
    <3> SUFFICES ASSUME NEW j \in DOMAIN calls'
                 PROVE  /\ calls'[j].on \in DOMAIN pings'
                        /\ pings'[calls'[j].on].to = calls'[j].obj.at
      BY DEF WaitsForOwnPing
    <3>1. CASE j \in DOMAIN calls
      BY <2>2, <2>6, <3>1 DEF Inv, WaitsForOwnPing, Grown
    <3>2. CASE j = Len(calls) + 1
      BY <2>2, <2>6, <3>2
    <3> QED
      BY <1>1, <2>6, <3>1, <3>2
  <2>9. CacheIsOwn'
    BY <2>2 DEF Inv, CacheIsOwn, Grown
  <2>10. TableAnswered'
    BY <2>1, <2>2, GrownTable
  <2> QED
    BY <2>2, <2>7, <2>8, <2>9, <2>10 DEF Inv, Requested
<1> QED
  BY <1>2, <1>3

LEMMA ResumeInv ==
    ASSUME Inv, NEW k \in DOMAIN calls, Resume(k)
    PROVE  Inv'
<1> DEFINE call == calls[k]
           e == pings[call.on].to
           noTcp == IF e \in NoTcp THEN {Owner[e]} ELSE {}
           left == table \ noTcp
<1>1. /\ pings \in Seq(Ping) /\ calls \in Seq(Call)
      /\ pings \in [DOMAIN pings -> Ping] /\ calls \in [DOMAIN calls -> Call]
  BY LenProperties DEF Inv, TypeOK
<1>2. /\ call \in Call /\ call.on \in DOMAIN pings /\ pings[call.on] \in Ping
      /\ e \in Endpoints /\ Owner[e] \in Nodes /\ Keys(call.obj) \subseteq Nodes
  BY <1>1, OwnerAssumption DEF Inv, WaitsForOwnPing, Ping, Keys
<1>3. /\ calls' = RemoveAt(calls, k)
      /\ UNCHANGED <<alive, pingVars, pings, cache, soon>>
  BY DEF Resume, pingVars
<1>4. /\ table' \subseteq table \cup {Owner[e]}
      /\ table' \subseteq table \/ pings[call.on].state = "answered"
      /\ banned' \subseteq Nodes
  BY <1>2 DEF Resume, Answered, WithNode, Inv, TypeOK
<1>5. Grown /\ Requested'
  BY <1>3, SameGrown
<1>6. calls' \in Seq(Call) /\ Fewer
  BY <1>1, <1>3, RemoveAtSeq DEF Fewer
<1>7. TypeOK'
  BY <1>2, <1>3, <1>4, <1>5, <1>6 DEF Inv, TypeOK, Grown, Requested
<1>8. TableAnswered'
  <2>1. CASE table' \subseteq table
    BY <1>5, <2>1, GrownTable
  <2>2. CASE pings[call.on].state = "answered"
    BY <1>2, <1>3, <1>4, <2>2 DEF Inv, TableAnswered
  <2> QED
    BY <1>4, <2>1, <2>2
<1>9. WaitsForOwnPing' /\ CacheIsOwn'
  BY <1>3, <1>5, <1>6, GrownCalls, GrownCache
<1> QED
  BY <1>5, <1>7, <1>8, <1>9 DEF Inv, Requested

\* The actions that leave the calls alone and take nothing into the table.
Rest ==
    /\ alive' \in BOOLEAN
    /\ table' \subseteq table
    /\ banned' \subseteq Nodes
    /\ soon' \subseteq Endpoints
    /\ UNCHANGED calls
    /\ cache' \in [Endpoints -> 0..MaxPings]
    /\ \A e \in Endpoints : cache'[e] \in {cache[e], 0}

LEMMA RestInv == ASSUME Inv, Rest, Grown, Requested' PROVE Inv'
<1>1. TypeOK'
  BY DEF Inv, TypeOK, Rest, Grown, Requested
<1>2. TableAnswered' /\ CacheIsOwn'
  BY GrownTable, GrownCache DEF Rest
<1>3. WaitsForOwnPing'
  BY GrownCalls DEF Rest, Fewer
<1> QED
  BY <1>1, <1>2, <1>3 DEF Inv, Requested

LEMMA EventInv == ASSUME Inv, Event PROVE Inv'
<1>0. MaxPings \in Nat
  BY BoundsAssumption
<1>1. ASSUME NEW obj \in Obj, Add(obj) PROVE Inv'
  BY <1>1, AddPeerInv DEF Add, Inv, TypeOK
<1>2. ASSUME NEW e \in Endpoints, Neighbours(e) PROVE Inv'
  <2>1. [at |-> e, id |-> NoId] \in Obj
    BY DEF Obj
  <2> QED
    BY <1>2, <2>1, AddPeerInv DEF Neighbours, Inv, TypeOK
<1>3. ASSUME NEW e \in Endpoints, AddSoon(e) PROVE Inv'
  <2>1. [at |-> e, id |-> NoId] \in Obj
    BY DEF Obj
  <2>2. soon' \in SUBSET Endpoints
    BY <1>3 DEF AddSoon, Inv, TypeOK
  <2> QED
    BY <1>3, <2>1, <2>2, AddPeerInv DEF AddSoon
<1>4. ASSUME NEW e \in Endpoints, PingReceived(e) PROVE Inv'
  BY <1>4, SameGrown, RestInv DEF PingReceived, Rest, Inv, TypeOK
<1>5. ASSUME NEW e \in Endpoints, CacheExpires(e) PROVE Inv'
  BY <1>0, <1>5, SameGrown, RestInv DEF CacheExpires, Rest, Inv, TypeOK
<1>6. ASSUME NEW k \in DOMAIN pings, Pong(k) PROVE Inv'
  <2>1. Rest
    BY <1>6 DEF Pong, Rest, Inv, TypeOK
  <2> QED
    BY <1>6, <2>1, PongRequested, RestInv
<1>7. ASSUME Timeout PROVE Inv'
  <2>1. Rest
    BY <1>7 DEF Timeout, Rest, Inv, TypeOK
  <2> QED
    BY <1>7, <2>1, TimeoutRequested, RestInv
<1>12. ASSUME Second PROVE Inv'
  <2>1. Rest
    BY <1>12 DEF Second, Rest, Inv, TypeOK
  <2>2. Grown
    BY <1>12 DEF Second, Grown, Inv, TypeOK
  <2>3. Len(pings) \in Nat
    BY LenProperties DEF Inv, TypeOK
  <2>4. RequestsMatch'
    BY <1>12 DEF Second, Inv, RequestsMatch, Superseded
  <2>5. Requested'
    BY <1>12, <2>3, <2>4 DEF Second, Requested, Inv, TypeOK
  <2> QED
    BY <2>1, <2>2, <2>5, RestInv
<1>8. ASSUME NEW i \in Nodes, BanPeer(i) PROVE Inv'
  BY <1>8, SameGrown, RestInv DEF BanPeer, Rest, Inv, TypeOK
<1>9. ASSUME NEW i \in Nodes, BanExpires(i) PROVE Inv'
  BY <1>9, SameGrown, RestInv DEF BanExpires, Rest, Inv, TypeOK
<1>10. ASSUME NEW i \in Nodes, RemovePeer(i) PROVE Inv'
  BY <1>10, SameGrown, RestInv DEF RemovePeer, Rest, Inv, TypeOK
<1>11. ASSUME Destroy PROVE Inv'
  BY <1>11, SameGrown, RestInv DEF Destroy, Rest, Inv, TypeOK
<1> QED
  BY <1>1, <1>2, <1>3, <1>4, <1>5, <1>6, <1>7, <1>8, <1>9, <1>10, <1>11, <1>12 DEF Event

LEMMA NextInv == ASSUME Inv, [Next]_vars PROVE Inv'
<1>1. CASE UNCHANGED vars
  <2>1. UNCHANGED <<alive, table, banned, pingVars, cache, calls, soon>>
    BY <1>1 DEF vars
  <2>2. Grown /\ Requested' /\ Rest
    BY <2>1, SameGrown DEF Rest, Inv, TypeOK
  <2> QED
    BY <2>2, RestInv
<1>2. CASE Idle /\ Event
  BY <1>2, EventInv
<1>3. CASE \E k \in DOMAIN calls : Resume(k)
  BY <1>3, ResumeInv
<1> QED
  BY <1>1, <1>2, <1>3 DEF Next

-----------------------------------------------------------------------------
(* The theorems *)

\* Inv holds in every reachable state.
THEOREM Invariance == Spec => []Inv
<1>1. Inv /\ [Next]_vars => Inv'
  BY NextInv
<1> QED
  BY InitInv, <1>1, PTL DEF Spec

\* Every reachable state is of the declared types.
THEOREM TypeCorrect == Spec => []TypeOK
<1>1. Inv => TypeOK
  BY DEF Inv
<1> QED
  BY <1>1, Invariance, PTL

\* Nobody gets into the table whose own ping was not answered, however many
\* calls share a promise and whatever comes late.
THEOREM OnlyAnsweredListed == Spec => []TableAnswered
<1>1. Inv => TableAnswered
  BY DEF Inv
<1> QED
  BY <1>1, Invariance, PTL

\* A call never waits for a ping to another endpoint than its own.
THEOREM CallsWaitForOwn == Spec => []WaitsForOwnPing
<1>1. Inv => WaitsForOwnPing
  BY DEF Inv
<1> QED
  BY <1>1, Invariance, PTL

\* The requests and the promises match: no request without a promise and a
\* timeout to come, and no promise is left that none was settled in place of.
THEOREM RequestsAndPromises == Spec => []RequestsMatch
<1>1. Inv => RequestsMatch
  BY DEF Inv
<1> QED
  BY <1>1, Invariance, PTL
=============================================================================
