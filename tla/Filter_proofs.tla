---------------------------- MODULE Filter_proofs ----------------------------
(* What Filter returns, for every sequence and every set of positions. *)
EXTENDS Filter, Induction_proofs

\* g lists what the filter has kept of the first n items, for every n.
IsKeptTable(g, q, keep, n) ==
    /\ g[0] = <<>>
    /\ \A k \in 1..n : g[k] = IF k \in keep THEN Append(g[k - 1], q[k]) ELSE g[k - 1]

\* Two sequences have the same first m items, the same of them to be kept.
SameFirst(q, r, keep, stay, m) ==
    \A k \in 1..m : q[k] = r[k] /\ (k \in keep <=> k \in stay)

\* The lists of two such sequences agree so far.
LEMMA TablesAgree ==
    ASSUME NEW m \in Nat, NEW q, NEW r, NEW keep, NEW stay, NEW g, NEW h,
           IsKeptTable(g, q, keep, m), IsKeptTable(h, r, stay, m),
           SameFirst(q, r, keep, stay, m)
    PROVE  \A k \in 0..m : g[k] = h[k]
<1> DEFINE Good == {k \in 0..m : g[k] = h[k]}
<1>1. 0 \in Good
  BY DEF IsKeptTable
<1>2. ASSUME NEW k \in 1..m, k - 1 \in Good PROVE k \in Good
  BY <1>2 DEF IsKeptTable, SameFirst
<1>3. \A k \in 0..m : k \in Good
  <2> HIDE DEF Good
  <2> QED
    BY <1>1, <1>2, UpToNat
<1> QED
  BY <1>3

\* Filtering a sequence looks up such a list.
LEMMA KeptTable ==
    ASSUME NEW T, NEW q \in Seq(T), NEW keep
    PROVE  \E g \in [0..Len(q) -> Seq(T)] :
             IsKeptTable(g, q, keep, Len(q)) /\ Kept(q, keep) = g[Len(q)]
<1> DEFINE n == Len(q)
           Rec(f) == [k \in 0..n |->
              IF k = 0 THEN <<>>
              ELSE IF k \in keep THEN Append(f[k - 1], q[k]) ELSE f[k - 1]]
           F == CHOOSE f : f = Rec(f)
           step == [k \in 1..n |-> [x \in Seq(T) |-> IF k \in keep THEN Append(x, q[k]) ELSE x]]
<1>0. n \in Nat /\ \A k \in 1..n : q[k] \in T
  BY LenProperties
<1>1. step \in [1..n -> [Seq(T) -> Seq(T)]]
  BY <1>0, AppendProperties
<1>2. \A k \in 1..n : \A x \in Seq(T) : step[k][x] = IF k \in keep THEN Append(x, q[k]) ELSE x
  OBVIOUS
<1>3. Kept(q, keep) = F[n]
  BY DEF Kept
<1> HIDE DEF step, n
<1>4. PICK g \in [0..n -> Seq(T)] : g[0] = <<>> /\ \A k \in 1..n : g[k] = step[k][g[k - 1]]
  <2>1. <<>> \in Seq(T)
    BY EmptySeq
  <2>2. n \in Nat
    BY <1>0
  <2>3. PICK g : g \in Tables(Seq(T), <<>>, n, step)
    BY <1>1, <2>1, <2>2, Recursion, Zenon
  <2> QED
    BY <2>3 DEF Tables
<1>5. IsKeptTable(g, q, keep, n)
  <2>1. \A k \in 1..n : g[k - 1] \in Seq(T)
    BY <1>0, <1>4
  <2> QED
    BY <1>2, <1>4, <2>1 DEF IsKeptTable
<1>6. g = Rec(g)
  <2>1. ASSUME NEW k \in 0..n PROVE g[k] = Rec(g)[k]
    <3>1. k = 0 \/ (k # 0 /\ k \in 1..n)
      BY <1>0
    <3> QED
      BY <1>5, <3>1 DEF IsKeptTable
  <2>2. g = [k \in 0..n |-> g[k]]
    BY <1>4
  <2> QED
    BY <2>1, <2>2
<1>7. F = Rec(F)
  BY <1>6
<1> HIDE DEF F
<1>8. IsKeptTable(F, q, keep, n)
  <2>1. 0 \in 0..n /\ \A k \in 1..n : k \in 0..n /\ k # 0
    BY <1>0
  <2> QED
    BY <1>7, <2>1 DEF IsKeptTable
<1>9. F[n] = g[n]
  <2>1. \A k \in 0..n : F[k] = g[k]
    BY <1>0, <1>5, <1>8, TablesAgree DEF SameFirst
  <2> QED
    BY <1>0, <2>1
<1> QED
  BY <1>3, <1>5, <1>9 DEF n

\* Filtering a sequence over T gives a sequence over T (rlpx.ts:83, 263).
LEMMA KeptType ==
    ASSUME NEW T, NEW q \in Seq(T), NEW keep
    PROVE  Kept(q, keep) \in Seq(T)
<1>1. PICK g \in [0..Len(q) -> Seq(T)] : Kept(q, keep) = g[Len(q)]
  BY KeptTable
<1>2. Len(q) \in 0..Len(q)
  BY LenProperties
<1> QED
  BY <1>1, <1>2

\* Nothing is kept of nothing.
LEMMA KeptNothing ==
    ASSUME NEW keep
    PROVE  Kept(<<>>, keep) = <<>>
<1>1. <<>> \in Seq({}) /\ Len(<<>>) = 0
  BY EmptySeq
<1>2. PICK g \in [0..0 -> Seq({})] : IsKeptTable(g, <<>>, keep, 0) /\ Kept(<<>>, keep) = g[0]
  <2>1. \E g \in [0..Len(<<>>) -> Seq({})] :
          IsKeptTable(g, <<>>, keep, Len(<<>>)) /\ Kept(<<>>, keep) = g[Len(<<>>)]
    BY <1>1, KeptTable, Zenon
  <2> QED
    BY <1>1, <2>1, Zenon
<1> QED
  BY <1>2 DEF IsKeptTable

\* One more item is kept, or not, after what was kept without it.
LEMMA KeptAppend ==
    ASSUME NEW T, NEW q \in Seq(T), NEW x \in T, NEW keep, NEW stay,
           \A k \in 1..Len(q) : k \in keep <=> k \in stay
    PROVE  Kept(Append(q, x), keep) =
             IF Len(q) + 1 \in keep THEN Append(Kept(q, stay), x) ELSE Kept(q, stay)
<1> DEFINE n == Len(q)
           r == Append(q, x)
<1>1. n \in Nat /\ r \in Seq(T) /\ Len(r) = n + 1 /\ r[n + 1] = x /\ \A k \in 1..n : r[k] = q[k]
  BY LenProperties, AppendProperties
<1>2. PICK h \in [0..n -> Seq(T)] : IsKeptTable(h, q, stay, n) /\ Kept(q, stay) = h[n]
  BY KeptTable
<1>3. PICK g \in [0..Len(r) -> Seq(T)] : IsKeptTable(g, r, keep, Len(r)) /\ Kept(r, keep) = g[Len(r)]
  BY <1>1, KeptTable, Zenon
<1> HIDE DEF n, r
<1>4. IsKeptTable(g, r, keep, n)
  <2>1. \A k \in 1..n : k \in 1..(n + 1)
    BY <1>1
  <2> QED
    BY <1>1, <1>3, <2>1 DEF IsKeptTable
<1>5. g[n] = h[n]
  <2>1. \A k \in 0..n : g[k] = h[k]
    <3>1. SameFirst(r, q, keep, stay, n)
      BY <1>1 DEF n, SameFirst
    <3>2. n \in Nat /\ IsKeptTable(h, q, stay, n)
      BY <1>1, <1>2
    <3> QED
      BY <1>4, <3>1, <3>2, TablesAgree
  <2> QED
    BY <1>1, <2>1
<1>6. g[n + 1] = IF n + 1 \in keep THEN Append(g[n], x) ELSE g[n]
  <2>1. PICK m \in 1..Len(r) : m = n + 1 /\ m - 1 = n
    BY <1>1
  <2>2. \A k \in 1..Len(r) : g[k] = IF k \in keep THEN Append(g[k - 1], r[k]) ELSE g[k - 1]
    BY <1>3, Zenon DEF IsKeptTable
  <2>3. g[m] = IF m \in keep THEN Append(g[m - 1], r[m]) ELSE g[m - 1]
    BY <2>2, Zenon
  <2> QED
    BY <1>1, <2>1, <2>3
<1> QED
  BY <1>1, <1>2, <1>3, <1>5, <1>6 DEF n, r

\* The items that are kept are those at the positions to keep.
LEMMA KeptItems ==
    ASSUME NEW T, NEW q \in Seq(T), NEW keep
    PROVE  LET r == Kept(q, keep)
           IN  /\ \A j \in 1..Len(r) : \E k \in 1..Len(q) : k \in keep /\ r[j] = q[k]
               /\ \A k \in 1..Len(q) : k \in keep => \E j \in 1..Len(r) : r[j] = q[k]
<1> DEFINE n == Len(q)
           From(s, m) == \A j \in 1..Len(s) : \E k \in 1..m : k \in keep /\ s[j] = q[k]
           To(s, m) == \A k \in 1..m : k \in keep => \E j \in 1..Len(s) : s[j] = q[k]
<1>0. n \in Nat /\ \A k \in 1..n : q[k] \in T
  BY LenProperties
<1>1. PICK g \in [0..n -> Seq(T)] : IsKeptTable(g, q, keep, n) /\ Kept(q, keep) = g[n]
  BY KeptTable
<1> DEFINE Good == {m \in 0..n : From(g[m], m) /\ To(g[m], m)}
<1> HIDE DEF n
<1>2. 0 \in Good
  <2>1. g[0] = <<>> /\ Len(<<>>) = 0 /\ 0 \in 0..n
    BY <1>0, <1>1, EmptySeq DEF IsKeptTable
  <2> QED
    BY <2>1
<1>3. ASSUME NEW m \in 1..n, m - 1 \in Good PROVE m \in Good
  <2>1. m - 1 \in 0..n /\ m \in 0..n /\ g[m - 1] \in Seq(T) /\ q[m] \in T /\ m \in Nat
    BY <1>0, <1>1
  <2> DEFINE s == g[m - 1]
  <2>2. s \in Seq(T) /\ From(s, m - 1) /\ To(s, m - 1)
    BY <1>3, <2>1
  <2>3. g[m] = IF m \in keep THEN Append(s, q[m]) ELSE s
    BY <1>1 DEF IsKeptTable
  <2> HIDE DEF s
  <2>4. \A k \in 1..m : k = m \/ k \in 1..(m - 1)
    BY <2>1
  <2>5. \A k \in 1..(m - 1) : k \in 1..m
    BY <2>1
  <2>6. CASE m \notin keep
    BY <2>1, <2>2, <2>3, <2>4, <2>5, <2>6
  <2>7. CASE m \in keep
    <3> DEFINE t == Append(s, q[m])
    <3>1. /\ Len(s) \in Nat /\ Len(t) = Len(s) + 1 /\ t[Len(s) + 1] = q[m]
          /\ \A j \in 1..Len(s) : t[j] = s[j]
      BY <2>1, <2>2, LenProperties, AppendProperties
    <3> HIDE DEF t
    <3>2. \A j \in 1..Len(t) : j = Len(s) + 1 \/ j \in 1..Len(s)
      BY <3>1
    <3>3. Len(s) + 1 \in 1..Len(t) /\ \A j \in 1..Len(s) : j \in 1..Len(t)
      BY <3>1
    <3>4. From(t, m)
      <4>1. m \in 1..m
        BY <2>1
      <4> QED
        BY <2>2, <2>5, <2>7, <3>1, <3>2, <4>1, ZenonT(60)
    <3>5. To(t, m)
      BY <2>2, <2>4, <3>1, <3>3
    <3>6. g[m] = t
      BY <2>3, <2>7 DEF t
    <3> QED
      BY <2>1, <3>4, <3>5, <3>6
  <2> QED
    BY <2>6, <2>7
<1>4. \A m \in 0..n : m \in Good
  <2> HIDE DEF Good
  <2> QED
    BY <1>0, <1>2, <1>3, UpToNat
<1>5. From(g[n], n) /\ To(g[n], n)
  BY <1>0, <1>4
<1> QED
  BY <1>1, <1>5 DEF n
=============================================================================
