-------------------------- MODULE Induction_proofs --------------------------
(***************************************************************************)
(* Induction over natural numbers without an operator parameter: over the  *)
(* set of numbers for which something holds, and over functions that go on *)
(* from the number before.  The definitions of the models that recur are   *)
(* functions, and what they compute is proved from here.                   *)
(***************************************************************************)
EXTENDS Integers, TLAPS, SequenceTheorems, WellFoundedInduction

\* Every non-empty set of natural numbers has a least element.
LEMMA LeastNat ==
    ASSUME NEW T \in SUBSET Nat, T # {}
    PROVE  \E m \in T : \A n \in T : m <= n
<1> DEFINE R == OpToRel(<, Nat)
<1>1. IsWellFoundedOn(R, Nat)
  BY NatLessThanWellFounded
<1>2. \A m, n \in Nat : n < m => <<n, m>> \in R
  BY DEF OpToRel
<1> HIDE DEF R
<1>3. PICK m \in T : \A n \in T : ~(<<n, m>> \in R)
  BY <1>1, WFMin
<1>4. ASSUME NEW n \in T PROVE m <= n
  <2>1. m \in Nat /\ n \in Nat
    OBVIOUS
  <2>2. ~(n < m)
    BY <1>2, <1>3, <2>1
  <2> QED
    BY <2>1, <2>2
<1> QED
  BY <1>4

\* What holds of 0, and of every number up to n if of the one before, holds
\* up to n.
LEMMA UpToNat ==
    ASSUME NEW n \in Nat, NEW Good, 0 \in Good, \A k \in 1..n : k - 1 \in Good => k \in Good
    PROVE  \A k \in 0..n : k \in Good
<1> DEFINE Bad == {k \in 0..n : k \notin Good}
<1> SUFFICES ASSUME Bad # {} PROVE FALSE
  OBVIOUS
<1>1. Bad \in SUBSET Nat
  OBVIOUS
<1>2. PICK m \in Bad : \A k \in Bad : m <= k
  BY <1>1, LeastNat
<1>3. m \in 1..n /\ m - 1 \in 0..n
  BY <1>2
<1>4. m - 1 \notin Bad
  BY <1>2, <1>3
<1> QED
  BY <1>2, <1>3, <1>4

\* The functions that start with a, and go on by a step for each number.
Tables(T, a, n, step) ==
    {g \in [0..n -> T] : g[0] = a /\ \A k \in 1..n : g[k] = step[k][g[k - 1]]}

\* There is one.
LEMMA Recursion ==
    ASSUME NEW T, NEW a \in T, NEW n \in Nat, NEW step \in [1..n -> [T -> T]]
    PROVE  \E g : g \in Tables(T, a, n, step)
<1> DEFINE IsTable(g, m) == /\ g \in [0..m -> T]
                            /\ g[0] = a
                            /\ \A k \in 1..m : g[k] = step[k][g[k - 1]]
           Good == {m \in 0..n : \E g : IsTable(g, m)}
<1>1. 0 \in Good
  <2>1. IsTable([k \in 0..0 |-> a], 0)
    OBVIOUS
  <2> HIDE DEF IsTable
  <2>2. 0 \in 0..n
    OBVIOUS
  <2> QED
    BY <2>1, <2>2
<1>2. ASSUME NEW m \in 1..n, m - 1 \in Good PROVE m \in Good
  <2>1. PICK g : IsTable(g, m - 1)
    BY <1>2
  <2> DEFINE h == [k \in 0..m |-> IF k = m THEN step[m][g[m - 1]] ELSE g[k]]
  <2>2. g[m - 1] \in T /\ step[m] \in [T -> T] /\ step[m][g[m - 1]] \in T
    BY <2>1
  <2>3. h \in [0..m -> T] /\ h[0] = a
    BY <2>1, <2>2
  <2>4. ASSUME NEW k \in 1..m PROVE h[k] = step[k][h[k - 1]]
    <3>1. h[k - 1] = g[k - 1]
      OBVIOUS
    <3>2. k # m => k \in 1..(m - 1) /\ h[k] = g[k]
      OBVIOUS
    <3> HIDE DEF h
    <3>3. k = m => h[k] = step[m][g[m - 1]]
      BY DEF h
    <3> QED
      BY <2>1, <3>1, <3>2, <3>3
  <2> HIDE DEF h
  <2>5. IsTable(h, m)
    BY <2>3, <2>4
  <2> HIDE DEF IsTable
  <2> QED
    BY <2>5
<1> HIDE DEF Good
<1>3. n \in Good
  BY <1>1, <1>2, UpToNat, n \in 0..n
<1> QED
  BY <1>3 DEF Good, Tables
-----------------------------------------------------------------------------
(* Sequences, whatever of *)

IsSequence(s) == \E S : s \in Seq(S)

\* The length and the domain of a sequence.
LEMMA LengthOf ==
    ASSUME NEW s, IsSequence(s)
    PROVE  Len(s) \in Nat /\ DOMAIN s = 1..Len(s) /\ (s = <<>> <=> Len(s) = 0)
<1>1. PICK S : s \in Seq(S)
  BY DEF IsSequence
<1>2. Len(<<>>) = 0
  BY EmptySeq
<1>3. s # <<>> => Len(s) \in Nat \ {0}
  BY <1>1, EmptySeq
<1>4. Len(s) = 0 => s = <<>>
  BY <1>3
<1>5. s = <<>> => Len(s) = 0
  BY <1>2, Zenon
<1> QED
  BY <1>1, <1>4, <1>5, LenProperties

\* The empty sequence.
LEMMA EmptyIs == IsSequence(<<>>) /\ Len(<<>>) = 0
<1>1. <<>> \in Seq({})
  BY EmptySeq
<1> QED
  BY <1>1, EmptySeq DEF IsSequence

\* One more item at the end.
LEMMA AppendIs ==
    ASSUME NEW s, IsSequence(s), NEW x
    PROVE  /\ IsSequence(Append(s, x))
           /\ Len(Append(s, x)) = Len(s) + 1
           /\ \A k \in 1..Len(s) : Append(s, x)[k] = s[k]
           /\ Append(s, x)[Len(s) + 1] = x
<1>1. PICK S : s \in Seq(S)
  BY DEF IsSequence
<1> DEFINE T == S \cup {x}
<1>2. s \in Seq(T) /\ x \in T
  BY <1>1, SeqMonotonic
<1> HIDE DEF T
<1>3. /\ Append(s, x) \in Seq(T)
      /\ Len(Append(s, x)) = Len(s) + 1
      /\ \A k \in 1..Len(s) : Append(s, x)[k] = s[k]
      /\ Append(s, x)[Len(s) + 1] = x
  BY <1>2, AppendProperties
<1> QED
  BY <1>3 DEF IsSequence

\* One sequence after another.
LEMMA ConcatIs ==
    ASSUME NEW s, IsSequence(s), NEW t, IsSequence(t)
    PROVE  /\ IsSequence(s \o t)
           /\ Len(s \o t) = Len(s) + Len(t)
           /\ \A k \in 1..Len(s) : (s \o t)[k] = s[k]
           /\ \A k \in (Len(s) + 1)..(Len(s) + Len(t)) : (s \o t)[k] = t[k - Len(s)]
<1>1. PICK S, T : s \in Seq(S) /\ t \in Seq(T)
  BY DEF IsSequence
<1> DEFINE U == S \cup T
<1>2. s \in Seq(U) /\ t \in Seq(U)
  BY <1>1, SeqMonotonic
<1> HIDE DEF U
<1>3. /\ s \o t \in Seq(U)
      /\ Len(s \o t) = Len(s) + Len(t)
      /\ \A k \in 1..(Len(s) + Len(t)) :
           (s \o t)[k] = IF k <= Len(s) THEN s[k] ELSE t[k - Len(s)]
  BY <1>2, ConcatProperties
<1>4. Len(s) \in Nat /\ Len(t) \in Nat
  BY <1>2
<1> QED
  BY <1>3, <1>4 DEF IsSequence

\* Without the first item.
LEMMA TailIs ==
    ASSUME NEW s, IsSequence(s), s # <<>>
    PROVE  /\ IsSequence(Tail(s))
           /\ Len(Tail(s)) = Len(s) - 1
           /\ \A k \in 1..(Len(s) - 1) : Tail(s)[k] = s[k + 1]
           /\ Head(s) = s[1]
<1>1. PICK S : s \in Seq(S)
  BY DEF IsSequence
<1>2. /\ Tail(s) \in Seq(S)
      /\ Len(Tail(s)) = Len(s) - 1
      /\ \A k \in 1..Len(Tail(s)) : Tail(s)[k] = s[k + 1]
  BY <1>1, HeadTailProperties
<1> QED
  BY <1>2 DEF IsSequence

\* The first items.
LEMMA FrontIs ==
    ASSUME NEW s, IsSequence(s), NEW m \in 0..Len(s)
    PROVE  /\ IsSequence(SubSeq(s, 1, m))
           /\ Len(SubSeq(s, 1, m)) = m
           /\ \A k \in 1..m : SubSeq(s, 1, m)[k] = s[k]
<1>1. PICK S : s \in Seq(S)
  BY DEF IsSequence
<1>2. Len(s) \in Nat /\ m \in Int /\ 1 \in Int /\ \A k \in 1..m : s[k] \in S
  BY <1>1
<1>3. /\ SubSeq(s, 1, m) \in Seq(S)
      /\ Len(SubSeq(s, 1, m)) = IF 1 <= m THEN m - 1 + 1 ELSE 0
      /\ \A k \in 1..(m - 1 + 1) : SubSeq(s, 1, m)[k] = s[1 + k - 1]
  BY <1>2, SubSeqProperties
<1>4. m - 1 + 1 = m /\ (1 > m => m = 0) /\ \A k \in 1..m : 1 + k - 1 = k
  BY <1>2
<1> QED
  BY <1>3, <1>4 DEF IsSequence

\* Another item in the place of one.
LEMMA ExceptIs ==
    ASSUME NEW s, IsSequence(s), NEW k \in 1..Len(s), NEW x
    PROVE  /\ IsSequence([s EXCEPT ![k] = x])
           /\ Len([s EXCEPT ![k] = x]) = Len(s)
           /\ \A j \in 1..Len(s) : [s EXCEPT ![k] = x][j] = IF j = k THEN x ELSE s[j]
<1>1. PICK S : s \in Seq(S)
  BY DEF IsSequence
<1> DEFINE T == S \cup {x}
<1>2. s \in Seq(T) /\ x \in T
  BY <1>1, SeqMonotonic
<1> HIDE DEF T
<1>3. /\ [s EXCEPT ![k] = x] \in Seq(T)
      /\ Len([s EXCEPT ![k] = x]) = Len(s)
      /\ \A j \in 1..Len(s) : [s EXCEPT ![k] = x][j] = IF j = k THEN x ELSE s[j]
  BY <1>2, ExceptSeq
<1> QED
  BY <1>3 DEF IsSequence

\* Sequences with the same items are the same.
LEMMA SameItems ==
    ASSUME NEW s, IsSequence(s), NEW t, IsSequence(t), Len(s) = Len(t),
           \A k \in 1..Len(s) : s[k] = t[k]
    PROVE  s = t
<1>1. PICK S, T : s \in Seq(S) /\ t \in Seq(T)
  BY DEF IsSequence
<1>2. s \in Seq(S \cup T) /\ t \in Seq(S \cup T)
  BY <1>1, SeqMonotonic
<1> QED
  BY <1>2, SeqEqual

\* The first items of a longer sequence.
LEMMA FrontOfAppend ==
    ASSUME NEW s, IsSequence(s), NEW t, IsSequence(t), Len(s) <= Len(t),
           \A k \in 1..Len(s) : t[k] = s[k], NEW m \in 0..Len(s)
    PROVE  SubSeq(t, 1, m) = SubSeq(s, 1, m)
<1>1. Len(s) \in Nat /\ Len(t) \in Nat
  BY LengthOf
<1>2. m \in 0..Len(t) /\ \A k \in 1..m : k \in 1..Len(s)
  BY <1>1
<1>3. /\ IsSequence(SubSeq(s, 1, m)) /\ Len(SubSeq(s, 1, m)) = m
      /\ \A k \in 1..m : SubSeq(s, 1, m)[k] = s[k]
  BY FrontIs
<1>4. /\ IsSequence(SubSeq(t, 1, m)) /\ Len(SubSeq(t, 1, m)) = m
      /\ \A k \in 1..m : SubSeq(t, 1, m)[k] = t[k]
  BY <1>2, FrontIs
<1> QED
  BY <1>2, <1>3, <1>4, SameItems

\* The first items and one more.
LEMMA FrontStep ==
    ASSUME NEW s, IsSequence(s), NEW m \in 1..Len(s)
    PROVE  SubSeq(s, 1, m) = Append(SubSeq(s, 1, m - 1), s[m])
<1>1. Len(s) \in Nat
  BY LengthOf
<1>2. m \in 0..Len(s) /\ m - 1 \in 0..Len(s)
  BY <1>1
<1> DEFINE a == SubSeq(s, 1, m)
           b == SubSeq(s, 1, m - 1)
           c == Append(b, s[m])
<1>3. IsSequence(a) /\ Len(a) = m /\ \A k \in 1..m : a[k] = s[k]
  BY <1>2, FrontIs
<1>4. IsSequence(b) /\ Len(b) = m - 1 /\ \A k \in 1..(m - 1) : b[k] = s[k]
  BY <1>2, FrontIs
<1> HIDE DEF b
<1>5. IsSequence(c) /\ Len(c) = m /\ (\A k \in 1..(m - 1) : c[k] = b[k]) /\ c[m] = s[m]
  <2>1. /\ IsSequence(c)
        /\ Len(c) = Len(b) + 1
        /\ \A k \in 1..Len(b) : c[k] = b[k]
        /\ c[Len(b) + 1] = s[m]
    BY <1>4, AppendIs
  <2>2. Len(b) + 1 = m
    BY <1>2, <1>4
  <2> QED
    BY <1>4, <2>1, <2>2
<1> HIDE DEF a, c
<1>6. \A k \in 1..m : a[k] = c[k]
  BY <1>1, <1>3, <1>4, <1>5
<1>7. a = c
  BY <1>3, <1>5, <1>6, SameItems
<1> QED
  BY <1>7 DEF a, b, c

\* What is appended last is what was put there.
LEMMA AppendSame ==
    ASSUME NEW s, IsSequence(s), NEW x, NEW y, Append(s, x) = Append(s, y)
    PROVE  x = y
BY AppendIs
=============================================================================
