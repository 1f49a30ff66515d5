----------------------------- MODULE SeqLemmas -----------------------------
(***************************************************************************)
(* Facts about sequences that the proofs about trees rest on: Front, Last, *)
(* IsPrefix of the community modules, and the least element of a set.      *)
(***************************************************************************)
EXTENDS SequencesExt, SequenceTheorems, WellFoundedInduction, TLAPS

\* A sequence is its front and its last element.
LEMMA FrontLast ==
  ASSUME NEW S, NEW s \in Seq(S), s # <<>>
  PROVE  /\ Front(s) \in Seq(S) /\ Len(Front(s)) = Len(s) - 1
         /\ Last(s) \in S
         /\ s = Append(Front(s), Last(s))
<1>1. Front(s) \in Seq(S)
  BY DEF Front
<1>2. Last(s) \in S
  BY DEF Last
<1>3. s = Append(Front(s), Last(s))
  BY DEF Front, Last
<1>4. Len(s) = Len(Front(s)) + 1
  BY <1>1, <1>2, <1>3, AppendProperties
<1>5. Len(Front(s)) \in Nat
  BY <1>1, LenProperties
<1> QED  BY <1>1, <1>2, <1>3, <1>4, <1>5

\* What Append put together, Front and Last take apart.
LEMMA FrontLastAppend ==
  ASSUME NEW S, NEW s \in Seq(S), NEW x \in S
  PROVE  /\ Append(s, x) \in Seq(S) /\ Append(s, x) # <<>>
         /\ Front(Append(s, x)) = s
         /\ Last(Append(s, x)) = x
  BY DEF Front, Last

\* Concatenation in front leaves the last element alone.
LEMMA FrontLastConcat ==
  ASSUME NEW S, NEW q \in Seq(S), NEW s \in Seq(S), s # <<>>
  PROVE  /\ q \o s # <<>>
         /\ Front(q \o s) = q \o Front(s)
         /\ Last(q \o s) = Last(s)
  BY DEF Front, Last

\* IsPrefix element by element.
LEMMA PrefixPoints ==
  ASSUME NEW S, NEW q \in Seq(S), NEW p \in Seq(S)
  PROVE  IsPrefix(q, p) <=> Len(q) <= Len(p) /\ \A i \in 1 .. Len(q) : q[i] = p[i]
  BY DEF IsPrefix

\* A prefix of an extended sequence is one of the sequence, or all of it.
LEMMA PrefixAppend ==
  ASSUME NEW S, NEW q \in Seq(S), NEW p \in Seq(S), NEW x \in S
  PROVE  IsPrefix(q, Append(p, x)) <=> IsPrefix(q, p) \/ q = Append(p, x)
<1>1. IsPrefix(q, p) => IsPrefix(q, Append(p, x))
  BY DEF IsPrefix
<1>2. q = Append(p, x) => IsPrefix(q, Append(p, x))
  BY DEF IsPrefix
<1>3. IsPrefix(q, Append(p, x)) /\ Len(q) = Len(p) + 1 => q = Append(p, x)
  BY DEF IsPrefix
<1>4. IsPrefix(q, Append(p, x)) /\ Len(q) <= Len(p) => IsPrefix(q, p)
  BY DEF IsPrefix
<1>5. IsPrefix(q, Append(p, x)) => Len(q) <= Len(p) + 1
  BY DEF IsPrefix
<1> QED  BY <1>1, <1>2, <1>3, <1>4, <1>5

\* q is a prefix of what it is put in front of.
LEMMA PrefixConcat ==
  ASSUME NEW S, NEW q \in Seq(S), NEW s \in Seq(S)
  PROVE  /\ IsPrefix(q, q \o s)
         /\ q \o s \in Seq(S)
         /\ SubSeq(q \o s, Len(q) + 1, Len(q \o s)) = s
<1>1. IsPrefix(q, q \o s)
  BY DEF IsPrefix
<1>2. q \o s \in Seq(S)
  OBVIOUS
<1>3. SubSeq(q \o s, Len(q) + 1, Len(q \o s)) = s
  OBVIOUS
<1> QED  BY <1>1, <1>2, <1>3

\* What follows a prefix.
LEMMA PrefixRest ==
  ASSUME NEW S, NEW q \in Seq(S), NEW p \in Seq(S), IsPrefix(q, p)
  PROVE  /\ SubSeq(p, Len(q) + 1, Len(p)) \in Seq(S)
         /\ p = q \o SubSeq(p, Len(q) + 1, Len(p))
  BY PrefixPoints

\* A set of natural numbers has a first element.
LEMMA LeastOf ==
  ASSUME NEW T, T \subseteq Nat, T # {}
  PROVE  \E i \in T : \A j \in T : i <= j
<1>1. PICK i \in T : \A j \in T : ~ (<<j, i>> \in OpToRel(<, Nat))
  BY NatLessThanWellFounded, WFMin
<1>2. \A k, j \in Nat : <<j, k>> \in OpToRel(<, Nat) <=> j < k
  BY DEF OpToRel
<1>3. \A j \in T : ~ (j < i)
  BY <1>1, <1>2
<1> QED  BY <1>3

\* Induction over the natural numbers, for a set.
LEMMA NatSetInduction ==
  ASSUME NEW S, 0 \in S, \A n \in Nat : n \in S => n + 1 \in S
  PROVE  \A n \in Nat : n \in S
<1> DEFINE Missing == {n \in Nat : n \notin S}
<1> SUFFICES ASSUME Missing # {} PROVE FALSE
  OBVIOUS
<1>1. PICK i \in Missing : \A j \in Missing : i <= j
  BY LeastOf
<1>2. i \in Nat \ {0} /\ i - 1 \in Nat /\ i - 1 \in S
  BY <1>1
<1> QED  BY <1>1, <1>2

\* Induction over sequences, for a set: one more element at the end.
LEMMA SeqSetInduction ==
  ASSUME NEW S, NEW P, <<>> \in P,
         \A s \in Seq(S) : \A x \in S : s \in P => Append(s, x) \in P
  PROVE  \A s \in Seq(S) : s \in P
<1> DEFINE L == {n \in Nat : \A s \in Seq(S) : Len(s) = n => s \in P}
<1>1. 0 \in L
  OBVIOUS
<1>2. ASSUME NEW n \in Nat, n \in L PROVE n + 1 \in L
  <2> SUFFICES ASSUME NEW s \in Seq(S), Len(s) = n + 1 PROVE s \in P
    OBVIOUS
  <2>1. s # <<>>
    OBVIOUS
  <2>2. Front(s) \in Seq(S) /\ Len(Front(s)) = n /\ Last(s) \in S /\ s = Append(Front(s), Last(s))
    BY <2>1, FrontLast
  <2>3. Front(s) \in P
    BY <1>2, <2>2
  <2> QED  BY <2>2, <2>3
<1> HIDE DEF L
<1>3. \A n \in Nat : n \in L
  BY <1>1, <1>2, NatSetInduction
<1> QED  BY <1>3 DEF L

\* Prefixes of the same sequence.
LEMMA PrefixesNest ==
  ASSUME NEW S, NEW a \in Seq(S), NEW b \in Seq(S), NEW c \in Seq(S), IsPrefix(b, c)
  PROVE  /\ IsPrefix(a, b) => IsPrefix(a, c)
         /\ IsPrefix(a, c) /\ Len(a) <= Len(b) => IsPrefix(a, b)
         /\ IsPrefix(a, c) /\ Len(a) = Len(b) => a = b
<1>1. Len(b) <= Len(c) /\ \A i \in 1 .. Len(b) : b[i] = c[i]
  BY PrefixPoints
<1>2. IsPrefix(a, b) => IsPrefix(a, c)
  <2> SUFFICES ASSUME IsPrefix(a, b) PROVE IsPrefix(a, c)
    OBVIOUS
  <2>1. Len(a) <= Len(b) /\ \A i \in 1 .. Len(a) : a[i] = b[i]
    BY PrefixPoints
  <2>2. Len(a) <= Len(c) /\ \A i \in 1 .. Len(a) : a[i] = c[i]
    BY <1>1, <2>1
  <2> QED  BY <2>2, PrefixPoints
<1>3. ASSUME IsPrefix(a, c), Len(a) <= Len(b) PROVE \A i \in 1 .. Len(a) : a[i] = b[i]
  <2>1. Len(a) <= Len(c) /\ \A i \in 1 .. Len(a) : a[i] = c[i]
    BY <1>3, PrefixPoints
  <2> QED  BY <1>1, <1>3, <2>1
<1>4. IsPrefix(a, c) /\ Len(a) <= Len(b) => IsPrefix(a, b)
  BY <1>3, PrefixPoints
<1>5. IsPrefix(a, c) /\ Len(a) = Len(b) => a = b
  BY <1>3, SeqEqual
<1> QED  BY <1>2, <1>4, <1>5

\* The prefix of a given length.
LEMMA PrefixOfLength ==
  ASSUME NEW S, NEW p \in Seq(S), NEW n \in 0 .. Len(p)
  PROVE  /\ SubSeq(p, 1, n) \in Seq(S) /\ Len(SubSeq(p, 1, n)) = n
         /\ IsPrefix(SubSeq(p, 1, n), p)
         /\ \A i \in 1 .. n : SubSeq(p, 1, n)[i] = p[i]
<1> DEFINE r == SubSeq(p, 1, n)
<1>1. r \in Seq(S) /\ Len(r) = n /\ Len(r) <= Len(p) /\ \A i \in 1 .. n : r[i] = p[i]
  OBVIOUS
<1> HIDE DEF r
<1>2. IsPrefix(r, p)
  BY <1>1, PrefixPoints
<1> QED  BY <1>1, <1>2 DEF r

\* What a concatenation begins with.
LEMMA ConcatPrefix ==
  ASSUME NEW S, NEW a \in Seq(S), NEW b \in Seq(S), NEW c \in Seq(S)
  PROVE  /\ IsPrefix(a \o b, a \o c) <=> IsPrefix(b, c)
         /\ a \o b = a \o c => b = c
<1> DEFINE x == a \o b
           y == a \o c
<1>1. /\ x \in Seq(S) /\ Len(x) = Len(a) + Len(b)
      /\ \A i \in 1 .. Len(b) : x[Len(a) + i] = b[i]
      /\ \A i \in 1 .. Len(a) : x[i] = a[i]
  OBVIOUS
<1>2. /\ y \in Seq(S) /\ Len(y) = Len(a) + Len(c)
      /\ \A i \in 1 .. Len(c) : y[Len(a) + i] = c[i]
      /\ \A i \in 1 .. Len(a) : y[i] = a[i]
  OBVIOUS
<1> HIDE DEF x, y
<1>3. ASSUME IsPrefix(x, y) PROVE IsPrefix(b, c)
  <2>0. x \in Seq(S) /\ y \in Seq(S)
    BY <1>1, <1>2
  <2>1. Len(x) <= Len(y) /\ \A i \in 1 .. Len(x) : x[i] = y[i]
    BY <2>0, <1>3, PrefixPoints, SMTT(30)
  <2>2. Len(b) <= Len(c) /\ \A i \in 1 .. Len(b) : Len(a) + i \in 1 .. Len(x)
    BY <1>1, <1>2, <2>1
  <2>3. ASSUME NEW i \in 1 .. Len(b) PROVE b[i] = c[i]
    <3>1. x[Len(a) + i] = y[Len(a) + i]
      BY <2>1, <2>2
    <3>2. x[Len(a) + i] = b[i] /\ y[Len(a) + i] = c[i]
      BY <1>1, <1>2, <2>2
    <3> QED  BY <3>1, <3>2
  <2> QED  BY <2>2, <2>3, PrefixPoints
<1>4. ASSUME IsPrefix(b, c) PROVE IsPrefix(x, y)
  <2>1. Len(b) <= Len(c) /\ \A i \in 1 .. Len(b) : b[i] = c[i]
    BY <1>4, PrefixPoints
  <2>2. ASSUME NEW i \in 1 .. Len(x) PROVE x[i] = y[i]
    <3>1. CASE i <= Len(a)
      BY <1>1, <1>2, <3>1
    <3>2. CASE i > Len(a)
      <4> DEFINE j == i - Len(a)
      <4>1. j \in 1 .. Len(b) /\ j \in 1 .. Len(c) /\ i = Len(a) + j
        BY <1>1, <2>1, <3>2
      <4> HIDE DEF j
      <4> QED  BY <1>1, <1>2, <2>1, <4>1
    <3> QED  BY <3>1, <3>2
  <2> QED  BY <1>1, <1>2, <2>1, <2>2, PrefixPoints
<1>5. ASSUME x = y PROVE b = c
  <2>1. Len(b) = Len(c)
    BY <1>1, <1>2, <1>5
  <2>2. \A i \in 1 .. Len(b) : b[i] = c[i]
    BY <1>1, <1>2, <1>5, <2>1
  <2> QED  BY <2>1, <2>2, SeqEqual
<1> QED  BY <1>3, <1>4, <1>5 DEF x, y

\* The prefix of an empty sequence, and a sequence as a prefix.
LEMMA PrefixEnds ==
  ASSUME NEW S, NEW q \in Seq(S)
  PROVE  /\ IsPrefix(q, <<>>) => q = <<>>
         /\ IsPrefix(<<>>, q)
         /\ IsPrefix(q, q)
<1>1. ASSUME IsPrefix(q, <<>>) PROVE q = <<>>
  <2> DEFINE e == <<>>
  <2>1. e \in Seq(S) /\ Len(e) = 0 /\ IsPrefix(q, e)
    BY <1>1
  <2> HIDE DEF e
  <2>2. Len(q) <= Len(e)
    BY <2>1, PrefixPoints
  <2> QED  BY <2>1, <2>2
<1>2. IsPrefix(<<>>, q)
  <2> DEFINE e == <<>>
  <2>1. e \in Seq(S) /\ Len(e) = 0
    OBVIOUS
  <2> HIDE DEF e
  <2>2. Len(e) <= Len(q) /\ \A i \in 1 .. Len(e) : e[i] = q[i]
    BY <2>1
  <2>3. IsPrefix(e, q)
    BY <2>1, <2>2, PrefixPoints
  <2> QED  BY <2>3 DEF e
<1>3. IsPrefix(q, q)
  BY PrefixPoints
<1> QED  BY <1>1, <1>2, <1>3
=============================================================================
