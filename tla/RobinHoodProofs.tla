--------------------------- MODULE RobinHoodProofs ---------------------------
(***************************************************************************)
(* The proofs about RobinHood, for every hash, set of items, growth and    *)
(* limits: the loops keep the order of the homes, an item is never in the  *)
(* array twice, and the map implements ItemMap.                            *)
(***************************************************************************)
EXTENDS RobinHood, SeqLemmas, FiniteSetTheorems

-----------------------------------------------------------------------------
(* Places: x is d - 1 buckets after its home in a map of n buckets *)

Sizes == Nat \ {0, 1}
Distances == Nat \ {0}
Place(x, d, n) == (Home(x, n) + d - 1) % n

\* A remainder is the only one there is.
LEMMA RemainderUnique ==
  ASSUME NEW n \in Nat \ {0}, NEW q \in Int, NEW r \in 0 .. n - 1
  PROVE  (n * q + r) % n = r
  OBVIOUS

\* Adding one before or after the remainder is taken is the same, and the
\* remainder before can be told from the one after.
LEMMA RemainderNext ==
  ASSUME NEW n \in Sizes, NEW a \in Nat
  PROVE  /\ a % n \in 0 .. n - 1
         /\ (a + 1) % n = ((a % n) + 1) % n
         /\ a % n = IF (a + 1) % n = 0 THEN n - 1 ELSE ((a + 1) % n) - 1
<1> DEFINE q == a \div n
           r == a % n
<1>1. r \in 0 .. n - 1 /\ q \in Int /\ a = n * q + r
  BY DEF Sizes
<1> HIDE DEF q, r
<1>2. CASE r = n - 1
  <2>1. (r + 1) % n = 0
    BY <1>1, <1>2, RemainderUnique DEF Sizes
  <2>2. a + 1 = n * (q + 1) + 0
    BY <1>1, <1>2 DEF Sizes
  <2>3. (a + 1) % n = 0
    BY <1>1, <2>2, RemainderUnique DEF Sizes
  <2> QED  BY <1>1, <1>2, <2>1, <2>3 DEF r
<1>3. CASE r # n - 1
  <2>1. r + 1 \in 0 .. n - 1
    BY <1>1, <1>3 DEF Sizes
  <2>2. (r + 1) % n = r + 1
    BY <2>1, RemainderUnique DEF Sizes
  <2>3. a + 1 = n * q + (r + 1)
    BY <1>1 DEF Sizes
  <2>4. (a + 1) % n = r + 1
    BY <1>1, <2>1, <2>3, RemainderUnique DEF Sizes
  <2> QED  BY <1>1, <1>3, <2>2, <2>4 DEF r
<1> QED  BY <1>2, <1>3

\* Going round the buckets.
LEMMA FollowingOne ==
  ASSUME NEW n \in Sizes, NEW b \in 0 .. n - 1
  PROVE  /\ Following(b, n) = IF b = n - 1 THEN 0 ELSE b + 1
         /\ Following(b, n) \in 0 .. n - 1 /\ Following(b, n) # b
<1>1. b = n - 1 => (b + 1) % n = 0
  <2>1. n = n * 1 + 0
    BY DEF Sizes
  <2>2. n % n = 0
    BY <2>1, RemainderUnique DEF Sizes
  <2> QED  BY <2>2 DEF Sizes
<1>2. b # n - 1 => (b + 1) % n = b + 1
  <2>1. b # n - 1 => b + 1 \in 0 .. n - 1 /\ b + 1 = n * 0 + (b + 1)
    BY DEF Sizes
  <2> QED  BY <2>1, RemainderUnique DEF Sizes
<1> QED  BY <1>1, <1>2 DEF Following, Sizes

\* Every bucket has one before it.
LEMMA PrecedingOne ==
  ASSUME NEW n \in Sizes, NEW b \in 0 .. n - 1
  PROVE  \E c \in 0 .. n - 1 : Following(c, n) = b /\ c # b
<1> DEFINE c == IF b = 0 THEN n - 1 ELSE b - 1
<1>1. c \in 0 .. n - 1 /\ c # b
  BY DEF Sizes
<1>2. Following(c, n) = b
  BY <1>1, FollowingOne DEF Sizes
<1> QED  BY <1>1, <1>2

\* The place of an item, and the one after it.
LEMMA Places ==
  ASSUME NEW x \in Items, NEW d \in Distances, NEW n \in Sizes
  PROVE  /\ Place(x, d, n) \in 0 .. n - 1
         /\ Place(x, 1, n) = Home(x, n)
         /\ Following(Place(x, d, n), n) = Place(x, d + 1, n)
         /\ \A b \in 0 .. n - 1 : Following(b, n) = Place(x, d + 1, n) => b = Place(x, d, n)
<1> DEFINE h == Home(x, n)
           a == h + d - 1
<1>1. h \in 0 .. n - 1
  BY RobinHoodAssumption DEF Home, Sizes
<1>2. Place(x, 1, n) = h
  <2>1. h = n * 0 + h /\ Place(x, 1, n) = h % n
    BY <1>1 DEF Place, Sizes
  <2> QED  BY <1>1, <2>1, RemainderUnique DEF Sizes
<1>3. a \in Nat /\ a + 1 = h + (d + 1) - 1
  BY <1>1 DEF Distances
<1>4. Place(x, d, n) = a % n /\ Place(x, d + 1, n) = (a + 1) % n
  BY <1>3 DEF Place
<1> HIDE DEF a, h
<1>5. /\ a % n \in 0 .. n - 1
      /\ (a + 1) % n = ((a % n) + 1) % n
      /\ a % n = IF (a + 1) % n = 0 THEN n - 1 ELSE ((a + 1) % n) - 1
  BY <1>3, RemainderNext
<1>6. ASSUME NEW b \in 0 .. n - 1, Following(b, n) = (a + 1) % n PROVE b = a % n
  BY <1>5, <1>6, FollowingOne DEF Sizes
<1> QED  BY <1>2, <1>4, <1>5, <1>6 DEF Following, h

-----------------------------------------------------------------------------
(* Arrays of buckets *)

Entries == [dib : Distances, item : Items]
Arrays(n) == [0 .. n - 1 -> [dib : Nat, item : Items \cup {NULL}]]

\* bs are n buckets, and every item is where its distance says.
Good(bs, n) ==
  /\ bs \in Arrays(n)
  /\ \A b \in Full(bs) : bs[b].item \in Items /\ Place(bs[b].item, bs[b].dib, n) = b

\* The entry e may take bucket b: that is its place, and the item before it
\* is not closer to home than by one.
Fits(e, b, bs, n) ==
  /\ e \in Entries /\ Place(e.item, e.dib, n) = b
  /\ \A c \in 0 .. n - 1 : Following(c, n) = b => e.dib <= bs[c].dib + 1

\* No two buckets at places hold items with the same key.
UniqueIn(bs, places) ==
  \A b, c \in places \cap Full(bs) : SameKey(bs[b].item, bs[c].item) => b = c

NoneWith(bs, x) == \A b \in Full(bs) : ~SameKey(bs[b].item, x)

\* An item with the key of x is d - 1 buckets after its home or further on.
NoneBefore(bs, x, d) == \A b \in Full(bs) : SameKey(bs[b].item, x) => bs[b].dib >= d

\* What is there to know of the buckets of an array.
LEMMA GoodArray ==
  ASSUME NEW n \in Sizes, NEW bs, Good(bs, n)
  PROVE  /\ BucketsOK(bs, n) /\ DOMAIN bs = 0 .. n - 1 /\ Full(bs) \subseteq 0 .. n - 1
         /\ \A b \in 0 .. n - 1 : bs[b].dib \in Nat /\ (bs[b].dib = 0 <=> b \notin Full(bs))
         /\ \A b \in Full(bs) : bs[b] \in Entries
<1>1. DOMAIN bs = 0 .. n - 1 /\ \A b \in 0 .. n - 1 : bs[b] \in [dib : Nat, item : Items \cup {NULL}]
  BY DEF Good, Arrays
<1>2. Full(bs) \subseteq 0 .. n - 1
  BY <1>1 DEF Full
<1>3. \A b \in 0 .. n - 1 : bs[b].dib \in Nat /\ (bs[b].dib = 0 <=> b \notin Full(bs))
  BY <1>1 DEF Full
<1>4. \A b \in Full(bs) : bs[b] \in Entries
  <2> SUFFICES ASSUME NEW b \in Full(bs) PROVE bs[b] \in Entries
    OBVIOUS
  <2>1. bs[b] \in [dib : Nat, item : Items \cup {NULL}] /\ bs[b].dib > 0 /\ bs[b].item \in Items
    BY <1>1, <1>2 DEF Full, Good
  <2> QED  BY <2>1 DEF Entries, Distances
<1>5. BucketsOK(bs, n)
  BY <1>1 DEF BucketsOK, Good, Place
<1> QED  BY <1>1, <1>2, <1>3, <1>4, <1>5

\* New buckets are empty.
LEMMA EmptyArray ==
  ASSUME NEW n \in Sizes
  PROVE  /\ Good(EmptyBuckets(n), n) /\ Full(EmptyBuckets(n)) = {}
         /\ Ordered(EmptyBuckets(n), n, {})
<1>1. /\ EmptyBuckets(n) \in Arrays(n)
      /\ \A b \in 0 .. n - 1 : EmptyBuckets(n)[b].dib = 0
  BY DEF EmptyBuckets, Empty, Arrays
<1>2. Full(EmptyBuckets(n)) = {}
  BY <1>1 DEF Full, EmptyBuckets
<1>3. Ordered(EmptyBuckets(n), n, {})
  BY <1>1, FollowingOne DEF Ordered
<1> QED  BY <1>1, <1>2, <1>3 DEF Good

\* An entry that fits takes an empty bucket, or one whose item is closer to
\* its home.
LEMMA TakeBucket ==
  ASSUME NEW n \in Sizes, NEW bs, Good(bs, n), Ordered(bs, n, {}), NEW e, NEW b \in 0 .. n - 1,
         Fits(e, b, bs, n), bs[b].dib <= e.dib
  PROVE  LET bs2 == [bs EXCEPT ![b] = e]
         IN /\ Good(bs2, n) /\ Ordered(bs2, n, {}) /\ Full(bs2) = Full(bs) \cup {b}
            /\ bs2[b] = e /\ \A c \in (0 .. n - 1) \ {b} : bs2[c] = bs[c]
<1> DEFINE bs2 == [bs EXCEPT ![b] = e]
<1>1. /\ e \in Entries /\ Place(e.item, e.dib, n) = b
      /\ e.dib \in Nat /\ e.dib > 0 /\ e.item \in Items
      /\ e \in [dib : Nat, item : Items \cup {NULL}]
  BY DEF Fits, Entries, Distances
<1>2. bs \in Arrays(n) /\ DOMAIN bs = 0 .. n - 1 /\ \A c \in 0 .. n - 1 : bs[c].dib \in Nat
  BY GoodArray DEF Good
<1>3. bs2 \in Arrays(n) /\ bs2[b] = e /\ \A c \in (0 .. n - 1) \ {b} : bs2[c] = bs[c]
  BY <1>1, <1>2 DEF Arrays
<1>4. DOMAIN bs2 = 0 .. n - 1
  BY <1>2
<1> HIDE DEF bs2
<1>5. Full(bs2) = Full(bs) \cup {b}
  BY <1>1, <1>2, <1>3, <1>4 DEF Full
<1>6. Good(bs2, n)
  BY <1>1, <1>2, <1>3, <1>5 DEF Good, Full
<1>7. Ordered(bs2, n, {})
  <2> SUFFICES ASSUME NEW c \in 0 .. n - 1 PROVE bs2[Following(c, n)].dib <= bs2[c].dib + 1
    BY DEF Ordered
  <2>1. /\ Following(c, n) \in 0 .. n - 1 /\ Following(c, n) # c
        /\ bs[Following(c, n)].dib <= bs[c].dib + 1
    BY FollowingOne DEF Ordered
  <2>2. CASE c = b
    BY <1>1, <1>2, <1>3, <2>1, <2>2
  <2>3. CASE Following(c, n) = b
    BY <1>3, <2>1, <2>3 DEF Fits
  <2>4. CASE c # b /\ Following(c, n) # b
    BY <1>3, <2>1, <2>4
  <2> QED  BY <2>2, <2>3, <2>4
<1> QED  BY <1>3, <1>5, <1>6, <1>7 DEF bs2

\* A full bucket that the entry passes: what stays is in order, and what is
\* carried on fits the next one.
LEMMA PassBucket ==
  ASSUME NEW n \in Sizes, NEW bs, Good(bs, n), Ordered(bs, n, {}), NEW b \in Full(bs),
         Fits(entry, b, bs, n)
  PROVE  LET bs2 == [bs EXCEPT ![b] = Stays(@)]
         IN /\ Good(bs2, n) /\ Ordered(bs2, n, {}) /\ Full(bs2) = Full(bs)
            /\ bs2[b] = Stays(bs[b]) /\ \A c \in (0 .. n - 1) \ {b} : bs2[c] = bs[c]
            /\ Fits(Carried(bs[b]), Following(b, n), bs2, n)
<1> DEFINE bs2 == [bs EXCEPT ![b] = Stays(@)]
           e == Carried(bs[b])
<1>1. /\ b \in 0 .. n - 1 /\ bs[b] \in Entries /\ bs[b].dib \in Nat /\ bs[b].item \in Items
      /\ DOMAIN bs = 0 .. n - 1 /\ Place(bs[b].item, bs[b].dib, n) = b
      /\ \A c \in 0 .. n - 1 : bs[c].dib \in Nat
  BY GoodArray DEF Good
<1>2. /\ entry \in Entries /\ Place(entry.item, entry.dib, n) = b
      /\ entry.dib \in Nat /\ entry.item \in Items
  BY DEF Fits, Entries, Distances
<1>3. Ordered(bs, n, {}) => bs[Following(b, n)].dib <= bs[b].dib + 1
  BY <1>1 DEF Ordered
<1>4. CASE bs[b].dib < entry.dib
  <2>1. bs2 = [bs EXCEPT ![b] = entry] /\ Stays(bs[b]) = entry
    BY <1>4 DEF Stays
  <2>2. e = [bs[b] EXCEPT !.dib = @ + 1]
    BY <1>4 DEF Carried
  <2>3. e \in Entries /\ e.dib = bs[b].dib + 1 /\ e.item = bs[b].item
    BY <1>1, <2>2 DEF Entries, Distances
  <2> HIDE DEF e, bs2
  <2>4. /\ Good(bs2, n) /\ Ordered(bs2, n, {}) /\ Full(bs2) = Full(bs) \cup {b}
        /\ bs2[b] = entry /\ \A c \in (0 .. n - 1) \ {b} : bs2[c] = bs[c]
    <3>1. LET t == [bs EXCEPT ![b] = entry]
          IN /\ Good(t, n) /\ Ordered(t, n, {}) /\ Full(t) = Full(bs) \cup {b}
             /\ t[b] = entry /\ \A c \in (0 .. n - 1) \ {b} : t[c] = bs[c]
      <4>1. bs[b].dib <= entry.dib
        BY <1>1, <1>2, <1>4
      <4> QED  BY <1>1, <4>1, TakeBucket
    <3> QED  BY <2>1, <3>1
  <2>5. Place(e.item, e.dib, n) = Following(b, n)
    BY <1>1, <2>3, Places DEF Entries
  <2>6. ASSUME NEW c \in 0 .. n - 1, Following(c, n) = Following(b, n)
        PROVE  e.dib <= bs2[c].dib + 1
    <3>1. c = b
      BY <1>1, <2>5, <2>6, <2>3, Places DEF Entries
    <3> QED  BY <1>1, <1>2, <1>4, <2>3, <2>4, <3>1
  <2> QED  BY <2>1, <2>3, <2>4, <2>5, <2>6 DEF Fits, bs2, e
<1>5. CASE ~(bs[b].dib < entry.dib)
  <2>1. bs2 = bs /\ Stays(bs[b]) = bs[b]
    BY <1>1, <1>5 DEF Stays, Good, Arrays
  <2>2. e = [entry EXCEPT !.dib = @ + 1]
    BY <1>5 DEF Carried
  <2>3. e \in Entries /\ e.dib = entry.dib + 1 /\ e.item = entry.item
    BY <1>2, <2>2 DEF Entries, Distances
  <2> HIDE DEF e, bs2
  <2>4. Place(e.item, e.dib, n) = Following(b, n)
    BY <1>2, <2>3, Places DEF Entries
  <2>5. ASSUME NEW c \in 0 .. n - 1, Following(c, n) = Following(b, n)
        PROVE  e.dib <= bs2[c].dib + 1
    <3>1. c = b
      BY <1>2, <2>4, <2>5, <2>3, Places DEF Entries
    <3> QED  BY <1>1, <1>2, <1>5, <2>1, <2>3, <3>1
  <2> QED  BY <2>1, <2>3, <2>4, <2>5 DEF Fits, bs2, e
<1> QED  BY <1>4, <1>5

\* Between the home of an item and its bucket, every bucket has an item at
\* least as far from home as that bucket is from the home of this one.
LEMMA NoGap ==
  ASSUME NEW n \in Sizes, NEW bs, Good(bs, n), Ordered(bs, n, {}), NEW b \in Full(bs)
  PROVE  \A d \in 1 .. bs[b].dib : bs[Place(bs[b].item, d, n)].dib >= d
<1> DEFINE x == bs[b].item
           m == bs[b].dib
           S == {k \in Nat : k < m => bs[Place(x, m - k, n)].dib >= m - k}
<1>1. /\ m \in Distances /\ x \in Items /\ Place(x, m, n) = b
      /\ \A c \in 0 .. n - 1 : bs[c].dib \in Nat
  BY GoodArray DEF Good, Entries
<1> HIDE DEF x
<1>2. 0 \in S
  BY <1>1 DEF Distances, x
<1>3. ASSUME NEW k \in Nat, k \in S PROVE k + 1 \in S
  <2> SUFFICES ASSUME k + 1 < m PROVE bs[Place(x, m - (k + 1), n)].dib >= m - (k + 1)
    OBVIOUS
  <2> DEFINE d == m - (k + 1)
  <2>1. d \in Distances /\ d + 1 = m - k /\ k < m
    BY <1>1 DEF Distances
  <2>2. bs[Place(x, d + 1, n)].dib >= d + 1
    BY <1>3, <2>1
  <2> HIDE DEF d, m
  <2>3. /\ Place(x, d, n) \in 0 .. n - 1 /\ Place(x, d + 1, n) \in 0 .. n - 1
        /\ Following(Place(x, d, n), n) = Place(x, d + 1, n)
    <3>1. d + 1 \in Distances
      BY <2>1 DEF Distances
    <3> QED  BY <1>1, <2>1, <3>1, Places
  <2>4. bs[Place(x, d + 1, n)].dib <= bs[Place(x, d, n)].dib + 1
    BY <2>3 DEF Ordered
  <2>5. bs[Place(x, d, n)].dib >= d
    BY <1>1, <2>1, <2>2, <2>3, <2>4 DEF Distances
  <2> QED  BY <2>5 DEF d
<1> HIDE DEF S
<1>4. \A k \in Nat : k \in S
  BY <1>2, <1>3, NatSetInduction
<1>5. ASSUME NEW d \in 1 .. m PROVE bs[Place(x, d, n)].dib >= d
  <2>1. m - d \in Nat /\ m - d < m /\ m - (m - d) = d
    BY <1>1 DEF Distances
  <2> HIDE DEF m
  <2> DEFINE k == m - d
  <2>2. k \in S
    BY <1>4, <2>1
  <2>3. k < m => bs[Place(x, m - k, n)].dib >= m - k
    BY <2>2 DEF S
  <2> QED  BY <2>1, <2>3
<1> QED  BY <1>5 DEF x

\* At the place d - 1 after its home: an item that is closer to its home shows
\* that no item has the key of x, and one with another key that none does up
\* to here.
LEMMA ProbeTells ==
  ASSUME NEW n \in Sizes, NEW bs, Good(bs, n), Ordered(bs, n, {}), NEW x \in Items,
         NEW d \in Distances, NEW b, b = Place(x, d, n), NoneBefore(bs, x, d)
  PROVE  /\ bs[b].dib < d => NoneWith(bs, x)
         /\ bs[b].dib > 0 /\ ~SameKey(bs[b].item, x) => NoneBefore(bs, x, d + 1)
<1>1. ASSUME NEW c \in Full(bs), SameKey(bs[c].item, x)
      PROVE  /\ bs[c].dib \in Nat /\ bs[c].dib >= d
             /\ bs[b].dib >= d
             /\ bs[c].dib = d => c = b
  <2>1. bs[c].dib >= d /\ bs[c].dib \in Nat /\ Place(bs[c].item, bs[c].dib, n) = c
    BY <1>1, GoodArray DEF NoneBefore, Good
  <2>2. Place(bs[c].item, d, n) = b
    BY <1>1 DEF Place, Home, SameKey
  <2>3. d \in 1 .. bs[c].dib
    BY <2>1 DEF Distances
  <2>4. bs[b].dib >= d
    BY <2>2, <2>3, NoGap
  <2> QED  BY <2>1, <2>2, <2>4
<1>2. b \in 0 .. n - 1 /\ bs[b].dib \in Nat /\ d \in Nat
  <2>1. b \in 0 .. n - 1
    BY Places
  <2> QED  BY <2>1, GoodArray DEF Distances
<1>3. ASSUME bs[b].dib < d PROVE NoneWith(bs, x)
  BY <1>1, <1>2, <1>3 DEF NoneWith
<1>4. ASSUME bs[b].dib > 0, ~SameKey(bs[b].item, x) PROVE NoneBefore(bs, x, d + 1)
  BY <1>1, <1>2, <1>4 DEF NoneBefore
<1> QED  BY <1>3, <1>4

\* An entry that passes a bucket is carried on, or the item there is, whose
\* key is then nowhere else.
LEMMA PassKeys ==
  ASSUME NEW n \in Sizes, NEW bs, Good(bs, n), Ordered(bs, n, {}), NEW b \in Full(bs),
         Fits(entry, b, bs, n), UniqueIn(bs, 0 .. n - 1),
         NoneBefore(bs, entry.item, entry.dib), ~SameKey(bs[b].item, entry.item)
  PROVE  LET bs2 == [bs EXCEPT ![b] = Stays(@)]
             e == Carried(bs[b])
         IN \/ bs2 = bs /\ e.item = entry.item /\ NoneBefore(bs, entry.item, e.dib)
            \/ /\ NoneWith(bs, entry.item) /\ e.item = bs[b].item /\ bs2[b] = entry
               /\ \A c \in (0 .. n - 1) \ {b} : bs2[c] = bs[c]
               /\ Full(bs2) = Full(bs)
               /\ NoneWith(bs2, e.item) /\ UniqueIn(bs2, 0 .. n - 1)
<1> DEFINE bs2 == [bs EXCEPT ![b] = Stays(@)]
           e == Carried(bs[b])
<1>1. /\ b \in 0 .. n - 1 /\ bs[b] \in Entries /\ bs[b].dib \in Nat /\ bs[b].dib > 0
      /\ DOMAIN bs = 0 .. n - 1 /\ Full(bs) \subseteq 0 .. n - 1
  BY GoodArray DEF Full
<1>2. /\ entry \in Entries /\ Place(entry.item, entry.dib, n) = b
      /\ entry.dib \in Nat /\ entry.dib \in Distances /\ entry.item \in Items
  BY DEF Fits, Entries, Distances
<1>3. CASE bs[b].dib < entry.dib
  <2>1. NoneWith(bs, entry.item)
    BY <1>2, <1>3, ProbeTells
  <2>2. e.item = bs[b].item
    <3>1. e = [bs[b] EXCEPT !.dib = @ + 1]
      BY <1>3 DEF Carried
    <3> QED  BY <1>1, <3>1 DEF Entries
  <2>3. Stays(bs[b]) = entry
    BY <1>3 DEF Stays
  <2>4. /\ Full(bs2) = Full(bs) /\ bs2[b] = entry
        /\ \A c \in (0 .. n - 1) \ {b} : bs2[c] = bs[c]
    BY <2>3, PassBucket
  <2> HIDE DEF bs2, e
  <2>5. NoneWith(bs2, e.item)
    BY <1>1, <2>2, <2>4 DEF NoneWith, UniqueIn, SameKey
  <2>6. UniqueIn(bs2, 0 .. n - 1)
    BY <1>1, <2>1, <2>4 DEF NoneWith, UniqueIn, SameKey
  <2> QED  BY <2>1, <2>2, <2>4, <2>5, <2>6 DEF bs2, e
<1>4. CASE ~(bs[b].dib < entry.dib)
  <2>1. bs2 = bs
    BY <1>1, <1>4 DEF Stays, Good, Arrays
  <2>2. e.item = entry.item /\ e.dib = entry.dib + 1
    <3>1. e = [entry EXCEPT !.dib = @ + 1]
      BY <1>4 DEF Carried
    <3> QED  BY <1>2, <3>1 DEF Entries
  <2>3. NoneBefore(bs, entry.item, entry.dib + 1)
    BY <1>1, <1>2, ProbeTells
  <2> QED  BY <2>1, <2>2, <2>3
<1> QED  BY <1>3, <1>4

-----------------------------------------------------------------------------
(* Counting *)

\* The full buckets are finitely many, and with fewer than n of them one is
\* empty.
LEMMA FullCount ==
  ASSUME NEW n \in Sizes, NEW bs, Good(bs, n)
  PROVE  /\ IsFiniteSet(Full(bs)) /\ Cardinality(Full(bs)) \in Nat
         /\ \A S : IsFiniteSet(Full(bs) \ S) /\ IsFiniteSet(Full(bs) \cap S)
         /\ Cardinality(Full(bs)) < n => Full(bs) # DOMAIN bs
<1>1. Full(bs) \subseteq 0 .. n - 1 /\ DOMAIN bs = 0 .. n - 1
  BY GoodArray
<1>2. IsFiniteSet(0 .. n - 1) /\ Cardinality(0 .. n - 1) = n
  BY FS_Interval DEF Sizes
<1>3. IsFiniteSet(Full(bs))
  BY <1>1, <1>2, FS_Subset
<1>4. Cardinality(Full(bs)) \in Nat
  BY <1>3, FS_CardinalityType
<1>5. \A S : IsFiniteSet(Full(bs) \ S) /\ IsFiniteSet(Full(bs) \cap S)
  BY <1>3, FS_Difference, FS_Intersection
<1>6. ASSUME Full(bs) = DOMAIN bs PROVE ~(Cardinality(Full(bs)) < n)
  <2>1. Cardinality(Full(bs)) = n
    BY <1>1, <1>2, <1>6
  <2> QED  BY <2>1 DEF Sizes
<1> QED  BY <1>3, <1>4, <1>5, <1>6

\* Items with different keys are as many as the full buckets.
LEMMA ItemsCounted ==
  ASSUME NEW n \in Sizes, NEW bs, Good(bs, n), UniqueIn(bs, 0 .. n - 1)
  PROVE  Cardinality(ItemsIn(bs, DOMAIN bs)) = Cardinality(Full(bs))
<1> DEFINE T == ItemsIn(bs, DOMAIN bs)
           f == [b \in Full(bs) |-> bs[b].item]
<1>1. Full(bs) \subseteq 0 .. n - 1 /\ DOMAIN bs = 0 .. n - 1
  BY GoodArray
<1>2. T = {bs[b].item : b \in Full(bs)}
  BY <1>1 DEF ItemsIn
<1>3. f \in [Full(bs) -> T]
  BY <1>2
<1>4. f \in Injection(Full(bs), T)
  <2>1. \A b, c \in Full(bs) : f[b] = f[c] => b = c
    BY <1>1 DEF UniqueIn, SameKey
  <2> HIDE DEF f, T
  <2> QED  BY <1>3, <2>1 DEF Injection, IsInjective
<1>5. f \in Surjection(Full(bs), T)
  <2>1. \A t \in T : \E b \in Full(bs) : f[b] = t
    BY <1>2
  <2> HIDE DEF f, T
  <2> QED  BY <1>3, <2>1 DEF Surjection
<1>6. ExistsBijection(Full(bs), T)
  <2> HIDE DEF f, T
  <2> QED  BY <1>4, <1>5 DEF ExistsBijection, Bijection
<1> HIDE DEF T
<1>7. Cardinality(T) = Cardinality(Full(bs))
  BY <1>6, FullCount, FS_Bijection
<1> QED  BY <1>7 DEF T

-----------------------------------------------------------------------------
(* The sizes and limits of a map *)

\* c doubled any number of times.
Doubled(c) ==
  {n \in Nat : \A S \in SUBSET Nat : c \in S /\ (\A m \in S : 2 * m \in S) => n \in S}

\* What is there to know of it.
LEMMA DoubledIs ==
  ASSUME NEW c \in Sizes
  PROVE  /\ c \in Doubled(c)
         /\ \A n \in Doubled(c) : 2 * n \in Doubled(c) /\ n \in Sizes /\ n >= c
         /\ \A n \in Doubled(c) : n = c \/ \E m \in Doubled(c) : n = 2 * m
<1>1. c \in Doubled(c) /\ \A n \in Doubled(c) : 2 * n \in Doubled(c)
  BY DEF Doubled, Sizes
<1>2. \A n \in Doubled(c) : n \in Sizes /\ n >= c
  <2> DEFINE S == {n \in Nat : n >= c}
  <2>1. c \in S /\ \A m \in S : 2 * m \in S
    BY DEF Sizes
  <2>2. \A n \in Doubled(c) : n \in S
    BY <2>1 DEF Doubled
  <2> QED  BY <2>2 DEF Sizes
<1>3. \A n \in Doubled(c) : n = c \/ \E m \in Doubled(c) : n = 2 * m
  <2> DEFINE S == {n \in Doubled(c) : n = c \/ \E m \in Doubled(c) : n = 2 * m}
  <2>1. c \in S /\ \A m \in S : 2 * m \in S
    BY <1>1
  <2>2. S \in SUBSET Nat
    BY DEF Doubled
  <2> HIDE DEF S
  <2>3. \A n \in Doubled(c) : n \in S
    BY <2>1, <2>2 DEF Doubled
  <2> QED  BY <2>3 DEF S
<1> QED  BY <1>1, <1>2, <1>3

\* A grown map is at least twice as large.
LEMMA GrownSize ==
  ASSUME NEW c \in Sizes, NEW n \in Doubled(c)
  PROVE  /\ n * 2 ^ GrowPower \in Doubled(c) /\ n * 2 ^ GrowPower >= 2 * n
<1> DEFINE F == {f \in Nat : f * n \in Doubled(c)}
<1>1. 1 \in F /\ \A f \in F : 2 * f \in F
  <2>1. n \in Nat
    BY DEF Doubled
  <2>2. 1 \in F
    BY <2>1
  <2>3. ASSUME NEW f \in F PROVE 2 * f \in F
    <3>1. f \in Nat /\ f * n \in Doubled(c)
      OBVIOUS
    <3>2. 2 * (f * n) \in Doubled(c)
      BY <3>1, DoubledIs
    <3>3. 2 * (f * n) = (2 * f) * n
      BY <2>1, <3>1
    <3> QED  BY <3>1, <3>2, <3>3
  <2> QED  BY <2>2, <2>3
<1> DEFINE g == 2 ^ GrowPower
<1>2. g \in {2, 4, 8, 16, 32, 64, 128, 256, 512, 1024, 2048, 4096, 8192, 16384, 32768, 65536}
  <2>1. GrowPower \in {1, 2, 3, 4, 5, 6, 7, 8, 9, 10, 11, 12, 13, 14, 15, 16}
    BY RobinHoodAssumption
  <2>2. CASE GrowPower = 1
    BY <2>2
  <2>3. CASE GrowPower = 2
    BY <2>3
  <2>4. CASE GrowPower = 3
    BY <2>4
  <2>5. CASE GrowPower = 4
    BY <2>5
  <2>6. CASE GrowPower = 5
    BY <2>6
  <2>7. CASE GrowPower = 6
    BY <2>7
  <2>8. CASE GrowPower = 7
    BY <2>8
  <2>9. CASE GrowPower = 8
    BY <2>9
  <2>10. CASE GrowPower = 9
    BY <2>10
  <2>11. CASE GrowPower = 10
    BY <2>11
  <2>12. CASE GrowPower = 11
    BY <2>12
  <2>13. CASE GrowPower = 12
    BY <2>13
  <2>14. CASE GrowPower = 13
    BY <2>14
  <2>15. CASE GrowPower = 14
    BY <2>15
  <2>16. CASE GrowPower = 15
    BY <2>16
  <2>17. CASE GrowPower = 16
    BY <2>17
  <2> QED  BY <2>1, <2>2, <2>3, <2>4, <2>5, <2>6, <2>7, <2>8, <2>9, <2>10, <2>11,
              <2>12, <2>13, <2>14, <2>15, <2>16, <2>17
<1>a. F \subseteq Nat
  OBVIOUS
<1> HIDE DEF F, g
<1>b. \A f \in F : 2 * f \in F /\ 4 * f \in F /\ 8 * f \in F /\ 16 * f \in F
  <2> SUFFICES ASSUME NEW f \in F
               PROVE  2 * f \in F /\ 4 * f \in F /\ 8 * f \in F /\ 16 * f \in F
    OBVIOUS
  <2>1. f \in Nat /\ 2 * f \in F
    BY <1>1, <1>a
  <2>2. 2 * (2 * f) \in F /\ 2 * (2 * f) = 4 * f
    BY <1>1, <2>1
  <2>3. 2 * (4 * f) \in F /\ 2 * (4 * f) = 8 * f
    BY <1>1, <2>1, <2>2
  <2>4. 2 * (8 * f) \in F /\ 2 * (8 * f) = 16 * f
    BY <1>1, <2>1, <2>3
  <2> QED  BY <2>1, <2>2, <2>3, <2>4
<1>3. 2 \in F /\ 4 \in F /\ 8 \in F /\ 16 \in F
  BY <1>1, <1>b
<1>4. 32 \in F /\ 64 \in F /\ 128 \in F /\ 256 \in F
  <2> DEFINE f == 16
  <2>1. 2 * f \in F /\ 4 * f \in F /\ 8 * f \in F /\ 16 * f \in F
    <3> HIDE DEF f
    <3>1. f \in F
      BY <1>3 DEF f
    <3> QED  BY <1>b, <3>1
  <2> QED  BY <2>1
<1>5. 512 \in F /\ 1024 \in F /\ 2048 \in F /\ 4096 \in F
  <2> DEFINE f == 256
  <2>1. 2 * f \in F /\ 4 * f \in F /\ 8 * f \in F /\ 16 * f \in F
    <3> HIDE DEF f
    <3>1. f \in F
      BY <1>4 DEF f
    <3> QED  BY <1>b, <3>1
  <2> QED  BY <2>1
<1>6. 8192 \in F /\ 16384 \in F /\ 32768 \in F /\ 65536 \in F
  <2> DEFINE f == 4096
  <2>1. 2 * f \in F /\ 4 * f \in F /\ 8 * f \in F /\ 16 * f \in F
    <3> HIDE DEF f
    <3>1. f \in F
      BY <1>5 DEF f
    <3> QED  BY <1>b, <3>1
  <2> QED  BY <2>1
<1>7. g \in F /\ g \in Nat /\ g >= 2
  BY <1>2, <1>3, <1>4, <1>5, <1>6
<1>8. g * n \in Doubled(c)
  BY <1>7 DEF F
<1>9. n \in Nat /\ g * n = n * g /\ n * g >= 2 * n
  <2>1. n \in Nat
    BY DEF Doubled
  <2> QED  BY <1>7, <2>1
<1> QED  BY <1>8, <1>9 DEF g

\* The limits are below the size; a map that grew is below its new limit, and
\* one that shrinks is not above it.
LEMMA Limits ==
  ASSUME NEW n \in Sizes, NEW m \in {GrowAt(n), ClearGrowAt(n)}
  PROVE  /\ m \in Nat /\ m < n /\ GrowAt(n) < n /\ GrowAt(n) \in Nat /\ ShrinkAt(n) \in Nat
         /\ \A k \in Sizes : k >= 2 * n => m < GrowAt(k)
         /\ \A k \in Sizes : n = 2 * k => ShrinkAt(n) <= GrowAt(k)
<1> DEFINE G == GROW_AT
           S == SHRINK_AT
<1>1. G \in 50 .. 99 /\ S \in Nat /\ 2 * S <= G
  BY RobinHoodAssumption
<1>2. \A k \in Nat : /\ 100 * GrowAt(k) <= G * k /\ G * k < 100 * GrowAt(k) + 100
                     /\ 100 * ShrinkAt(k) <= S * k
                     /\ GrowAt(k) \in Int /\ ShrinkAt(k) \in Int
  BY <1>1 DEF GrowAt, ShrinkAt
<1>3. /\ 100 * ClearGrowAt(n) <= 75 * n /\ 75 * n < 100 * ClearGrowAt(n) + 100
      /\ ClearGrowAt(n) \in Int
  BY DEF ClearGrowAt, Sizes
<1> HIDE DEF G, S
<1>4. \A k \in Nat : G * k >= 50 * k /\ G * k <= 99 * k /\ S * k >= 0 /\ G * k \in Nat /\ S * k \in Nat
  BY <1>1
<1> DEFINE gn == G * n
<1>5. /\ gn \in Nat /\ gn >= 50 * n /\ gn <= 99 * n
      /\ 100 * GrowAt(n) <= gn /\ gn < 100 * GrowAt(n) + 100 /\ GrowAt(n) \in Int
      /\ ShrinkAt(n) \in Nat /\ 100 * ShrinkAt(n) <= S * n
  <2>1. ShrinkAt(n) \in Nat
    BY <1>1 DEF ShrinkAt, S, Sizes
  <2>2. n \in Nat
    BY DEF Sizes
  <2> HIDE DEF G
  <2> QED  BY <1>2, <1>4, <2>1, <2>2
<1> HIDE DEF gn
<1>5a. /\ GrowAt(n) \in Nat /\ GrowAt(n) < n
       /\ ClearGrowAt(n) \in Nat /\ ClearGrowAt(n) < n
  BY <1>3, <1>5 DEF Sizes
<1>5b. 100 * m <= gn \/ 100 * m <= 75 * n
  BY <1>3, <1>5
<1>6. ASSUME NEW k \in Sizes, k >= 2 * n PROVE m < GrowAt(k)
  <2>1. G * k >= 2 * (G * n)
    <3>1. G * k >= G * (2 * n)
      BY <1>1, <1>6 DEF Sizes
    <3> QED  BY <1>1, <3>1 DEF Sizes
  <2> DEFINE gk == G * k
  <2>2. gk >= 2 * gn /\ gk >= 50 * k /\ gk \in Nat /\ gk < 100 * GrowAt(k) + 100 /\ GrowAt(k) \in Int
    <3>1. k \in Nat
      BY DEF Sizes
    <3> QED  BY <1>2, <1>4, <2>1, <3>1 DEF gn
  <2> HIDE DEF gk
  <2>3. n \in Nat /\ n >= 2 /\ k \in Nat /\ m \in Nat
    BY <1>5a DEF Sizes
  <2> QED  BY <1>5, <1>5b, <1>6, <2>2, <2>3
<1>7. ASSUME NEW k \in Sizes, n = 2 * k PROVE ShrinkAt(n) <= GrowAt(k)
  <2>1. S * n = (2 * S) * k
    BY <1>1, <1>7 DEF Sizes
  <2>2. (2 * S) * k <= G * k
    BY <1>1 DEF Sizes
  <2> DEFINE sn == S * n
             tk == (2 * S) * k
             gk == G * k
  <2>3. sn = tk /\ tk <= gk /\ 100 * ShrinkAt(n) <= sn /\ sn \in Int /\ tk \in Int /\ gk \in Int
    <3>1. k \in Nat /\ n \in Nat
      BY DEF Sizes
    <3> QED  BY <1>1, <1>5, <2>1, <2>2, <3>1
  <2>4. gk < 100 * GrowAt(k) + 100 /\ GrowAt(k) \in Int
    <3>1. k \in Nat
      BY DEF Sizes
    <3> QED  BY <1>2, <3>1
  <2> HIDE DEF sn, tk, gk
  <2> QED  BY <1>5, <2>3, <2>4
<1> QED  BY <1>5, <1>5a, <1>6, <1>7

-----------------------------------------------------------------------------
(* The inductive invariant *)

\* A delete that has found its item.
Deleting == pc = "shift" \/ (pc \in {"resize", "move"} /\ op = "delete")

\* Which call runs, and what it was given and has found.
CallOK ==
  /\ pc \in {"idle", "set", "find", "shift", "resize", "move"}
  /\ pc = "idle" => NoCall
  /\ pc # "idle" => item \in Items
  /\ pc = "set" => op = "set"
  /\ pc = "find" => op \in {"get", "delete"}
  /\ pc = "shift" => op = "delete"
  /\ pc \in {"resize", "move"} => op \in {"set", "delete"}
  /\ ~Deleting => spare = NULL
  /\ Deleting =>
       /\ spare \in Items /\ SameKey(spare, item)
       /\ \A b \in Full(buckets) \ Hole : ~SameKey(buckets[b].item, spare)

\* A map has its capacity doubled some times, and less items than its limit
\* when a set adds one.
SizesOK ==
  /\ cap \in Sizes /\ nbuckets \in Doubled(cap)
  /\ growat \in {GrowAt(nbuckets), ClearGrowAt(nbuckets)} /\ shrinkat = ShrinkAt(nbuckets)
  /\ count \in Nat /\ count <= growat
  /\ pc = "set" => count < growat
  /\ pc \in {"resize", "move"} =>
       \/ op = "set" /\ count < GrowAt(NewSize)
       \/ op = "delete" /\ nbuckets > cap /\ count <= GrowAt(NewSize)

ArrayOK ==
  /\ Good(buckets, nbuckets)
  /\ Ordered(buckets, nbuckets, Hole)
  /\ UniqueIn(buckets, (0 .. nbuckets - 1) \ Hole)
  /\ Cardinality(Full(buckets) \ Hole) = IF pc = "shift" THEN count - 1 ELSE count

\* The entry fits where the set is, and its key is not in a bucket that was
\* passed; once it is another than the item set, it is nowhere in the map.
SetOK ==
  pc = "set" =>
    /\ Fits(entry, i, buckets, nbuckets)
    /\ NoneBefore(buckets, entry.item, entry.dib)
    /\ \/ entry.item = item
       \/ /\ ~SameKey(entry.item, item) /\ NoneWith(buckets, entry.item)
          /\ \E b \in Full(buckets) : buckets[b].item = item

\* The key looked for is not in a bucket that was passed.
FindOK ==
  pc = "find" =>
    \E d \in Distances : i = Place(item, d, nbuckets) /\ NoneBefore(buckets, item, d)

\* The item before the hole was at most one further from home than the one
\* deleted.
ShiftOK ==
  pc = "shift" =>
    /\ i \in 0 .. nbuckets - 1
    /\ \A b \in 0 .. nbuckets - 1 :
         Following(b, nbuckets) = i => NextBucket.dib <= buckets[b].dib + 2

\* The buckets a resize has not come to.
Left == (IF pc = "move" THEN i + 1 ELSE i) .. nbuckets - 1

\* Every item is in a bucket that is left, in the new array or under way.
ResizeOK ==
  pc \in {"resize", "move"} =>
    /\ i \in 0 .. nbuckets
    /\ Good(buckets2, NewSize) /\ Ordered(buckets2, NewSize, {})
    /\ UniqueIn(buckets2, 0 .. NewSize - 1)
    /\ Cardinality(Full(buckets2)) = Cardinality(Full(buckets) \cap (0 .. i - 1))
    /\ \A b \in Left \cap Full(buckets) : NoneWith(buckets2, buckets[b].item)
    /\ ItemsIn(buckets, DOMAIN buckets)
         = ItemsIn(buckets, Left) \cup ItemsIn(buckets2, DOMAIN buckets2)
             \cup (IF pc = "move" THEN {entry.item} ELSE {})

MoveOK ==
  pc = "move" =>
    /\ i \in Full(buckets)
    /\ Fits(entry, j, buckets2, NewSize)
    /\ NoneWith(buckets2, entry.item)
    /\ \A b \in Left \cap Full(buckets) : ~SameKey(buckets[b].item, entry.item)

IInv ==
  CallOK /\ SizesOK /\ ArrayOK /\ SetOK /\ FindOK /\ ShiftOK /\ ResizeOK /\ MoveOK

\* The numbers of a map and of the one a resize builds.
LEMMA SizesFacts ==
  ASSUME SizesOK
  PROVE  /\ nbuckets \in Sizes /\ nbuckets \in Nat /\ cap \in Nat \ {0} /\ cap <= nbuckets
         /\ growat \in Nat /\ growat < nbuckets
         /\ count \in Nat /\ count <= growat /\ count < nbuckets
         /\ pc \in {"resize", "move"} =>
              NewSize \in Doubled(cap) /\ NewSize \in Sizes /\ NewSize \in Nat /\ count < NewSize
<1>1. /\ nbuckets \in Sizes /\ cap <= nbuckets
      /\ nbuckets = cap \/ \E m \in Doubled(cap) : nbuckets = 2 * m
  BY DoubledIs DEF SizesOK
<1>2. growat \in Nat /\ growat < nbuckets
  BY <1>1, Limits DEF SizesOK
<1>3. ASSUME pc \in {"resize", "move"}
      PROVE  NewSize \in Doubled(cap) /\ NewSize \in Sizes /\ count < NewSize
  <2>1. CASE op = "set" /\ count < GrowAt(NewSize)
    <3>1. NewSize \in Doubled(cap)
      BY <2>1, GrownSize DEF SizesOK, NewSize
    <3>2. NewSize \in Sizes
      BY <3>1, DoubledIs DEF SizesOK
    <3>3. GrowAt(NewSize) < NewSize /\ GrowAt(NewSize) \in Nat
      BY <3>2, Limits
    <3> QED  BY <2>1, <3>1, <3>2, <3>3 DEF SizesOK, Sizes
  <2>2. CASE op = "delete" /\ nbuckets > cap /\ count <= GrowAt(NewSize)
    <3>1. PICK m \in Doubled(cap) : nbuckets = 2 * m
      BY <1>1, <2>2 DEF SizesOK, Sizes
    <3>2. m \in Sizes
      BY <3>1, DoubledIs DEF SizesOK
    <3>3. NewSize = m
      BY <2>2, <3>1, <3>2 DEF NewSize, Sizes
    <3>4. GrowAt(m) < m /\ GrowAt(m) \in Nat
      BY <3>2, Limits
    <3> QED  BY <2>2, <3>1, <3>2, <3>3, <3>4 DEF SizesOK, Sizes
  <2> QED  BY <1>3, <2>1, <2>2 DEF SizesOK
<1>4. count < nbuckets
  BY <1>1, <1>2 DEF SizesOK, Sizes
<1> QED  BY <1>1, <1>2, <1>3, <1>4 DEF SizesOK, Sizes

\* A call that returns leaves nothing but the map.
LEMMA Returns ==
  ASSUME NEW x, Return(x), SizesOK', ArrayOK'
  PROVE  IInv'
<1>1. pc' = "idle" /\ NoCall'
  BY DEF Return, NoCall
<1>2. CallOK'
  BY <1>1 DEF CallOK, Deleting, NoCall
<1>3. SetOK' /\ FindOK' /\ ShiftOK' /\ ResizeOK' /\ MoveOK'
  BY <1>1 DEF SetOK, FindOK, ShiftOK, ResizeOK, MoveOK
<1> QED  BY <1>2, <1>3 DEF IInv

\* A map whose array is not touched.
LEMMA SameArray ==
  ASSUME ArrayOK, pc # "shift", pc' # "shift", UNCHANGED <<buckets, nbuckets, count>>
  PROVE  ArrayOK'
<1>1. Hole = {} /\ Hole' = {}
  BY DEF Hole
<1> QED  BY <1>1 DEF ArrayOK

\* The array of a call that is not at a hole.
LEMMA WholeArray ==
  ASSUME IInv, pc # "shift"
  PROVE  /\ nbuckets \in Sizes
         /\ Good(buckets, nbuckets) /\ Ordered(buckets, nbuckets, {})
         /\ UniqueIn(buckets, 0 .. nbuckets - 1)
         /\ Full(buckets) \subseteq 0 .. nbuckets - 1 /\ DOMAIN buckets = 0 .. nbuckets - 1
         /\ Cardinality(Full(buckets)) = count /\ Hole = {}
<1>1. Hole = {} /\ nbuckets \in Sizes
  BY SizesFacts DEF Hole, IInv
<1>2. Full(buckets) \ {} = Full(buckets) /\ (0 .. nbuckets - 1) \ {} = 0 .. nbuckets - 1
  OBVIOUS
<1>3. /\ Good(buckets, nbuckets) /\ Ordered(buckets, nbuckets, {})
      /\ UniqueIn(buckets, 0 .. nbuckets - 1) /\ Cardinality(Full(buckets)) = count
  BY <1>1, <1>2 DEF IInv, ArrayOK
<1> QED  BY <1>1, <1>3, GoodArray

\* A new map.
LEMMA InitHolds == Init => IInv
<1> SUFFICES ASSUME Init PROVE IInv
  OBVIOUS
<1>1. MinCap \in Sizes
  BY RobinHoodAssumption DEF Sizes
<1>2. Good(buckets, nbuckets) /\ Full(buckets) = {} /\ Ordered(buckets, nbuckets, {})
  BY <1>1, EmptyArray DEF Init
<1>3. pc = "idle" /\ NoCall /\ Hole = {}
  BY DEF Init, NoCall, Hole
<1>4. ArrayOK
  <2>1. Full(buckets) \ Hole = {} /\ UniqueIn(buckets, (0 .. nbuckets - 1) \ Hole)
    BY <1>2 DEF UniqueIn
  <2> QED  BY <1>2, <1>3, <2>1, FS_EmptySet DEF ArrayOK, Init
<1>5. SizesOK
  <2>1. cap \in Sizes /\ nbuckets = cap /\ nbuckets \in Doubled(cap)
    BY <1>1, DoubledIs DEF Init
  <2>2. GrowAt(MinCap) \in Nat
    BY <1>1, Limits
  <2> QED  BY <1>3, <2>1, <2>2 DEF SizesOK, Init
<1>6. CallOK
  BY <1>3 DEF CallOK, Deleting, NoCall
<1> QED  BY <1>3, <1>4, <1>5, <1>6 DEF IInv, SetOK, FindOK, ShiftOK, ResizeOK, MoveOK

-----------------------------------------------------------------------------
(* Calls *)

\* A resize begins with an empty array.
LEMMA ResizeBegins ==
  ASSUME pc' = "resize", i' = 0, NewSize' \in Sizes, buckets2' = EmptyBuckets(NewSize'),
         nbuckets' \in Sizes, Good(buckets', nbuckets')
  PROVE  ResizeOK'
<1> DEFINE b2 == EmptyBuckets(NewSize')
<1>1. Good(b2, NewSize') /\ Full(b2) = {} /\ Ordered(b2, NewSize', {})
  BY EmptyArray
<1>2. Left' = 0 .. nbuckets' - 1 /\ DOMAIN buckets' = 0 .. nbuckets' - 1
  BY GoodArray DEF Left
<1> HIDE DEF b2
<1>3. /\ UniqueIn(b2, 0 .. NewSize' - 1) /\ ItemsIn(b2, DOMAIN b2) = {}
      /\ \A x : NoneWith(b2, x)
  BY <1>1 DEF UniqueIn, ItemsIn, NoneWith
<1>4. Full(buckets') \cap (0 .. 0 - 1) = {}
  OBVIOUS
<1>5. Cardinality(Full(b2)) = Cardinality(Full(buckets') \cap (0 .. 0 - 1))
  BY <1>1, <1>4
<1>6. 0 \in 0 .. nbuckets'
  BY DEF Sizes
<1>7. buckets2' = b2
  BY DEF b2
<1> QED  BY <1>1, <1>2, <1>3, <1>5, <1>6, <1>7 DEF ResizeOK

\* A set begins at the home of its item.
LEMMA SetBegins ==
  ASSUME NEW x \in Items, NEW n \in Sizes, NEW bs, Good(bs, n)
  PROVE  /\ Fits(EntryOf(x), Home(x, n), bs, n)
         /\ NoneBefore(bs, x, 1) /\ EntryOf(x).item = x /\ EntryOf(x).dib = 1
         /\ Home(x, n) = Place(x, 1, n) /\ Home(x, n) \in 0 .. n - 1
<1>1. EntryOf(x) \in Entries /\ EntryOf(x).item = x /\ EntryOf(x).dib = 1
  BY DEF EntryOf, Entries, Distances
<1>2. Home(x, n) = Place(x, 1, n) /\ Home(x, n) \in 0 .. n - 1
  BY Places DEF Distances
<1>3. \A b \in 0 .. n - 1 : 1 <= bs[b].dib + 1
  BY GoodArray
<1>4. NoneBefore(bs, x, 1)
  BY GoodArray DEF NoneBefore, Full
<1> QED  BY <1>1, <1>2, <1>3, <1>4 DEF Fits

\* A set begins with its own loop, or grows the map, which then is below its limit.
LEMMA SetKeeps ==
  ASSUME IInv, NEW x \in Items, Set(x)
  PROVE  IInv'
<1>1. /\ pc = "idle" /\ op' = "set" /\ item' = x /\ spare = NULL /\ spare' = NULL
      /\ UNCHANGED <<buckets, nbuckets, cap, growat, shrinkat, count>>
  BY DEF Set, sizes, IInv, CallOK, NoCall
<1>2. ArrayOK' /\ Good(buckets, nbuckets) /\ nbuckets \in Sizes
  <2>1. pc' # "shift"
    BY DEF Set, StartResize, StartSet
  <2> QED  BY <1>1, <2>1, SameArray, WholeArray DEF IInv
<1>3. CASE MustGrow /\ StartResize(nbuckets * 2 ^ GrowPower)
  <2>1. pc' = "resize" /\ i' = 0 /\ NewSize' = nbuckets * 2 ^ GrowPower
        /\ buckets2' = EmptyBuckets(NewSize')
    BY <1>1, <1>3 DEF StartResize, NewSize
  <2>2. count < GrowAt(NewSize') /\ NewSize' \in Sizes
    <3>1. NewSize' \in Doubled(cap) /\ NewSize' >= 2 * nbuckets
      BY <2>1, GrownSize DEF IInv, SizesOK
    <3>2. NewSize' \in Sizes
      BY <3>1, DoubledIs DEF IInv, SizesOK
    <3> QED  BY <1>2, <1>3, <3>1, <3>2, Limits DEF MustGrow, IInv, SizesOK
  <2>3. SizesOK'
    BY <1>1, <2>1, <2>2 DEF IInv, SizesOK
  <2>4. ResizeOK'
    BY <1>1, <1>2, <2>1, <2>2, ResizeBegins
  <2>5. CallOK'
    BY <1>1, <2>1 DEF CallOK, Deleting
  <2> QED  BY <1>2, <2>1, <2>3, <2>4, <2>5 DEF IInv, SetOK, FindOK, ShiftOK, MoveOK
<1>4. CASE ~MustGrow /\ StartSet(x, nbuckets)
  <2>1. pc' = "set" /\ entry' = EntryOf(x) /\ i' = Home(x, nbuckets)
    BY <1>4 DEF StartSet
  <2>2. SizesOK'
    <3>1. count < growat
      BY <1>1, <1>4, SizesFacts DEF MustGrow, IInv, SizesOK
    <3> QED  BY <1>1, <2>1, <3>1 DEF IInv, SizesOK
  <2>3. SetOK'
    BY <1>1, <1>2, <2>1, SetBegins DEF SetOK
  <2>4. CallOK'
    BY <1>1, <2>1 DEF CallOK, Deleting
  <2> QED  BY <1>2, <2>1, <2>2, <2>3, <2>4 DEF IInv, FindOK, ShiftOK, ResizeOK, MoveOK
<1> QED  BY <1>3, <1>4 DEF Set

\* A get or delete begins at the home of its key.
LEMMA FindKeeps ==
  ASSUME IInv, NEW x \in Items, Get(x) \/ Delete(x)
  PROVE  IInv'
<1>1. /\ pc = "idle" /\ pc' = "find" /\ op' \in {"get", "delete"} /\ item' = x /\ spare' = NULL
      /\ i' = Home(x, nbuckets)
      /\ UNCHANGED <<buckets, nbuckets, cap, growat, shrinkat, count>>
  BY DEF Get, Delete, StartFind, sizes, IInv, CallOK, NoCall
<1>2. ArrayOK' /\ Good(buckets, nbuckets) /\ nbuckets \in Sizes
  BY <1>1, SameArray, WholeArray DEF IInv
<1>3. FindOK'
  <2>1. 1 \in Distances /\ i' = Place(x, 1, nbuckets) /\ NoneBefore(buckets, x, 1)
    BY <1>1, <1>2, SetBegins DEF Distances
  <2> QED  BY <1>1, <2>1 DEF FindOK
<1>4. SizesOK'
  BY <1>1 DEF IInv, SizesOK
<1>5. CallOK'
  BY <1>1 DEF CallOK, Deleting
<1> QED  BY <1>1, <1>2, <1>3, <1>4, <1>5 DEF IInv, SetOK, ShiftOK, ResizeOK, MoveOK

\* A cleared map is empty.
LEMMA ClearKeeps ==
  ASSUME IInv, NEW n \in {nbuckets, cap}, Clear(n)
  PROVE  IInv'
<1>1. n \in Sizes /\ n \in Doubled(n)
  BY SizesFacts, DoubledIs DEF IInv, SizesOK
<1>2. /\ Good(buckets', n) /\ Full(buckets') = {} /\ Ordered(buckets', n, {})
      /\ nbuckets' = n /\ count' = 0
  BY <1>1, EmptyArray DEF Clear
<1>3. pc = "idle" /\ pc' = "idle" /\ NoCall /\ NoCall' /\ Hole' = {}
  BY DEF Clear, IInv, CallOK, NoCall, locals, Hole
<1>4. ArrayOK'
  <2>1. Full(buckets') \ {} = {} /\ UniqueIn(buckets', (0 .. n - 1) \ {})
    BY <1>2 DEF UniqueIn
  <2> QED  BY <1>2, <1>3, <2>1, FS_EmptySet DEF ArrayOK
<1>5. SizesOK'
  <2>1. ClearGrowAt(n) \in Nat
    BY <1>1, Limits
  <2> QED  BY <1>1, <1>3, <2>1 DEF SizesOK, Clear
<1>6. CallOK'
  BY <1>3 DEF CallOK, Deleting, NoCall
<1> QED  BY <1>3, <1>4, <1>5, <1>6 DEF IInv, SetOK, FindOK, ShiftOK, ResizeOK, MoveOK

-----------------------------------------------------------------------------
(* The loop of a set *)

\* An entry whose key is nowhere takes an empty bucket: one item more.
LEMMA PlaceEntry ==
  ASSUME NEW n \in Sizes, NEW bs, Good(bs, n), Ordered(bs, n, {}), UniqueIn(bs, 0 .. n - 1),
         NEW e, NEW b \in (0 .. n - 1) \ Full(bs), Fits(e, b, bs, n), NoneWith(bs, e.item)
  PROVE  LET bs2 == [bs EXCEPT ![b] = e]
         IN /\ Good(bs2, n) /\ Ordered(bs2, n, {}) /\ UniqueIn(bs2, 0 .. n - 1)
            /\ Cardinality(Full(bs2)) = Cardinality(Full(bs)) + 1
            /\ ItemsIn(bs2, DOMAIN bs2) = ItemsIn(bs, DOMAIN bs) \cup {e.item}
            /\ \A x : NoneWith(bs, x) /\ ~SameKey(e.item, x) => NoneWith(bs2, x)
<1> DEFINE bs2 == [bs EXCEPT ![b] = e]
<1>1. b \in 0 .. n - 1 /\ bs[b].dib <= e.dib /\ DOMAIN bs = 0 .. n - 1
  BY GoodArray DEF Fits, Entries, Distances
<1>2. /\ Good(bs2, n) /\ Ordered(bs2, n, {}) /\ Full(bs2) = Full(bs) \cup {b}
      /\ bs2[b] = e /\ \A c \in (0 .. n - 1) \ {b} : bs2[c] = bs[c]
  <2>1. LET t == [bs EXCEPT ![b] = e]
        IN /\ Good(t, n) /\ Ordered(t, n, {}) /\ Full(t) = Full(bs) \cup {b}
           /\ t[b] = e /\ \A c \in (0 .. n - 1) \ {b} : t[c] = bs[c]
    BY <1>1, TakeBucket
  <2> QED  BY <2>1
<1> HIDE DEF bs2
<1>3. /\ DOMAIN bs = 0 .. n - 1 /\ DOMAIN bs2 = 0 .. n - 1
      /\ Full(bs) \subseteq 0 .. n - 1 /\ b \notin Full(bs)
  BY <1>2, GoodArray
<1>4. UniqueIn(bs2, 0 .. n - 1)
  BY <1>2, <1>3 DEF UniqueIn, NoneWith, SameKey
<1>5. Cardinality(Full(bs2)) = Cardinality(Full(bs)) + 1
  <2> DEFINE S == Full(bs)
  <2>1. IsFiniteSet(S) /\ b \notin S /\ Full(bs2) = S \cup {b}
    BY <1>2, <1>3, FullCount
  <2> HIDE DEF S
  <2> QED  BY <2>1, FS_AddElement DEF S
<1>6. ItemsIn(bs2, DOMAIN bs2) = ItemsIn(bs, DOMAIN bs) \cup {e.item}
  BY <1>2, <1>3 DEF ItemsIn
<1>7. \A x : NoneWith(bs, x) /\ ~SameKey(e.item, x) => NoneWith(bs2, x)
  BY <1>2, <1>3 DEF NoneWith
<1> QED  BY <1>2, <1>4, <1>5, <1>6, <1>7 DEF bs2

\* In a bucket at which the probe for entry ends, its key is nowhere.
LEMMA ProbeEnds ==
  ASSUME NEW n \in Sizes, NEW bs, Good(bs, n), Ordered(bs, n, {}), NEW b,
         Fits(entry, b, bs, n), NoneBefore(bs, entry.item, entry.dib), bs[b].dib = 0
  PROVE  NoneWith(bs, entry.item)
<1>1. entry.dib \in Distances /\ entry.item \in Items /\ b = Place(entry.item, entry.dib, n)
  BY DEF Fits, Entries
<1>2. bs[b].dib < entry.dib
  BY <1>1 DEF Distances
<1> QED  BY <1>1, <1>2, ProbeTells

\* What a set carries is in its place.
LEMMA SetFacts ==
  ASSUME IInv, pc = "set"
  PROVE  /\ i \in 0 .. nbuckets - 1 /\ Fits(entry, i, buckets, nbuckets)
         /\ NoneBefore(buckets, entry.item, entry.dib)
         /\ entry \in Entries /\ entry.item \in Items /\ item \in Items /\ op = "set"
         /\ count \in Nat /\ count < growat /\ growat \in Nat /\ spare = NULL
<1>1. Fits(entry, i, buckets, nbuckets) /\ NoneBefore(buckets, entry.item, entry.dib)
  BY DEF IInv, SetOK
<1>2. entry \in Entries /\ entry.item \in Items /\ entry.dib \in Distances
      /\ Place(entry.item, entry.dib, nbuckets) = i
  BY <1>1 DEF Fits, Entries
<1>3. nbuckets \in Sizes /\ growat \in Nat /\ count \in Nat /\ count < growat
  BY SizesFacts DEF IInv, SizesOK
<1>4. i \in 0 .. nbuckets - 1
  BY <1>2, <1>3, Places
<1> QED  BY <1>1, <1>2, <1>3, <1>4 DEF IInv, CallOK, Deleting

\* A set that places its entry adds an item.
LEMMA SetPlacesKeeps ==
  ASSUME IInv, SetPlaces
  PROVE  IInv'
<1>1. pc = "set" /\ buckets[i].dib = 0 /\ Return(NULL) /\ pc' = "idle" /\ Hole' = {}
      /\ count' = count + 1 /\ UNCHANGED <<nbuckets, cap, growat, shrinkat>>
  BY DEF SetPlaces, Return, sizes, Hole
<1>2. NoneWith(buckets, entry.item)
  BY <1>1, WholeArray, SetFacts, ProbeEnds
<1> DEFINE bs2 == [buckets EXCEPT ![i] = entry]
<1>3. /\ Good(bs2, nbuckets) /\ Ordered(bs2, nbuckets, {}) /\ UniqueIn(bs2, 0 .. nbuckets - 1)
      /\ Cardinality(Full(bs2)) = Cardinality(Full(buckets)) + 1
  <2>1. LET t == [buckets EXCEPT ![i] = entry]
        IN /\ Good(t, nbuckets) /\ Ordered(t, nbuckets, {}) /\ UniqueIn(t, 0 .. nbuckets - 1)
           /\ Cardinality(Full(t)) = Cardinality(Full(buckets)) + 1
    <3>1. i \in (0 .. nbuckets - 1) \ Full(buckets) /\ Fits(entry, i, buckets, nbuckets)
      BY <1>1, SetFacts DEF Full
    <3>2. /\ nbuckets \in Sizes /\ Good(buckets, nbuckets) /\ Ordered(buckets, nbuckets, {})
          /\ UniqueIn(buckets, 0 .. nbuckets - 1)
      BY <1>1, WholeArray
    <3> QED  BY <1>2, <3>1, <3>2, PlaceEntry
  <2> QED  BY <2>1
<1>4. buckets' = bs2
  BY DEF SetPlaces
<1> HIDE DEF bs2
<1>5. ArrayOK'
  <2>1. Full(bs2) \ {} = Full(bs2) /\ (0 .. nbuckets - 1) \ {} = 0 .. nbuckets - 1
    OBVIOUS
  <2>2. Cardinality(Full(buckets)) = count
    BY <1>1, WholeArray
  <2> QED  BY <1>1, <1>3, <1>4, <2>1, <2>2 DEF ArrayOK
<1>6. SizesOK'
  <2>1. count + 1 \in Nat /\ count + 1 <= growat
    BY <1>1, SetFacts
  <2> QED  BY <1>1, <2>1 DEF SizesOK, IInv
<1> QED  BY <1>1, <1>5, <1>6, Returns

\* The other item of the same key has the same place.
LEMMA SetReplacesKeeps ==
  ASSUME IInv, SetReplaces
  PROVE  IInv'
<1>1. /\ pc = "set" /\ Holds(i, entry.item) /\ Return(buckets[i].item) /\ pc' = "idle" /\ Hole' = {}
      /\ UNCHANGED <<count, nbuckets, cap, growat, shrinkat>>
  BY DEF SetReplaces, Return, sizes, Hole
<1> DEFINE n == nbuckets
           bs2 == [buckets EXCEPT ![i].item = entry.item]
<1>2. /\ n \in Sizes /\ Good(buckets, n) /\ Ordered(buckets, n, {}) /\ UniqueIn(buckets, 0 .. n - 1)
      /\ Full(buckets) \subseteq 0 .. n - 1 /\ DOMAIN buckets = 0 .. n - 1
      /\ Cardinality(Full(buckets)) = count
  BY <1>1, WholeArray
<1>3. /\ i \in 0 .. n - 1 /\ entry.item \in Items
      /\ i \in Full(buckets) /\ SameKey(buckets[i].item, entry.item)
  BY <1>1, <1>2, SetFacts DEF Holds, Full
<1>4. buckets[i] \in [dib : Nat, item : Items \cup {NULL}] /\ buckets \in Arrays(n)
  BY <1>2, <1>3 DEF Good, Arrays
<1>5. /\ bs2 \in Arrays(n) /\ DOMAIN bs2 = 0 .. n - 1
      /\ bs2[i].dib = buckets[i].dib /\ bs2[i].item = entry.item
      /\ \A c \in (0 .. n - 1) \ {i} : bs2[c] = buckets[c]
  BY <1>3, <1>4 DEF Arrays
<1>6. buckets' = bs2
  BY DEF SetReplaces
<1> HIDE DEF bs2, n
<1>7. /\ Full(bs2) = Full(buckets)
      /\ \A c \in 0 .. n - 1 : bs2[c].dib = buckets[c].dib
  BY <1>2, <1>5 DEF Full
<1>8. Good(bs2, n)
  <2>1. ASSUME NEW b \in Full(bs2)
        PROVE  bs2[b].item \in Items /\ Place(bs2[b].item, bs2[b].dib, n) = b
    BY <1>2, <1>3, <1>5, <1>7 DEF Good, Place, Home, SameKey
  <2> QED  BY <1>5, <2>1 DEF Good
<1>9. Ordered(bs2, n, {})
  BY <1>2, <1>7, FollowingOne DEF Ordered
<1>10. UniqueIn(bs2, 0 .. n - 1)
  BY <1>2, <1>3, <1>5, <1>7 DEF UniqueIn, SameKey
<1>11. ArrayOK'
  <2>1. Full(bs2) \ {} = Full(bs2) /\ (0 .. n - 1) \ {} = 0 .. n - 1
    OBVIOUS
  <2> QED  BY <1>1, <1>2, <1>6, <1>7, <1>8, <1>9, <1>10, <2>1 DEF ArrayOK, n
<1>12. SizesOK'
  <2>1. count <= growat
    BY <1>1, SetFacts
  <2> QED  BY <1>1, <2>1 DEF SizesOK, IInv
<1> QED  BY <1>1, <1>11, <1>12, Returns

\* A set that runs out of memory leaves all there is.
LEMMA SetOutOfMemoryKeeps ==
  ASSUME IInv, SetOutOfMemory
  PROVE  IInv'
<1>1. UNCHANGED <<buckets, nbuckets, cap, growat, shrinkat, count, pc, op, item, entry, i, buckets2, j, spare>>
  BY DEF SetOutOfMemory, sizes, locals
<1>2. CallOK' /\ SizesOK'
  BY <1>1 DEF IInv, CallOK, SizesOK, NoCall, Deleting, Hole, NewSize
<1>3. pc' = "idle" /\ ArrayOK'
  BY <1>1 DEF SetOutOfMemory, IInv, ArrayOK, Hole
<1> QED  BY <1>2, <1>3 DEF IInv, SetOK, FindOK, ShiftOK, ResizeOK, MoveOK

\* A set that goes on carries an entry that fits the next bucket.
LEMMA SetPassesKeeps ==
  ASSUME IInv, SetPasses
  PROVE  IInv'
<1> DEFINE n == nbuckets
           bs2 == [buckets EXCEPT ![i] = Stays(@)]
           e == Carried(buckets[i])
<1>1. /\ pc = "set" /\ pc' = "set" /\ Hole' = {}
      /\ buckets' = bs2 /\ entry' = e /\ i' = Following(i, n)
      /\ UNCHANGED <<count, nbuckets, cap, growat, shrinkat, op, item, spare>>
  BY DEF SetPasses, fields, sizes, Hole
<1>2. /\ n \in Sizes /\ Good(buckets, n) /\ Ordered(buckets, n, {}) /\ UniqueIn(buckets, 0 .. n - 1)
      /\ Full(buckets) \subseteq 0 .. n - 1 /\ Cardinality(Full(buckets)) = count
  BY <1>1, WholeArray
<1>3. /\ Fits(entry, i, buckets, n) /\ NoneBefore(buckets, entry.item, entry.dib)
      /\ i \in 0 .. n - 1 /\ i \in Full(buckets) /\ ~SameKey(buckets[i].item, entry.item)
      /\ DOMAIN buckets = 0 .. n - 1
  BY <1>1, <1>2, SetFacts, GoodArray DEF SetPasses, Passes, Full
<1>4. /\ Good(bs2, n) /\ Ordered(bs2, n, {}) /\ Full(bs2) = Full(buckets)
      /\ Fits(e, Following(i, n), bs2, n)
  <2>1. LET t == [buckets EXCEPT ![i] = Stays(@)]
        IN /\ Good(t, n) /\ Ordered(t, n, {}) /\ Full(t) = Full(buckets)
           /\ t[i] = Stays(buckets[i]) /\ \A c \in (0 .. n - 1) \ {i} : t[c] = buckets[c]
           /\ Fits(Carried(buckets[i]), Following(i, n), t, n)
    BY <1>2, <1>3, PassBucket
  <2> QED  BY <2>1
<1>5. \/ bs2 = buckets /\ e.item = entry.item /\ NoneBefore(buckets, entry.item, e.dib)
      \/ /\ NoneWith(buckets, entry.item) /\ e.item = buckets[i].item /\ bs2[i] = entry
         /\ \A c \in (0 .. n - 1) \ {i} : bs2[c] = buckets[c]
         /\ Full(bs2) = Full(buckets)
         /\ NoneWith(bs2, e.item) /\ UniqueIn(bs2, 0 .. n - 1)
  <2>1. LET t == [buckets EXCEPT ![i] = Stays(@)]
            u == Carried(buckets[i])
        IN \/ t = buckets /\ u.item = entry.item /\ NoneBefore(buckets, entry.item, u.dib)
           \/ /\ NoneWith(buckets, entry.item) /\ u.item = buckets[i].item /\ t[i] = entry
              /\ \A c \in (0 .. n - 1) \ {i} : t[c] = buckets[c]
              /\ Full(t) = Full(buckets)
              /\ NoneWith(t, u.item) /\ UniqueIn(t, 0 .. n - 1)
    BY <1>2, <1>3, PassKeys
  <2> QED  BY <2>1
<1>6. /\ e.dib \in Nat
      /\ \/ entry.item = item
         \/ /\ ~SameKey(entry.item, item) /\ NoneWith(buckets, entry.item)
            /\ \E b \in Full(buckets) : buckets[b].item = item
  BY <1>1, <1>4 DEF IInv, SetOK, Fits, Entries, Distances
<1> HIDE DEF bs2, e
<1>7. ArrayOK'
  <2>1. Full(bs2) \ {} = Full(bs2) /\ (0 .. n - 1) \ {} = 0 .. n - 1
    OBVIOUS
  <2>2. UniqueIn(bs2, 0 .. n - 1)
    BY <1>2, <1>5
  <2> QED  BY <1>1, <1>2, <1>4, <2>1, <2>2 DEF ArrayOK
<1>8. SetOK'
  <2>1. NoneBefore(bs2, e.item, e.dib)
    BY <1>5 DEF NoneBefore, NoneWith
  <2>2. \/ e.item = item
        \/ /\ ~SameKey(e.item, item) /\ NoneWith(bs2, e.item)
           /\ \E b \in Full(bs2) : bs2[b].item = item
    <3>1. CASE bs2 = buckets /\ e.item = entry.item
      BY <1>6, <3>1
    <3>2. CASE /\ e.item = buckets[i].item /\ bs2[i] = entry
               /\ \A c \in (0 .. n - 1) \ {i} : bs2[c] = buckets[c]
               /\ Full(bs2) = Full(buckets) /\ NoneWith(bs2, e.item) /\ e.item # item
      <4>1. CASE entry.item = item
        BY <1>3, <3>2, <4>1
      <4>2. ASSUME NEW b \in Full(buckets), buckets[b].item = item
            PROVE  ~SameKey(e.item, item) /\ b \in Full(bs2) /\ bs2[b].item = item
        BY <1>2, <1>3, <3>2, <4>2 DEF UniqueIn
      <4> QED  BY <1>6, <3>2, <4>1, <4>2
    <3> QED  BY <1>5, <3>1, <3>2
  <2> QED  BY <1>1, <1>4, <2>1, <2>2 DEF SetOK
<1>9. CallOK' /\ SizesOK'
  BY <1>1 DEF IInv, CallOK, SizesOK, Deleting
<1> QED  BY <1>1, <1>7, <1>8, <1>9 DEF IInv, FindOK, ShiftOK, ResizeOK, MoveOK

-----------------------------------------------------------------------------
(* The loops of a get and a delete *)

\* The bucket a probe is at, and what an empty one tells.
LEMMA FindFacts ==
  ASSUME IInv, pc = "find"
  PROVE  /\ i \in 0 .. nbuckets - 1 /\ item \in Items
         /\ buckets[i].dib = 0 => NoneWith(buckets, item)
         /\ count \in Nat /\ count <= growat /\ spare = NULL /\ op \in {"get", "delete"}
<1>1. PICK d \in Distances : i = Place(item, d, nbuckets) /\ NoneBefore(buckets, item, d)
  BY DEF IInv, FindOK
<1>2. item \in Items /\ spare = NULL /\ op \in {"get", "delete"} /\ count \in Nat /\ count <= growat
  BY DEF IInv, CallOK, SizesOK, Deleting
<1>3. i \in 0 .. nbuckets - 1
  BY <1>1, <1>2, WholeArray, Places
<1>4. ASSUME buckets[i].dib = 0 PROVE NoneWith(buckets, item)
  <2>1. buckets[i].dib < d
    BY <1>4 DEF Distances
  <2> QED  BY <1>1, <1>2, <2>1, WholeArray, ProbeTells
<1> QED  BY <1>2, <1>3, <1>4

\* A probe that goes on has not passed its key.
LEMMA FindPassesKeeps ==
  ASSUME IInv, FindPasses
  PROVE  IInv'
<1>1. /\ pc = "find" /\ pc' = "find" /\ i' = Following(i, nbuckets)
      /\ UNCHANGED <<buckets, count, nbuckets, cap, growat, shrinkat, op, item, spare>>
  BY DEF FindPasses, fields, sizes
<1>2. FindOK'
  <2>1. PICK d \in Distances : i = Place(item, d, nbuckets) /\ NoneBefore(buckets, item, d)
    BY <1>1 DEF IInv, FindOK
  <2>2. item \in Items /\ nbuckets \in Sizes
    BY <1>1, FindFacts, WholeArray
  <2>3. d + 1 \in Distances /\ i' = Place(item, d + 1, nbuckets)
    BY <1>1, <2>1, <2>2, Places DEF Distances
  <2>4. NoneBefore(buckets, item, d + 1)
    <3>1. buckets[i].dib > 0 /\ ~SameKey(buckets[i].item, item)
      BY DEF FindPasses, Passes
    <3> QED  BY <1>1, <2>1, <2>2, <3>1, WholeArray, ProbeTells
  <2> QED  BY <1>1, <2>3, <2>4 DEF FindOK
<1>3. CallOK' /\ SizesOK' /\ ArrayOK'
  BY <1>1 DEF IInv, CallOK, SizesOK, Deleting, ArrayOK, Hole
<1> QED  BY <1>1, <1>2, <1>3 DEF IInv, SetOK, ShiftOK, ResizeOK, MoveOK

\* A call that found its item or the lack of it returns.
LEMMA FindReturnsKeeps ==
  ASSUME IInv, FindFails \/ GetReturns
  PROVE  IInv'
<1>1. /\ pc = "find" /\ pc' = "idle" /\ \E x : Return(x)
      /\ UNCHANGED <<buckets, count, nbuckets, cap, growat, shrinkat>>
  BY DEF FindFails, GetReturns, Return, sizes
<1>2. ArrayOK'
  BY <1>1, SameArray DEF IInv
<1>3. SizesOK'
  BY <1>1 DEF IInv, SizesOK
<1> QED  BY <1>1, <1>2, <1>3, Returns

\* A delete takes its item out of the bucket, which becomes the hole.
LEMMA DeleteFindsKeeps ==
  ASSUME IInv, DeleteFinds
  PROVE  IInv'
<1> DEFINE n == nbuckets
           bs2 == [buckets EXCEPT ![i] = Empty]
<1>1. /\ pc = "find" /\ pc' = "shift" /\ op = "delete" /\ Holds(i, item) /\ Hole' = {i}
      /\ spare' = buckets[i].item /\ buckets' = bs2
      /\ UNCHANGED <<count, nbuckets, cap, growat, shrinkat, op, item, i>>
  BY DEF DeleteFinds, sizes, Hole
<1>2. /\ n \in Sizes /\ Good(buckets, n) /\ Ordered(buckets, n, {}) /\ UniqueIn(buckets, 0 .. n - 1)
      /\ Full(buckets) \subseteq 0 .. n - 1 /\ Cardinality(Full(buckets)) = count
      /\ DOMAIN buckets = 0 .. n - 1
  BY <1>1, WholeArray
<1>3. /\ i \in Full(buckets) /\ i \in 0 .. n - 1 /\ SameKey(buckets[i].item, item)
      /\ buckets[i].item \in Items /\ item \in Items
  BY <1>1, <1>2, FindFacts DEF Holds, Full, Good
<1>4. /\ bs2 \in Arrays(n) /\ bs2[i] = Empty /\ Empty.dib = 0
      /\ DOMAIN bs2 = 0 .. n - 1
      /\ \A c \in (0 .. n - 1) \ {i} : bs2[c] = buckets[c]
  BY <1>2, <1>3 DEF Good, Arrays, Empty
<1> HIDE DEF bs2
<1>5. Full(bs2) = Full(buckets) \ {i} /\ Full(bs2) \ {i} = Full(bs2)
  BY <1>2, <1>4 DEF Full
<1>6. Good(bs2, n)
  BY <1>2, <1>4, <1>5 DEF Good
<1>7. \A c \in 0 .. n - 1 : buckets[c].dib \in Nat /\ bs2[c].dib \in Nat /\ bs2[c].dib <= buckets[c].dib
  <2>1. \A c \in 0 .. n - 1 : buckets[c].dib \in Nat
    BY <1>2, GoodArray
  <2> QED  BY <1>4, <2>1
<1>8. ArrayOK'
  <2>1. Ordered(bs2, n, {i})
    <3> SUFFICES ASSUME NEW b \in (0 .. n - 1) \ {i}
                 PROVE  bs2[Following(b, n)].dib <= bs2[b].dib + 1
      BY DEF Ordered
    <3>1. Following(b, n) \in 0 .. n - 1 /\ buckets[Following(b, n)].dib <= buckets[b].dib + 1
      BY <1>2, FollowingOne DEF Ordered
    <3> QED  BY <1>4, <1>7, <3>1
  <2>2. UniqueIn(bs2, (0 .. n - 1) \ {i})
    BY <1>2, <1>4, <1>5 DEF UniqueIn
  <2>3. Cardinality(Full(bs2)) = count - 1
    BY <1>2, <1>3, <1>5, FullCount, FS_RemoveElement
  <2> QED  BY <1>1, <1>5, <1>6, <2>1, <2>2, <2>3 DEF ArrayOK
<1>9. ShiftOK'
  <2>1. NextBucket' = bs2[Following(i, n)] /\ Following(i, n) \in 0 .. n - 1 /\ Following(i, n) # i
    BY <1>1, <1>2, <1>3, FollowingOne DEF NextBucket
  <2>2. ASSUME NEW b \in 0 .. n - 1, Following(b, n) = i
        PROVE  bs2[Following(i, n)].dib <= bs2[b].dib + 2
    <3>1. b # i
      BY <2>1, <2>2
    <3>2. /\ buckets[i].dib <= buckets[b].dib + 1 /\ bs2[b] = buckets[b]
          /\ buckets[Following(i, n)].dib <= buckets[i].dib + 1
          /\ bs2[Following(i, n)] = buckets[Following(i, n)]
      BY <1>2, <1>3, <1>4, <2>1, <2>2, <3>1 DEF Ordered
    <3>3. buckets[i].dib \in Nat /\ buckets[b].dib \in Nat /\ buckets[Following(i, n)].dib \in Nat
      BY <1>3, <1>7, <2>1
    <3> QED  BY <3>2, <3>3
  <2> QED  BY <1>1, <1>3, <2>1, <2>2 DEF ShiftOK
<1>10. CallOK'
  <2>1. \A b \in Full(bs2) : ~SameKey(bs2[b].item, buckets[i].item)
    BY <1>2, <1>3, <1>4, <1>5 DEF UniqueIn
  <2> QED  BY <1>1, <1>3, <1>5, <2>1 DEF CallOK, Deleting
<1>11. SizesOK'
  BY <1>1 DEF IInv, SizesOK
<1> QED  BY <1>1, <1>8, <1>9, <1>10, <1>11 DEF IInv, SetOK, FindOK, ResizeOK, MoveOK

-----------------------------------------------------------------------------
(* The shift of a delete *)

\* The map around the hole.
LEMMA ShiftFacts ==
  ASSUME IInv, pc = "shift"
  PROVE  /\ Hole = {i} /\ nbuckets \in Sizes /\ i \in 0 .. nbuckets - 1
         /\ Good(buckets, nbuckets) /\ Ordered(buckets, nbuckets, {i})
         /\ UniqueIn(buckets, (0 .. nbuckets - 1) \ {i})
         /\ Full(buckets) \subseteq 0 .. nbuckets - 1 /\ DOMAIN buckets = 0 .. nbuckets - 1
         /\ \A b \in 0 .. nbuckets - 1 : buckets[b].dib \in Nat
         /\ IsFiniteSet(Full(buckets) \ {i}) /\ Cardinality(Full(buckets) \ {i}) = count - 1
         /\ count - 1 \in Nat /\ count - 1 < growat
         /\ Following(i, nbuckets) \in 0 .. nbuckets - 1 /\ Following(i, nbuckets) # i
         /\ op = "delete" /\ item \in Items /\ spare \in Items /\ SameKey(spare, item)
         /\ \A b \in Full(buckets) \ {i} : ~SameKey(buckets[b].item, spare)
<1>1. Hole = {i} /\ nbuckets \in Sizes /\ i \in 0 .. nbuckets - 1
  BY SizesFacts DEF IInv, Hole, ShiftOK
<1>2. /\ Good(buckets, nbuckets) /\ Ordered(buckets, nbuckets, {i})
      /\ UniqueIn(buckets, (0 .. nbuckets - 1) \ {i})
      /\ Cardinality(Full(buckets) \ {i}) = count - 1
  BY <1>1 DEF IInv, ArrayOK
<1>3. IsFiniteSet(Full(buckets) \ {i})
  BY <1>1, <1>2, FullCount
<1>4. count - 1 \in Nat /\ count - 1 < growat
  <2>1. count - 1 \in Nat
    BY <1>2, <1>3, FS_CardinalityType
  <2>2. count \in Nat /\ growat \in Nat /\ count <= growat
    BY SizesFacts DEF IInv, SizesOK
  <2> QED  BY <2>1, <2>2
<1>5. /\ op = "delete" /\ item \in Items /\ spare \in Items /\ SameKey(spare, item)
      /\ \A b \in Full(buckets) \ {i} : ~SameKey(buckets[b].item, spare)
  BY <1>1 DEF IInv, CallOK, Deleting
<1> QED  BY <1>1, <1>2, <1>3, <1>4, <1>5, GoodArray, FollowingOne

\* An item that moves up leaves a hole.
LEMMA ShiftKeeps ==
  ASSUME IInv, Shift
  PROVE  IInv'
<1> DEFINE n == nbuckets
           f == Following(i, n)
           e == [buckets[f] EXCEPT !.dib = @ - 1]
           bs2 == [buckets EXCEPT ![i] = e]
<1>1. /\ pc = "shift" /\ pc' = "shift" /\ buckets[f].dib > 1 /\ i' = f /\ Hole' = {f}
      /\ buckets' = bs2
      /\ UNCHANGED <<count, nbuckets, cap, growat, shrinkat, op, item, spare>>
  BY DEF Shift, fields, sizes, Hole, NextBucket
<1>2. /\ n \in Sizes /\ i \in 0 .. n - 1 /\ f \in 0 .. n - 1 /\ f # i
      /\ Good(buckets, n) /\ Ordered(buckets, n, {i}) /\ UniqueIn(buckets, (0 .. n - 1) \ {i})
      /\ Full(buckets) \subseteq 0 .. n - 1 /\ DOMAIN buckets = 0 .. n - 1
      /\ \A b \in 0 .. n - 1 : buckets[b].dib \in Nat
  BY <1>1, ShiftFacts
<1>3. f \in Full(buckets) /\ buckets[f] \in Entries
  <2>1. f \in Full(buckets)
    BY <1>1, <1>2 DEF Full
  <2> HIDE DEF f
  <2> QED  BY <1>2, <2>1, GoodArray
<1>4. e \in Entries /\ e.dib = buckets[f].dib - 1 /\ e.item = buckets[f].item
  BY <1>1, <1>3 DEF Entries, Distances
<1> HIDE DEF e
<1>5. /\ e \in [dib : Nat, item : Items \cup {NULL}] /\ buckets \in Arrays(n)
      /\ e.dib \in Distances /\ e.dib \in Nat /\ e.item \in Items /\ e.dib + 1 = buckets[f].dib
  BY <1>2, <1>4 DEF Entries, Distances, Good
<1>6. /\ bs2 \in Arrays(n) /\ bs2[i] = e /\ DOMAIN bs2 = 0 .. n - 1
      /\ \A c \in (0 .. n - 1) \ {i} : bs2[c] = buckets[c]
  BY <1>2, <1>5 DEF Arrays
<1> HIDE DEF bs2
<1>7. Full(bs2) = Full(buckets) \cup {i}
  BY <1>2, <1>5, <1>6 DEF Full, Distances
<1>8. Place(e.item, e.dib, n) = i
  <2>1. f = Place(e.item, e.dib + 1, n)
    BY <1>2, <1>3, <1>4, <1>5 DEF Good
  <2> QED  BY <1>2, <1>5, <2>1, Places
<1>9. Good(bs2, n)
  BY <1>2, <1>5, <1>6, <1>7, <1>8 DEF Good
<1>10. Ordered(bs2, n, {f})
  <2> SUFFICES ASSUME NEW b \in (0 .. n - 1) \ {f}
               PROVE  bs2[Following(b, n)].dib <= bs2[b].dib + 1
    BY DEF Ordered
  <2>1. Following(b, n) \in 0 .. n - 1 /\ Following(b, n) # b
    BY <1>2, FollowingOne
  <2>2. CASE b = i
    BY <1>2, <1>5, <1>6, <2>2
  <2>3. CASE Following(b, n) = i
    <3>1. buckets[f].dib <= buckets[b].dib + 2
      BY <1>1, <2>3 DEF IInv, ShiftOK, NextBucket
    <3> QED  BY <1>2, <1>5, <1>6, <2>1, <2>3, <3>1
  <2>4. CASE b # i /\ Following(b, n) # i
    BY <1>2, <1>6, <2>1, <2>4 DEF Ordered
  <2> QED  BY <2>2, <2>3, <2>4
<1>11. UniqueIn(bs2, (0 .. n - 1) \ {f})
  BY <1>2, <1>3, <1>4, <1>6, <1>7 DEF UniqueIn, SameKey
<1>12. Cardinality(Full(bs2) \ {f}) = count - 1
  <2> DEFINE S == Full(buckets) \ {i}
             T == S \ {f}
  <2>1. IsFiniteSet(S) /\ Cardinality(S) = count - 1 /\ count \in Nat
    BY <1>1, ShiftFacts, SizesFacts DEF IInv
  <2>2. f \in S /\ i \notin T /\ Full(bs2) \ {f} = T \cup {i}
    BY <1>2, <1>3, <1>7
  <2> HIDE DEF S
  <2>3. IsFiniteSet(T) /\ Cardinality(T) = (count - 1) - 1
    BY <2>1, <2>2, FS_RemoveElement
  <2> HIDE DEF T
  <2>4. Cardinality(T \cup {i}) = Cardinality(T) + 1
    BY <2>2, <2>3, FS_AddElement
  <2> QED  BY <2>1, <2>2, <2>3, <2>4
<1>13. ArrayOK'
  BY <1>1, <1>9, <1>10, <1>11, <1>12 DEF ArrayOK
<1>14. ShiftOK'
  <2> DEFINE g == Following(f, n)
  <2>1. g \in 0 .. n - 1 /\ NextBucket' = bs2[g]
    BY <1>1, <1>2, FollowingOne DEF NextBucket
  <2>2. ASSUME NEW b \in 0 .. n - 1, Following(b, n) = f
        PROVE  bs2[g].dib <= bs2[b].dib + 2
    <3>1. b = i
      BY <1>2, <2>2, FollowingOne DEF Sizes
    <3>2. CASE g = i
      BY <1>5, <1>6, <3>1, <3>2
    <3>3. CASE g # i
      <4>1. buckets[g].dib <= buckets[f].dib + 1 /\ bs2[g] = buckets[g]
        BY <1>2, <1>6, <2>1, <3>3 DEF Ordered
      <4>2. buckets[g].dib \in Nat /\ buckets[f].dib = e.dib + 1
        BY <1>2, <1>5, <2>1
      <4> QED  BY <1>5, <1>6, <3>1, <4>1, <4>2
    <3> QED  BY <3>2, <3>3
  <2> QED  BY <1>1, <1>2, <2>1, <2>2 DEF ShiftOK
<1>15. CallOK'
  <2>1. ASSUME NEW b \in Full(bs2) \ {f} PROVE ~SameKey(bs2[b].item, spare)
    <3>1. \A c \in Full(buckets) \ {i} : ~SameKey(buckets[c].item, spare)
      BY <1>1, ShiftFacts
    <3> QED  BY <1>2, <1>3, <1>4, <1>6, <1>7, <2>1, <3>1
  <2>2. op = "delete" /\ item \in Items /\ spare \in Items /\ SameKey(spare, item)
    BY <1>1, ShiftFacts
  <2> QED  BY <1>1, <2>1, <2>2 DEF CallOK, Deleting
<1>16. SizesOK'
  BY <1>1 DEF IInv, SizesOK
<1> QED  BY <1>1, <1>13, <1>14, <1>15, <1>16 DEF IInv, SetOK, FindOK, ResizeOK, MoveOK

\* The end of a shift empties the hole.
LEMMA ShiftEndsKeeps ==
  ASSUME IInv, ShiftEnds
  PROVE  IInv'
<1> DEFINE n == nbuckets
           f == Following(i, n)
           bs2 == [buckets EXCEPT ![i] = Empty]
<1>1. /\ pc = "shift" /\ pc' \in {"resize", "idle"} /\ buckets[f].dib <= 1 /\ Hole' = {}
      /\ buckets' = bs2 /\ count' = count - 1
      /\ UNCHANGED <<nbuckets, cap, growat, shrinkat>>
  BY DEF ShiftEnds, StartResize, Return, sizes, Hole, NextBucket
<1>2. /\ n \in Sizes /\ i \in 0 .. n - 1 /\ f \in 0 .. n - 1 /\ f # i
      /\ Good(buckets, n) /\ Ordered(buckets, n, {i}) /\ UniqueIn(buckets, (0 .. n - 1) \ {i})
      /\ Full(buckets) \subseteq 0 .. n - 1 /\ DOMAIN buckets = 0 .. n - 1
      /\ \A b \in 0 .. n - 1 : buckets[b].dib \in Nat
      /\ Cardinality(Full(buckets) \ {i}) = count - 1 /\ count - 1 \in Nat /\ count - 1 < growat
      /\ op = "delete"
  BY <1>1, ShiftFacts
<1>3. /\ bs2 \in Arrays(n) /\ bs2[i] = Empty /\ Empty.dib = 0 /\ DOMAIN bs2 = 0 .. n - 1
      /\ \A c \in (0 .. n - 1) \ {i} : bs2[c] = buckets[c]
  BY <1>2 DEF Good, Arrays, Empty
<1> HIDE DEF bs2
<1>4. Full(bs2) = Full(buckets) \ {i}
  BY <1>2, <1>3 DEF Full
<1>5. Good(bs2, n)
  BY <1>2, <1>3, <1>4 DEF Good
<1>6. Ordered(bs2, n, {})
  <2> SUFFICES ASSUME NEW b \in 0 .. n - 1 PROVE bs2[Following(b, n)].dib <= bs2[b].dib + 1
    BY DEF Ordered
  <2>1. Following(b, n) \in 0 .. n - 1 /\ Following(b, n) # b
    BY <1>2, FollowingOne
  <2>2. CASE b = i
    BY <1>1, <1>2, <1>3, <2>2
  <2>3. CASE Following(b, n) = i
    BY <1>2, <1>3, <2>1, <2>3
  <2>4. CASE b # i /\ Following(b, n) # i
    BY <1>2, <1>3, <2>1, <2>4 DEF Ordered
  <2> QED  BY <2>2, <2>3, <2>4
<1>7. UniqueIn(bs2, 0 .. n - 1)
  BY <1>2, <1>3, <1>4 DEF UniqueIn
<1>8. ArrayOK'
  <2>1. Full(bs2) \ {} = Full(bs2) /\ (0 .. n - 1) \ {} = 0 .. n - 1
    OBVIOUS
  <2> QED  BY <1>1, <1>2, <1>4, <1>5, <1>6, <1>7, <2>1 DEF ArrayOK
<1>9. CASE MustShrink /\ StartResize(NewSize) /\ UNCHANGED <<op, item, entry, j, spare, answer>>
  <2>1. /\ pc' = "resize" /\ i' = 0 /\ op' = "delete" /\ item' = item /\ spare' = spare
        /\ NewSize' = n \div 2 /\ buckets2' = EmptyBuckets(NewSize')
    BY <1>1, <1>2, <1>9 DEF StartResize, NewSize
  <2>2. PICK m \in Doubled(cap) : n = 2 * m
    <3>1. n # cap
      BY <1>9, SizesFacts DEF MustShrink, IInv
    <3> QED  BY <3>1, DoubledIs DEF IInv, SizesOK
  <2>3. m \in Sizes
    BY <2>2, DoubledIs DEF IInv, SizesOK
  <2>4. NewSize' = m
    BY <2>1, <2>2, <2>3 DEF Sizes
  <2>5. SizesOK'
    <3>1. count - 1 <= shrinkat /\ shrinkat = ShrinkAt(n) /\ nbuckets > cap
      BY <1>9 DEF MustShrink, IInv, SizesOK
    <3>2. ShrinkAt(n) <= GrowAt(m) /\ ShrinkAt(n) \in Nat
      BY <1>2, <2>2, <2>3, Limits
    <3>3. GrowAt(m) \in Nat
      BY <2>3, Limits
    <3>4. count - 1 <= GrowAt(NewSize')
      BY <1>2, <2>4, <3>1, <3>2, <3>3
    <3>5. count - 1 <= growat
      BY <1>2, SizesFacts DEF IInv
    <3> QED  BY <1>1, <1>2, <2>1, <3>1, <3>4, <3>5 DEF IInv, SizesOK
  <2>6. ResizeOK'
    <3>1. NewSize' \in Sizes /\ nbuckets' \in Sizes /\ Good(buckets', nbuckets')
      BY <1>1, <1>2, <1>5, <2>3, <2>4
    <3> QED  BY <2>1, <3>1, ResizeBegins
  <2>7. CallOK'
    <3>1. /\ item \in Items /\ spare \in Items /\ SameKey(spare, item)
          /\ \A b \in Full(bs2) : ~SameKey(bs2[b].item, spare)
      BY <1>1, <1>2, <1>3, <1>4, ShiftFacts
    <3> QED  BY <1>1, <2>1, <3>1 DEF CallOK, Deleting
  <2> QED  BY <1>8, <2>1, <2>5, <2>6, <2>7 DEF IInv, SetOK, FindOK, ShiftOK, MoveOK
<1>10. CASE Return(spare)
  <2>1. count - 1 <= growat
    BY <1>2, SizesFacts DEF IInv
  <2>2. SizesOK'
    BY <1>1, <1>2, <1>10, <2>1 DEF IInv, SizesOK, Return
  <2> QED  BY <1>8, <1>10, <2>2, Returns
<1> QED  BY <1>9, <1>10 DEF ShiftEnds

-----------------------------------------------------------------------------
(* A resize *)

\* Both arrays.
LEMMA ResizeFacts ==
  ASSUME IInv, pc \in {"resize", "move"}
  PROVE  /\ nbuckets \in Sizes /\ Good(buckets, nbuckets) /\ UniqueIn(buckets, 0 .. nbuckets - 1)
         /\ Full(buckets) \subseteq 0 .. nbuckets - 1 /\ Hole = {}
         /\ Cardinality(Full(buckets)) = count
         /\ NewSize \in Sizes /\ NewSize \in Doubled(cap)
         /\ i \in 0 .. nbuckets
         /\ Good(buckets2, NewSize) /\ Ordered(buckets2, NewSize, {})
         /\ UniqueIn(buckets2, 0 .. NewSize - 1)
         /\ Full(buckets2) \subseteq 0 .. NewSize - 1 /\ DOMAIN buckets2 = 0 .. NewSize - 1
         /\ Cardinality(Full(buckets2)) = Cardinality(Full(buckets) \cap (0 .. i - 1))
         /\ \A b \in Left \cap Full(buckets) : NoneWith(buckets2, buckets[b].item)
         /\ \A b \in Full(buckets) : buckets[b].item \in Items
<1>1. NewSize \in Sizes /\ NewSize \in Doubled(cap)
  BY SizesFacts DEF IInv
<1>2. Good(buckets2, NewSize)
  BY DEF IInv, ResizeOK
<1>3. Full(buckets2) \subseteq 0 .. NewSize - 1 /\ DOMAIN buckets2 = 0 .. NewSize - 1
  BY <1>1, <1>2, GoodArray
<1>4. \A b \in Full(buckets) : buckets[b].item \in Items
  BY WholeArray DEF Good
<1> QED  BY <1>1, <1>2, <1>3, <1>4, WholeArray DEF IInv, ResizeOK

\* A step of a resize leaves the map as it is.
ResizeStep ==
  /\ pc \in {"resize", "move"} /\ pc' \in {"resize", "move"}
  /\ UNCHANGED <<buckets, nbuckets, cap, growat, shrinkat, count, op, item, spare>>

\* What is left to show of such a step.
LEMMA ResizeStepKeeps ==
  ASSUME IInv, ResizeStep, ResizeOK', MoveOK'
  PROVE  IInv'
<1>1. ArrayOK'
  BY SameArray DEF ResizeStep, IInv
<1>2. CallOK'
  BY DEF ResizeStep, IInv, CallOK, Deleting, Hole
<1>3. SizesOK'
  BY DEF ResizeStep, IInv, SizesOK, NewSize
<1> QED  BY <1>1, <1>2, <1>3 DEF IInv, SetOK, FindOK, ShiftOK, ResizeStep

\* A bucket that is passed over or taken is no longer left.
LEMMA LeftNext ==
  ASSUME NEW n \in Sizes, NEW k \in 0 .. n - 1
  PROVE  k .. n - 1 = {k} \cup ((k + 1) .. n - 1) /\ k \notin (k + 1) .. n - 1
         /\ 0 .. (k + 1) - 1 = (0 .. k - 1) \cup {k} /\ k \notin 0 .. k - 1
  BY DEF Sizes

\* An empty bucket has nothing to move.
LEMMA ResizeSkipsKeeps ==
  ASSUME IInv, ResizeSkips
  PROVE  IInv'
<1>1. /\ pc = "resize" /\ pc' = "resize" /\ buckets[i].dib = 0 /\ i < nbuckets /\ i' = i + 1
      /\ ResizeStep /\ NewSize' = NewSize /\ buckets2' = buckets2
  BY DEF ResizeSkips, fields, sizes, ResizeStep, NewSize
<1>2. i \in 0 .. nbuckets - 1 /\ i \notin Full(buckets) /\ nbuckets \in Sizes
  BY <1>1, ResizeFacts, GoodArray DEF Sizes
<1>3. Left = i .. nbuckets - 1 /\ Left' = (i + 1) .. nbuckets - 1
  BY <1>1 DEF Left, ResizeStep
<1>4. Left = {i} \cup Left' /\ 0 .. (i + 1) - 1 = (0 .. i - 1) \cup {i}
  BY <1>2, <1>3, LeftNext
<1>5. /\ Left \cap Full(buckets) = Left' \cap Full(buckets)
      /\ Full(buckets) \cap (0 .. (i + 1) - 1) = Full(buckets) \cap (0 .. i - 1)
  BY <1>2, <1>4
<1>6. ItemsIn(buckets, Left) = ItemsIn(buckets, Left')
  BY <1>5 DEF ItemsIn
<1>7. i + 1 \in 0 .. nbuckets
  BY <1>2 DEF Sizes
<1>8. ResizeOK'
  BY <1>1, <1>5, <1>6, <1>7 DEF IInv, ResizeOK, ResizeStep
<1> QED  BY <1>1, <1>8, ResizeStepKeeps DEF MoveOK

\* The item of a full bucket is under way.
LEMMA ResizeMovesKeeps ==
  ASSUME IInv, ResizeMoves
  PROVE  IInv'
<1> DEFINE x == buckets[i].item
<1>1. /\ pc = "resize" /\ pc' = "move" /\ buckets[i].dib > 0 /\ i < nbuckets /\ i' = i
      /\ entry' = EntryOf(x) /\ j' = Home(x, NewSize)
      /\ ResizeStep /\ NewSize' = NewSize /\ buckets2' = buckets2
  BY DEF ResizeMoves, fields, sizes, ResizeStep, NewSize
<1>2. i \in 0 .. nbuckets - 1 /\ i \in Full(buckets) /\ nbuckets \in Sizes
  BY <1>1, ResizeFacts, GoodArray DEF Sizes
<1>3. Left = i .. nbuckets - 1 /\ Left' = (i + 1) .. nbuckets - 1
  BY <1>1 DEF Left, ResizeStep
<1>4. Left = {i} \cup Left' /\ i \notin Left'
  BY <1>2, <1>3, LeftNext
<1>5. x \in Items /\ NewSize \in Sizes /\ Good(buckets2, NewSize)
  BY <1>1, <1>2, ResizeFacts
<1>6. Fits(EntryOf(x), Home(x, NewSize), buckets2, NewSize) /\ EntryOf(x).item = x
  BY <1>5, SetBegins
<1>7. NoneWith(buckets2, x)
  BY <1>1, <1>2, <1>4, ResizeFacts
<1>8. ItemsIn(buckets, Left) = ItemsIn(buckets, Left') \cup {x}
  BY <1>2, <1>4 DEF ItemsIn
<1>9. \A b \in Left' \cap Full(buckets) : ~SameKey(buckets[b].item, x)
  BY <1>1, <1>2, <1>4, ResizeFacts DEF UniqueIn
<1> HIDE DEF x
<1>10. ResizeOK'
  <2>1. /\ i \in 0 .. nbuckets
        /\ Good(buckets2, NewSize) /\ Ordered(buckets2, NewSize, {})
        /\ UniqueIn(buckets2, 0 .. NewSize - 1)
        /\ Cardinality(Full(buckets2)) = Cardinality(Full(buckets) \cap (0 .. i - 1))
        /\ \A b \in Left \cap Full(buckets) : NoneWith(buckets2, buckets[b].item)
        /\ ItemsIn(buckets, DOMAIN buckets)
             = ItemsIn(buckets, Left) \cup ItemsIn(buckets2, DOMAIN buckets2)
    BY <1>1 DEF IInv, ResizeOK
  <2> QED  BY <1>1, <1>4, <1>6, <1>8, <2>1 DEF ResizeOK, ResizeStep
<1>11. MoveOK'
  BY <1>1, <1>2, <1>6, <1>7, <1>9 DEF MoveOK, ResizeStep
<1> QED  BY <1>1, <1>10, <1>11, ResizeStepKeeps

\* The item that is under way.
LEMMA MoveFacts ==
  ASSUME IInv, pc = "move"
  PROVE  /\ i \in Full(buckets) /\ i \in 0 .. nbuckets - 1
         /\ Fits(entry, j, buckets2, NewSize) /\ NoneWith(buckets2, entry.item)
         /\ j \in 0 .. NewSize - 1 /\ entry.item \in Items /\ entry.dib \in Distances
         /\ \A b \in Left \cap Full(buckets) : ~SameKey(buckets[b].item, entry.item)
<1>1. Fits(entry, j, buckets2, NewSize) /\ i \in Full(buckets)
  BY DEF IInv, MoveOK
<1>2. entry.item \in Items /\ entry.dib \in Distances /\ Place(entry.item, entry.dib, NewSize) = j
  BY <1>1 DEF Fits, Entries
<1>3. j \in 0 .. NewSize - 1
  BY <1>2, ResizeFacts, Places
<1> QED  BY <1>1, <1>2, <1>3, ResizeFacts DEF IInv, MoveOK

\* The item has its place in the new array.
LEMMA MovePlacesKeeps ==
  ASSUME IInv, MovePlaces
  PROVE  IInv'
<1> DEFINE bs2 == [buckets2 EXCEPT ![j] = entry]
<1>1. /\ pc = "move" /\ pc' = "resize" /\ buckets2[j].dib = 0 /\ i' = i + 1 /\ buckets2' = bs2
      /\ ResizeStep /\ NewSize' = NewSize
  BY DEF MovePlaces, fields, sizes, ResizeStep, NewSize
<1>2. /\ Good(bs2, NewSize) /\ Ordered(bs2, NewSize, {}) /\ UniqueIn(bs2, 0 .. NewSize - 1)
      /\ Cardinality(Full(bs2)) = Cardinality(Full(buckets2)) + 1
      /\ ItemsIn(bs2, DOMAIN bs2) = ItemsIn(buckets2, DOMAIN buckets2) \cup {entry.item}
      /\ \A x : NoneWith(buckets2, x) /\ ~SameKey(entry.item, x) => NoneWith(bs2, x)
  <2>1. LET t == [buckets2 EXCEPT ![j] = entry]
        IN /\ Good(t, NewSize) /\ Ordered(t, NewSize, {}) /\ UniqueIn(t, 0 .. NewSize - 1)
           /\ Cardinality(Full(t)) = Cardinality(Full(buckets2)) + 1
           /\ ItemsIn(t, DOMAIN t) = ItemsIn(buckets2, DOMAIN buckets2) \cup {entry.item}
           /\ \A x : NoneWith(buckets2, x) /\ ~SameKey(entry.item, x) => NoneWith(t, x)
    <3>1. j \in (0 .. NewSize - 1) \ Full(buckets2)
      BY <1>1, MoveFacts DEF Full
    <3> QED  BY <1>1, <3>1, ResizeFacts, MoveFacts, PlaceEntry
  <2> QED  BY <2>1
<1> HIDE DEF bs2
<1>3. Left = (i + 1) .. nbuckets - 1 /\ Left' = Left
  BY <1>1 DEF Left, ResizeStep
<1>4. i \in Full(buckets) /\ i \in 0 .. nbuckets - 1 /\ nbuckets \in Sizes
  BY <1>1, MoveFacts, ResizeFacts
<1>5. i + 1 \in 0 .. nbuckets
  BY <1>4 DEF Sizes
<1>6. Cardinality(Full(buckets) \cap (0 .. (i + 1) - 1))
        = Cardinality(Full(buckets) \cap (0 .. i - 1)) + 1
  <2> DEFINE S == Full(buckets) \cap (0 .. i - 1)
  <2>1. Full(buckets) \cap (0 .. (i + 1) - 1) = S \cup {i} /\ i \notin S
    BY <1>4, LeftNext
  <2>2. IsFiniteSet(S)
    BY <1>1, <1>4, ResizeFacts, FullCount
  <2> HIDE DEF S
  <2> QED  BY <2>1, <2>2, FS_AddElement DEF S
<1>7. /\ Cardinality(Full(buckets2)) = Cardinality(Full(buckets) \cap (0 .. i - 1))
      /\ \A b \in Left \cap Full(buckets) : NoneWith(buckets2, buckets[b].item)
      /\ \A b \in Left \cap Full(buckets) : ~SameKey(entry.item, buckets[b].item)
      /\ ItemsIn(buckets, DOMAIN buckets)
           = ItemsIn(buckets, Left) \cup ItemsIn(buckets2, DOMAIN buckets2) \cup {entry.item}
  BY <1>1, MoveFacts DEF IInv, ResizeOK, SameKey
<1>8. ResizeOK'
  BY <1>1, <1>2, <1>3, <1>5, <1>6, <1>7 DEF ResizeOK, ResizeStep
<1> QED  BY <1>1, <1>8, ResizeStepKeeps DEF MoveOK

\* The item, or the one whose place it took, goes on to the next bucket.
LEMMA MovePassesKeeps ==
  ASSUME IInv, MovePasses
  PROVE  IInv'
<1> DEFINE n == NewSize
           bs2 == [buckets2 EXCEPT ![j] = Stays(@)]
           e == Carried(buckets2[j])
<1>1. /\ pc = "move" /\ pc' = "move" /\ buckets2[j].dib > 0 /\ i' = i
      /\ buckets2' = bs2 /\ entry' = e /\ j' = Following(j, n)
      /\ ResizeStep /\ NewSize' = NewSize /\ Left' = Left
  BY DEF MovePasses, fields, sizes, ResizeStep, NewSize, Left
<1>2. /\ n \in Sizes /\ Good(buckets2, n) /\ Ordered(buckets2, n, {}) /\ UniqueIn(buckets2, 0 .. n - 1)
      /\ DOMAIN buckets2 = 0 .. n - 1 /\ Full(buckets2) \subseteq 0 .. n - 1
      /\ j \in 0 .. n - 1 /\ j \in Full(buckets2) /\ i \in Full(buckets)
      /\ Fits(entry, j, buckets2, n) /\ NoneWith(buckets2, entry.item)
      /\ \A b \in Left \cap Full(buckets) :
           ~SameKey(buckets[b].item, entry.item) /\ NoneWith(buckets2, buckets[b].item)
  BY <1>1, ResizeFacts, MoveFacts DEF Full
<1>3. NoneBefore(buckets2, entry.item, entry.dib) /\ ~SameKey(buckets2[j].item, entry.item)
  BY <1>2 DEF NoneWith, NoneBefore
<1>4. /\ Good(bs2, n) /\ Ordered(bs2, n, {}) /\ Full(bs2) = Full(buckets2)
      /\ Fits(e, Following(j, n), bs2, n)
  <2>1. LET t == [buckets2 EXCEPT ![j] = Stays(@)]
        IN /\ Good(t, n) /\ Ordered(t, n, {}) /\ Full(t) = Full(buckets2)
           /\ t[j] = Stays(buckets2[j]) /\ \A c \in (0 .. n - 1) \ {j} : t[c] = buckets2[c]
           /\ Fits(Carried(buckets2[j]), Following(j, n), t, n)
    BY <1>2, PassBucket
  <2> QED  BY <2>1
<1>5. \/ bs2 = buckets2 /\ e.item = entry.item
      \/ /\ e.item = buckets2[j].item /\ bs2[j] = entry
         /\ \A c \in (0 .. n - 1) \ {j} : bs2[c] = buckets2[c]
         /\ NoneWith(bs2, e.item) /\ UniqueIn(bs2, 0 .. n - 1)
  <2>1. LET t == [buckets2 EXCEPT ![j] = Stays(@)]
            u == Carried(buckets2[j])
        IN \/ t = buckets2 /\ u.item = entry.item /\ NoneBefore(buckets2, entry.item, u.dib)
           \/ /\ NoneWith(buckets2, entry.item) /\ u.item = buckets2[j].item /\ t[j] = entry
              /\ \A c \in (0 .. n - 1) \ {j} : t[c] = buckets2[c]
              /\ Full(t) = Full(buckets2)
              /\ NoneWith(t, u.item) /\ UniqueIn(t, 0 .. n - 1)
    BY <1>2, <1>3, PassKeys
  <2> QED  BY <2>1
<1> HIDE DEF bs2, e
<1>6. DOMAIN bs2 = 0 .. n - 1 /\ UniqueIn(bs2, 0 .. n - 1) /\ NoneWith(bs2, e.item)
  BY <1>2, <1>4, <1>5, GoodArray
<1>7. \A b \in Left \cap Full(buckets) :
        ~SameKey(buckets[b].item, e.item) /\ NoneWith(bs2, buckets[b].item)
  BY <1>2, <1>4, <1>5, ZenonT(60) DEF NoneWith, SameKey
<1>8. ItemsIn(bs2, DOMAIN bs2) \cup {e.item} = ItemsIn(buckets2, DOMAIN buckets2) \cup {entry.item}
  BY <1>2, <1>4, <1>5, <1>6 DEF ItemsIn
<1>9. ResizeOK'
  <2>1. /\ i \in 0 .. nbuckets
        /\ Cardinality(Full(buckets2)) = Cardinality(Full(buckets) \cap (0 .. i - 1))
        /\ ItemsIn(buckets, DOMAIN buckets)
             = ItemsIn(buckets, Left) \cup ItemsIn(buckets2, DOMAIN buckets2) \cup {entry.item}
    BY <1>1 DEF IInv, ResizeOK
  <2>2. ItemsIn(buckets, DOMAIN buckets)
          = ItemsIn(buckets, Left) \cup ItemsIn(bs2, DOMAIN bs2) \cup {e.item}
    BY <1>8, <2>1
  <2> QED  BY <1>1, <1>4, <1>6, <1>7, <2>1, <2>2 DEF ResizeOK, ResizeStep
<1>10. MoveOK'
  BY <1>1, <1>2, <1>4, <1>6, <1>7 DEF MoveOK, ResizeStep
<1> QED  BY <1>1, <1>9, <1>10, ResizeStepKeeps

\* All items of the old array are in the new one, which fits their number.
LEMMA ResizeEndsKeeps ==
  ASSUME IInv, ResizeEnds
  PROVE  IInv'
<1>1. /\ pc = "resize" /\ i = nbuckets /\ pc' \in {"set", "idle"} /\ Hole' = {}
      /\ buckets' = buckets2 /\ nbuckets' = NewSize
      /\ growat' = GrowAt(NewSize) /\ shrinkat' = ShrinkAt(NewSize)
      /\ UNCHANGED <<count, cap>>
  BY DEF ResizeEnds, StartSet, Return, Hole
<1>2. /\ Good(buckets2, NewSize) /\ Ordered(buckets2, NewSize, {})
      /\ UniqueIn(buckets2, 0 .. NewSize - 1)
      /\ NewSize \in Sizes /\ NewSize \in Doubled(cap)
  BY <1>1, ResizeFacts
<1>3. Cardinality(Full(buckets2)) = count
  <2>1. /\ Cardinality(Full(buckets2)) = Cardinality(Full(buckets) \cap (0 .. nbuckets - 1))
        /\ Full(buckets) \subseteq 0 .. nbuckets - 1 /\ Cardinality(Full(buckets)) = count
    BY <1>1, ResizeFacts
  <2>2. Full(buckets) \cap (0 .. nbuckets - 1) = Full(buckets)
    BY <2>1
  <2> QED  BY <2>1, <2>2
<1>4. ArrayOK'
  <2>1. Full(buckets2) \ {} = Full(buckets2) /\ (0 .. NewSize - 1) \ {} = 0 .. NewSize - 1
    OBVIOUS
  <2> QED  BY <1>1, <1>2, <1>3, <2>1 DEF ArrayOK
<1>5. CASE /\ op = "set" /\ StartSet(item, NewSize) /\ UNCHANGED <<op, item, spare, answer>>
  <2>1. pc' = "set" /\ entry' = EntryOf(item) /\ i' = Home(item, NewSize) /\ op' = "set"
        /\ item' = item /\ spare' = NULL /\ item \in Items
    BY <1>1, <1>5 DEF StartSet, IInv, CallOK, Deleting
  <2>2. CallOK'
    BY <2>1 DEF CallOK, Deleting
  <2>3. SizesOK'
    <3>1. count < GrowAt(NewSize) /\ cap \in Sizes /\ count \in Nat
      BY <1>1, <1>5 DEF IInv, SizesOK
    <3>2. count <= GrowAt(NewSize)
      BY <1>2, <3>1, Limits
    <3> QED  BY <1>1, <1>2, <2>1, <3>1, <3>2 DEF SizesOK
  <2>4. SetOK'
    <3>1. /\ Fits(EntryOf(item), Home(item, NewSize), buckets2, NewSize)
          /\ NoneBefore(buckets2, item, 1) /\ EntryOf(item).item = item /\ EntryOf(item).dib = 1
      BY <1>2, <2>1, SetBegins
    <3> QED  BY <1>1, <2>1, <3>1 DEF SetOK
  <2> QED  BY <1>4, <2>1, <2>2, <2>3, <2>4 DEF IInv, FindOK, ShiftOK, ResizeOK, MoveOK
<1>6. CASE op = "delete" /\ Return(spare)
  <2>1. SizesOK'
    <3>1. count <= GrowAt(NewSize) /\ cap \in Sizes /\ count \in Nat
      BY <1>1, <1>6 DEF IInv, SizesOK
    <3> QED  BY <1>1, <1>2, <1>6, <3>1 DEF SizesOK, Return
  <2> QED  BY <1>4, <1>6, <2>1, Returns
<1> QED  BY <1>5, <1>6 DEF ResizeEnds

-----------------------------------------------------------------------------
(* The invariant and what follows from it *)

\* Every step keeps the invariant.
LEMMA StepKeeps == IInv /\ [Next]_vars => IInv'
<1> SUFFICES ASSUME IInv, [Next]_vars PROVE IInv'
  OBVIOUS
<1>1. CASE Call
  <2>1. ASSUME NEW x \in Items, Set(x) \/ Get(x) \/ Delete(x) PROVE IInv'
    BY <2>1, SetKeeps, FindKeeps
  <2>2. ASSUME NEW n \in {nbuckets, cap}, Clear(n) PROVE IInv'
    BY <2>2, ClearKeeps
  <2> QED  BY <1>1, <2>1, <2>2, SetOutOfMemoryKeeps DEF Call
<1>2. CASE Step
  BY <1>2, SetPlacesKeeps, SetReplacesKeeps, SetPassesKeeps, FindPassesKeeps, FindReturnsKeeps,
     DeleteFindsKeeps, ShiftKeeps, ShiftEndsKeeps, ResizeSkipsKeeps, ResizeMovesKeeps,
     MovePlacesKeeps, MovePassesKeeps, ResizeEndsKeeps DEF Step
<1>3. CASE UNCHANGED vars
  <2>1. UNCHANGED <<buckets, nbuckets, cap, growat, shrinkat, count, pc, op, item, entry, i,
                    buckets2, j, spare>>
    BY <1>3 DEF vars, sizes, locals
  <2>2. CallOK' /\ SizesOK' /\ ArrayOK'
    BY <2>1 DEF IInv, CallOK, NoCall, Deleting, SizesOK, NewSize, ArrayOK, Hole
  <2>3. SetOK' /\ FindOK' /\ ShiftOK'
    BY <2>1 DEF IInv, SetOK, FindOK, ShiftOK, NextBucket
  <2>4. ResizeOK' /\ MoveOK'
    BY <2>1 DEF IInv, ResizeOK, MoveOK, Left, NewSize
  <2> QED  BY <2>2, <2>3, <2>4 DEF IInv
<1> QED  BY <1>1, <1>2, <1>3 DEF Next

\* Whatever calls are made, and whatever step they are in.
THEOREM Invariance == Spec => []IInv
<1>1. Init => IInv
  BY InitHolds
<1>2. IInv /\ [Next]_vars => IInv'
  BY StepKeeps
<1> QED  BY <1>1, <1>2, PTL DEF Spec

\* Every item, also one that is carried, knows how far it is from its home.
THEOREM TypeCorrect == Spec => []TypeOK
<1>1. ASSUME IInv PROVE TypeOK
  <2>1. cap \in Nat \ {0} /\ cap <= nbuckets /\ nbuckets \in Sizes
    BY <1>1, SizesFacts DEF IInv
  <2>2. BucketsOK(buckets, nbuckets)
    BY <1>1, <2>1, GoodArray DEF IInv, ArrayOK
  <2>3. pc \in {"idle", "set", "find", "shift", "resize", "move"}
    BY <1>1 DEF IInv, CallOK
  <2>4. /\ pc = "set" => (Home(entry.item, nbuckets) + entry.dib - 1) % nbuckets = i
        /\ pc = "move" => (Home(entry.item, NewSize) + entry.dib - 1) % NewSize = j
    BY <1>1 DEF IInv, SetOK, MoveOK, Fits, Place
  <2>5. pc \in {"resize", "move"} => BucketsOK(buckets2, NewSize)
    BY <1>1, ResizeFacts, GoodArray
  <2> QED  BY <2>1, <2>2, <2>3, <2>4, <2>5 DEF TypeOK
<1> QED  BY <1>1, Invariance, PTL

\* The order of the homes, in the array and in the one a resize builds.
THEOREM OrderKept == Spec => []RobinHoodOrder
<1>1. ASSUME IInv PROVE RobinHoodOrder
  BY <1>1 DEF IInv, ArrayOK, ResizeOK, RobinHoodOrder
<1> QED  BY <1>1, Invariance, PTL

\* No loop is without an empty bucket to end at.
THEOREM NeverFull == Spec => []AlwaysAnEmptyBucket
<1>1. ASSUME IInv PROVE AlwaysAnEmptyBucket
  <2>1. /\ nbuckets \in Sizes /\ count \in Nat /\ count < nbuckets /\ Good(buckets, nbuckets)
    BY <1>1, SizesFacts DEF IInv, ArrayOK
  <2>2. Cardinality(Full(buckets)) < nbuckets
    <3>1. CASE pc # "shift"
      BY <1>1, <2>1, <3>1, WholeArray
    <3>2. CASE pc = "shift"
      <4> DEFINE S == Full(buckets) \ {i}
      <4>1. IsFiniteSet(S) /\ Cardinality(S) = count - 1 /\ IsFiniteSet(Full(buckets))
        BY <1>1, <2>1, <3>2, ShiftFacts, FullCount
      <4>2. Full(buckets) = S \/ Full(buckets) = S \cup {i}
        OBVIOUS
      <4> HIDE DEF S
      <4>3. Cardinality(S \cup {i}) = Cardinality(S) \/ Cardinality(S \cup {i}) = Cardinality(S) + 1
        BY <4>1, FS_AddElement
      <4> QED  BY <2>1, <4>1, <4>2, <4>3 DEF Sizes
    <3> QED  BY <3>1, <3>2
  <2>3. Full(buckets) # DOMAIN buckets
    BY <2>1, <2>2, FullCount
  <2>4. ASSUME pc = "move" PROVE Full(buckets2) # DOMAIN buckets2
    <3> DEFINE S == Full(buckets) \cap (0 .. i - 1)
    <3>1. /\ Good(buckets2, NewSize) /\ NewSize \in Sizes /\ Cardinality(Full(buckets2)) = Cardinality(S)
          /\ Cardinality(Full(buckets)) = count
      BY <1>1, <2>4, ResizeFacts
    <3>2. count < NewSize
      BY <1>1, <2>4, SizesFacts DEF IInv
    <3>3. S \in SUBSET Full(buckets) /\ IsFiniteSet(Full(buckets)) /\ IsFiniteSet(S)
      BY <2>1, FullCount
    <3> HIDE DEF S
    <3>4. Cardinality(S) <= Cardinality(Full(buckets)) /\ Cardinality(S) \in Nat
      BY <3>3, FS_Subset, FS_CardinalityType
    <3>5. Cardinality(Full(buckets2)) < NewSize
      BY <2>1, <3>1, <3>2, <3>4 DEF Sizes
    <3> QED  BY <3>1, <3>5, FullCount
  <2> QED  BY <2>3, <2>4 DEF AlwaysAnEmptyBucket
<1> QED  BY <1>1, Invariance, PTL

\* The count is the number of items of the map.
THEOREM CountIsRight == Spec => []CountsItems
<1>1. ASSUME IInv, pc = "idle" PROVE count = Cardinality(Current)
  <2>1. Current = ItemsIn(buckets, DOMAIN buckets)
    BY <1>1 DEF Current
  <2> QED  BY <1>1, <2>1, WholeArray, ItemsCounted
<1>2. IInv => CountsItems
  BY <1>1 DEF CountsItems
<1> QED  BY <1>2, Invariance, PTL

-----------------------------------------------------------------------------
(* The map implements ItemMap *)

\* The call returns and is answered with the item that has the key.
Answered(k) ==
  /\ op' = "none" /\ item' = NULL
  /\ answer' = IF IM!WithKey(k) = {} THEN NULL ELSE CHOOSE y \in IM!WithKey(k) : TRUE

\* Nothing has the key: there is no answer.
LEMMA AnswersNull ==
  ASSUME NEW k, \A y \in Current : y.key # k, Return(NULL)
  PROVE  IM!WithKey(k) = {} /\ Answered(k)
<1>1. IM!WithKey(k) = {}
  BY DEF IM!WithKey
<1> QED  BY <1>1 DEF Answered, Return

\* One item has the key: that is the answer.
LEMMA AnswersItem ==
  ASSUME NEW k, NEW z \in Current, z.key = k, \A y \in Current : y.key = k => y = z, Return(z)
  PROVE  IM!WithKey(k) = {z} /\ Answered(k)
<1>1. IM!WithKey(k) = {z}
  BY DEF IM!WithKey
<1> QED  BY <1>1 DEF Answered, Return

\* The items of an array, one for a key, and what NoneWith says of them.
LEMMA ItemsOf ==
  ASSUME NEW n \in Sizes, NEW bs, Good(bs, n)
  PROVE  /\ \A b \in Full(bs) : bs[b].item \in ItemsIn(bs, DOMAIN bs)
         /\ \A y \in ItemsIn(bs, DOMAIN bs) : \E b \in Full(bs) : bs[b].item = y
         /\ \A x : NoneWith(bs, x) => \A y \in ItemsIn(bs, DOMAIN bs) : y.key # x.key
         /\ UniqueIn(bs, 0 .. n - 1) =>
              \A x, y \in ItemsIn(bs, DOMAIN bs) : x.key = y.key => x = y
<1>1. DOMAIN bs = 0 .. n - 1 /\ Full(bs) \subseteq 0 .. n - 1
  BY GoodArray
<1>2. /\ \A b \in Full(bs) : bs[b].item \in ItemsIn(bs, DOMAIN bs)
      /\ \A y \in ItemsIn(bs, DOMAIN bs) : \E b \in Full(bs) : bs[b].item = y
  BY <1>1 DEF ItemsIn
<1>3. ASSUME NEW x, NoneWith(bs, x), NEW y \in ItemsIn(bs, DOMAIN bs) PROVE y.key # x.key
  BY <1>2, <1>3 DEF NoneWith, SameKey
<1>4. ASSUME UniqueIn(bs, 0 .. n - 1), NEW x \in ItemsIn(bs, DOMAIN bs),
             NEW y \in ItemsIn(bs, DOMAIN bs), x.key = y.key
      PROVE  x = y
  <2>1. PICK b \in Full(bs) : bs[b].item = x
    BY <1>2
  <2>2. PICK c \in Full(bs) : bs[c].item = y
    BY <1>2
  <2>3. b = c
    BY <1>1, <1>4, <2>1, <2>2 DEF UniqueIn, SameKey
  <2> QED  BY <2>1, <2>2, <2>3
<1> QED  BY <1>2, <1>3, <1>4

\* While a resize runs the items are those of the old array, which it leaves
\* as it is.
LEMMA CurrentResizing ==
  ASSUME IInv, pc \in {"resize", "move"}
  PROVE  Current = ItemsIn(buckets, DOMAIN buckets) \cup ({spare} \ {NULL})
  BY DEF IInv, ResizeOK, Current, Left

\* The calls that begin, fail or clear the map.
LEMMA CallRefines ==
  ASSUME IInv, Call
  PROVE  [IM!Next]_(IM!vars)
<1> DEFINE I == ItemsIn(buckets, DOMAIN buckets)
<1>1. /\ pc = "idle" /\ op = "none" /\ spare = NULL /\ Current = I
      /\ nbuckets \in Sizes /\ Good(buckets, nbuckets) /\ DOMAIN buckets = 0 .. nbuckets - 1
  <2>1. pc = "idle"
    BY DEF Call, Set, Get, Delete, StartFind, SetOutOfMemory, Clear
  <2> QED  BY <2>1, WholeArray DEF IInv, CallOK, NoCall, Current
<1>2. ASSUME NEW x \in Items, Set(x) PROVE IM!Set(x)
  <2>1. buckets' = buckets /\ nbuckets' = nbuckets /\ spare' = NULL /\ answer' = answer /\ oom' = FALSE
    BY <1>1, <1>2 DEF Set, sizes
  <2>2. Current' = I
    <3>1. CASE StartResize(nbuckets * 2 ^ GrowPower)
      <4> DEFINE m == nbuckets * 2 ^ GrowPower
                 e == EmptyBuckets(m)
      <4>1. m \in Sizes
        BY GrownSize, DoubledIs DEF IInv, SizesOK
      <4> HIDE DEF m
      <4>2. Full(e) = {}
        BY <4>1, EmptyArray
      <4>3. /\ pc' = "resize" /\ i' = 0 /\ buckets2' = e
            /\ ItemsIn(e, DOMAIN e) = {}
        BY <3>1, <4>2 DEF StartResize, ItemsIn, m
      <4> HIDE DEF e
      <4> QED  BY <1>1, <2>1, <4>3 DEF Current
    <3>2. CASE StartSet(x, nbuckets)
      <4>1. pc' = "set" /\ entry'.item = x /\ item' = x
        BY <1>2, <3>2 DEF StartSet, Set, EntryOf
      <4> QED  BY <2>1, <4>1 DEF Current, SameKey
    <3> QED  BY <1>2, <3>1, <3>2 DEF Set
  <2>3. op' = "set" /\ item' = x
    BY <1>2 DEF Set
  <2> QED  BY <1>1, <2>1, <2>2, <2>3 DEF IM!Set, IM!Begin
<1>3. ASSUME NEW x \in Items, Get(x) PROVE IM!Get(x)
  BY <1>1, <1>3 DEF Get, StartFind, Current, IM!Get, IM!Begin
<1>4. ASSUME NEW x \in Items, Delete(x) PROVE IM!Delete(x)
  BY <1>1, <1>4 DEF Delete, StartFind, Current, IM!Delete, IM!Begin
<1>5. ASSUME SetOutOfMemory PROVE IM!SetOutOfMemory
  BY <1>1, <1>5 DEF SetOutOfMemory, locals, Current, IM!SetOutOfMemory
<1>6. ASSUME NEW n \in {nbuckets, cap}, Clear(n) PROVE IM!Clear
  <2> DEFINE e == EmptyBuckets(n)
  <2>1. Full(e) = {}
    BY SizesFacts, EmptyArray DEF IInv, SizesOK
  <2>2. buckets' = e /\ pc' = "idle" /\ UNCHANGED <<op, item, answer, oom>>
    BY <1>1, <1>6 DEF Clear, locals
  <2> HIDE DEF e
  <2>3. ItemsIn(e, DOMAIN e) = {}
    BY <2>1 DEF ItemsIn
  <2> QED  BY <1>1, <2>2, <2>3 DEF Current, IM!Clear
<1> QED  BY <1>2, <1>3, <1>4, <1>5, <1>6 DEF Call, IM!Next

\* A set that places its entry has added its item, which was in no bucket.
LEMMA SetPlacesRefines ==
  ASSUME IInv, SetPlaces
  PROVE  IM!SetReturns
<1> DEFINE I == ItemsIn(buckets, DOMAIN buckets)
           bs2 == [buckets EXCEPT ![i] = entry]
<1>1. /\ pc = "set" /\ buckets[i].dib = 0 /\ pc' = "idle" /\ oom' = oom
      /\ buckets' = bs2 /\ Return(NULL)
  BY DEF SetPlaces, Return
<1>2. /\ nbuckets \in Sizes /\ Good(buckets, nbuckets) /\ Ordered(buckets, nbuckets, {})
      /\ UniqueIn(buckets, 0 .. nbuckets - 1) /\ Fits(entry, i, buckets, nbuckets)
      /\ i \in (0 .. nbuckets - 1) \ Full(buckets) /\ op = "set"
  BY <1>1, WholeArray, SetFacts DEF Full
<1>3. NoneWith(buckets, entry.item)
  BY <1>1, <1>2, SetFacts, ProbeEnds
<1>4. ItemsIn(bs2, DOMAIN bs2) = I \cup {entry.item}
  <2>1. LET t == [buckets EXCEPT ![i] = entry]
        IN /\ Good(t, nbuckets) /\ Ordered(t, nbuckets, {}) /\ UniqueIn(t, 0 .. nbuckets - 1)
           /\ Cardinality(Full(t)) = Cardinality(Full(buckets)) + 1
           /\ ItemsIn(t, DOMAIN t) = ItemsIn(buckets, DOMAIN buckets) \cup {entry.item}
           /\ \A x : NoneWith(buckets, x) /\ ~SameKey(entry.item, x) => NoneWith(t, x)
    BY <1>2, <1>3, PlaceEntry
  <2> QED  BY <2>1
<1>5. Current' = I \cup {entry.item}
  <2>1. Current' = ItemsIn(buckets', DOMAIN buckets')
    BY <1>1 DEF Current
  <2> HIDE DEF bs2
  <2> QED  BY <1>1, <1>4, <2>1
<1>6. \A y \in I : y.key # entry.item.key
  BY <1>2, <1>3, ItemsOf
<1>7. \A x, y \in I : x.key = y.key => x = y
  BY <1>2, ItemsOf
<1>8. /\ \A y \in Current : y.key # item.key
      /\ Current' = Current \cup {item}
  <2>1. CASE entry.item = item
    <3>1. Current = I
      BY <1>1, <2>1 DEF Current, SameKey
    <3> QED  BY <1>5, <1>6, <2>1, <3>1
  <2>2. CASE /\ ~SameKey(entry.item, item) /\ \E b \in Full(buckets) : buckets[b].item = item
    <3>1. Current = (I \ {item}) \cup {entry.item}
      BY <1>1, <2>2 DEF Current
    <3>2. item \in I /\ entry.item.key # item.key
      BY <1>2, <2>2, ItemsOf DEF SameKey
    <3> HIDE DEF I
    <3> QED  BY <1>5, <1>7, <3>1, <3>2
  <2> QED  BY <1>1, <2>1, <2>2 DEF IInv, SetOK
<1>9. IM!WithKey(item.key) = {} /\ Answered(item.key)
  BY <1>1, <1>8, AnswersNull
<1> QED  BY <1>1, <1>2, <1>8, <1>9 DEF Answered, IM!SetReturns, IM!Return

\* A set that finds its key has exchanged the item.
LEMMA SetReplacesRefines ==
  ASSUME IInv, SetReplaces
  PROVE  IM!SetReturns
<1> DEFINE n == nbuckets
           I == ItemsIn(buckets, DOMAIN buckets)
           z == buckets[i].item
           bs2 == [buckets EXCEPT ![i].item = entry.item]
<1>1. /\ pc = "set" /\ Holds(i, entry.item) /\ pc' = "idle" /\ oom' = oom
      /\ buckets' = bs2 /\ Return(z)
  BY DEF SetReplaces, Return
<1>2. /\ n \in Sizes /\ Good(buckets, n) /\ UniqueIn(buckets, 0 .. n - 1)
      /\ i \in Full(buckets) /\ i \in 0 .. n - 1 /\ op = "set" /\ DOMAIN buckets = 0 .. n - 1
      /\ SameKey(z, entry.item) /\ Full(buckets) \subseteq 0 .. n - 1
  BY <1>1, WholeArray, SetFacts DEF Full, Holds
<1>3. entry.item = item
  BY <1>1, <1>2 DEF IInv, SetOK, NoneWith
<1>4. Current = I /\ z \in I /\ z.key = item.key /\ \A y \in I : y.key = item.key => y = z
  <2>1. Current = I
    BY <1>1, <1>3 DEF Current, SameKey
  <2>2. z \in I /\ z.key = item.key
    BY <1>2, <1>3, ItemsOf DEF SameKey
  <2>3. \A x, y \in I : x.key = y.key => x = y
    BY <1>2, ItemsOf
  <2> QED  BY <2>1, <2>2, <2>3
<1>5. Current' = (I \ {z}) \cup {item}
  <2>1. buckets[i] \in [dib : Nat, item : Items \cup {NULL}] /\ buckets[i].dib > 0
    BY <1>2 DEF Good, Arrays, Full
  <2>2. /\ DOMAIN bs2 = 0 .. n - 1 /\ bs2[i].item = item /\ bs2[i].dib = buckets[i].dib
        /\ \A b \in (0 .. n - 1) \ {i} : bs2[b] = buckets[b]
    BY <1>2, <1>3, <2>1 DEF Good, Arrays
  <2> HIDE DEF bs2
  <2>3. Full(bs2) = Full(buckets)
    BY <1>2, <2>2 DEF Full
  <2>4. ItemsIn(bs2, DOMAIN bs2) = (I \ {z}) \cup {item}
    <3>1. ASSUME NEW b \in Full(buckets) \ {i} PROVE bs2[b].item \in I /\ bs2[b].item # z
      BY <1>2, <2>2, <3>1 DEF ItemsIn, UniqueIn, SameKey
    <3>2. ASSUME NEW y \in I, y # z PROVE \E b \in Full(buckets) \ {i} : bs2[b].item = y
      BY <1>2, <2>2, <3>2 DEF ItemsIn
    <3>3. ItemsIn(bs2, DOMAIN bs2) = {bs2[b].item : b \in Full(buckets) \ {i}} \cup {bs2[i].item}
      BY <1>2, <2>2, <2>3 DEF ItemsIn
    <3> HIDE DEF I, z
    <3> QED  BY <2>2, <3>1, <3>2, <3>3
  <2>5. Current' = ItemsIn(buckets', DOMAIN buckets')
    BY <1>1 DEF Current
  <2> QED  BY <1>1, <2>4, <2>5
<1>6. IM!WithKey(item.key) = {z} /\ Answered(item.key)
  <2> HIDE DEF z, I
  <2> QED  BY <1>1, <1>4, AnswersItem
<1> QED  BY <1>1, <1>2, <1>4, <1>5, <1>6 DEF Answered, IM!SetReturns, IM!Return

\* A set that goes on changes what it carries, not the items there are.
LEMMA SetPassesRefines ==
  ASSUME IInv, SetPasses
  PROVE  UNCHANGED IM!vars
<1> DEFINE n == nbuckets
           I == ItemsIn(buckets, DOMAIN buckets)
           z == buckets[i].item
           bs2 == [buckets EXCEPT ![i] = Stays(@)]
           e == Carried(buckets[i])
<1>1. /\ pc = "set" /\ pc' = "set" /\ buckets' = bs2 /\ entry' = e /\ item' = item
      /\ op' = op /\ answer' = answer /\ oom' = oom
  BY DEF SetPasses, fields
<1>2. /\ n \in Sizes /\ Good(buckets, n) /\ Ordered(buckets, n, {}) /\ UniqueIn(buckets, 0 .. n - 1)
      /\ Full(buckets) \subseteq 0 .. n - 1
      /\ Fits(entry, i, buckets, n) /\ NoneBefore(buckets, entry.item, entry.dib)
      /\ i \in 0 .. n - 1 /\ i \in Full(buckets) /\ ~SameKey(z, entry.item)
      /\ DOMAIN buckets = 0 .. n - 1
  BY <1>1, WholeArray, SetFacts DEF SetPasses, Passes, Full
<1>3. \/ bs2 = buckets /\ e.item = entry.item
      \/ /\ NoneWith(buckets, entry.item) /\ e.item = z /\ bs2[i] = entry
         /\ \A c \in (0 .. n - 1) \ {i} : bs2[c] = buckets[c]
         /\ Full(bs2) = Full(buckets)
  <2>1. LET t == [buckets EXCEPT ![i] = Stays(@)]
            u == Carried(buckets[i])
        IN \/ t = buckets /\ u.item = entry.item /\ NoneBefore(buckets, entry.item, u.dib)
           \/ /\ NoneWith(buckets, entry.item) /\ u.item = buckets[i].item /\ t[i] = entry
              /\ \A c \in (0 .. n - 1) \ {i} : t[c] = buckets[c]
              /\ Full(t) = Full(buckets)
              /\ NoneWith(t, u.item) /\ UniqueIn(t, 0 .. n - 1)
    BY <1>2, PassKeys
  <2> QED  BY <2>1
<1>4. DOMAIN bs2 = 0 .. n - 1
  BY <1>2
<1>5. /\ Current = IF SameKey(entry.item, item) THEN I ELSE (I \ {item}) \cup {entry.item}
      /\ Current' = IF SameKey(e.item, item) THEN ItemsIn(bs2, DOMAIN bs2)
                    ELSE (ItemsIn(bs2, DOMAIN bs2) \ {item}) \cup {e.item}
  <2> HIDE DEF bs2, e
  <2> QED  BY <1>1 DEF Current
<1> HIDE DEF bs2, e
<1>6. CASE bs2 = buckets /\ e.item = entry.item
  BY <1>1, <1>5, <1>6 DEF IM!vars
<1>7. CASE /\ NoneWith(buckets, entry.item) /\ e.item = z /\ bs2[i] = entry
           /\ \A c \in (0 .. n - 1) \ {i} : bs2[c] = buckets[c]
           /\ Full(bs2) = Full(buckets)
  <2>1. /\ z \in I /\ \A x, y \in I : x.key = y.key => x = y
        /\ \A y \in I : y.key # entry.item.key
    BY <1>2, <1>7, ItemsOf
  <2>2. ItemsIn(bs2, DOMAIN bs2) = (I \ {z}) \cup {entry.item}
    <3>1. ASSUME NEW b \in Full(buckets) \ {i} PROVE bs2[b].item \in I /\ bs2[b].item # z
      BY <1>2, <1>7, <3>1 DEF ItemsIn, UniqueIn, SameKey
    <3>2. ASSUME NEW y \in I, y # z PROVE \E b \in Full(buckets) \ {i} : bs2[b].item = y
      BY <1>2, <1>7, <3>2 DEF ItemsIn
    <3>3. ItemsIn(bs2, DOMAIN bs2) = {bs2[b].item : b \in Full(buckets) \ {i}} \cup {bs2[i].item}
      BY <1>2, <1>4, <1>7 DEF ItemsIn
    <3> HIDE DEF I, z
    <3> QED  BY <1>7, <3>1, <3>2, <3>3
  <2>3. \/ entry.item = item
        \/ ~SameKey(entry.item, item) /\ item \in I
    <3>1. \/ entry.item = item
          \/ ~SameKey(entry.item, item) /\ \E b \in Full(buckets) : buckets[b].item = item
      BY <1>1 DEF IInv, SetOK
    <3>2. \A b \in Full(buckets) : buckets[b].item \in I
      BY <1>2, ItemsOf
    <3> HIDE DEF I
    <3> QED  BY <3>1, <3>2
  <2> DEFINE J == ItemsIn(bs2, DOMAIN bs2)
  <2> HIDE DEF I, z, J
  <2>4. Current' = Current
    <3>0. /\ Current = IF SameKey(entry.item, item) THEN I ELSE (I \ {item}) \cup {entry.item}
          /\ Current' = IF SameKey(z, item) THEN J ELSE (J \ {item}) \cup {z}
          /\ J = (I \ {z}) \cup {entry.item}
      BY <1>5, <1>7, <2>2 DEF J
    <3>1. CASE entry.item = item
      <4>1. Current = I /\ item \notin I /\ ~SameKey(z, item)
        BY <1>2, <2>1, <3>0, <3>1 DEF SameKey
      <4>2. Current' = (((I \ {z}) \cup {item}) \ {item}) \cup {z}
        BY <3>0, <3>1, <4>1
      <4> QED  BY <2>1, <4>1, <4>2
    <3>2. CASE ~SameKey(entry.item, item) /\ item \in I
      <4>1. Current = (I \ {item}) \cup {entry.item} /\ entry.item # item
        BY <3>0, <3>2 DEF SameKey
      <4>2. CASE z = item
        <5>1. Current' = J
          BY <3>0, <4>2 DEF SameKey
        <5> QED  BY <3>0, <4>1, <4>2, <5>1
      <4>3. CASE z # item
        <5>1. Current' = (((I \ {z}) \cup {entry.item}) \ {item}) \cup {z}
          BY <2>1, <3>0, <3>2, <4>3 DEF SameKey
        <5> QED  BY <2>1, <4>1, <4>3, <5>1
      <4> QED  BY <4>2, <4>3
    <3> QED  BY <2>3, <3>1, <3>2
  <2> QED  BY <1>1, <2>4 DEF IM!vars
<1> QED  BY <1>3, <1>6, <1>7

\* A get or delete that goes on changes nothing, and one that ends at an empty
\* bucket shows that no item has the key.
LEMMA FindRefines ==
  ASSUME IInv, FindPasses \/ FindFails \/ GetReturns
  PROVE  [IM!Next]_(IM!vars)
<1> DEFINE I == ItemsIn(buckets, DOMAIN buckets)
<1>1. pc = "find" /\ buckets' = buckets /\ oom' = oom /\ Current = I
  BY DEF FindPasses, FindFails, GetReturns, fields, Current
<1>2. /\ nbuckets \in Sizes /\ Good(buckets, nbuckets) /\ UniqueIn(buckets, 0 .. nbuckets - 1)
      /\ item \in Items /\ i \in 0 .. nbuckets - 1 /\ op \in {"get", "delete"}
      /\ buckets[i].dib = 0 => NoneWith(buckets, item)
      /\ DOMAIN buckets = 0 .. nbuckets - 1
  BY <1>1, WholeArray, FindFacts
<1>3. pc' \in {"find", "idle"} => Current' = I
  BY <1>1 DEF Current
<1>4. CASE FindPasses
  <2>1. pc' = "find" /\ UNCHANGED <<op, item, answer>>
    BY <1>4 DEF FindPasses, fields
  <2> QED  BY <1>1, <1>3, <2>1 DEF IM!vars
<1>5. CASE FindFails
  <2>1. pc' = "idle" /\ Return(NULL) /\ NoneWith(buckets, item)
    BY <1>2, <1>5 DEF FindFails, Return
  <2>2. \A y \in Current : y.key # item.key
    BY <1>1, <1>2, <2>1, ItemsOf
  <2>3. IM!WithKey(item.key) = {} /\ Answered(item.key)
    BY <2>1, <2>2, AnswersNull
  <2>4. Current' = Current
    BY <1>1, <1>3, <2>1
  <2>5. CASE op = "get"
    BY <1>1, <2>3, <2>4, <2>5 DEF Answered, IM!GetReturns, IM!Return, IM!Next
  <2>6. CASE op = "delete"
    BY <1>1, <2>3, <2>4, <2>6 DEF Answered, IM!DeleteReturns, IM!Return, IM!Next
  <2> QED  BY <1>2, <2>5, <2>6
<1>6. CASE GetReturns
  <2> DEFINE z == buckets[i].item
  <2>1. /\ pc' = "idle" /\ op = "get" /\ Return(z)
        /\ i \in Full(buckets) /\ z.key = item.key
    BY <1>2, <1>6 DEF GetReturns, Return, Holds, SameKey, Full
  <2>2. z \in I /\ \A x, y \in I : x.key = y.key => x = y
    BY <1>2, <2>1, ItemsOf
  <2> HIDE DEF z, I
  <2>3. Answered(item.key)
    BY <1>1, <2>1, <2>2, AnswersItem
  <2>4. Current' = Current
    BY <1>1, <1>3, <2>1
  <2>5. IM!GetReturns
    BY <1>1, <2>1, <2>3, <2>4 DEF Answered, IM!GetReturns, IM!Return
  <2> QED  BY <2>5 DEF IM!Next
<1> QED  BY <1>4, <1>5, <1>6

\* What a delete takes out stays an item until it returns.
LEMMA DeleteFindsRefines ==
  ASSUME IInv, DeleteFinds
  PROVE  UNCHANGED IM!vars
<1> DEFINE n == nbuckets
           bs2 == [buckets EXCEPT ![i] = Empty]
<1>1. /\ pc = "find" /\ pc' = "shift" /\ Holds(i, item) /\ Hole' = {i}
      /\ spare' = buckets[i].item /\ buckets' = bs2 /\ UNCHANGED <<op, item, answer, oom>>
  BY DEF DeleteFinds, Hole
<1>2. /\ Good(buckets, n) /\ DOMAIN buckets = 0 .. n - 1 /\ i \in 0 .. n - 1
      /\ i \in Full(buckets) /\ Full(buckets) \subseteq 0 .. n - 1
  BY <1>1, WholeArray, FindFacts DEF Full, Holds
<1>3. /\ bs2[i].dib = 0 /\ DOMAIN bs2 = 0 .. n - 1
      /\ \A c \in (0 .. n - 1) \ {i} : bs2[c] = buckets[c]
  BY <1>2 DEF Good, Arrays, Empty
<1> HIDE DEF bs2
<1>4. (DOMAIN bs2 \ {i}) \cap Full(bs2) = Full(buckets) \ {i}
  BY <1>2, <1>3 DEF Full
<1>5. ItemsIn(bs2, DOMAIN bs2 \ {i}) \cup {buckets[i].item} = ItemsIn(buckets, DOMAIN buckets)
  BY <1>2, <1>3, <1>4 DEF ItemsIn
<1>6. Current = ItemsIn(buckets, DOMAIN buckets)
      /\ Current' = ItemsIn(bs2, DOMAIN bs2 \ {i}) \cup {buckets[i].item}
  BY <1>1 DEF Current
<1> QED  BY <1>1, <1>5, <1>6 DEF IM!vars

\* Items that move up stay.
LEMMA ShiftRefines ==
  ASSUME IInv, Shift
  PROVE  UNCHANGED IM!vars
<1> DEFINE n == nbuckets
           f == Following(i, n)
           e == [buckets[f] EXCEPT !.dib = @ - 1]
           bs2 == [buckets EXCEPT ![i] = e]
<1>1. /\ pc = "shift" /\ pc' = "shift" /\ buckets[f].dib > 1 /\ Hole' = {f}
      /\ buckets' = bs2 /\ UNCHANGED <<op, item, spare, answer, oom>>
  BY DEF Shift, fields, Hole, NextBucket
<1>2. /\ n \in Sizes /\ i \in 0 .. n - 1 /\ f \in 0 .. n - 1 /\ f # i /\ Hole = {i}
      /\ Good(buckets, n) /\ DOMAIN buckets = 0 .. n - 1 /\ Full(buckets) \subseteq 0 .. n - 1
      /\ buckets[f].dib \in Nat
  BY <1>1, ShiftFacts
<1>3. f \in Full(buckets)
  BY <1>1, <1>2 DEF Full
<1>4. buckets[f] \in Entries
  <2> HIDE DEF f
  <2> QED  BY <1>2, <1>3, GoodArray
<1>5. e.item = buckets[f].item /\ e.dib > 0
  BY <1>1, <1>4 DEF Entries, Distances
<1> HIDE DEF e
<1>6. /\ bs2[i] = e /\ DOMAIN bs2 = 0 .. n - 1
      /\ \A c \in (0 .. n - 1) \ {i} : bs2[c] = buckets[c]
  BY <1>2
<1> HIDE DEF bs2, f
<1>7. /\ (DOMAIN bs2 \ {f}) \cap Full(bs2) = ((Full(buckets) \ {i}) \ {f}) \cup {i}
      /\ (DOMAIN buckets \ {i}) \cap Full(buckets) = ((Full(buckets) \ {i}) \ {f}) \cup {f}
  BY <1>2, <1>3, <1>5, <1>6 DEF Full
<1>8. ItemsIn(bs2, DOMAIN bs2 \ {f}) = ItemsIn(buckets, DOMAIN buckets \ {i})
  <2> DEFINE S == (Full(buckets) \ {i}) \ {f}
  <2>1. \A b \in S : bs2[b].item = buckets[b].item
    BY <1>2, <1>6
  <2>2. bs2[i].item = buckets[f].item
    BY <1>5, <1>6
  <2> HIDE DEF S
  <2> QED  BY <1>7, <2>1, <2>2 DEF ItemsIn, S
<1>9. /\ Current = ItemsIn(buckets, DOMAIN buckets \ {i}) \cup {spare}
      /\ Current' = ItemsIn(bs2, DOMAIN bs2 \ {f}) \cup {spare}
  BY <1>1, <1>2 DEF Current
<1> QED  BY <1>1, <1>8, <1>9 DEF IM!vars

\* A delete returns, or goes on to make the map smaller.
LEMMA ShiftEndsRefines ==
  ASSUME IInv, ShiftEnds
  PROVE  IM!DeleteReturns \/ UNCHANGED IM!vars
<1> DEFINE n == nbuckets
           bs2 == [buckets EXCEPT ![i] = Empty]
           R == ItemsIn(buckets, DOMAIN buckets \ {i})
<1>1. /\ pc = "shift" /\ buckets' = bs2 /\ oom' = oom
      /\ Current = R \cup {spare}
  BY DEF ShiftEnds, Current, Hole
<1>2. /\ n \in Sizes /\ i \in 0 .. n - 1 /\ op = "delete"
      /\ Good(buckets, n) /\ DOMAIN buckets = 0 .. n - 1 /\ Full(buckets) \subseteq 0 .. n - 1
      /\ item \in Items /\ spare \in Items /\ spare # NULL /\ spare.key = item.key
      /\ \A b \in Full(buckets) \ {i} : ~SameKey(buckets[b].item, spare)
  BY <1>1, ShiftFacts, RobinHoodAssumption DEF SameKey
<1>3. /\ bs2[i].dib = 0 /\ DOMAIN bs2 = 0 .. n - 1
      /\ \A c \in (0 .. n - 1) \ {i} : bs2[c] = buckets[c]
  BY <1>2 DEF Good, Arrays, Empty
<1> HIDE DEF bs2
<1>4. Full(bs2) = Full(buckets) \ {i}
  BY <1>2, <1>3 DEF Full
<1>5. ItemsIn(bs2, DOMAIN bs2) = R
  BY <1>2, <1>3, <1>4 DEF ItemsIn
<1>6. \A y \in R : y.key # item.key
  BY <1>2 DEF ItemsIn, SameKey
<1> HIDE DEF R
<1>7. CASE MustShrink /\ StartResize(NewSize) /\ UNCHANGED <<op, item, entry, j, spare, answer>>
  <2> DEFINE e == EmptyBuckets(NewSize)
  <2>1. NewSize \in Sizes
    <3>1. PICK m \in Doubled(cap) : n = 2 * m
      <4>1. n # cap
        BY <1>7, SizesFacts DEF MustShrink, IInv
      <4> QED  BY <4>1, DoubledIs DEF IInv, SizesOK
    <3>2. m \in Sizes
      BY <3>1, DoubledIs DEF IInv, SizesOK
    <3>3. NewSize = m
      BY <1>2, <3>1, <3>2 DEF NewSize, Sizes
    <3> QED  BY <3>2, <3>3
  <2>2. Full(e) = {}
    BY <2>1, EmptyArray
  <2> HIDE DEF e
  <2>3. ItemsIn(e, DOMAIN e) = {}
    BY <2>2 DEF ItemsIn
  <2>4. /\ pc' = "resize" /\ i' = 0 /\ buckets2' = e /\ nbuckets' = n
        /\ UNCHANGED <<op, item, spare, answer>>
    BY <1>7 DEF StartResize, e, ShiftEnds, sizes
  <2>5. Current' = ItemsIn(bs2, 0 .. n - 1) \cup ItemsIn(e, DOMAIN e) \cup ({spare} \ {NULL})
    BY <1>1, <2>4 DEF Current
  <2>6. Current' = Current
    BY <1>1, <1>2, <1>3, <1>5, <2>3, <2>5
  <2> QED  BY <1>1, <2>4, <2>6 DEF IM!vars
<1>8. CASE Return(spare)
  <2>1. pc' = "idle"
    BY <1>8 DEF Return
  <2>2. Current' = R
    BY <1>1, <1>5, <2>1 DEF Current
  <2>3. IM!WithKey(item.key) = {spare} /\ Answered(item.key)
    <3>1. spare \in Current /\ \A y \in Current : y.key = item.key => y = spare
      BY <1>1, <1>6
    <3> QED  BY <1>2, <1>8, <3>1, AnswersItem
  <2>4. Current' = Current \ {spare}
    BY <1>1, <1>2, <1>6, <2>2
  <2> QED  BY <1>1, <1>2, <2>3, <2>4 DEF Answered, IM!DeleteReturns, IM!Return
<1> QED  BY <1>7, <1>8 DEF ShiftEnds

\* A resize moves items, and has them all at every step.
LEMMA ResizeRefines ==
  ASSUME IInv, IInv', ResizeSkips \/ ResizeMoves \/ MovePlaces \/ MovePasses
  PROVE  UNCHANGED IM!vars
<1>1. /\ pc \in {"resize", "move"} /\ pc' \in {"resize", "move"}
      /\ UNCHANGED <<buckets, op, item, spare, answer, oom>>
  BY DEF ResizeSkips, ResizeMoves, MovePlaces, MovePasses, fields
<1>2. Current = ItemsIn(buckets, DOMAIN buckets) \cup ({spare} \ {NULL})
  BY <1>1, CurrentResizing
<1>3. Current' = ItemsIn(buckets', DOMAIN buckets') \cup ({spare'} \ {NULL})
  BY <1>1 DEF IInv, ResizeOK, Current, Left
<1> QED  BY <1>1, <1>2, <1>3 DEF IM!vars

\* Then a set goes on with all its items, and a delete returns.
LEMMA ResizeEndsRefines ==
  ASSUME IInv, ResizeEnds
  PROVE  IM!DeleteReturns \/ UNCHANGED IM!vars
<1> DEFINE J == ItemsIn(buckets2, DOMAIN buckets2)
<1>1. pc = "resize" /\ i = nbuckets /\ buckets' = buckets2 /\ oom' = oom
  BY DEF ResizeEnds
<1>2. /\ Current = J \cup ({spare} \ {NULL})
      /\ J \subseteq ItemsIn(buckets, DOMAIN buckets)
      /\ item \in Items
  <2>1. Current = ItemsIn(buckets, nbuckets .. nbuckets - 1) \cup J \cup ({spare} \ {NULL})
    BY <1>1 DEF Current
  <2>2. nbuckets .. nbuckets - 1 = {}
    BY <1>1, ResizeFacts DEF Sizes
  <2>3. ItemsIn(buckets, nbuckets .. nbuckets - 1) = {}
    BY <2>2 DEF ItemsIn
  <2>4. J \subseteq ItemsIn(buckets, DOMAIN buckets)
    BY <1>1 DEF IInv, ResizeOK
  <2> HIDE DEF J
  <2> QED  BY <1>1, <2>1, <2>3, <2>4 DEF IInv, CallOK
<1>3. CASE op = "set" /\ StartSet(item, NewSize) /\ UNCHANGED <<op, item, spare, answer>>
  <2>1. /\ pc' = "set" /\ entry'.item = item /\ spare = NULL
        /\ UNCHANGED <<op, item, answer>>
    BY <1>1, <1>3 DEF StartSet, EntryOf, IInv, CallOK, Deleting
  <2>2. Current' = J
    BY <1>1, <2>1 DEF Current, SameKey
  <2> HIDE DEF J
  <2>3. Current' = Current
    BY <1>2, <2>1, <2>2
  <2> QED  BY <1>1, <2>1, <2>3 DEF IM!vars
<1>4. CASE op = "delete" /\ Return(spare)
  <2>1. /\ pc' = "idle"
        /\ spare \in Items /\ spare # NULL /\ spare.key = item.key
        /\ \A b \in Full(buckets) : ~SameKey(buckets[b].item, spare)
    <3>1. Hole = {} /\ Full(buckets) \ {} = Full(buckets)
      BY <1>1 DEF Hole
    <3> QED  BY <1>1, <1>4, <3>1, RobinHoodAssumption DEF Return, IInv, CallOK, Deleting, SameKey
  <2>2. Current' = J
    BY <1>1, <2>1 DEF Current
  <2>3. \A y \in J : y.key # item.key
    <3>1. nbuckets \in Sizes /\ Good(buckets, nbuckets)
      BY <1>1, ResizeFacts
    <3>2. \A y \in ItemsIn(buckets, DOMAIN buckets) : y.key # spare.key
      BY <2>1, <3>1, ItemsOf DEF NoneWith
    <3> HIDE DEF J
    <3> QED  BY <1>2, <2>1, <3>2
  <2> HIDE DEF J
  <2>4. IM!WithKey(item.key) = {spare} /\ Answered(item.key)
    <3>1. spare \in Current /\ \A y \in Current : y.key = item.key => y = spare
      BY <1>2, <2>1, <2>3
    <3> QED  BY <1>4, <2>1, <3>1, AnswersItem
  <2>5. Current' = Current \ {spare}
    BY <1>2, <2>1, <2>2, <2>3
  <2> QED  BY <1>1, <1>4, <2>4, <2>5 DEF Answered, IM!DeleteReturns, IM!Return
<1> QED  BY <1>3, <1>4 DEF ResizeEnds

\* To its callers the map is a set of items, one for a key, whatever moves:
\* every step begins or returns a call of ItemMap, or leaves the items, the
\* arguments and the answer.
THEOREM ImplementsItemMap == Spec => IsItemMap
<1>1. Init => IM!Init
  <2> SUFFICES ASSUME Init PROVE IM!Init
    OBVIOUS
  <2>1. Current = ItemsIn(buckets, DOMAIN buckets)
    BY DEF Init, NoCall, Current
  <2>2. Full(buckets) = {}
    BY EmptyArray, RobinHoodAssumption DEF Init, Sizes
  <2> QED  BY <2>1, <2>2 DEF Init, NoCall, ItemsIn, IM!Init
<1>2. IInv /\ IInv' /\ [Next]_vars => [IM!Next]_(IM!vars)
  <2> SUFFICES ASSUME IInv, IInv', [Next]_vars PROVE [IM!Next]_(IM!vars)
    OBVIOUS
  <2>1. CASE Call
    BY <2>1, CallRefines
  <2>2. CASE SetPlaces \/ SetReplaces \/ SetPasses
    BY <2>2, SetPlacesRefines, SetReplacesRefines, SetPassesRefines DEF IM!Next
  <2>3. CASE FindPasses \/ FindFails \/ GetReturns
    BY <2>3, FindRefines
  <2>4. CASE DeleteFinds \/ Shift \/ ShiftEnds
    BY <2>4, DeleteFindsRefines, ShiftRefines, ShiftEndsRefines DEF IM!Next
  <2>5. CASE ResizeSkips \/ ResizeMoves \/ MovePlaces \/ MovePasses \/ ResizeEnds
    BY <2>5, ResizeRefines, ResizeEndsRefines DEF IM!Next
  <2>6. CASE UNCHANGED vars
    <3>1. UNCHANGED <<buckets, nbuckets, pc, op, item, entry, i, buckets2, spare, answer, oom>>
      BY <2>6 DEF vars, sizes, locals
    <3>2. Current' = Current
      BY <3>1 DEF Current, Hole
    <3> QED  BY <3>1, <3>2 DEF IM!vars
  <2> QED  BY <2>1, <2>2, <2>3, <2>4, <2>5, <2>6 DEF Next, Step
<1>3. Spec => [][IM!Next]_(IM!vars)
  BY <1>2, Invariance, PTL DEF Spec
<1> QED  BY <1>1, <1>3, PTL DEF Spec, IsItemMap, IM!Spec
=============================================================================
