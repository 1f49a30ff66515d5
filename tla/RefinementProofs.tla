--------------------------- MODULE RefinementProofs ---------------------------
(***************************************************************************)
(* Datastore implements DatastoreAbs, for every schema, instance, client   *)
(* and bound.  The keys of a position are those of its parent and, at a    *)
(* list entry, its own; positions of the same shape and the same keys are  *)
(* one; and on the way down, the keys of the node reached and the keys     *)
(* left are the keys asked for.                                            *)
(***************************************************************************)
EXTENDS DatastoreMap, DatastoreProofs

\* What keys are made of.
KeyValues == Nat \cup {getCoreconfValueAsUint64(c) : c \in Cells}

\* The keys a position adds to those of its parent.
OwnKeys(t, s, p) ==
  IF Node(s \o Shape(p)).kind = "entry" THEN EntryKeys(t, p, Node(s \o Shape(p)).sid) ELSE <<>>

-----------------------------------------------------------------------------
(* The keys of a position *)

\* f concatenates outer and the sequences g.
Concatenates(f, n, outer, g) ==
  f = [i \in 0 .. n |-> (IF i = 0 THEN outer ELSE f[i - 1]) \o g[i]]

\* There is such a function.
LEMMA ConcatenationExists ==
  ASSUME NEW n \in Nat, NEW outer, NEW g
  PROVE  \E f : Concatenates(f, n, outer, g)
<1> DEFINE S == {k \in Nat : \E f : Concatenates(f, k, outer, g)}
<1>1. 0 \in S
  <2> DEFINE f == [i \in 0 .. 0 |-> outer \o g[i]]
  <2>1. Concatenates(f, 0, outer, g)
    BY DEF Concatenates
  <2> QED  BY <2>1
<1>2. ASSUME NEW k \in Nat, k \in S PROVE k + 1 \in S
  <2>1. PICK f : Concatenates(f, k, outer, g)
    BY <1>2
  <2> DEFINE e == f[k] \o g[k + 1]
             h == [i \in 0 .. k + 1 |-> IF i <= k THEN f[i] ELSE e]
             c(i) == (IF i = 0 THEN outer ELSE f[i - 1]) \o g[i]
             d(i) == (IF i = 0 THEN outer ELSE h[i - 1]) \o g[i]
  <2>2. \A i \in 0 .. k + 1 : h[i] = d(i)
    <3>1. \A i \in 0 .. k : f[i] = c(i)
      BY <2>1 DEF Concatenates
    <3>2. k + 1 # 0 /\ (k + 1) - 1 = k /\ k \in 0 .. k
      OBVIOUS
    <3>3. c(k + 1) = e
      BY <3>2
    <3> HIDE DEF e
    <3>4. (\A i \in 0 .. k : h[i] = f[i]) /\ h[k + 1] = e
      OBVIOUS
    <3> HIDE DEF h
    <3>5. \A i \in 0 .. k + 1 : d(i) = c(i)
      <4> TAKE i \in 0 .. k + 1
      <4>1. i # 0 => i - 1 \in 0 .. k
        OBVIOUS
      <4>2. i # 0 => h[i - 1] = f[i - 1]
        BY <4>1, <3>4
      <4> QED BY <4>2
    <3> HIDE DEF c, d
    <3>6. \A i \in 0 .. k + 1 : i \in 0 .. k \/ i = k + 1
      OBVIOUS
    <3> QED BY <3>1, <3>3, <3>4, <3>5, <3>6
  <2>3. Concatenates(h, k + 1, outer, g)
    BY <2>2 DEF Concatenates
  <2> HIDE DEF h
  <2> QED  BY <2>3
<1> HIDE DEF S
<1>3. n \in S
  BY <1>1, <1>2, NatSetInduction
<1> QED  BY <1>3 DEF S

\* What KeysAt adds after n steps of p.
EntryStep(t, s, p, n) ==
  IF (IF n = 0 THEN Node(s).kind = "entry" ELSE p[n][2] > 0)
  THEN EntryKeys(t, SubSeq(p, 1, n), Node(s \o Shape(SubSeq(p, 1, n))).sid)
  ELSE <<>>

\* The recursion of KeysAt is well founded.
LEMMA KeysAtConcatenates ==
  ASSUME NEW t, NEW s, NEW outer, NEW p \in Positions
  PROVE  \E f : /\ Concatenates(f, Len(p), outer, [n \in 0 .. Len(p) |-> EntryStep(t, s, p, n)])
                /\ KeysAt(t, s, outer, p) = f[Len(p)]
<1> DEFINE g == [n \in 0 .. Len(p) |-> EntryStep(t, s, p, n)]
           Body(f) ==
             [n \in 0 .. Len(p) |->
                (IF n = 0 THEN outer ELSE f[n - 1])
                  \o IF (IF n = 0 THEN Node(s).kind = "entry" ELSE p[n][2] > 0)
                     THEN EntryKeys(t, SubSeq(p, 1, n), Node(s \o Shape(SubSeq(p, 1, n))).sid)
                     ELSE <<>>]
<1>1. Len(p) \in Nat
  BY DEF Positions
<1>2. PICK h : Concatenates(h, Len(p), outer, g)
  <2> HIDE DEF g
  <2> QED  BY <1>1, ConcatenationExists
<1>3. \A f : Concatenates(f, Len(p), outer, g) <=> f = Body(f)
  BY DEF Concatenates, EntryStep
<1>4. KeysAt(t, s, outer, p) = (CHOOSE f : f = Body(f))[Len(p)]
  BY DEF KeysAt
<1> HIDE DEF Body, g
<1>5. (CHOOSE f : f = Body(f)) = Body(CHOOSE f : f = Body(f))
  BY <1>2, <1>3
<1> QED  BY <1>3, <1>4, <1>5 DEF g

\* At the top of a value.
LEMMA KeysAtTop ==
  ASSUME NEW t, NEW s, NEW outer
  PROVE  KeysAt(t, s, outer, <<>>) = outer \o EntryStep(t, s, <<>>, 0)
<1>1. <<>> \in Positions /\ Len(<<>>) = 0
  BY DEF Positions
<1>2. PICK f : /\ Concatenates(f, 0, outer, [n \in 0 .. 0 |-> EntryStep(t, s, <<>>, n)])
               /\ KeysAt(t, s, outer, <<>>) = f[0]
  BY <1>1, KeysAtConcatenates
<1> QED  BY <1>2 DEF Concatenates

\* One step further down.
LEMMA KeysAtBelow ==
  ASSUME NEW t, NEW s, NEW outer, NEW p \in Positions, NEW x \in Steps
  PROVE  KeysAt(t, s, outer, Append(p, x))
           = KeysAt(t, s, outer, p) \o EntryStep(t, s, Append(p, x), Len(p) + 1)
<1> DEFINE q == Append(p, x)
<1>1. /\ q \in Positions /\ Len(p) \in Nat /\ Len(q) = Len(p) + 1
      /\ \A n \in 0 .. Len(p) : SubSeq(q, 1, n) = SubSeq(p, 1, n)
      /\ \A n \in 1 .. Len(p) : q[n] = p[n]
  BY DEF Positions, Steps
<1> HIDE DEF q
<1>2. \A n \in 0 .. Len(p) : EntryStep(t, s, q, n) = EntryStep(t, s, p, n)
  <2>1. EntryStep(t, s, q, 0) = EntryStep(t, s, p, 0)
    <3>1. SubSeq(q, 1, 0) = SubSeq(p, 1, 0)
      BY <1>1
    <3> QED  BY <3>1 DEF EntryStep
  <2>2. ASSUME NEW n \in 1 .. Len(p) PROVE EntryStep(t, s, q, n) = EntryStep(t, s, p, n)
    <3>1. SubSeq(q, 1, n) = SubSeq(p, 1, n) /\ q[n] = p[n] /\ n # 0
      BY <1>1
    <3> QED  BY <3>1 DEF EntryStep
  <2> QED  BY <1>1, <2>1, <2>2
<1>3. PICK f : /\ Concatenates(f, Len(p), outer, [n \in 0 .. Len(p) |-> EntryStep(t, s, p, n)])
               /\ KeysAt(t, s, outer, p) = f[Len(p)]
  BY KeysAtConcatenates
<1>4. PICK h : /\ Concatenates(h, Len(q), outer, [n \in 0 .. Len(q) |-> EntryStep(t, s, q, n)])
               /\ KeysAt(t, s, outer, q) = h[Len(q)]
  BY <1>1, KeysAtConcatenates
<1>5. \A n \in 0 .. Len(p) : f[n] = (IF n = 0 THEN outer ELSE f[n - 1]) \o EntryStep(t, s, p, n)
  BY <1>3 DEF Concatenates
<1>6. \A n \in 0 .. Len(p) + 1 :
        h[n] = (IF n = 0 THEN outer ELSE h[n - 1]) \o EntryStep(t, s, q, n)
  BY <1>1, <1>4 DEF Concatenates
<1> DEFINE S == {n \in Nat : n <= Len(p) => h[n] = f[n]}
<1>7. 0 \in S
  <2>1. h[0] = outer \o EntryStep(t, s, q, 0) /\ f[0] = outer \o EntryStep(t, s, p, 0)
    BY <1>1, <1>5, <1>6
  <2>2. EntryStep(t, s, q, 0) = EntryStep(t, s, p, 0)
    BY <1>1, <1>2
  <2> QED  BY <2>1, <2>2
<1>8. ASSUME NEW n \in Nat, n \in S PROVE n + 1 \in S
  <2> SUFFICES ASSUME n + 1 <= Len(p) PROVE h[n + 1] = f[n + 1]
    OBVIOUS
  <2> DEFINE k == n + 1
  <2>1. k \in 1 .. Len(p) /\ k \in 0 .. Len(p) + 1 /\ k # 0 /\ k - 1 = n
    BY <1>1
  <2>2. h[n] = f[n]
    BY <2>1, <1>8
  <2> HIDE DEF k
  <2>3. h[k] = h[k - 1] \o EntryStep(t, s, q, k)
    BY <1>6, <2>1
  <2>4. f[k] = f[k - 1] \o EntryStep(t, s, p, k)
    BY <1>5, <2>1
  <2>5. EntryStep(t, s, q, k) = EntryStep(t, s, p, k)
    BY <1>2, <2>1
  <2>6. h[k] = f[k]
    BY <2>1, <2>2, <2>3, <2>4, <2>5
  <2> QED  BY <2>6 DEF k
<1> HIDE DEF S
<1>9. Len(p) \in S
  BY <1>1, <1>7, <1>8, NatSetInduction
<1>10. h[Len(p)] = f[Len(p)]
  BY <1>1, <1>9 DEF S
<1>11. h[Len(p) + 1] = h[Len(p)] \o EntryStep(t, s, q, Len(p) + 1)
  <2> DEFINE k == Len(p) + 1
  <2>1. k \in 0 .. Len(p) + 1 /\ k # 0 /\ k - 1 = Len(p)
    BY <1>1
  <2> HIDE DEF k
  <2>2. h[k] = h[k - 1] \o EntryStep(t, s, q, k)
    BY <1>6, <2>1
  <2> QED  BY <2>1, <2>2 DEF k
<1> QED  BY <1>1, <1>3, <1>4, <1>10, <1>11 DEF q

-----------------------------------------------------------------------------
(* The keys of the positions of a value of the schema *)

\* A position ends in an element exactly below an array, and there it is the
\* entry of a list.
LEMMA ElementsAreEntries ==
  ASSUME NEW s \in Shapes, NEW t, Conforms(t, s), NEW p \in DOMAIN t, p # <<>>
  PROVE  /\ (Last(p)[2] > 0) <=> (Node(s \o Shape(p)).kind = "entry")
         /\ (t[Front(p)].type = "ARRAY") <=> (Node(s \o Shape(p)).kind = "entry")
<1>1. /\ Front(p) \in DOMAIN t /\ Last(p) \in Steps
      /\ s \o Shape(p) = Append(s \o Shape(Front(p)), Last(p)[1])
      /\ Last(p)[2] \in IF t[Front(p)].type = "ARRAY" THEN 1 .. t[Front(p)].val ELSE {0}
      /\ s \o Shape(p) \in Shapes
  BY Cell
<1>2. /\ s \o Shape(Front(p)) \in Shapes
      /\ t[Front(p)].type = Node(s \o Shape(Front(p))).type
  BY <1>1, Cell
<1>3. (Node(s \o Shape(p)).kind = "entry") <=> (Node(s \o Shape(Front(p))).kind = "list")
  <2>1. Last(p)[1] \in Int
    BY <1>1 DEF Steps
  <2> QED  BY <1>1, <1>2, <2>1, ChildShape
<1>4. (t[Front(p)].type = "ARRAY") <=> (Node(s \o Shape(Front(p))).kind = "list")
  BY <1>2, SchemaAssumption
<1>5. CASE t[Front(p)].type = "ARRAY"
  <2>1. Last(p)[2] \in 1 .. t[Front(p)].val
    BY <1>1, <1>5
  <2> QED  BY <1>3, <1>4, <1>5, <2>1
<1>6. CASE t[Front(p)].type # "ARRAY"
  <2>1. Last(p)[2] = 0
    BY <1>1, <1>6
  <2> QED  BY <1>3, <1>4, <1>6, <2>1
<1> QED  BY <1>5, <1>6

\* The keys of an entry: as many as its list has.
LEMMA EntryKeysType ==
  ASSUME NEW s \in Shapes, NEW t, Conforms(t, s), NEW e \in DOMAIN t,
         Node(s \o Shape(e)).kind = "entry"
  PROVE  LET sid == Node(s \o Shape(e)).sid
         IN /\ sid \in DOMAIN KeyMapping /\ HasKeys(t, e, KeyDeltas(sid))
            /\ EntryKeys(t, e, sid) \in Seq(KeyValues)
            /\ Len(EntryKeys(t, e, sid)) = Len(KeyMapping[sid])
            /\ DOMAIN KeyDeltas(sid) = 1 .. Len(KeyMapping[sid])
            /\ \A k \in 1 .. Len(KeyMapping[sid]) :
                 EntryKeys(t, e, sid)[k]
                   = getCoreconfValueAsUint64(t[Append(e, Key(KeyDeltas(sid)[k]))])
<1> DEFINE sid == Node(s \o Shape(e)).sid
<1>1. s \o Shape(e) \in Shapes /\ Complete(t, s, e)
  BY Cell DEF Conforms
<1>2. sid \in DOMAIN KeyMapping /\ HasKeys(t, e, KeyDeltas(sid))
  BY <1>1, EntryHasKeyMapping DEF Complete
<1> HIDE DEF sid
<1>3. KeyMapping[sid] \in Seq(Int)
  BY <1>2, KeyMappingAssumption
<1>4. /\ Len(KeyMapping[sid]) \in Nat /\ DOMAIN KeyMapping[sid] = 1 .. Len(KeyMapping[sid])
      /\ DOMAIN KeyDeltas(sid) = 1 .. Len(KeyMapping[sid])
  BY <1>3 DEF KeyDeltas
<1>5. ASSUME NEW k \in 1 .. Len(KeyMapping[sid])
      PROVE  getCoreconfValueAsUint64(t[Append(e, Key(KeyDeltas(sid)[k]))]) \in KeyValues
  <2>1. Append(e, Key(KeyDeltas(sid)[k])) \in DOMAIN t
    BY <1>2, <1>4 DEF HasKeys
  <2>2. t[Append(e, Key(KeyDeltas(sid)[k]))] \in Cells
    BY <2>1, Cell
  <2> QED  BY <2>2 DEF KeyValues
<1> DEFINE v(k) == getCoreconfValueAsUint64(t[Append(e, Key(KeyDeltas(sid)[k]))])
<1>6. EntryKeys(t, e, sid) = [k \in 1 .. Len(KeyMapping[sid]) |-> v(k)]
  BY <1>4 DEF EntryKeys
<1>7. \A k \in 1 .. Len(KeyMapping[sid]) : v(k) \in KeyValues
  BY <1>5
<1> HIDE DEF v
<1>8. /\ EntryKeys(t, e, sid) \in Seq(KeyValues)
      /\ Len(EntryKeys(t, e, sid)) = Len(KeyMapping[sid])
      /\ \A k \in 1 .. Len(KeyMapping[sid]) : EntryKeys(t, e, sid)[k] = v(k)
  BY <1>4, <1>6, <1>7
<1> QED  BY <1>2, <1>4, <1>8 DEF v, sid

\* The keys of a position are those of its parent, and its own.
LEMMA KeysAtStep ==
  ASSUME NEW s \in Shapes, NEW t, Conforms(t, s), NEW outer, NEW p \in DOMAIN t
  PROVE  /\ KeysAt(t, s, outer, p)
              = (IF p = <<>> THEN outer ELSE KeysAt(t, s, outer, Front(p))) \o OwnKeys(t, s, p)
         /\ OwnKeys(t, s, p) \in Seq(KeyValues)
<1>1. OwnKeys(t, s, p) \in Seq(KeyValues)
  <2>1. CASE Node(s \o Shape(p)).kind = "entry"
    BY <2>1, EntryKeysType DEF OwnKeys
  <2>2. CASE Node(s \o Shape(p)).kind # "entry"
    BY <2>2 DEF OwnKeys
  <2> QED  BY <2>1, <2>2
<1>2. p \in Positions
  BY Cell
<1>3. CASE p = <<>>
  <2>1. Shape(<<>>) = <<>> /\ s \o <<>> = s /\ SubSeq(<<>>, 1, 0) = <<>>
    BY SchemaAssumption DEF Shape
  <2>2. EntryStep(t, s, <<>>, 0) = OwnKeys(t, s, <<>>)
    BY <2>1 DEF EntryStep, OwnKeys
  <2> QED  BY <1>1, <1>3, <2>2, KeysAtTop
<1>4. CASE p # <<>>
  <2>1. /\ Front(p) \in Positions /\ Last(p) \in Steps /\ p = Append(Front(p), Last(p))
        /\ Len(p) = Len(Front(p)) + 1 /\ Len(Front(p)) \in Nat
    BY <1>4, Cell DEF Positions
  <2>2. KeysAt(t, s, outer, p) = KeysAt(t, s, outer, Front(p)) \o EntryStep(t, s, p, Len(p))
    BY <2>1, KeysAtBelow
  <2>3. EntryStep(t, s, p, Len(p)) = OwnKeys(t, s, p)
    <3>1. SubSeq(p, 1, Len(p)) = p /\ p[Len(p)] = Last(p) /\ Len(p) # 0
      BY <1>2, <2>1 DEF Positions, Last
    <3>2. (Last(p)[2] > 0) <=> (Node(s \o Shape(p)).kind = "entry")
      BY <1>4, ElementsAreEntries
    <3> QED  BY <3>1, <3>2 DEF EntryStep, OwnKeys
  <2> QED  BY <1>1, <1>4, <2>2, <2>3
<1> QED  BY <1>3, <1>4

\* Further down there are more keys.
LEMMA KeysAtGrows ==
  ASSUME NEW s \in Shapes, NEW t, Conforms(t, s), NEW outer \in Seq(KeyValues), NEW p \in DOMAIN t
  PROVE  /\ KeysAt(t, s, outer, p) \in Seq(KeyValues)
         /\ \A q \in DOMAIN t : IsPrefix(q, p) =>
              IsPrefix(KeysAt(t, s, outer, q), KeysAt(t, s, outer, p))
<1> DEFINE K(r) == KeysAt(t, s, outer, r)
           T == {r \in DOMAIN t : K(r) \in Seq(KeyValues)}
           P == {r \in DOMAIN t : \A q \in DOMAIN t : IsPrefix(q, r) => IsPrefix(K(q), K(r))}
<1>1. <<>> \in DOMAIN t
  BY DEF Conforms
<1>2. /\ K(<<>>) = outer \o OwnKeys(t, s, <<>>)
      /\ \A r \in DOMAIN t : OwnKeys(t, s, r) \in Seq(KeyValues)
      /\ \A r \in DOMAIN t : r # <<>> => K(r) = K(Front(r)) \o OwnKeys(t, s, r)
  BY <1>1, KeysAtStep
<1> HIDE DEF K
<1>3. <<>> \in T
  <2>1. outer \o OwnKeys(t, s, <<>>) \in Seq(KeyValues)
    BY <1>1, <1>2, ConcatProperties
  <2> QED  BY <1>1, <1>2, <2>1
<1>4. ASSUME NEW r \in DOMAIN t, r # <<>>, Front(r) \in T PROVE r \in T
  <2>1. K(Front(r)) \o OwnKeys(t, s, r) \in Seq(KeyValues)
    BY <1>2, <1>4, ConcatProperties
  <2> QED  BY <1>2, <1>4, <2>1
<1> HIDE DEF T
<1>5. \A r \in DOMAIN t : r \in T
  BY <1>3, <1>4, TreeInduction
<1>6. \A r \in DOMAIN t : K(r) \in Seq(KeyValues)
  BY <1>5 DEF T
<1>7. <<>> \in P
  <2>1. ASSUME NEW q \in DOMAIN t, IsPrefix(q, <<>>) PROVE IsPrefix(K(q), K(<<>>))
    <3>1. q \in Seq(Int \X Nat)
      BY Cell DEF Positions
    <3>2. q = <<>>
      BY <2>1, <3>1, PrefixEnds
    <3> QED  BY <1>1, <1>6, <3>2, PrefixEnds
  <2> QED  BY <1>1, <2>1
<1>8. ASSUME NEW r \in DOMAIN t, r # <<>>, Front(r) \in P PROVE r \in P
  <2>1. /\ Front(r) \in Positions /\ Last(r) \in Steps /\ r = Append(Front(r), Last(r))
        /\ Front(r) \in DOMAIN t
    BY <1>8, Cell
  <2>2. K(r) = K(Front(r)) \o OwnKeys(t, s, r) /\ OwnKeys(t, s, r) \in Seq(KeyValues)
    BY <1>2, <1>8
  <2>3. IsPrefix(K(Front(r)), K(r))
    BY <1>6, <2>1, <2>2, PrefixConcat
  <2>4. ASSUME NEW q \in DOMAIN t, IsPrefix(q, r) PROVE IsPrefix(K(q), K(r))
    <3>1. q \in Positions
      BY Cell
    <3>2. IsPrefix(q, Front(r)) \/ q = r
      BY <2>1, <2>4, <3>1, PrefixAppend DEF Positions, Steps
    <3>3. CASE q = r
      BY <1>6, <3>3, PrefixEnds
    <3>4. CASE IsPrefix(q, Front(r))
      <4>1. IsPrefix(K(q), K(Front(r)))
        BY <1>8, <3>4
      <4>2. K(q) \in Seq(KeyValues) /\ K(Front(r)) \in Seq(KeyValues) /\ K(r) \in Seq(KeyValues)
        BY <1>6, <2>1
      <4> QED  BY <2>3, <4>1, <4>2, PrefixesNest
    <3> QED  BY <3>2, <3>3, <3>4
  <2> QED  BY <2>4
<1> HIDE DEF P
<1>9. p \in P
  BY <1>7, <1>8, TreeInduction
<1> QED  BY <1>6, <1>9 DEF P, K

\* Positions of the same shape have the same number of keys, own and in all.
LEMMA SameShapeSameNumber ==
  ASSUME NEW s \in Shapes, NEW t, Conforms(t, s), NEW outer \in Seq(KeyValues),
         NEW p \in DOMAIN t, NEW q \in DOMAIN t, Shape(p) = Shape(q)
  PROVE  /\ Len(OwnKeys(t, s, p)) = Len(OwnKeys(t, s, q))
         /\ Len(KeysAt(t, s, outer, p)) = Len(KeysAt(t, s, outer, q))
<1> DEFINE K(r) == KeysAt(t, s, outer, r)
           Own(r) == OwnKeys(t, s, r)
           P == {r \in DOMAIN t : \A u \in DOMAIN t : Shape(u) = Shape(r) => Len(K(u)) = Len(K(r))}
<1>1. \A u, r \in DOMAIN t : Shape(u) = Shape(r) => Len(Own(u)) = Len(Own(r))
  <2> SUFFICES ASSUME NEW u \in DOMAIN t, NEW r \in DOMAIN t, Shape(u) = Shape(r)
               PROVE  Len(Own(u)) = Len(Own(r))
    OBVIOUS
  <2>1. CASE Node(s \o Shape(u)).kind = "entry"
    <3>1. Len(EntryKeys(t, u, Node(s \o Shape(u)).sid)) = Len(KeyMapping[Node(s \o Shape(u)).sid])
      BY <2>1, EntryKeysType
    <3>2. Len(EntryKeys(t, r, Node(s \o Shape(r)).sid)) = Len(KeyMapping[Node(s \o Shape(r)).sid])
      BY <2>1, EntryKeysType
    <3> QED  BY <2>1, <3>1, <3>2 DEF OwnKeys
  <2>2. CASE Node(s \o Shape(u)).kind # "entry"
    BY <2>2 DEF OwnKeys
  <2> QED  BY <2>1, <2>2
<1>2. \A r \in DOMAIN t : /\ K(r) \in Seq(KeyValues) /\ Own(r) \in Seq(KeyValues)
                          /\ r # <<>> => K(r) = K(Front(r)) \o Own(r)
  BY KeysAtGrows, KeysAtStep
<1>3. \A r \in DOMAIN t : Len(Shape(r)) = Len(r) /\ r \in Positions
  BY Cell, ShapeType
<1> HIDE DEF K, Own
<1>4. <<>> \in P
  <2>1. <<>> \in DOMAIN t
    BY DEF Conforms
  <2>2. ASSUME NEW u \in DOMAIN t, Shape(u) = Shape(<<>>) PROVE u = <<>>
    BY <1>3, <2>1, <2>2 DEF Positions
  <2> QED  BY <2>1, <2>2
<1>5. ASSUME NEW r \in DOMAIN t, r # <<>>, Front(r) \in P PROVE r \in P
  <2> SUFFICES ASSUME NEW u \in DOMAIN t, Shape(u) = Shape(r) PROVE Len(K(u)) = Len(K(r))
    OBVIOUS
  <2>1. u # <<>>
    BY <1>3, <1>5 DEF Positions
  <2>2. /\ Front(u) \in DOMAIN t /\ Front(r) \in DOMAIN t
        /\ Front(Shape(u)) = Shape(Front(u)) /\ Front(Shape(r)) = Shape(Front(r))
    BY <1>3, <1>5, <2>1, Cell, ShapeFront
  <2>3. Len(K(Front(u))) = Len(K(Front(r)))
    BY <1>5, <2>2
  <2>4. /\ Len(K(u)) = Len(K(Front(u))) + Len(Own(u))
        /\ Len(K(r)) = Len(K(Front(r))) + Len(Own(r))
    <3>1. \A v \in DOMAIN t : v # <<>> /\ Front(v) \in DOMAIN t =>
            Len(K(v)) = Len(K(Front(v))) + Len(Own(v))
      BY <1>2, ConcatProperties
    <3> QED  BY <1>5, <2>1, <2>2, <3>1
  <2> QED  BY <1>1, <2>3, <2>4
<1> HIDE DEF P
<1>6. p \in P
  BY <1>4, <1>5, TreeInduction
<1> QED  BY <1>1, <1>6 DEF P, K, Own

\* Entries with the same keys have the same keys.
LEMMA EqualKeys ==
  ASSUME NEW t, NEW e, NEW u, NEW f, NEW sid \in DOMAIN KeyMapping,
         HasKeys(t, e, KeyDeltas(sid)), HasKeys(u, f, KeyDeltas(sid))
  PROVE  SameKeys(t, e, u, f, KeyDeltas(sid)) <=> EntryKeys(t, e, sid) = EntryKeys(u, f, sid)
<1> DEFINE v(k) == getCoreconfValueAsUint64(t[Append(e, Key(KeyDeltas(sid)[k]))])
           w(k) == getCoreconfValueAsUint64(u[Append(f, Key(KeyDeltas(sid)[k]))])
<1>1. DOMAIN KeyDeltas(sid) = DOMAIN KeyMapping[sid]
  BY DEF KeyDeltas
<1>2. SameKeys(t, e, u, f, KeyDeltas(sid)) <=> \A k \in DOMAIN KeyMapping[sid] : v(k) = w(k)
  BY <1>1 DEF SameKeys, HasKeys
<1>3. /\ EntryKeys(t, e, sid) = [k \in DOMAIN KeyMapping[sid] |-> v(k)]
      /\ EntryKeys(u, f, sid) = [k \in DOMAIN KeyMapping[sid] |-> w(k)]
  BY DEF EntryKeys
<1> HIDE DEF v, w
<1> QED  BY <1>2, <1>3

\* Below the same parent, the keys and the shape tell positions apart.
LEMMA SiblingsDiffer ==
  ASSUME NEW t, Conforms(t, <<>>), UniqueKeys(t, <<>>),
         NEW p \in DOMAIN t, NEW q \in DOMAIN t, p # <<>>, q # <<>>, Front(p) = Front(q),
         Shape(p) = Shape(q), OwnKeys(t, <<>>, p) = OwnKeys(t, <<>>, q)
  PROVE  p = q
<1> DEFINE a == Front(p)
<1>0. <<>> \in Shapes
  BY SchemaAssumption
<1>1. /\ a \in DOMAIN t /\ Last(p) \in Steps /\ Last(q) \in Steps
      /\ p = Append(a, Last(p)) /\ q = Append(a, Last(q))
      /\ Last(p)[2] \in IF t[a].type = "ARRAY" THEN 1 .. t[a].val ELSE {0}
      /\ Last(q)[2] \in IF t[a].type = "ARRAY" THEN 1 .. t[a].val ELSE {0}
      /\ p \in Positions /\ q \in Positions /\ a \in Positions
  BY <1>0, Cell
<1>2. Last(p)[1] = Last(q)[1]
  BY <1>1, ShapeFront
<1>3. Last(p)[2] = Last(q)[2]
  <2>1. CASE t[a].type # "ARRAY"
    BY <1>1, <2>1
  <2>2. CASE t[a].type = "ARRAY"
    <3> DEFINE i == Last(p)[2]
               j == Last(q)[2]
               sid == Node(<<>> \o Shape(a)).sid
    <3>1. i \in 1 .. t[a].val /\ j \in 1 .. t[a].val
      BY <1>1, <2>2
    <3>2. /\ Node(<<>> \o Shape(p)).kind = "entry" /\ Node(<<>> \o Shape(q)).kind = "entry"
      BY <1>0, <1>1, <2>2, ElementsAreEntries
    <3>3. Last(p)[1] = 0
      <4>1. <<>> \o Shape(p) \in Shapes /\ <<>> \o Shape(p) = Append(<<>> \o Shape(a), Last(p)[1])
        BY <1>0, Cell
      <4>2. <<>> \o Shape(a) \in Shapes /\ Last(p)[1] \in Int
        BY <1>0, <1>1, Cell DEF Steps
      <4> QED  BY <3>2, <4>1, <4>2, ChildShape
    <3>4. Last(p) = Elem(i) /\ Last(q) = Elem(j)
      <4>1. \A x \in Steps : x = <<x[1], x[2]>>
        BY DEF Steps
      <4> QED  BY <1>1, <1>2, <3>3, <4>1 DEF Elem
    <3>5. p = Append(a, Elem(i)) /\ q = Append(a, Elem(j))
      BY <1>1, <3>4
    <3>6. /\ IsEntry(<<>>, t, a, i) /\ IsEntry(<<>>, t, a, j)
      BY <1>0, <1>1, <2>2, <3>1, EntryKeyCells
    <3>7. /\ sid \in DOMAIN KeyMapping
          /\ HasKeys(t, p, KeyDeltas(sid)) /\ HasKeys(t, q, KeyDeltas(sid))
          /\ Node(<<>> \o Shape(p)).sid = sid /\ Node(<<>> \o Shape(q)).sid = sid
      BY <3>5, <3>6 DEF IsEntry
    <3>8. EntryKeys(t, p, sid) = EntryKeys(t, q, sid)
      BY <3>2, <3>7 DEF OwnKeys
    <3>9. SameKeys(t, p, t, q, KeyDeltas(sid))
      BY <3>7, <3>8, EqualKeys
    <3> QED  BY <1>1, <2>2, <3>1, <3>5, <3>9 DEF UniqueKeys
  <2> QED  BY <2>1, <2>2
<1> QED  BY <1>1, <1>2, <1>3 DEF Steps

\* A position is known by its shape and its keys.
LEMMA AddressUnique ==
  ASSUME NEW t, Conforms(t, <<>>), UniqueKeys(t, <<>>),
         NEW p \in DOMAIN t, NEW q \in DOMAIN t, Shape(p) = Shape(q),
         KeysAt(t, <<>>, <<>>, p) = KeysAt(t, <<>>, <<>>, q)
  PROVE  p = q
<1> DEFINE K(r) == KeysAt(t, <<>>, <<>>, r)
           Own(r) == OwnKeys(t, <<>>, r)
           P == {r \in DOMAIN t : \A u \in DOMAIN t : Shape(u) = Shape(r) /\ K(u) = K(r) => u = r}
<1>0. <<>> \in Shapes /\ <<>> \in Seq(KeyValues)
  BY SchemaAssumption
<1>1. \A u, r \in DOMAIN t : Shape(u) = Shape(r) =>
        Len(Own(u)) = Len(Own(r)) /\ Len(K(u)) = Len(K(r))
  BY <1>0, SameShapeSameNumber
<1>2. \A r \in DOMAIN t : /\ K(r) \in Seq(KeyValues) /\ Own(r) \in Seq(KeyValues)
                          /\ r # <<>> => K(r) = K(Front(r)) \o Own(r)
  BY <1>0, KeysAtGrows, KeysAtStep
<1>3. \A r \in DOMAIN t : /\ Len(Shape(r)) = Len(r) /\ r \in Positions
                          /\ r # <<>> => /\ Front(r) \in DOMAIN t
                                         /\ Shape(Front(r)) = Front(Shape(r))
  BY <1>0, Cell, ShapeType, ShapeFront
<1> HIDE DEF K, Own
<1>5. <<>> \in P
  <2>1. <<>> \in DOMAIN t
    BY DEF Conforms
  <2>2. ASSUME NEW u \in DOMAIN t, Shape(u) = Shape(<<>>) PROVE u = <<>>
    BY <1>3, <2>1, <2>2 DEF Positions
  <2> QED  BY <2>1, <2>2
<1>6. ASSUME NEW r \in DOMAIN t, r # <<>>, Front(r) \in P PROVE r \in P
  <2> SUFFICES ASSUME NEW u \in DOMAIN t, Shape(u) = Shape(r), K(u) = K(r) PROVE u = r
    OBVIOUS
  <2>1. u # <<>>
    BY <1>3, <1>6 DEF Positions
  <2>2. Front(u) \in DOMAIN t /\ Front(r) \in DOMAIN t /\ Shape(Front(u)) = Shape(Front(r))
    BY <1>3, <1>6, <2>1
  <2>3. Len(K(Front(u))) = Len(K(Front(r)))
    BY <1>1, <2>2
  <2>4. K(Front(u)) \o Own(u) = K(Front(r)) \o Own(r)
    BY <1>2, <1>6, <2>1
  <2>5. K(Front(u)) = K(Front(r)) /\ Own(u) = Own(r)
    <3>1. /\ K(Front(u)) \in Seq(KeyValues) /\ K(Front(r)) \in Seq(KeyValues)
          /\ Own(u) \in Seq(KeyValues) /\ Own(r) \in Seq(KeyValues)
      BY <1>2, <2>2
    <3>2. /\ IsPrefix(K(Front(u)), K(Front(u)) \o Own(u)) /\ IsPrefix(K(Front(r)), K(Front(r)) \o Own(r))
          /\ K(Front(r)) \o Own(r) \in Seq(KeyValues)
      BY <3>1, PrefixConcat
    <3>3. K(Front(u)) = K(Front(r))
      BY <2>3, <2>4, <3>1, <3>2, PrefixesNest, ZenonT(60)
    <3>4. K(Front(r)) \o Own(u) = K(Front(r)) \o Own(r)
      BY <2>4, <3>3
    <3>5. Own(u) = Own(r)
      <4> DEFINE a == K(Front(r))
                 b == Own(u)
                 c == Own(r)
      <4>1. a \in Seq(KeyValues) /\ b \in Seq(KeyValues) /\ c \in Seq(KeyValues) /\ a \o b = a \o c
        BY <3>1, <3>4
      <4> HIDE DEF a, b, c
      <4>2. b = c
        BY <4>1, ConcatPrefix
      <4> QED  BY <4>2 DEF b, c
    <3> QED  BY <3>3, <3>5
  <2>6. Front(u) = Front(r)
    BY <1>6, <2>2, <2>5
  <2> QED  BY <1>6, <2>1, <2>5, <2>6, SiblingsDiffer DEF Own
<1> HIDE DEF P
<1>7. q \in P
  BY <1>0, <1>5, <1>6, TreeInduction
<1> QED  BY <1>7 DEF P, K

\* The part of a position that has a given shape.
LEMMA PartOfShape ==
  ASSUME NEW t, Conforms(t, <<>>), NEW p \in DOMAIN t, NEW u \in Seq(Int), IsPrefix(u, Shape(p))
  PROVE  \E q \in DOMAIN t : q \in Positions /\ IsPrefix(q, p) /\ Shape(q) = u
<1> DEFINE q == SubSeq(p, 1, Len(u))
<1>0. <<>> \in Shapes
  BY SchemaAssumption
<1>1. p \in Positions /\ p \in Seq(Int \X Nat) /\ Len(Shape(p)) = Len(p) /\ Shape(p) \in Seq(Int)
  BY <1>0, Cell, ShapeType DEF Positions
<1>2. Len(u) <= Len(Shape(p)) /\ \A i \in 1 .. Len(u) : u[i] = Shape(p)[i]
  BY <1>1, PrefixPoints
<1>3. Len(u) \in 0 .. Len(p)
  BY <1>1, <1>2
<1>4. /\ q \in Positions /\ Len(q) = Len(u) /\ IsPrefix(q, p)
      /\ \A i \in 1 .. Len(u) : q[i] = p[i]
  BY <1>1, <1>3, PrefixOfLength DEF Positions
<1> HIDE DEF q
<1>5. q \in DOMAIN t
  BY <1>0, <1>1, <1>4, PrefixesThere
<1>6. Shape(q) \in Seq(Int) /\ Len(Shape(q)) = Len(u)
  BY <1>4, ShapeType
<1>7. \A i \in 1 .. Len(u) : Shape(q)[i] = u[i]
  <2> SUFFICES ASSUME NEW i \in 1 .. Len(u) PROVE Shape(q)[i] = u[i]
    OBVIOUS
  <2>1. u[i] = Shape(p)[i] /\ q[i] = p[i] /\ i \in 1 .. Len(p) /\ i \in 1 .. Len(q)
    BY <1>2, <1>3, <1>4
  <2> QED  BY <2>1 DEF Shape
<1>8. Shape(q) = u
  BY <1>6, <1>7, SeqEqual
<1> QED  BY <1>4, <1>5, <1>8

\* A node whose shape and keys begin with those of q is under q.
LEMMA UnderByAddress ==
  ASSUME NEW t, Conforms(t, <<>>), UniqueKeys(t, <<>>), NEW q \in DOMAIN t, NEW p \in DOMAIN t,
         IsPrefix(Shape(q), Shape(p)),
         IsPrefix(KeysAt(t, <<>>, <<>>, q), KeysAt(t, <<>>, <<>>, p))
  PROVE  IsPrefix(q, p)
<1>0. <<>> \in Shapes /\ <<>> \in Seq(KeyValues)
  BY SchemaAssumption
<1>1. Shape(q) \in Seq(Int)
  BY <1>0, Cell, ShapeType
<1>2. PICK r \in DOMAIN t : r \in Positions /\ IsPrefix(r, p) /\ Shape(r) = Shape(q)
  BY <1>1, PartOfShape
<1>3. Len(KeysAt(t, <<>>, <<>>, r)) = Len(KeysAt(t, <<>>, <<>>, q))
  BY <1>0, <1>2, SameShapeSameNumber
<1>4. /\ KeysAt(t, <<>>, <<>>, r) \in Seq(KeyValues) /\ KeysAt(t, <<>>, <<>>, q) \in Seq(KeyValues)
      /\ KeysAt(t, <<>>, <<>>, p) \in Seq(KeyValues)
      /\ IsPrefix(KeysAt(t, <<>>, <<>>, r), KeysAt(t, <<>>, <<>>, p))
  BY <1>0, <1>2, KeysAtGrows
<1>5. KeysAt(t, <<>>, <<>>, r) = KeysAt(t, <<>>, <<>>, q)
  BY <1>3, <1>4, PrefixesNest
<1>6. r = q
  BY <1>2, <1>5, AddressUnique
<1> QED  BY <1>2, <1>6

-----------------------------------------------------------------------------
(* SIDs and shapes *)

\* What is above a schema node is a schema node.
LEMMA ShapesClosed ==
  ASSUME NEW u \in Shapes, NEW w \in Seq(Int), IsPrefix(w, u)
  PROVE  w \in Shapes
<1> DEFINE P == {v \in Seq(Int) : v \in Shapes /\ IsPrefix(w, v) => w \in Shapes}
<1>1. <<>> \in P
  BY PrefixEnds
<1>2. ASSUME NEW v \in Seq(Int), NEW d \in Int, v \in P PROVE Append(v, d) \in P
  <2>1. Append(v, d) \in Seq(Int) /\ Append(v, d) # <<>> /\ Front(Append(v, d)) = v
    BY FrontLastAppend
  <2> SUFFICES ASSUME Append(v, d) \in Shapes, IsPrefix(w, Append(v, d)) PROVE w \in Shapes
    BY <2>1
  <2>2. v \in Shapes
    <3>1. \A s \in Shapes : s # <<>> => Front(s) \in Shapes
      BY SchemaAssumption
    <3>2. Front(Append(v, d)) \in Shapes
      BY <2>1, <3>1
    <3> QED  BY <2>1, <3>2
  <2>3. IsPrefix(w, v) \/ w = Append(v, d)
    BY PrefixAppend
  <2> QED  BY <1>2, <2>2, <2>3
<1> HIDE DEF P
<1>3. \A v \in Seq(Int) : v \in P
  BY <1>1, <1>2, SeqSetInduction
<1>4. u \in Seq(Int)
  BY SchemaAssumption
<1> QED  BY <1>3, <1>4 DEF P

\* The node a SID names: a list for its entries.
OwnerOf(u) == IF Node(u).kind = "entry" THEN Front(u) ELSE u

\* A schema node but the root is the one its SID names, or an entry of it.
LEMMA OwnerIs ==
  ASSUME NEW u \in Shapes, u # <<>>
  PROVE  /\ Node(u).sid \in SIDs /\ ShapeOf(Node(u).sid) = OwnerOf(u)
         /\ OwnerOf(u) \in DataShapes /\ Node(OwnerOf(u)).sid = Node(u).sid
         /\ IsPrefix(OwnerOf(u), u) /\ OwnerOf(u) \in Seq(Int)
         /\ Node(u).type # "ARRAY" => u = WrittenShape(Node(u).sid)
<1>0. Node(u).kind \in Kinds /\ Node(u).kind # "root" /\ u \in Seq(Int)
  BY SchemaAssumption
<1>1. CASE Node(u).kind = "entry"
  <2>1. /\ Node(u).sid \in DOMAIN KeyMapping
        /\ Front(u) \in DataShapes /\ Node(Front(u)).kind = "list"
        /\ Node(Front(u)).sid = Node(u).sid
        /\ ShapeOf(Node(u).sid) = Front(u) /\ u = EntryOf(Front(u))
    BY <1>1, EntryHasKeyMapping
  <2>2. Front(u) \in Seq(Int) /\ 0 \in Int
    BY <2>1, SchemaAssumption DEF DataShapes
  <2>3. IsPrefix(Front(u), u)
    <3> DEFINE f == Front(u)
    <3>1. f \in Seq(Int) /\ 0 \in Int /\ u = Append(f, 0)
      BY <2>1, <2>2 DEF EntryOf
    <3> HIDE DEF f
    <3>2. IsPrefix(f, f)
      BY <3>1, PrefixEnds
    <3>3. IsPrefix(f, Append(f, 0))
      BY <3>1, <3>2, PrefixAppend
    <3> QED  BY <3>1, <3>3 DEF f
  <2>4. u = WrittenShape(Node(u).sid)
    BY <2>1 DEF WrittenShape
  <2> QED  BY <1>1, <2>1, <2>2, <2>3, <2>4 DEF OwnerOf, SIDs
<1>2. CASE Node(u).kind # "entry"
  <2>1. u \in DataShapes
    BY <1>0, <1>2 DEF DataShapes
  <2>2. ShapeOf(Node(u).sid) \in DataShapes /\ Node(ShapeOf(Node(u).sid)).sid = Node(u).sid
    BY <2>1 DEF ShapeOf
  <2>3. ShapeOf(Node(u).sid) = u
    BY <2>1, <2>2, SchemaAssumption
  <2>4. Node(u).type # "ARRAY" => u = WrittenShape(Node(u).sid)
    BY <2>3, SchemaAssumption DEF WrittenShape
  <2> QED  BY <1>0, <1>2, <2>1, <2>3, <2>4, PrefixEnds DEF OwnerOf, SIDs
<1> QED  BY <1>1, <1>2

\* A SID is above another if the node it names is.
LEMMA AboveIs ==
  ASSUME NEW sid \in SIDs, NEW u \in Shapes
  PROVE  <<sid, Node(u).sid>> \in AboveSIDs <=> IsPrefix(ShapeOf(sid), u)
<1> DEFINE o == ShapeOf(sid)
<1>0. /\ o \in DataShapes /\ o \in Shapes /\ o # <<>> /\ o \in Seq(Int) /\ Len(o) >= 1
      /\ Node(o).sid = sid /\ u \in Seq(Int)
  <2>1. o \in DataShapes /\ o \in Shapes /\ o # <<>> /\ Node(o).sid = sid
    BY ParentShape
  <2>2. o \in Seq(Int) /\ u \in Seq(Int)
    BY <2>1, SchemaAssumption
  <2> HIDE DEF o
  <2> QED  BY <2>1, <2>2
<1>1. <<sid, Node(u).sid>> \in AboveSIDs
        <=> \E s \in DataShapes : \E n \in 1 .. Len(s) :
              Node(SubSeq(s, 1, n)).sid = sid /\ Node(s).sid = Node(u).sid
  BY DEF AboveSIDs
<1> HIDE DEF o
<1>2. ASSUME IsPrefix(o, u) PROVE <<sid, Node(u).sid>> \in AboveSIDs
  <2>1. u # <<>>
    BY <1>0, <1>2, PrefixEnds
  <2> DEFINE s == OwnerOf(u)
  <2>2. s \in DataShapes /\ Node(s).sid = Node(u).sid /\ s \in Seq(Int)
    BY <2>1, OwnerIs
  <2>3. IsPrefix(o, s)
    <3>1. CASE Node(u).kind # "entry"
      BY <1>2, <3>1 DEF OwnerOf
    <3>2. CASE Node(u).kind = "entry"
      <4>1. u = Append(s, 0) /\ o # u
        BY <1>0, <3>2, EntryHasKeyMapping DEF OwnerOf, EntryOf, DataShapes
      <4> HIDE DEF s
      <4> QED  BY <1>0, <1>2, <2>2, <4>1, PrefixAppend
    <3> QED  BY <3>1, <3>2
  <2> HIDE DEF s
  <2>4. Len(o) \in 1 .. Len(s) /\ \A i \in 1 .. Len(o) : o[i] = s[i]
    BY <1>0, <2>2, <2>3, PrefixPoints
  <2>5. SubSeq(s, 1, Len(o)) = o
    <3> DEFINE r == SubSeq(s, 1, Len(o))
    <3>1. r \in Seq(Int) /\ Len(r) = Len(o) /\ \A i \in 1 .. Len(o) : r[i] = s[i]
      BY <2>2, <2>4
    <3> HIDE DEF r
    <3>2. r = o
      BY <1>0, <2>4, <3>1, SeqEqual
    <3> QED  BY <3>2 DEF r
  <2> QED  BY <1>0, <1>1, <2>2, <2>4, <2>5
<1>3. ASSUME <<sid, Node(u).sid>> \in AboveSIDs PROVE IsPrefix(o, u)
  <2>1. PICK s \in DataShapes : \E n \in 1 .. Len(s) :
          Node(SubSeq(s, 1, n)).sid = sid /\ Node(s).sid = Node(u).sid
    BY <1>1, <1>3
  <2>2. PICK n \in 1 .. Len(s) : Node(SubSeq(s, 1, n)).sid = sid /\ Node(s).sid = Node(u).sid
    BY <2>1
  <2>3. s \in Shapes /\ s \in Seq(Int) /\ Node(s).sid \in SIDs
    BY SchemaAssumption DEF DataShapes, SIDs
  <2>4. u # <<>>
    BY <2>3, <2>2, SchemaAssumption DEF Node
  <2>5. s = OwnerOf(u) /\ IsPrefix(s, u)
    <3>1. /\ OwnerOf(u) \in DataShapes /\ Node(OwnerOf(u)).sid = Node(s).sid
          /\ IsPrefix(OwnerOf(u), u)
      BY <2>4, <2>2, OwnerIs
    <3> QED  BY <3>1, SchemaAssumption
  <2> DEFINE w == SubSeq(s, 1, n)
  <2>6. w \in Seq(Int) /\ IsPrefix(w, s) /\ Len(w) = n /\ n \in Nat \ {0}
    BY <2>3, PrefixOfLength
  <2> HIDE DEF w
  <2>7. w \in Shapes /\ w # <<>> /\ Node(w).sid = sid
    BY <2>3, <2>6, <2>2, ShapesClosed DEF w
  <2>8. o = OwnerOf(w) /\ IsPrefix(o, w)
    BY <2>7, OwnerIs DEF o
  <2>9. IsPrefix(o, s)
    BY <1>0, <2>3, <2>6, <2>8, PrefixesNest
  <2> QED  BY <1>0, <2>3, <2>5, <2>9, PrefixesNest
<1> QED  BY <1>2, <1>3 DEF o

\* The node that is written, or answered, for a SID: of a list, an entry.
LEMMA WrittenShapeIs ==
  ASSUME NEW sid \in SIDs
  PROVE  /\ WrittenShape(sid) \in Shapes /\ WrittenShape(sid) # <<>>
         /\ WrittenShape(sid) \in Seq(Int)
         /\ Node(WrittenShape(sid)).sid = sid /\ Node(WrittenShape(sid)).type # "ARRAY"
         /\ IsPrefix(ShapeOf(sid), WrittenShape(sid))
         /\ Kind(sid) = "list" => /\ WrittenShape(sid) = Append(ShapeOf(sid), 0)
                                  /\ Node(WrittenShape(sid)).kind = "entry"
                                  /\ sid \in DOMAIN KeyMapping
                                  /\ Len(KeyMapping[sid]) \in Nat \ {0}
         /\ Kind(sid) # "list" => /\ WrittenShape(sid) = ShapeOf(sid)
                                  /\ Node(WrittenShape(sid)).kind # "entry"
<1> DEFINE o == ShapeOf(sid)
<1>1. /\ o \in DataShapes /\ o \in Shapes /\ o # <<>> /\ o \in Seq(Int) /\ Node(o).sid = sid
      /\ Node(o).kind # "entry"
  BY ParentShape, SchemaAssumption DEF DataShapes
<1> HIDE DEF o
<1>2. CASE Node(o).kind = "list"
  <2> DEFINE w == Append(o, 0)
  <2>1. w \in Shapes
    BY <1>1, <1>2, SchemaAssumption DEF EntryOf
  <2>2. w \in Seq(Int) /\ w # <<>> /\ Front(w) = o /\ Last(w) = 0
    BY <1>1, FrontLastAppend
  <2>3. IsPrefix(o, w)
    <3>1. 0 \in Int /\ IsPrefix(o, o)
      BY <1>1, PrefixEnds
    <3> QED  BY <1>1, <3>1, PrefixAppend
  <2> HIDE DEF w
  <2>4. Node(w).kind = "entry" /\ Node(w).sid = Node(o).sid + 0
    <3>1. \A s \in Shapes \ {<<>>} : /\ Node(s).sid = Node(Front(s)).sid + Last(s)
                                     /\ (Node(s).kind = "entry") <=> (Last(s) = 0)
      BY SchemaAssumption
    <3> QED  BY <2>1, <2>2, <3>1
  <2>5. Node(w).type # "ARRAY" /\ Node(w).sid = sid
    <3>1. Node(o).sid \in Nat
      BY <1>1, SchemaAssumption
    <3> QED  BY <1>1, <2>1, <2>4, <3>1, SchemaAssumption
  <2>6. sid \in DOMAIN KeyMapping /\ Len(KeyMapping[sid]) \in Nat \ {0}
    <3>1. sid \in DOMAIN KeyMapping
      BY <1>2, KeyMappingAssumption DEF o
    <3>2. KeyMapping[sid] \in Seq(Int) /\ KeyMapping[sid] # <<>>
      BY <3>1, KeyMappingAssumption
    <3> QED  BY <3>1, <3>2
  <2>7. WrittenShape(sid) = w /\ Kind(sid) = "list"
    BY <1>2 DEF WrittenShape, EntryOf, Kind, o, w
  <2> QED  BY <1>2, <2>1, <2>2, <2>3, <2>4, <2>5, <2>6, <2>7 DEF o, w
<1>3. CASE Node(o).kind # "list"
  <2>1. WrittenShape(sid) = o /\ Kind(sid) # "list"
    BY <1>3 DEF WrittenShape, Kind, o
  <2>2. Node(o).type # "ARRAY" /\ IsPrefix(o, o)
    BY <1>1, <1>3, SchemaAssumption, PrefixEnds
  <2> QED  BY <1>1, <2>1, <2>2 DEF o
<1> QED  BY <1>2, <1>3

\* A position below another has a shape below its shape.
LEMMA ShapePrefix ==
  ASSUME NEW q \in Positions, NEW p \in Positions, IsPrefix(q, p)
  PROVE  IsPrefix(Shape(q), Shape(p))
<1>1. /\ Shape(q) \in Seq(Int) /\ Len(Shape(q)) = Len(q)
      /\ Shape(p) \in Seq(Int) /\ Len(Shape(p)) = Len(p)
  BY ShapeType
<1>2. Len(q) <= Len(p) /\ \A i \in 1 .. Len(q) : q[i] = p[i]
  BY PrefixPoints DEF Positions
<1>3. ASSUME NEW i \in 1 .. Len(q) PROVE Shape(q)[i] = Shape(p)[i]
  <2>1. q[i] = p[i] /\ i \in 1 .. Len(p)
    BY <1>2 DEF Positions
  <2> QED  BY <2>1 DEF Shape
<1>4. Len(Shape(q)) <= Len(Shape(p)) /\ \A i \in 1 .. Len(Shape(q)) : Shape(q)[i] = Shape(p)[i]
  BY <1>1, <1>2, <1>3
<1> QED  BY <1>1, <1>4, PrefixPoints

\* Below a list there are only its entries.
LEMMA BelowList ==
  ASSUME NEW sid \in SIDs, NEW u \in Shapes, IsPrefix(ShapeOf(sid), u), u # ShapeOf(sid)
  PROVE  IsPrefix(WrittenShape(sid), u)
<1> DEFINE o == ShapeOf(sid)
           v == SubSeq(u, 1, Len(o) + 1)
<1>1. o \in Shapes /\ o \in Seq(Int) /\ u \in Seq(Int)
  BY ParentShape, SchemaAssumption
<1>2. CASE Kind(sid) # "list"
  BY <1>2, WrittenShapeIs
<1>3. CASE Kind(sid) = "list"
  <2> HIDE DEF o
  <2>1. /\ Len(o) \in Nat /\ Len(u) \in Nat /\ Len(o) <= Len(u)
        /\ \A i \in 1 .. Len(o) : o[i] = u[i]
    BY <1>1, PrefixPoints DEF o
  <2>2. Len(o) < Len(u)
    <3>1. ASSUME Len(o) = Len(u) PROVE FALSE
      <4>1. o = u
        BY <1>1, <2>1, <3>1, SeqEqual
      <4> QED  BY <4>1 DEF o
    <3> QED  BY <2>1, <3>1
  <2>3. Len(o) + 1 \in 0 .. Len(u)
    BY <2>1, <2>2
  <2>4. /\ v \in Seq(Int) /\ Len(v) = Len(o) + 1 /\ IsPrefix(v, u)
        /\ \A i \in 1 .. Len(o) + 1 : v[i] = u[i]
    BY <1>1, <2>3, PrefixOfLength
  <2> HIDE DEF v
  <2>5. v \in Shapes /\ v # <<>>
    BY <2>1, <2>4, ShapesClosed
  <2>6. Front(v) \in Seq(Int) /\ Len(Front(v)) = Len(v) - 1 /\ v = Append(Front(v), Last(v))
    BY <2>4, <2>5, FrontLast
  <2>7. Front(v) = o
    <3> DEFINE f == Front(v)
    <3>1. f \in Seq(Int) /\ Len(f) = Len(o)
      BY <2>1, <2>4, <2>6
    <3>2. \A i \in 1 .. Len(o) : f[i] = v[i]
      BY <2>1, <2>4 DEF Front
    <3> HIDE DEF f
    <3>3. \A i \in 1 .. Len(o) : f[i] = o[i]
      BY <2>1, <2>4, <3>2
    <3>4. f = o
      BY <1>1, <3>1, <3>3, SeqEqual
    <3> QED  BY <3>4 DEF f
  <2>8. Last(v) = 0
    <3>1. \A s \in Shapes \ {<<>>} : /\ (Node(s).kind = "entry") <=> (Node(Front(s)).kind = "list")
                                     /\ (Node(s).kind = "entry") <=> (Last(s) = 0)
      BY SchemaAssumption
    <3>2. Node(o).kind = "list"
      BY <1>3 DEF Kind, o
    <3> QED  BY <2>5, <2>7, <3>1, <3>2
  <2>9. v = WrittenShape(sid)
    BY <1>3, <2>6, <2>7, <2>8, WrittenShapeIs DEF o
  <2> QED  BY <2>4, <2>9
<1> QED  BY <1>2, <1>3

-----------------------------------------------------------------------------
(* The nodes under an address are those under a position *)

\* q is where, below m, the node of sid with its own keys is, or would be.
IsTarget(t, m, q, sid, own) ==
  /\ m \in DOMAIN t /\ q \in Positions /\ q # <<>> /\ Front(q) = m
  /\ sid \in SIDs /\ Shape(q) = WrittenShape(sid)
  /\ own \in Seq(KeyValues)
  /\ Len(own) = IF Kind(sid) = "list" THEN Len(KeyMapping[sid]) ELSE 0
  /\ \A y \in DOMAIN t :
       y # <<>> /\ Front(y) = m /\ Shape(y) = Shape(q) /\ OwnKeys(t, <<>>, y) = own => y = q
  /\ q \in DOMAIN t => OwnKeys(t, <<>>, q) = own

\* How many keys a node of a SID adds.
LEMMA OwnKeysOf ==
  ASSUME NEW t, Conforms(t, <<>>), NEW p \in DOMAIN t, NEW sid \in SIDs,
         Shape(p) = WrittenShape(sid)
  PROVE  /\ OwnKeys(t, <<>>, p) \in Seq(KeyValues)
         /\ Len(OwnKeys(t, <<>>, p)) = IF Kind(sid) = "list" THEN Len(KeyMapping[sid]) ELSE 0
<1>0. <<>> \in Shapes /\ <<>> \o Shape(p) = Shape(p)
  BY SchemaAssumption, Cell, ShapeType
<1>1. OwnKeys(t, <<>>, p) \in Seq(KeyValues)
  BY <1>0, KeysAtStep
<1>2. CASE Kind(sid) = "list"
  <2>1. Node(Shape(p)).kind = "entry" /\ Node(Shape(p)).sid = sid
    BY <1>2, WrittenShapeIs
  <2>2. Len(EntryKeys(t, p, sid)) = Len(KeyMapping[sid])
    BY <1>0, <2>1, EntryKeysType, ZenonT(60)
  <2> QED  BY <1>0, <1>1, <1>2, <2>1, <2>2 DEF OwnKeys
<1>3. CASE Kind(sid) # "list"
  <2>1. Node(Shape(p)).kind # "entry"
    BY <1>3, WrittenShapeIs
  <2>2. OwnKeys(t, <<>>, p) = <<>>
    BY <1>0, <2>1 DEF OwnKeys
  <2> QED  BY <1>1, <1>3, <2>2
<1> QED  BY <1>2, <1>3

\* What is at or below the address that q has or would have is below q.
LEMMA UnderIs ==
  ASSUME NEW t, Conforms(t, <<>>), UniqueKeys(t, <<>>), NEW m, NEW q, NEW sid, NEW own,
         IsTarget(t, m, q, sid, own), NEW p \in DOMAIN t
  PROVE  /\ <<sid, Node(Shape(p)).sid>> \in AboveSIDs
         /\ IsPrefix(KeysAt(t, <<>>, <<>>, m) \o own, KeysAt(t, <<>>, <<>>, p))
         <=> IsPrefix(q, p)
<1> DEFINE K(r) == KeysAt(t, <<>>, <<>>, r)
           k == K(m)
           w == WrittenShape(sid)
<1>0. <<>> \in Shapes /\ <<>> \in Seq(KeyValues)
  BY SchemaAssumption
<1>1. /\ m \in DOMAIN t /\ q \in Positions /\ q # <<>> /\ Front(q) = m /\ sid \in SIDs
      /\ Shape(q) = w /\ own \in Seq(KeyValues)
  BY DEF IsTarget
<1>2. \A r \in DOMAIN t : /\ r \in Positions /\ Shape(r) \in Seq(Int) /\ Shape(r) \in Shapes
                          /\ K(r) \in Seq(KeyValues) /\ <<>> \o Shape(r) = Shape(r)
  BY <1>0, Cell, ShapeType, KeysAtGrows, ZenonT(60)
<1>3. k \in Seq(KeyValues) /\ IsPrefix(k, k \o own) /\ k \o own \in Seq(KeyValues)
  <2>1. k \in Seq(KeyValues)
    BY <1>1, <1>2
  <2> HIDE DEF k
  <2> QED  BY <1>1, <2>1, PrefixConcat
<1>4. <<sid, Node(Shape(p)).sid>> \in AboveSIDs <=> IsPrefix(ShapeOf(sid), Shape(p))
  BY <1>1, <1>2, AboveIs
<1>5. Shape(m) = Front(w)
  BY <1>1, ShapeFront
<1>6. ASSUME IsPrefix(ShapeOf(sid), Shape(p)), IsPrefix(k \o own, K(p))
      PROVE  IsPrefix(q, p)
  <2>1. IsPrefix(w, Shape(p))
    <3>1. CASE Shape(p) # ShapeOf(sid)
      BY <1>1, <1>2, <1>6, <3>1, BelowList
    <3>2. CASE Shape(p) = ShapeOf(sid) /\ Kind(sid) # "list"
      <4>1. w = Shape(p)
        BY <1>1, <3>2, WrittenShapeIs
      <4> QED  BY <1>2, <4>1, PrefixEnds
    <3>3. CASE Shape(p) = ShapeOf(sid) /\ Kind(sid) = "list"
      <4>1. Shape(m) = Shape(p)
        <5> DEFINE o == ShapeOf(sid)
        <5>1. w = Append(o, 0) /\ o \in Seq(Int)
          BY <1>1, <1>2, <3>3, WrittenShapeIs
        <5> HIDE DEF o, w
        <5>2. Front(w) = o
          BY <5>1, FrontLastAppend
        <5> QED  BY <1>5, <3>3, <5>2 DEF o
      <4>2. Len(K(p)) = Len(k)
        BY <1>0, <1>1, <4>1, SameShapeSameNumber
      <4>3. Len(own) \in Nat \ {0}
        BY <1>1, <3>3, WrittenShapeIs DEF IsTarget
      <4>4. Len(k \o own) <= Len(K(p))
        BY <1>2, <1>3, <1>6, PrefixPoints
      <4>5. Len(k \o own) = Len(k) + Len(own) /\ Len(k) \in Nat
        BY <1>1, <1>3
      <4> QED  BY <4>2, <4>3, <4>4, <4>5
    <3> QED  BY <3>1, <3>2, <3>3
  <2>2. w \in Seq(Int) /\ w # <<>>
    BY <1>1, WrittenShapeIs
  <2>3. PICK r \in DOMAIN t : r \in Positions /\ IsPrefix(r, p) /\ Shape(r) = w
    BY <2>1, <2>2, PartOfShape
  <2>4. r # <<>>
    BY <2>2, <2>3 DEF Shape
  <2>5. /\ Front(r) \in DOMAIN t /\ Shape(Front(r)) = Shape(m) /\ r = Append(Front(r), Last(r))
        /\ Last(r) \in Steps /\ Front(r) \in Positions
    BY <1>0, <1>5, <2>3, <2>4, Cell, ShapeFront
  <2> DEFINE f == Front(r)
  <2>6. IsPrefix(f, p)
    <3>1. f \in Seq(Int \X Nat) /\ r \in Seq(Int \X Nat) /\ p \in Seq(Int \X Nat)
          /\ Last(r) \in Int \X Nat /\ r = Append(f, Last(r))
      BY <1>2, <2>3, <2>5 DEF Positions, Steps
    <3> HIDE DEF f
    <3>2. IsPrefix(f, f)
      BY <3>1, PrefixEnds
    <3>3. IsPrefix(f, r)
      <4> DEFINE x == Last(r)
      <4>1. x \in Int \X Nat /\ r = Append(f, x)
        BY <3>1
      <4> HIDE DEF x
      <4> QED  BY <3>1, <3>2, <4>1, PrefixAppend
    <3> QED  BY <2>3, <3>1, <3>3, PrefixesNest
  <2>7. IsPrefix(K(f), K(p)) /\ IsPrefix(K(r), K(p))
    BY <1>0, <2>3, <2>5, <2>6, KeysAtGrows
  <2>8. f = m
    <3>1. Len(K(f)) = Len(k)
      BY <1>0, <1>1, <2>5, SameShapeSameNumber, ZenonT(60)
    <3>2. IsPrefix(k, K(p))
      <4> DEFINE y == k \o own
                 z == K(p)
      <4>1. /\ k \in Seq(KeyValues) /\ y \in Seq(KeyValues) /\ z \in Seq(KeyValues)
            /\ IsPrefix(k, y) /\ IsPrefix(y, z)
        BY <1>2, <1>3, <1>6
      <4> HIDE DEF k, y, z
      <4>2. IsPrefix(k, z)
        BY <4>1, PrefixesNest
      <4> QED  BY <4>2 DEF z
    <3>3. K(f) = k
      BY <1>2, <1>3, <2>5, <2>7, <3>1, <3>2, PrefixesNest
    <3> QED  BY <1>1, <2>5, <3>3, AddressUnique
  <2> DEFINE o == OwnKeys(t, <<>>, r)
  <2>9. K(r) = k \o o /\ o \in Seq(KeyValues)
    BY <1>0, <2>3, <2>4, <2>8, KeysAtStep
  <2>10. o = own
    <3>1. Len(o) = Len(own)
      BY <1>1, <2>3, OwnKeysOf DEF IsTarget
    <3> HIDE DEF o, k
    <3>2. IsPrefix(k \o o, K(p)) /\ k \o o \in Seq(KeyValues)
      BY <2>3, <2>7, <1>2, <2>9
    <3>3. Len(k \o o) = Len(k \o own)
      <4>1. k \in Seq(KeyValues) /\ o \in Seq(KeyValues) /\ own \in Seq(KeyValues)
        BY <1>1, <1>3, <2>9 DEF k
      <4> QED  BY <3>1, <4>1
    <3>4. k \o o = k \o own
      <4> DEFINE x == k \o o
                 y == k \o own
                 z == K(p)
      <4>1. /\ x \in Seq(KeyValues) /\ y \in Seq(KeyValues) /\ z \in Seq(KeyValues)
            /\ IsPrefix(x, z) /\ IsPrefix(y, z) /\ Len(x) = Len(y)
        BY <1>2, <1>3, <1>6, <3>2, <3>3 DEF k
      <4> HIDE DEF x, y, z
      <4>2. x = y
        BY <4>1, PrefixesNest
      <4> QED  BY <4>2 DEF x, y
    <3> QED  BY <1>1, <1>3, <2>9, <3>4, ConcatPrefix
  <2>11. r = q
    BY <1>1, <2>3, <2>4, <2>8, <2>10 DEF IsTarget
  <2> QED  BY <2>3, <2>11
<1>7. ASSUME IsPrefix(q, p)
      PROVE  IsPrefix(ShapeOf(sid), Shape(p)) /\ IsPrefix(k \o own, K(p))
  <2>1. q \in DOMAIN t
    BY <1>0, <1>1, <1>7, PrefixesThere
  <2>2. K(q) = k \o own
    BY <1>0, <1>1, <2>1, KeysAtStep, ZenonT(60) DEF IsTarget
  <2>3. IsPrefix(K(q), K(p))
    BY <1>0, <1>7, <2>1, KeysAtGrows
  <2>4. IsPrefix(w, Shape(p))
    BY <1>1, <1>2, <1>7, ShapePrefix
  <2>5. IsPrefix(ShapeOf(sid), w) /\ ShapeOf(sid) \in Seq(Int) /\ w \in Seq(Int)
    BY <1>1, WrittenShapeIs, ParentShape, SchemaAssumption
  <2>6. IsPrefix(ShapeOf(sid), Shape(p))
    BY <1>2, <2>4, <2>5, PrefixesNest
  <2> QED  BY <2>2, <2>3, <2>6
<1> QED  BY <1>4, <1>6, <1>7

-----------------------------------------------------------------------------
(* What a write makes of the data *)

\* P is t with v at q; the sizes of arrays may differ.
IsWrite(P, t, q, v) ==
  /\ \E u : /\ SameButSizes(u, t) /\ \A p \in DOMAIN t : u[p].type = t[p].type
            /\ IsPut(P, u, q, v)
  /\ Conforms(P, <<>>)
  /\ q \in Positions /\ q # <<>> /\ Front(q) \in DOMAIN t
  /\ Shape(q) \in Shapes /\ Node(Shape(q)).kind # "key" /\ Conforms(v, Shape(q))

\* Entries with the same key cells have the same keys.
LEMMA SameCellsSameKeys ==
  ASSUME NEW t, NEW e, NEW u, NEW f, NEW sid, SameCells(t, e, u, f, KeyDeltas(sid))
  PROVE  EntryKeys(t, e, sid) = EntryKeys(u, f, sid)
<1>1. DOMAIN KeyDeltas(sid) = DOMAIN KeyMapping[sid]
  BY DEF KeyDeltas
<1>2. \A k \in DOMAIN KeyMapping[sid] :
        t[Append(e, Key(KeyDeltas(sid)[k]))] = u[Append(f, Key(KeyDeltas(sid)[k]))]
  BY <1>1 DEF SameCells
<1> QED  BY <1>2 DEF EntryKeys

\* The position of an entry is that of an element of an array.
LEMMA EntryPosition ==
  ASSUME NEW t, Conforms(t, <<>>), NEW p \in DOMAIN t, Node(Shape(p)).kind = "entry"
  PROVE  /\ p # <<>> /\ Front(p) \in DOMAIN t /\ t[Front(p)].type = "ARRAY"
         /\ Last(p)[2] \in 1 .. t[Front(p)].val
         /\ p = Append(Front(p), Elem(Last(p)[2]))
         /\ Node(Shape(Front(p))).sid = Node(Shape(p)).sid
<1>0. <<>> \in Shapes /\ Node(<<>>).kind = "root" /\ Shape(<<>>) = <<>>
  BY SchemaAssumption DEF Shape, Node
<1>1. p # <<>>
  BY <1>0
<1>2. /\ Front(p) \in DOMAIN t /\ Last(p) \in Steps /\ p = Append(Front(p), Last(p))
      /\ p \in Positions /\ Front(p) \in Positions
      /\ Last(p)[2] \in IF t[Front(p)].type = "ARRAY" THEN 1 .. t[Front(p)].val ELSE {0}
  BY <1>0, <1>1, Cell
<1>3. <<>> \o Shape(p) = Shape(p) /\ Shape(p) \in Shapes /\ Shape(Front(p)) \in Shapes
  <2>1. <<>> \o Shape(p) = Shape(p) /\ <<>> \o Shape(Front(p)) = Shape(Front(p))
    BY <1>2, ShapeType
  <2> QED  BY <1>0, <1>2, <2>1, Cell
<1>4. t[Front(p)].type = "ARRAY"
  BY <1>0, <1>1, <1>3, ElementsAreEntries
<1>5. Last(p)[1] = 0 /\ Node(Shape(Front(p))).sid = Node(Shape(p)).sid
  <2>1. Shape(p) = Append(Shape(Front(p)), Last(p)[1]) /\ Last(p)[1] \in Int
    BY <1>1, <1>2, ShapeFront DEF Steps
  <2> QED  BY <1>3, <2>1, ChildShape
<1>6. Last(p) = Elem(Last(p)[2])
  BY <1>2, <1>5 DEF Steps, Elem
<1> QED  BY <1>1, <1>2, <1>4, <1>5, <1>6

\* What is not under q stays, with its keys.
LEMMA WriteKeepsNodes ==
  ASSUME NEW t, Conforms(t, <<>>), NEW P, NEW q, NEW v, IsWrite(P, t, q, v),
         NEW p \in DOMAIN t, ~IsPrefix(q, p)
  PROVE  /\ p \in DOMAIN P /\ P[p].type = t[p].type
         /\ KeysAt(P, <<>>, <<>>, p) = KeysAt(t, <<>>, <<>>, p)
         /\ NodeAt(P, <<>>, <<>>, p) = NodeAt(t, <<>>, <<>>, p)
<1> DEFINE KP(r) == KeysAt(P, <<>>, <<>>, r)
           KT(r) == KeysAt(t, <<>>, <<>>, r)
           S == {r \in DOMAIN t : ~IsPrefix(q, r) => KP(r) = KT(r)}
<1>0. <<>> \in Shapes /\ Node(<<>>).kind = "root" /\ Shape(<<>>) = <<>>
  BY SchemaAssumption DEF Shape, Node
<1>1. /\ Conforms(P, <<>>) /\ q \in Positions /\ q # <<>>
      /\ Shape(q) \in Shapes /\ Node(Shape(q)).kind # "key"
  BY DEF IsWrite
<1>2. PICK u : /\ SameButSizes(u, t) /\ \A r \in DOMAIN t : u[r].type = t[r].type
               /\ IsPut(P, u, q, v)
  BY DEF IsWrite
<1>3. \A r \in DOMAIN t : ~IsPrefix(q, r) => r \in DOMAIN P /\ P[r] = u[r]
  BY <1>2 DEF IsPut, SameButSizes
<1>4. ASSUME NEW r \in DOMAIN t, ~IsPrefix(q, r)
      PROVE  OwnKeys(P, <<>>, r) = OwnKeys(t, <<>>, r)
  <2>0. <<>> \o Shape(r) = Shape(r)
    BY <1>0, Cell, ShapeType
  <2>1. CASE Node(Shape(r)).kind # "entry"
    BY <2>0, <2>1 DEF OwnKeys
  <2>2. CASE Node(Shape(r)).kind = "entry"
    <3> DEFINE a == Front(r)
               i == Last(r)[2]
    <3>1. /\ a \in DOMAIN t /\ t[a].type = "ARRAY" /\ i \in 1 .. t[a].val
          /\ r = Append(a, Elem(i)) /\ Node(Shape(a)).sid = Node(Shape(r)).sid /\ r # <<>>
      BY <2>2, EntryPosition
    <3>2. ~IsPrefix(q, a)
      <4>1. /\ q \in Seq(Steps) /\ a \in Seq(Steps) /\ Last(r) \in Steps
            /\ r = Append(a, Last(r))
        BY <1>0, <1>1, <3>1, Cell DEF Positions, Steps
      <4> HIDE DEF a
      <4> QED  BY <1>4, <4>1, PrefixAppend
    <3>3. q # r
      <4>1. q \in Seq(Steps)
        BY <1>1 DEF Positions, Steps
      <4> QED  BY <1>4, <4>1, PrefixEnds
    <3> HIDE DEF a, i
    <3>4. SameCells(P, Append(a, Elem(i)), t, Append(a, Elem(i)), KeyDeltas(Node(Shape(a)).sid))
      BY <1>1, <1>2, <3>1, <3>2, <3>3, PutKeepsEntry
    <3>5. EntryKeys(P, r, Node(Shape(r)).sid) = EntryKeys(t, r, Node(Shape(r)).sid)
      BY <3>1, <3>4, SameCellsSameKeys
    <3> QED  BY <2>0, <2>2, <3>5 DEF OwnKeys
  <2> QED  BY <2>1, <2>2
<1>5. <<>> \in S
  <2> SUFFICES ASSUME ~IsPrefix(q, <<>>) PROVE KP(<<>>) = KT(<<>>)
    BY DEF Conforms
  <2>1. <<>> \in DOMAIN t /\ <<>> \in DOMAIN P
    BY <1>1 DEF Conforms
  <2>2. KP(<<>>) = <<>> \o OwnKeys(P, <<>>, <<>>) /\ KT(<<>>) = <<>> \o OwnKeys(t, <<>>, <<>>)
    BY <1>0, <1>1, <2>1, KeysAtStep
  <2>3. OwnKeys(P, <<>>, <<>>) = OwnKeys(t, <<>>, <<>>)
    BY <1>4, <2>1
  <2> QED  BY <2>2, <2>3
<1>6. ASSUME NEW r \in DOMAIN t, r # <<>>, Front(r) \in S PROVE r \in S
  <2> SUFFICES ASSUME ~IsPrefix(q, r) PROVE KP(r) = KT(r)
    OBVIOUS
  <2>1. ~IsPrefix(q, Front(r))
    <3> DEFINE a == Front(r)
    <3>1. /\ q \in Seq(Steps) /\ a \in Seq(Steps) /\ Last(r) \in Steps
          /\ r = Append(a, Last(r))
      BY <1>0, <1>1, <1>6, Cell DEF Positions, Steps
    <3> HIDE DEF a
    <3>2. ~IsPrefix(q, a)
      BY <3>1, PrefixAppend
    <3> QED  BY <3>2 DEF a
  <2>2. KP(Front(r)) = KT(Front(r))
    BY <1>6, <2>1
  <2>3. r \in DOMAIN P /\ OwnKeys(P, <<>>, r) = OwnKeys(t, <<>>, r)
    BY <1>3, <1>4
  <2> DEFINE own == OwnKeys(P, <<>>, r)
             above == KP(Front(r))
  <2>4. KP(r) = above \o own
    BY <1>0, <1>1, <1>6, <2>3, KeysAtStep
  <2>5. KT(r) = KT(Front(r)) \o OwnKeys(t, <<>>, r)
    BY <1>0, <1>6, KeysAtStep
  <2> QED  BY <2>2, <2>3, <2>4, <2>5
<1> HIDE DEF S
<1>7. p \in S
  BY <1>0, <1>5, <1>6, TreeInduction
<1>8. KP(p) = KT(p)
  BY <1>7 DEF S
<1>9. p \in DOMAIN P /\ P[p] = u[p] /\ u[p].type = t[p].type
      /\ (t[p].type # "ARRAY" => u[p] = t[p])
  BY <1>2, <1>3 DEF SameButSizes
<1> HIDE DEF KP, KT
<1>10. NodeAt(P, <<>>, <<>>, p) = NodeAt(t, <<>>, <<>>, p)
  BY <1>8, <1>9 DEF NodeAt, KP, KT
<1> QED  BY <1>8, <1>9, <1>10 DEF KP, KT

\* What is under q is the value, with the keys of the parent of q above it.
LEMMA WriteHasNodes ==
  ASSUME NEW t, Conforms(t, <<>>), NEW P, NEW q, NEW v, IsWrite(P, t, q, v), NEW s \in DOMAIN v
  PROVE  /\ q \o s \in DOMAIN P /\ IsPrefix(q, q \o s)
         /\ NodeAt(P, <<>>, <<>>, q \o s)
              = NodeAt(v, Shape(q), KeysAt(t, <<>>, <<>>, Front(q)), s)
<1> DEFINE outer == KeysAt(t, <<>>, <<>>, Front(q))
           KP(r) == KeysAt(P, <<>>, <<>>, r)
           KV(r) == KeysAt(v, Shape(q), outer, r)
           S == {r \in DOMAIN v : KP(q \o r) = KV(r)}
<1>0. <<>> \in Shapes
  BY SchemaAssumption
<1>1. /\ Conforms(P, <<>>) /\ q \in Positions /\ q # <<>> /\ Front(q) \in DOMAIN t
      /\ Shape(q) \in Shapes /\ Conforms(v, Shape(q))
  BY DEF IsWrite
<1>2. PICK u : IsPut(P, u, q, v)
  BY DEF IsWrite
<1>3. ASSUME NEW r \in DOMAIN v
      PROVE  /\ r \in Positions /\ q \o r \in DOMAIN P /\ IsPrefix(q, q \o r) /\ P[q \o r] = v[r]
             /\ <<>> \o Shape(q \o r) = Shape(q) \o Shape(r)
             /\ OwnKeys(P, <<>>, q \o r) = OwnKeys(v, Shape(q), r)
  <2>1. r \in Positions /\ Shape(q) \o Shape(r) \in Shapes
    BY <1>1, Cell
  <2>2. q \o r \in DOMAIN P /\ IsPrefix(q, q \o r) /\ P[q \o r] = v[r]
    BY <1>2 DEF IsPut
  <2>3. <<>> \o Shape(q \o r) = Shape(q) \o Shape(r)
    <3>1. q \o r \in Positions /\ Shape(q \o r) = Shape(q) \o Shape(r)
      BY <1>1, <2>1, ShapeConcat
    <3>2. <<>> \o Shape(q \o r) = Shape(q \o r)
      BY <3>1, ShapeType
    <3> QED  BY <3>1, <3>2
  <2> DEFINE c == Shape(q) \o Shape(r)
  <2>4. CASE Node(c).kind = "entry"
    <3>1. Node(c).sid \in DOMAIN KeyMapping /\ HasKeys(v, r, KeyDeltas(Node(c).sid))
      BY <1>1, <2>4, EntryKeysType
    <3>2. SameCells(P, q \o r, v, r, KeyDeltas(Node(c).sid))
      BY <1>1, <1>2, <2>1, <3>1, PutHasKeys
    <3>3. EntryKeys(P, q \o r, Node(c).sid) = EntryKeys(v, r, Node(c).sid)
      BY <3>2, SameCellsSameKeys
    <3> QED  BY <2>1, <2>2, <2>3, <2>4, <3>3 DEF OwnKeys
  <2>5. CASE Node(c).kind # "entry"
    BY <2>1, <2>2, <2>3, <2>5 DEF OwnKeys
  <2> QED  BY <2>1, <2>2, <2>3, <2>4, <2>5
<1>4. <<>> \in S
  <2>1. <<>> \in DOMAIN v /\ q \o <<>> = q
    BY <1>1 DEF Conforms, Positions
  <2>2. KP(q) = KP(Front(q)) \o OwnKeys(P, <<>>, q)
    <3>1. q \in DOMAIN P
      BY <1>3, <2>1
    <3> QED  BY <1>0, <1>1, <3>1, KeysAtStep
  <2>3. KP(Front(q)) = outer
    <3>1. ~IsPrefix(q, Front(q))
      <4> DEFINE f == Front(q)
      <4>1. f \in Seq(Steps) /\ q \in Seq(Steps) /\ Len(f) = Len(q) - 1
        BY <1>1, FrontLast DEF Positions, Steps
      <4> HIDE DEF f
      <4>2. ~IsPrefix(q, f)
        <5>1. Len(q) \in Nat /\ ~(Len(q) <= Len(f))
          BY <4>1
        <5> QED  BY <4>1, <5>1, PrefixPoints
      <4> QED  BY <4>2 DEF f
    <3> QED  BY <1>1, <3>1, WriteKeepsNodes
  <2>4. KV(<<>>) = outer \o OwnKeys(v, Shape(q), <<>>)
    BY <1>1, <2>1, KeysAtStep
  <2>5. OwnKeys(P, <<>>, q) = OwnKeys(v, Shape(q), <<>>)
    BY <1>3, <2>1
  <2> QED  BY <2>1, <2>2, <2>3, <2>4, <2>5
<1>5. ASSUME NEW r \in DOMAIN v, r # <<>>, Front(r) \in S PROVE r \in S
  <2>1. r \in Positions /\ Front(r) \in Positions /\ Front(r) \in DOMAIN v
    BY <1>1, <1>5, Cell
  <2>2. q \o r # <<>> /\ Front(q \o r) = q \o Front(r)
    BY <1>1, <1>5, <2>1, FrontLastConcat DEF Positions
  <2>3. q \o r \in DOMAIN P /\ OwnKeys(P, <<>>, q \o r) = OwnKeys(v, Shape(q), r)
    BY <1>3
  <2> DEFINE x == q \o r
  <2> HIDE DEF x
  <2>4. KP(x) = KP(Front(x)) \o OwnKeys(P, <<>>, x)
    BY <1>0, <1>1, <2>2, <2>3, KeysAtStep DEF x
  <2>5. KV(r) = KV(Front(r)) \o OwnKeys(v, Shape(q), r)
    BY <1>1, <1>5, KeysAtStep
  <2>6. KP(Front(x)) = KV(Front(r))
    BY <1>5, <2>2 DEF x
  <2>7. KP(x) = KV(r)
    BY <2>3, <2>4, <2>5, <2>6 DEF x
  <2> QED  BY <2>7 DEF x
<1> HIDE DEF S
<1>6. s \in S
  BY <1>1, <1>4, <1>5, TreeInduction
<1>7. KP(q \o s) = KV(s)
  BY <1>6 DEF S
<1>8. q \o s \in DOMAIN P /\ IsPrefix(q, q \o s) /\ P[q \o s] = v[s]
      /\ <<>> \o Shape(q \o s) = Shape(q) \o Shape(s)
  BY <1>3
<1> DEFINE x == q \o s
<1> HIDE DEF x, KP, KV
<1>9. KP(x) = KV(s) /\ P[x] = v[s] /\ <<>> \o Shape(x) = Shape(q) \o Shape(s)
  BY <1>7, <1>8 DEF x
<1>10. NodeAt(P, <<>>, <<>>, x) = NodeAt(v, Shape(q), outer, s)
  BY <1>9 DEF NodeAt, KP, KV
<1> QED  BY <1>8, <1>10 DEF x

\* After a write there is the value, and everything that is not under q.
LEMMA WriteData ==
  ASSUME NEW t, Conforms(t, <<>>), NEW P, NEW q, NEW v, IsWrite(P, t, q, v)
  PROVE  DataOf(P, <<>>, <<>>)
           = {NodeAt(t, <<>>, <<>>, p) : p \in {p \in DOMAIN t : ~IsPrefix(q, p)}}
               \cup DataOf(v, Shape(q), KeysAt(t, <<>>, <<>>, Front(q)))
<1> DEFINE outer == KeysAt(t, <<>>, <<>>, Front(q))
           kept == {NodeAt(t, <<>>, <<>>, p) : p \in {p \in DOMAIN t : ~IsPrefix(q, p)}}
           new == {NodeAt(v, Shape(q), outer, s) : s \in DOMAIN v}
           all == {NodeAt(P, <<>>, <<>>, p) : p \in DOMAIN P}
<1>1. \A p \in DOMAIN P : \/ p \in DOMAIN t /\ ~IsPrefix(q, p)
                          \/ \E s \in DOMAIN v : p = q \o s
  BY DEF IsWrite, IsPut, SameButSizes
<1>2. \A p \in DOMAIN t : ~IsPrefix(q, p) =>
        p \in DOMAIN P /\ NodeAt(P, <<>>, <<>>, p) = NodeAt(t, <<>>, <<>>, p)
  BY WriteKeepsNodes
<1>3. \A s \in DOMAIN v :
        q \o s \in DOMAIN P /\ NodeAt(P, <<>>, <<>>, q \o s) = NodeAt(v, Shape(q), outer, s)
  BY WriteHasNodes
<1> HIDE DEF outer
<1>4. ASSUME NEW x \in all PROVE x \in kept \cup new
  <2>1. PICK p \in DOMAIN P : x = NodeAt(P, <<>>, <<>>, p)
    OBVIOUS
  <2>2. CASE p \in DOMAIN t /\ ~IsPrefix(q, p)
    BY <1>2, <2>1, <2>2
  <2>3. CASE \E s \in DOMAIN v : p = q \o s
    BY <1>3, <2>1, <2>3
  <2> QED  BY <1>1, <2>2, <2>3
<1>5. ASSUME NEW x \in kept \cup new PROVE x \in all
  BY <1>2, <1>3
<1>6. all = kept \cup new
  BY <1>4, <1>5
<1> QED  BY <1>6 DEF DataOf, outer

-----------------------------------------------------------------------------
(* The keys of a request *)

\* The keys a request addresses, the outermost list's first.
Address(ks) == <<>> \o [i \in 1 .. Len(ks) |-> ks[Len(ks) - i + 1] % UINT64]

\* They are as many, and values of keys.
LEMMA AddressType ==
  ASSUME NEW ks \in Seq(Int)
  PROVE  /\ Address(ks) \in Seq(KeyValues) /\ Len(Address(ks)) = Len(ks)
         /\ \A i \in 1 .. Len(ks) : Address(ks)[i] = ks[Len(ks) - i + 1] % UINT64
         /\ Address(<<>>) = <<>>
<1>1. ASSUME NEW i \in 1 .. Len(ks) PROVE ks[Len(ks) - i + 1] % UINT64 \in KeyValues
  <2> DEFINE j == Len(ks) - i + 1
  <2>1. ks[j] \in Int
    OBVIOUS
  <2> HIDE DEF j
  <2>2. ks[j] % UINT64 \in Nat
    BY <2>1, TreeAssumption
  <2> QED  BY <2>2 DEF KeyValues, j
<1> DEFINE v(i) == ks[Len(ks) - i + 1] % UINT64
<1>2. \A i \in 1 .. Len(ks) : v(i) \in KeyValues
  BY <1>1
<1>3. Len(ks) \in Nat
  OBVIOUS
<1>4. Address(ks) = <<>> \o [i \in 1 .. Len(ks) |-> v(i)]
  BY DEF Address
<1> HIDE DEF v
<1>5. [i \in 1 .. Len(ks) |-> v(i)] \in Seq(KeyValues)
  BY <1>2, <1>3
<1>6. Address(ks) = [i \in 1 .. Len(ks) |-> v(i)]
  BY <1>4, <1>5
<1>7. /\ Address(ks) \in Seq(KeyValues) /\ Len(Address(ks)) = Len(ks)
      /\ \A i \in 1 .. Len(ks) : Address(ks)[i] = v(i)
  BY <1>3, <1>5, <1>6
<1>8. Address(<<>>) = <<>>
  BY DEF Address
<1> QED  BY <1>7, <1>8 DEF v

\* The keys a list takes come first.
LEMMA AddressSplit ==
  ASSUME NEW ks \in Seq(Int), NEW n \in 0 .. Len(ks), NEW own \in Seq(KeyValues), Len(own) = n,
         \A i \in 1 .. n : own[i] = ks[Len(ks) - i + 1] % UINT64
  PROVE  /\ SubSeq(ks, 1, Len(ks) - n) \in Seq(Int)
         /\ Address(ks) = own \o Address(SubSeq(ks, 1, Len(ks) - n))
<1> DEFINE r == SubSeq(ks, 1, Len(ks) - n)
<1>1. /\ r \in Seq(Int) /\ Len(r) = Len(ks) - n /\ Len(ks) \in Nat
      /\ \A i \in 1 .. Len(ks) - n : r[i] = ks[i]
  OBVIOUS
<1> HIDE DEF r
<1> DEFINE a == Address(ks)
           b == Address(r)
<1>2. /\ a \in Seq(KeyValues) /\ Len(a) = Len(ks)
      /\ \A i \in 1 .. Len(ks) : a[i] = ks[Len(ks) - i + 1] % UINT64
      /\ b \in Seq(KeyValues) /\ Len(b) = Len(ks) - n
      /\ \A i \in 1 .. Len(ks) - n : b[i] = r[Len(ks) - n - i + 1] % UINT64
  <2>1. /\ a \in Seq(KeyValues) /\ Len(a) = Len(ks)
        /\ \A i \in 1 .. Len(ks) : a[i] = ks[Len(ks) - i + 1] % UINT64
    BY AddressType
  <2>2. /\ b \in Seq(KeyValues) /\ Len(b) = Len(r)
        /\ \A i \in 1 .. Len(r) : b[i] = r[Len(r) - i + 1] % UINT64
    BY <1>1, AddressType
  <2> QED  BY <1>1, <2>1, <2>2
<1> HIDE DEF a, b
<1> DEFINE c == own \o b
<1>3. /\ c \in Seq(KeyValues) /\ Len(c) = Len(ks)
      /\ \A i \in 1 .. n : c[i] = own[i]
      /\ \A i \in n + 1 .. Len(ks) : c[i] = b[i - n]
  <2>1. /\ c \in Seq(KeyValues) /\ Len(c) = Len(own) + Len(b)
        /\ \A i \in 1 .. Len(own) : c[i] = own[i]
        /\ \A i \in Len(own) + 1 .. Len(own) + Len(b) : c[i] = b[i - Len(own)]
    BY <1>2, SMTT(30)
  <2>2. Len(own) = n /\ n \in Nat /\ Len(own) + Len(b) = Len(ks)
    BY <1>1, <1>2
  <2> HIDE DEF c
  <2> QED  BY <2>1, <2>2
<1> HIDE DEF c
<1>4. ASSUME NEW i \in 1 .. Len(ks) PROVE a[i] = c[i]
  <2>1. CASE i <= n
    BY <1>1, <1>2, <1>3, <2>1, SMTT(30)
  <2>2. CASE i > n
    <3> DEFINE j == i - n
    <3>1. j \in 1 .. Len(ks) - n /\ Len(ks) - n - j + 1 = Len(ks) - i + 1
          /\ Len(ks) - i + 1 \in 1 .. Len(ks) - n /\ i \in n + 1 .. Len(ks)
      BY <1>1, <2>2
    <3>2. c[i] = b[j]
      BY <1>3, <3>1
    <3> HIDE DEF j
    <3>3. b[j] = r[Len(ks) - i + 1] % UINT64
      BY <1>2, <3>1
    <3>4. r[Len(ks) - i + 1] = ks[Len(ks) - i + 1]
      BY <1>1, <3>1
    <3> QED  BY <1>2, <3>2, <3>3, <3>4
  <2> QED  BY <1>1, <2>1, <2>2
<1>5. a = c
  BY <1>2, <1>3, <1>4, SeqEqual
<1> QED  BY <1>1, <1>5 DEF a, b, c, r

\* Concatenation is associative, and the empty sequence its unit.
LEMMA ConcatThree ==
  ASSUME NEW S, NEW a \in Seq(S), NEW b \in Seq(S), NEW c \in Seq(S)
  PROVE  /\ (a \o b) \o c = a \o (b \o c) /\ a \o b \in Seq(S)
         /\ a \o <<>> = a
  OBVIOUS

\* A step down the path takes the keys of the node it reaches off the request.
LEMMA NextNodeKeys ==
  ASSUME Conforms(root, <<>>), subTree \in DOMAIN root,
         Node(Shape(subTree)).sid = previousSID,
         IsPathFrom(previousSID, path, ctx.sid), path # <<>>,
         NEW rk \in Seq(Int), NextNode(rk) # NULL
  PROVE  /\ root[NextNode(rk)].type # "ARRAY"
         /\ KeysAt(root, <<>>, <<>>, NextNode(rk)) \o Address(KeysAfter(rk))
              = KeysAt(root, <<>>, <<>>, subTree) \o Address(rk)
<1> DEFINE K(p) == KeysAt(root, <<>>, <<>>, p)
           sid == Head(path).parentSID
           child == Append(subTree, Key(sid - previousSID))
           ks == Head(path).SIDKeys
<1>0. <<>> \in Shapes /\ <<>> \in Seq(KeyValues)
  BY SchemaAssumption
<1>1. /\ sid \in SIDs /\ Head(path) = PathNode(sid) /\ schemaParents[sid] = previousSID
  BY PathStep
<1>2. ks \in Seq(Int) /\ (sid \in DOMAIN KeyMapping => ks = KeyMapping[sid])
      /\ (sid \notin DOMAIN KeyMapping => ks = <<>>)
  <2>1. sid \in Int
    BY <1>1, ParentShape
  <2> DEFINE i == sid
  <2>2. /\ PathNode(i).SIDKeys \in Seq(Int)
        /\ i \in DOMAIN KeyMapping => PathNode(i).SIDKeys = KeyMapping[i]
    BY <2>1, PathNodeType
  <2>3. i \notin DOMAIN KeyMapping => PathNode(i).SIDKeys = <<>>
    BY DEF PathNode
  <2> QED  BY <1>1, <2>2, <2>3
<1>3. (ks # <<>>) <=> Node(ShapeOf(sid)).kind = "list"
  BY <1>1, <1>2, KeyMappingAssumption
<1>4. /\ root[subTree].type = "MAP"
      /\ getCoreconfHashMap(root, subTree, sid - previousSID) # NULL
  BY DEF NextNode
<1>5. child \in DOMAIN root /\ getCoreconfHashMap(root, subTree, sid - previousSID) = child
  BY <1>4 DEF getCoreconfHashMap
<1>6. /\ child \in Positions /\ Shape(child) = ShapeOf(sid) /\ Front(child) = subTree
      /\ child # <<>>
  <2>1. child \in Positions /\ Shape(child) = ShapeOf(sid) /\ Front(child) = subTree
    BY <1>1, <1>4, ChildPosition
  <2>2. child # <<>>
    BY <1>1, <2>1, ParentShape, SMTT(30) DEF Shape
  <2> QED  BY <2>1, <2>2
<1>7. /\ Node(Shape(child)).kind # "entry" /\ Node(Shape(child)).sid = sid
      /\ root[child].type = Node(Shape(child)).type /\ Shape(child) \in Shapes
      /\ <<>> \o Shape(child) = Shape(child)
  BY <1>1, <1>5, <1>6, ParentShape, RootCell, ShapeType DEF DataShapes
<1> HIDE DEF child
<1>8. K(subTree) \in Seq(KeyValues) /\ K(child) = K(subTree)
  <2>1. OwnKeys(root, <<>>, child) = <<>>
    BY <1>7 DEF OwnKeys
  <2>2. K(child) = K(subTree) \o OwnKeys(root, <<>>, child)
    BY <1>0, <1>5, <1>6, KeysAtStep
  <2>3. K(subTree) \in Seq(KeyValues)
    BY <1>0, KeysAtGrows
  <2> HIDE DEF K
  <2> QED  BY <2>1, <2>2, <2>3
<1>9. CASE ks = <<>>
  <2>1. NextNode(rk) = child
    BY <1>4, <1>5, <1>9 DEF NextNode
  <2>2. KeysAfter(rk) = rk
    <3>1. SubSeq(rk, 1, Len(rk) - 0) = rk
      OBVIOUS
    <3> QED  BY <1>9, <3>1 DEF KeysAfter
  <2>3. root[child].type # "ARRAY"
    BY <1>3, <1>6, <1>7, <1>9, SchemaAssumption
  <2> QED  BY <1>8, <2>1, <2>2, <2>3
<1>10. CASE ks # <<>>
  <2>1. /\ root[child].type = "ARRAY"
        /\ NextNode(rk) = selectListEntry(child, ks, sid, rk)
    BY <1>4, <1>5, <1>10 DEF NextNode
  <2> DEFINE matching == {i \in 1 .. root[child].val :
                            EntryMatches(Append(child, Elem(i)), ks, sid, rk)}
  <2>2. /\ matching # {} /\ NextNode(rk) = Append(child, Elem(First(matching)))
        /\ ~(Len(rk) < Len(ks))
    BY <2>1 DEF selectListEntry
  <2>3. root[child].val \in Nat
    BY <1>5, <2>1, RootCell
  <2>4. First(matching) \in matching
    <3>1. matching \subseteq Nat
      BY <2>3
    <3>2. \E i \in matching : \A j \in matching : i <= j
      <4> HIDE DEF matching
      <4> QED  BY <2>2, <3>1, LeastOf
    <3> QED  BY <3>2 DEF First
  <2> DEFINE n == First(matching)
             e == Append(child, Elem(n))
  <2>5. n \in 1 .. root[child].val /\ EntryMatches(e, ks, sid, rk)
    BY <2>4
  <2> HIDE DEF matching, n
  <2>6. /\ e \in DOMAIN root /\ e \in Positions /\ root[e].type = "MAP"
        /\ Node(Shape(e)).kind = "entry" /\ Node(Shape(e)).sid = sid
        /\ Front(e) = child /\ e # <<>>
    <3>1. /\ e \in DOMAIN root /\ e \in Positions /\ root[e].type = "MAP"
          /\ Node(Shape(e)).kind = "entry" /\ Node(Shape(e)).sid = sid /\ n \in Nat
      BY <1>5, <1>7, <2>1, <2>5, RootEntry
    <3>2. child \in Seq(Steps) /\ Elem(n) \in Steps
      BY <1>6, <3>1, StepTypes DEF Positions, Steps
    <3> QED  BY <3>1, <3>2, FrontLastAppend
  <2>7. NextNode(rk) = e
    BY <2>2 DEF n
  <2> HIDE DEF e
  <2> DEFINE own == EntryKeys(root, e, sid)
  <2>8. <<>> \o Shape(e) = Shape(e) /\ sid \in DOMAIN KeyMapping /\ ks = KeyMapping[sid]
    BY <1>2, <1>10, <2>6, ShapeType
  <2>9. /\ own \in Seq(KeyValues) /\ Len(own) = Len(ks)
        /\ DOMAIN KeyDeltas(sid) = 1 .. Len(ks)
        /\ \A k \in 1 .. Len(ks) :
             own[k] = getCoreconfValueAsUint64(root[Append(e, Key(KeyDeltas(sid)[k]))])
    <3>1. Node(<<>> \o Shape(e)).kind = "entry" /\ Node(<<>> \o Shape(e)).sid = sid
      BY <2>6, <2>8
    <3>2. LET d == Node(<<>> \o Shape(e)).sid
          IN /\ EntryKeys(root, e, d) \in Seq(KeyValues)
             /\ Len(EntryKeys(root, e, d)) = Len(KeyMapping[d])
             /\ DOMAIN KeyDeltas(d) = 1 .. Len(KeyMapping[d])
             /\ \A k \in 1 .. Len(KeyMapping[d]) :
                  EntryKeys(root, e, d)[k]
                    = getCoreconfValueAsUint64(root[Append(e, Key(KeyDeltas(d)[k]))])
      BY <1>0, <2>6, <3>1, EntryKeysType
    <3> QED  BY <2>8, <3>1, <3>2
  <2>10. \A k \in 1 .. Len(ks) : own[k] = rk[Len(rk) - k + 1] % UINT64
    <3> SUFFICES ASSUME NEW k \in 1 .. Len(ks) PROVE own[k] = rk[Len(rk) - k + 1] % UINT64
      OBVIOUS
    <3>1. k \in DOMAIN ks /\ KeyDeltas(sid)[k] = ks[k] - sid
      BY <1>2, <2>8 DEF KeyDeltas
    <3>2. LET elementKey == getCoreconfHashMap(root, e, ks[k] - sid)
          IN /\ elementKey # NULL
             /\ getCoreconfValueAsUint64(root[elementKey]) = rk[Len(rk) - k + 1] % UINT64
      BY <2>5, <3>1 DEF EntryMatches
    <3>3. getCoreconfHashMap(root, e, ks[k] - sid) = Append(e, Key(ks[k] - sid))
      BY <3>2 DEF getCoreconfHashMap
    <3> QED  BY <2>9, <3>1, <3>2, <3>3
  <2>11. K(e) = K(subTree) \o own
    <3>1. OwnKeys(root, <<>>, e) = own
      BY <2>6, <2>8 DEF OwnKeys
    <3> HIDE DEF own
    <3>2. K(e) = K(child) \o OwnKeys(root, <<>>, e)
      BY <1>0, <2>6, KeysAtStep
    <3> QED  BY <1>8, <3>1, <3>2
  <2> HIDE DEF own
  <2> DEFINE rest == KeysAfter(rk)
             a == K(subTree)
             b == Address(rest)
  <2>12. rest \in Seq(Int) /\ Address(rk) = own \o b
    <3>1. Len(ks) \in 0 .. Len(rk) /\ rest = SubSeq(rk, 1, Len(rk) - Len(ks))
      BY <1>2, <2>2 DEF KeysAfter
    <3> HIDE DEF rest
    <3> QED  BY <2>9, <2>10, <3>1, AddressSplit
  <2>13. b \in Seq(KeyValues) /\ a \in Seq(KeyValues)
    BY <1>8, <2>12, AddressType
  <2> HIDE DEF a, b, rest
  <2>14. (a \o own) \o b = a \o (own \o b)
    BY <2>9, <2>13, ConcatThree
  <2>15. K(e) \o b = a \o Address(rk)
    BY <2>11, <2>12, <2>14 DEF a
  <2> QED  BY <2>6, <2>7, <2>15 DEF a, b, rest
<1> QED  BY <1>9, <1>10

\* Schema nodes but lists are told apart by their SIDs.
LEMMA NonArrayUnique ==
  ASSUME NEW s \in Shapes, NEW u \in Shapes, Node(s).type # "ARRAY", Node(u).type # "ARRAY",
         Node(s).sid = Node(u).sid
  PROVE  s = u
<1>1. Node(<<>>).sid = 0 /\ 0 \notin SIDs
  BY SchemaAssumption DEF Node
<1>2. CASE s # <<>> /\ u # <<>>
  BY <1>2, OwnerIs
<1>3. CASE s = <<>> \/ u = <<>>
  BY <1>1, <1>3, OwnerIs
<1> QED  BY <1>2, <1>3

\* The parent of a SID is above it.
LEMMA ParentAbove ==
  ASSUME NEW a \in SIDs, NEW b \in SIDs, schemaParents[b] = a
  PROVE  IsPrefix(ShapeOf(a), ShapeOf(b))
<1> DEFINE s == ShapeOf(b)
           u == Front(s)
<1>1. /\ s \in Shapes /\ u \in Shapes /\ Node(u).sid = a /\ s = Append(u, Last(s))
      /\ Last(s) \in Int
  BY ParentShape
<1>2. s \in Seq(Int) /\ u \in Seq(Int)
  <2> HIDE DEF s, u
  <2> QED  BY <1>1, SchemaAssumption
<1>3. u # <<>>
  <2> HIDE DEF u
  <2> QED  BY <1>1, SchemaAssumption DEF Node
<1> HIDE DEF u
<1>4. /\ ShapeOf(a) = OwnerOf(u) /\ IsPrefix(OwnerOf(u), u) /\ OwnerOf(u) \in Seq(Int)
  BY <1>1, <1>3, OwnerIs
<1> DEFINE x == Last(s)
           o == OwnerOf(u)
<1>5. s = Append(u, x) /\ x \in Int /\ o \in Seq(Int) /\ IsPrefix(o, u)
  BY <1>1, <1>4
<1> HIDE DEF x, o, s
<1>6. IsPrefix(o, s)
  BY <1>2, <1>5, PrefixAppend
<1> QED  BY <1>4, <1>6 DEF o, s

\* The first node of a path is above its target.
LEMMA PathShape ==
  ASSUME NEW above, NEW p, NEW target, IsPathFrom(above, p, target), p # <<>>
  PROVE  IsPrefix(ShapeOf(Head(p).parentSID), ShapeOf(target))
<1> DEFINE h == ShapeOf(p[1].parentSID)
           S == {n \in Nat : n + 1 <= Len(p) => IsPrefix(h, ShapeOf(p[n + 1].parentSID))}
<1>1. p \in Seq(PathNodes) /\ Len(p) \in Nat \ {0} /\ Head(p) = p[1] /\ DOMAIN p = 1 .. Len(p)
  BY DEF IsPathFrom
<1>2. \A i \in 1 .. Len(p) :
        /\ p[i].parentSID \in SIDs
        /\ schemaParents[p[i].parentSID] = IF i = 1 THEN above ELSE p[i - 1].parentSID
  BY <1>1 DEF IsPathFrom
<1>3. \A sid \in SIDs : ShapeOf(sid) \in Seq(Int)
  BY ParentShape, SchemaAssumption
<1>4. h \in Seq(Int)
  BY <1>1, <1>2, <1>3
<1> HIDE DEF h
<1>5. 0 \in S
  <2>1. IsPrefix(h, h)
    BY <1>4, PrefixEnds
  <2> QED  BY <2>1 DEF h
<1>6. ASSUME NEW n \in Nat, n \in S PROVE n + 1 \in S
  <2> SUFFICES ASSUME n + 1 + 1 <= Len(p) PROVE IsPrefix(h, ShapeOf(p[n + 1 + 1].parentSID))
    OBVIOUS
  <2> DEFINE i == n + 1
             j == n + 1 + 1
             a == p[i].parentSID
             b == p[j].parentSID
  <2>1. i \in 1 .. Len(p) /\ j \in 1 .. Len(p) /\ j # 1 /\ j - 1 = i
    BY <1>1
  <2> HIDE DEF i, j
  <2>2. IsPrefix(h, ShapeOf(a))
    BY <1>1, <1>6, <2>1 DEF i
  <2>3. a \in SIDs /\ b \in SIDs /\ schemaParents[b] = a
    BY <1>2, <2>1
  <2> HIDE DEF a, b
  <2>4. IsPrefix(ShapeOf(a), ShapeOf(b))
    BY <2>3, ParentAbove
  <2>5. IsPrefix(h, ShapeOf(b))
    BY <1>3, <1>4, <2>2, <2>3, <2>4, PrefixesNest
  <2> QED  BY <2>5 DEF b, j
<1> HIDE DEF S
<1>7. \A n \in Nat : n \in S
  BY <1>5, <1>6, NatSetInduction
<1>8. target = p[Len(p)].parentSID
  BY <1>1 DEF IsPathFrom, Last
<1> DEFINE k == Len(p) - 1
<1>9. k \in Nat /\ k + 1 = Len(p)
  BY <1>1
<1>10. k \in S
  BY <1>7, <1>9
<1> HIDE DEF k
<1>11. IsPrefix(h, ShapeOf(p[Len(p)].parentSID))
  BY <1>9, <1>10 DEF S
<1> QED  BY <1>1, <1>8, <1>11 DEF h

\* A node with the address asked for is below the node reached, and the path
\* leads on to it.
LEMMA NodeLeadsOn ==
  ASSUME Conforms(root, <<>>), UniqueKeys(root, <<>>), subTree \in DOMAIN root,
         root[subTree].type # "ARRAY", Node(Shape(subTree)).sid = previousSID,
         IsPathFrom(previousSID, path, ctx.sid), path # <<>>, ctx.sid \in SIDs,
         NEW rk \in Seq(Int), NEW p \in DOMAIN root, Shape(p) = WrittenShape(ctx.sid),
         KeysAt(root, <<>>, <<>>, p) = KeysAt(root, <<>>, <<>>, subTree) \o Address(rk)
  PROVE  NextNode(rk) # NULL
<1> DEFINE K(r) == KeysAt(root, <<>>, <<>>, r)
           sid == Head(path).parentSID
           child == Append(subTree, Key(sid - previousSID))
           ks == Head(path).SIDKeys
           o == ShapeOf(sid)
           f == Front(o)
<1>0. <<>> \in Shapes /\ <<>> \in Seq(KeyValues)
  BY SchemaAssumption
<1>1. /\ sid \in SIDs /\ Head(path) = PathNode(sid) /\ schemaParents[sid] = previousSID
  BY PathStep
<1>2. ks \in Seq(Int) /\ (sid \in DOMAIN KeyMapping => ks = KeyMapping[sid])
      /\ (sid \notin DOMAIN KeyMapping => ks = <<>>)
  <2>1. sid \in Int
    BY <1>1, ParentShape
  <2> DEFINE i == sid
  <2>2. /\ PathNode(i).SIDKeys \in Seq(Int)
        /\ i \in DOMAIN KeyMapping => PathNode(i).SIDKeys = KeyMapping[i]
    BY <2>1, PathNodeType
  <2>3. i \notin DOMAIN KeyMapping => PathNode(i).SIDKeys = <<>>
    BY DEF PathNode
  <2> QED  BY <1>1, <2>2, <2>3
<1>3. /\ o \in Shapes /\ f \in Shapes /\ Node(f).type = "MAP" /\ Node(f).sid = previousSID
      /\ o = Append(f, Last(o)) /\ sid = previousSID + Last(o) /\ Last(o) \in Int /\ o # <<>>
      /\ sid \in Int /\ previousSID \in Int
  BY <1>1, ParentShape
<1>4. \A r \in DOMAIN root : /\ r \in Positions /\ Shape(r) \in Shapes /\ Shape(r) \in Seq(Int)
                             /\ root[r].type = Node(Shape(r)).type /\ K(r) \in Seq(KeyValues)
                             /\ <<>> \o Shape(r) = Shape(r)
  BY <1>0, RootCell, ShapeType, KeysAtGrows
<1> HIDE DEF o, f
<1>5. Shape(subTree) = f /\ root[subTree].type = "MAP"
  BY <1>3, <1>4, NonArrayUnique
<1>6. o \in Seq(Int) /\ f \in Seq(Int) /\ IsPrefix(f, o)
  <2>1. o \in Seq(Int) /\ f \in Seq(Int)
    BY <1>3, SchemaAssumption
  <2>2. IsPrefix(f, f)
    BY <2>1, PrefixEnds
  <2> DEFINE x == Last(o)
  <2>3. x \in Int /\ o = Append(f, x)
    BY <1>3
  <2> HIDE DEF x
  <2> QED  BY <2>1, <2>2, <2>3, PrefixAppend
<1>7. IsPrefix(o, Shape(p)) /\ IsPrefix(f, Shape(p))
  <2>1. IsPrefix(o, ShapeOf(ctx.sid))
    BY PathShape DEF o
  <2>2. /\ IsPrefix(ShapeOf(ctx.sid), Shape(p)) /\ ShapeOf(ctx.sid) \in Seq(Int)
    BY WrittenShapeIs, ParentShape, SchemaAssumption
  <2>3. IsPrefix(o, Shape(p))
    BY <1>4, <1>6, <2>1, <2>2, PrefixesNest
  <2> QED  BY <1>4, <1>6, <2>3, PrefixesNest
<1> DEFINE a == K(subTree)
           b == Address(rk)
<1>8. a \in Seq(KeyValues) /\ b \in Seq(KeyValues) /\ K(p) = a \o b
  BY <1>4, AddressType
<1> HIDE DEF a, b
<1>9. IsPrefix(a, K(p))
  BY <1>8, PrefixConcat, ZenonT(60)
<1>10. IsPrefix(subTree, p)
  BY <1>4, <1>5, <1>7, <1>9, UnderByAddress DEF a
<1>11. PICK c \in DOMAIN root : c \in Positions /\ IsPrefix(c, p) /\ Shape(c) = o
  BY <1>6, <1>7, PartOfShape
<1>12. c = child
  <2>1. c # <<>>
    BY <1>3, <1>11 DEF Shape
  <2>2. /\ Front(c) \in DOMAIN root /\ Front(c) \in Positions /\ Last(c) \in Steps
        /\ c = Append(Front(c), Last(c))
        /\ Last(c)[2] \in IF root[Front(c)].type = "ARRAY" THEN 1 .. root[Front(c)].val ELSE {0}
    BY <1>0, <1>11, <2>1, Cell
  <2>3. Shape(Front(c)) = f /\ Last(c)[1] = Last(o)
    <3>1. Front(o) = Shape(Front(c)) /\ Last(o) = Last(c)[1]
      BY <1>11, <2>1, ShapeFront
    <3> QED  BY <3>1 DEF f
  <2> DEFINE g == Front(c)
             x == Last(c)
  <2>4. /\ g \in Seq(Int \X Nat) /\ x \in Int \X Nat /\ c = Append(g, x) /\ c \in Seq(Int \X Nat)
        /\ p \in Seq(Int \X Nat) /\ subTree \in Seq(Int \X Nat)
    BY <1>4, <1>11, <2>2 DEF Positions, Steps
  <2>5. Len(g) = Len(subTree)
    <3>1. Len(Shape(g)) = Len(g) /\ Len(Shape(subTree)) = Len(subTree)
      BY <1>4, <2>2, ShapeType
    <3> QED  BY <1>5, <2>3, <3>1
  <2> HIDE DEF g, x
  <2>6. IsPrefix(g, p)
    <3>1. IsPrefix(g, g)
      BY <2>4, PrefixEnds
    <3>2. IsPrefix(g, c)
      BY <2>4, <3>1, PrefixAppend
    <3> QED  BY <1>11, <2>4, <3>2, PrefixesNest
  <2>7. g = subTree
    BY <1>10, <2>4, <2>5, <2>6, PrefixesNest
  <2>8. x[1] = sid - previousSID /\ x[2] = 0
    <3>1. x[1] = Last(o)
      BY <2>3 DEF x
    <3>2. x[2] \in {0}
      BY <1>5, <2>2, <2>7 DEF g, x
    <3> QED  BY <1>3, <3>1, <3>2
  <2>9. x = Key(sid - previousSID)
    <3> DEFINE d == sid - previousSID
    <3>1. x[1] = d /\ x[2] = 0 /\ x \in Int \X Nat
      BY <2>4, <2>8
    <3> HIDE DEF d
    <3>2. x = Key(d)
      BY <3>1 DEF Key
    <3> QED  BY <3>2 DEF d
  <2> QED  BY <2>4, <2>7, <2>9
<1>13. /\ child \in DOMAIN root /\ child # NULL
       /\ getCoreconfHashMap(root, subTree, sid - previousSID) = child
  <2>1. child \in DOMAIN root /\ child \in Positions
    BY <1>11, <1>12
  <2>2. child # NULL
    BY <2>1, TreeAssumption DEF Positions
  <2> QED  BY <2>1, <2>2 DEF getCoreconfHashMap
<1> HIDE DEF child
<1>14. CASE ks = <<>>
  BY <1>5, <1>13, <1>14 DEF NextNode
<1>15. CASE ks # <<>>
  <2>1. sid \in DOMAIN KeyMapping /\ ks = KeyMapping[sid] /\ Kind(sid) = "list"
    BY <1>1, <1>2, <1>15, KeyMappingAssumption DEF Kind
  <2>2. Shape(child) = o /\ Node(o).kind = "list" /\ root[child].type = "ARRAY" /\ Node(o).sid = sid
    <3>1. Shape(child) = o /\ Node(o).kind = "list" /\ Node(o).sid = sid
      BY <1>1, <1>11, <1>12, <2>1, ParentShape DEF Kind, o
    <3> QED  BY <1>3, <1>4, <1>13, <3>1, SchemaAssumption
  <2> DEFINE w == WrittenShape(sid)
  <2>3. /\ w \in Seq(Int) /\ w = Append(o, 0) /\ Node(w).kind = "entry" /\ Node(w).sid = sid
        /\ w # <<>>
    BY <1>1, <2>1, WrittenShapeIs DEF o
  <2>4. IsPrefix(w, Shape(p))
    <3>1. Shape(p) # o
      <4>1. Node(Shape(p)).type # "ARRAY"
        BY WrittenShapeIs
      <4>2. Node(o).type = "ARRAY"
        BY <1>3, <2>2, SchemaAssumption
      <4> QED  BY <4>1, <4>2
    <3> QED  BY <1>1, <1>4, <1>7, <3>1, BelowList DEF o
  <2> HIDE DEF w
  <2>5. PICK e \in DOMAIN root : e \in Positions /\ IsPrefix(e, p) /\ Shape(e) = w
    BY <2>3, <2>4, PartOfShape
  <2>6. /\ e # <<>> /\ Front(e) \in DOMAIN root /\ root[Front(e)].type = "ARRAY"
        /\ Last(e)[2] \in 1 .. root[Front(e)].val /\ e = Append(Front(e), Elem(Last(e)[2]))
    BY <2>3, <2>5, EntryPosition
  <2> DEFINE g == Front(e)
             i == Last(e)[2]
  <2>7. g = child
    <3>1. /\ e \in Seq(Int \X Nat) /\ g \in Seq(Int \X Nat) /\ p \in Seq(Int \X Nat)
          /\ child \in Seq(Int \X Nat) /\ Last(e) \in Int \X Nat /\ e = Append(g, Last(e))
      BY <1>0, <1>4, <1>13, <2>5, <2>6, Cell DEF Positions, Steps
    <3>2. Shape(g) = o
      <4>1. Shape(g) = Front(Shape(e))
        BY <2>5, <2>6, ShapeFront
      <4>2. Front(w) = o
        BY <1>6, <2>3, FrontLastAppend
      <4> QED  BY <2>5, <4>1, <4>2
    <3>3. Len(g) = Len(child)
      <4>1. Len(Shape(g)) = Len(g) /\ Len(Shape(child)) = Len(child)
        BY <1>4, <1>13, <2>6, ShapeType
      <4> QED  BY <2>2, <3>2, <4>1
    <3> DEFINE x == Last(e)
    <3>4. x \in Int \X Nat /\ e = Append(g, x)
      BY <3>1
    <3> HIDE DEF g, x
    <3>5. IsPrefix(g, g)
      BY <3>1, PrefixEnds
    <3>6. IsPrefix(g, e)
      BY <3>1, <3>4, <3>5, PrefixAppend
    <3>7. IsPrefix(g, p)
      BY <2>5, <3>1, <3>6, PrefixesNest
    <3>8. IsPrefix(child, p)
      BY <1>11, <1>12
    <3> QED  BY <3>1, <3>3, <3>7, <3>8, PrefixesNest
  <2>8. i \in 1 .. root[child].val /\ e = Append(child, Elem(i)) /\ i \in Nat
    <3>1. root[child].val \in Nat
      BY <1>13, <2>2, RootCell
    <3> QED  BY <2>6, <2>7, <3>1
  <2> HIDE DEF g, i
  <2> DEFINE own == EntryKeys(root, e, sid)
  <2>9. /\ <<>> \o Shape(e) = Shape(e) /\ Node(<<>> \o Shape(e)).kind = "entry"
        /\ Node(<<>> \o Shape(e)).sid = sid /\ root[e].type = "MAP"
    <3>1. <<>> \o Shape(e) = Shape(e) /\ root[e].type = Node(Shape(e)).type /\ Shape(e) \in Shapes
      BY <1>4
    <3> QED  BY <2>3, <2>5, <3>1, SchemaAssumption
  <2>10. /\ own \in Seq(KeyValues) /\ Len(own) = Len(ks) /\ HasKeys(root, e, KeyDeltas(sid))
         /\ DOMAIN KeyDeltas(sid) = 1 .. Len(ks)
         /\ \A k \in 1 .. Len(ks) :
              own[k] = getCoreconfValueAsUint64(root[Append(e, Key(KeyDeltas(sid)[k]))])
    <3>1. LET d == Node(<<>> \o Shape(e)).sid
          IN /\ EntryKeys(root, e, d) \in Seq(KeyValues) /\ HasKeys(root, e, KeyDeltas(d))
             /\ Len(EntryKeys(root, e, d)) = Len(KeyMapping[d])
             /\ DOMAIN KeyDeltas(d) = 1 .. Len(KeyMapping[d])
             /\ \A k \in 1 .. Len(KeyMapping[d]) :
                  EntryKeys(root, e, d)[k]
                    = getCoreconfValueAsUint64(root[Append(e, Key(KeyDeltas(d)[k]))])
      BY <1>0, <2>9, EntryKeysType
    <3> QED  BY <2>1, <2>9, <3>1
  <2>11. K(e) = a \o own
    <3>1. OwnKeys(root, <<>>, e) = own
      BY <2>9 DEF OwnKeys
    <3>2. OwnKeys(root, <<>>, child) = <<>>
      <4>1. <<>> \o Shape(child) = Shape(child) /\ Node(Shape(child)).kind # "entry"
        BY <1>4, <1>13, <2>2
      <4> QED  BY <4>1 DEF OwnKeys
    <3>3. Front(child) = subTree /\ child # <<>>
      <4>1. Front(child) = subTree
        BY <1>1, <1>5, ChildPosition DEF child
      <4>2. Len(child) = Len(o)
        BY <1>4, <1>13, <2>2, ShapeType
      <4>3. Len(o) # 0
        BY <1>3, <1>6
      <4> QED  BY <4>1, <4>2, <4>3
    <3> HIDE DEF own
    <3>4. K(child) = a \o <<>>
      <4>1. K(child) = K(subTree) \o OwnKeys(root, <<>>, child)
        BY <1>0, <1>13, <3>3, KeysAtStep
      <4> QED  BY <3>2, <4>1 DEF a
    <3>5. K(e) = K(child) \o own
      BY <1>0, <2>6, <2>7, <3>1, KeysAtStep DEF g
    <3>6. a \o <<>> = a
      BY <1>8
    <3> QED  BY <3>4, <3>5, <3>6
  <2>12. IsPrefix(own, b)
    <3>1. IsPrefix(K(e), K(p))
      BY <1>0, <2>5, KeysAtGrows
    <3> HIDE DEF own, K
    <3>2. own \in Seq(KeyValues) /\ IsPrefix(a \o own, a \o b)
      BY <1>8, <2>10, <2>11, <3>1
    <3> QED  BY <1>8, <3>2, ConcatPrefix
  <2> HIDE DEF own
  <2>13. Len(ks) <= Len(rk) /\ \A k \in 1 .. Len(ks) : own[k] = rk[Len(rk) - k + 1] % UINT64
    <3>1. Len(own) <= Len(b) /\ \A k \in 1 .. Len(own) : own[k] = b[k]
      BY <1>8, <2>10, <2>12, PrefixPoints
    <3>2. Len(b) = Len(rk) /\ \A k \in 1 .. Len(rk) : b[k] = rk[Len(rk) - k + 1] % UINT64
      BY AddressType DEF b
    <3>3. Len(ks) \in Nat /\ Len(rk) \in Nat
      BY <1>2
    <3> QED  BY <2>10, <3>1, <3>2, <3>3
  <2>14. EntryMatches(e, ks, sid, rk)
    <3> SUFFICES ASSUME NEW k \in DOMAIN ks
                 PROVE  LET elementKey == getCoreconfHashMap(root, e, ks[k] - sid)
                        IN /\ elementKey # NULL
                           /\ getCoreconfValueAsUint64(root[elementKey])
                                = rk[Len(rk) - k + 1] % UINT64
      BY <2>9 DEF EntryMatches
    <3>1. k \in 1 .. Len(ks) /\ KeyDeltas(sid)[k] = ks[k] - sid
      BY <1>2, <2>1 DEF KeyDeltas
    <3>2. Append(e, Key(ks[k] - sid)) \in DOMAIN root
      BY <2>10, <3>1 DEF HasKeys
    <3>3. Append(e, Key(ks[k] - sid)) # NULL
      BY <1>4, <3>2, TreeAssumption DEF Positions
    <3>4. getCoreconfHashMap(root, e, ks[k] - sid) = Append(e, Key(ks[k] - sid))
      BY <3>2 DEF getCoreconfHashMap
    <3>5. own[k] = rk[Len(rk) - k + 1] % UINT64
      BY <2>13, <3>1
    <3> QED  BY <2>10, <3>1, <3>3, <3>4, <3>5
  <2> DEFINE matching == {j \in 1 .. root[child].val :
                            EntryMatches(Append(child, Elem(j)), ks, sid, rk)}
  <2>15. matching # {} /\ matching \subseteq Nat
    <3>1. i \in matching
      BY <2>8, <2>14
    <3>2. root[child].val \in Nat
      BY <1>13, <2>2, RootCell
    <3>3. matching \subseteq 1 .. root[child].val
      OBVIOUS
    <3> HIDE DEF matching
    <3> QED  BY <3>1, <3>2, <3>3
  <2>16. First(matching) \in Nat
    <3>1. \E j \in matching : \A l \in matching : j <= l
      <4> HIDE DEF matching
      <4> QED  BY <2>15, LeastOf
    <3> QED  BY <2>15, <3>1 DEF First
  <2>17. NextNode(rk) = Append(child, Elem(First(matching)))
    <3>1. NextNode(rk) = selectListEntry(child, ks, sid, rk)
      BY <1>5, <1>13, <1>15, <2>2 DEF NextNode
    <3>2. ~(Len(rk) < Len(ks))
      <4>1. Len(ks) \in Nat /\ Len(rk) \in Nat
        BY <1>2
      <4> QED  BY <2>13, <4>1
    <3> QED  BY <2>15, <3>1, <3>2 DEF selectListEntry
  <2> DEFINE n == First(matching)
  <2> HIDE DEF matching, n
  <2>18. Append(child, Elem(n)) \in Positions
    <3>1. Elem(n) \in Steps /\ child \in Positions
      BY <1>4, <1>13, <2>16, StepTypes DEF n
    <3> QED  BY <3>1, ShapeAppend
  <2> QED  BY <2>17, <2>18, TreeAssumption DEF Positions, n
<1> QED  BY <1>14, <1>15

-----------------------------------------------------------------------------
(* The keys of the node reached and the keys left are the keys asked for *)

Reached(rk) ==
  /\ asked \in Seq(Int)
  /\ root[subTree].type # "ARRAY"
  /\ KeysAt(root, <<>>, <<>>, subTree) \o Address(rk) = Address(asked)

\* But while a read takes them, the keys of the context are those asked for.
KeysOK ==
  /\ pc = "examine" => Reached(ctx.keys)
  /\ pc = "navigate" => Reached(keys)
  /\ pc # "examine" => asked = ctx.keys

\* RootCell, for any instance.
LEMMA InstanceCell ==
  ASSUME NEW t, Conforms(t, <<>>), NEW p \in DOMAIN t
  PROVE  /\ p \in Positions /\ <<>> \o Shape(p) = Shape(p) /\ Shape(p) \in Shapes
         /\ t[p].type = Node(Shape(p)).type
<1>1. Placed(t, <<>>, p)
  BY DEF Conforms
<1>2. p \in Positions /\ <<>> \o Shape(p) = Shape(p)
  BY <1>1, ShapeType DEF Placed
<1> QED  BY <1>1, <1>2 DEF Placed

\* The root has no keys.
LEMMA TopHasNoKeys ==
  ASSUME NEW t, Conforms(t, <<>>)
  PROVE  KeysAt(t, <<>>, <<>>, <<>>) = <<>> /\ t[<<>>].type = "MAP"
<1>0. /\ <<>> \in Shapes /\ Node(<<>>).kind = "root" /\ Node(<<>>).type = "MAP"
      /\ Shape(<<>>) = <<>> /\ <<>> \o <<>> = <<>>
  BY SchemaAssumption DEF Shape, Node
<1>1. <<>> \in DOMAIN t
  BY DEF Conforms
<1>2. t[<<>>].type = "MAP"
  BY <1>0, <1>1, InstanceCell
<1>3. OwnKeys(t, <<>>, <<>>) = <<>>
  BY <1>0 DEF OwnKeys
<1>4. KeysAt(t, <<>>, <<>>, <<>>) = <<>> \o OwnKeys(t, <<>>, <<>>)
  BY <1>0, <1>1, KeysAtStep
<1> QED  BY <1>2, <1>3, <1>4

\* The action keeps what the node reached and the keys left have to do with
\* the keys asked for.
LEMMA KeysOKKept ==
  ASSUME IInv, KeysOK, [Next]_vars
  PROVE  KeysOK'
<1>0. Conforms(root, <<>>) /\ ContextOK
  BY DEF IInv, TypeOK
<1>1. ASSUME pc = "idle", ctx.pathNode # NULL, UNCHANGED <<root, ctx, asked, subTree>>,
             pc' = "examine" \/ (pc' = "navigate" /\ keys' = ctx.keys)
      PROVE  KeysOK'
  <2>1. subTree = <<>> /\ ctx.keys \in Seq(Int)
    BY <1>0, <1>1 DEF IInv, IdleOK, ContextOK
  <2>2. KeysAt(root, <<>>, <<>>, <<>>) = <<>> /\ root[<<>>].type = "MAP"
    BY <1>0, TopHasNoKeys
  <2> DEFINE a == Address(ctx.keys)
  <2>3. a \in Seq(KeyValues)
    BY <2>1, AddressType
  <2> HIDE DEF a
  <2>4. <<>> \o a = a
    BY <2>3
  <2>5. /\ asked' \in Seq(Int) /\ root'[subTree'].type # "ARRAY"
        /\ KeysAt(root', <<>>, <<>>, subTree') \o Address(ctx.keys) = Address(asked')
    BY <1>1, <2>1, <2>2, <2>4 DEF a, KeysOK
  <2>6. asked' = ctx'.keys
    BY <1>1 DEF KeysOK
  <2> QED  BY <1>1, <2>5, <2>6 DEF KeysOK, Reached
<1>2. ASSUME pc \in {"examine", "navigate"}, path # <<>>, NEW rk \in Seq(Int), Reached(rk),
             NextNode(rk) # NULL, UNCHANGED <<root, asked>>, subTree' = NextNode(rk)
      PROVE  /\ asked' \in Seq(Int) /\ root'[subTree'].type # "ARRAY"
             /\ KeysAt(root', <<>>, <<>>, subTree') \o Address(KeysAfter(rk)) = Address(asked')
  <2>1. DescentOK
    BY <1>2 DEF IInv, TypeOK
  <2>2. /\ root[NextNode(rk)].type # "ARRAY"
        /\ KeysAt(root, <<>>, <<>>, NextNode(rk)) \o Address(KeysAfter(rk))
             = KeysAt(root, <<>>, <<>>, subTree) \o Address(rk)
    BY <1>0, <1>2, <2>1, NextNodeKeys DEF DescentOK
  <2> QED  BY <1>2, <2>2 DEF Reached
<1>3. CASE ExamineCoreconfValue
  BY <1>1, <1>3 DEF ExamineCoreconfValue
<1>4. CASE Write
  <2>1. PICK v \in Values[ctx.sid] : \/ HandlerRejects(v) \/ UserFunctionFails(v)
                                     \/ UserFunctionSucceeds(v) \/ UpdateValueBySID(v)
    BY <1>4 DEF Write
  <2>2. pc = "idle" /\ ctx.pathNode # NULL
    BY <1>4 DEF Write
  <2>3. CASE HandlerRejects(v) \/ UserFunctionFails(v)
    BY <2>2, <2>3 DEF HandlerRejects, UserFunctionFails, Return, KeysOK
  <2>4. CASE UserFunctionSucceeds(v) \/ UpdateValueBySID(v)
    BY <1>1, <2>2, <2>4 DEF UserFunctionSucceeds, UpdateValueBySID, BeginNavigate
  <2> QED  BY <2>1, <2>3, <2>4
<1>5. CASE ExamineStep
  <2>1. /\ pc = "examine" /\ path # <<>> /\ NextNode(ctx.keys) # NULL /\ subTree' = NextNode(ctx.keys)
        /\ UNCHANGED <<root, asked, pc>> /\ ctx' = [ctx EXCEPT !.keys = KeysAfter(ctx.keys)]
    BY <1>5 DEF ExamineStep, Descend
  <2>2. ctx.keys \in Seq(Int) /\ ctx'.keys = KeysAfter(ctx.keys)
    BY <1>0, <2>1 DEF ContextOK
  <2>3. Reached(ctx.keys)
    BY <2>1 DEF KeysOK
  <2>4. /\ asked' \in Seq(Int) /\ root'[subTree'].type # "ARRAY"
        /\ KeysAt(root', <<>>, <<>>, subTree') \o Address(KeysAfter(ctx.keys)) = Address(asked')
    BY <1>2, <2>1, <2>2, <2>3
  <2> QED  BY <2>1, <2>2, <2>4 DEF KeysOK, Reached
<1>6. CASE NavigateStep
  <2>1. /\ pc = "navigate" /\ path # <<>> /\ NextNode(keys) # NULL /\ subTree' = NextNode(keys)
        /\ UNCHANGED <<root, ctx, asked, pc>> /\ keys' = KeysAfter(keys)
    BY <1>6 DEF NavigateStep, Descend, AtTarget
  <2>2. keys \in Seq(Int)
    BY <2>1 DEF IInv, TypeOK, DescentOK
  <2>3. Reached(keys)
    BY <2>1 DEF KeysOK
  <2>4. /\ asked' \in Seq(Int) /\ root'[subTree'].type # "ARRAY"
        /\ KeysAt(root', <<>>, <<>>, subTree') \o Address(KeysAfter(keys)) = Address(asked')
    BY <1>2, <2>1, <2>2, <2>3
  <2> QED  BY <2>1, <2>4 DEF KeysOK, Reached
<1>7. CASE \/ \E sid \in DOMAIN KeyLists : \E ks \in KeyLists[sid] : FindRequirementForSID(sid, ks)
           \/ FreeContext \/ BuildCLookupHashmap
  BY <1>7 DEF FindRequirementForSID, FreeContext, BuildCLookupHashmap, NoContext, Return, KeysOK
<1>8. CASE \/ FindParent \/ FindFails \/ FindReturns \/ ExamineFails \/ ExamineReturns
           \/ NavigateFails \/ InsertValue \/ UpdateListEntry \/ StoreFails
           \/ WalkNode \/ WalkReturns
  <2>1. pc' \notin {"examine", "navigate"}
    BY <1>8 DEF FindParent, FindFails, FindReturns, ExamineFails, ExamineReturns, NavigateFails,
         InsertValue, UpdateListEntry, StoreFails, WalkNode, WalkReturns, Return
  <2>2. CASE ExamineFails \/ ExamineReturns
    BY <2>2 DEF ExamineFails, ExamineReturns, Return, KeysOK
  <2>3. CASE FindReturns
    <3>1. asked = ctx.keys /\ asked' = asked
      BY <2>3 DEF FindReturns, KeysOK
    <3>2. ctx'.keys = ctx.keys
      BY <1>0, <2>3 DEF FindReturns, ContextOK
    <3> QED  BY <2>1, <3>1, <3>2 DEF KeysOK
  <2>4. CASE ~(ExamineFails \/ ExamineReturns \/ FindReturns)
    <3>1. pc # "examine" /\ UNCHANGED <<ctx, asked>>
      BY <1>8, <2>4 DEF FindParent, FindFails, NavigateFails,
           InsertValue, UpdateListEntry, StoreFails, WalkNode, WalkReturns, ParentFound
    <3> QED  BY <2>1, <3>1 DEF KeysOK
  <2> QED  BY <2>2, <2>3, <2>4
<1>9. CASE UNCHANGED vars
  BY <1>9 DEF vars, locals, KeysOK, Reached
<1> QED  BY <1>3, <1>4, <1>5, <1>6, <1>7, <1>8, <1>9 DEF Next, Call, Step

\* The invariant of the refinement.
LEMMA KeysInvariance == Spec => [](IInv /\ KeysOK)
<1>1. Init => KeysOK
  BY DEF Init, NoContext, KeysOK
<1>2. IInv /\ KeysOK /\ [Next]_vars => KeysOK'
  BY KeysOKKept
<1> QED  BY Invariance, <1>1, <1>2, PTL DEF Spec

-----------------------------------------------------------------------------
(* Reads *)

\* The node with the address asked for, if there is one: but for lists, which
\* share theirs with nothing.
LEMMA NodeAddress ==
  ASSUME NEW t, Conforms(t, <<>>), NEW p \in DOMAIN t
  PROVE  LET n == NodeAt(t, <<>>, <<>>, p)
         IN /\ n.sid = Node(Shape(p)).sid /\ n.keys = KeysAt(t, <<>>, <<>>, p)
            /\ n.type = t[p].type /\ Shape(p) \in Shapes /\ t[p].type = Node(Shape(p)).type
            /\ p \in Positions
  BY InstanceCell DEF NodeAt

\* Under, of the instance of DatastoreAbs.
LEMMA UnderMeans ==
  ASSUME NEW a, NEW n
  PROVE  Abs!Under(a, n) <=> <<a.sid, n.sid>> \in AboveSIDs /\ IsPrefix(a.keys, n.keys)
  BY DEF Abs!Under, Abs!IsPrefix, IsPrefix

\* The nodes of the data under an address, when they are those below q.
LEMMA UnderInData ==
  ASSUME NEW t, Conforms(t, <<>>), UniqueKeys(t, <<>>), NEW m, NEW q, NEW sid, NEW own,
         IsTarget(t, m, q, sid, own), NEW a,
         a = [sid |-> sid, keys |-> KeysAt(t, <<>>, <<>>, m) \o own]
  PROVE  \A p \in DOMAIN t : Abs!Under(a, NodeAt(t, <<>>, <<>>, p)) <=> IsPrefix(q, p)
<1> SUFFICES ASSUME NEW p \in DOMAIN t
             PROVE  Abs!Under(a, NodeAt(t, <<>>, <<>>, p)) <=> IsPrefix(q, p)
  OBVIOUS
<1> DEFINE n == NodeAt(t, <<>>, <<>>, p)
           x == KeysAt(t, <<>>, <<>>, m) \o own
           y == KeysAt(t, <<>>, <<>>, p)
           b == Node(Shape(p)).sid
<1>1. n.sid = b /\ n.keys = y
  BY NodeAddress
<1>2. a.sid = sid /\ a.keys = x
  OBVIOUS
<1>3. <<sid, b>> \in AboveSIDs /\ IsPrefix(x, y) <=> IsPrefix(q, p)
  BY UnderIs
<1> HIDE DEF n, x, y, b
<1>4. Abs!Under(a, n) <=> <<sid, b>> \in AboveSIDs /\ IsPrefix(x, y)
  BY <1>1, <1>2, UnderMeans
<1>5. Abs!Under(a, n) <=> IsPrefix(q, p)
  BY <1>3, <1>4
<1> QED  BY <1>5 DEF n

\* A read that has come to the end of its path and its keys has found what
\* there is under its address.
LEMMA ReadFinds ==
  ASSUME IInv, KeysOK, pc = "examine", path = <<>>, ctx.keys = <<>>
  PROVE  /\ subTree # NULL
         /\ Abs!Lookup(DataOf(root, <<>>, <<>>), [sid |-> ctx.sid, keys |-> Address(asked)])
              = {NodeAt(root, <<>>, <<>>, p) : p \in {p \in DOMAIN root : IsPrefix(subTree, p)}}
<1> DEFINE K(p) == KeysAt(root, <<>>, <<>>, p)
           N(p) == NodeAt(root, <<>>, <<>>, p)
           a == [sid |-> ctx.sid, keys |-> Address(asked)]
           m == Front(subTree)
           own == OwnKeys(root, <<>>, subTree)
           D == DataOf(root, <<>>, <<>>)
<1>0. <<>> \in Shapes /\ <<>> \in Seq(KeyValues)
  BY SchemaAssumption
<1>1. /\ Conforms(root, <<>>) /\ UniqueKeys(root, <<>>) /\ ctx.sid \in SIDs
      /\ subTree \in DOMAIN root /\ Node(Shape(subTree)).sid = ctx.sid
  <2>1. Conforms(root, <<>>) /\ UniqueKeys(root, <<>>) /\ DescentOK /\ ContextOK
    BY DEF IInv, TypeOK, UniqueEntries
  <2> QED  BY <2>1 DEF DescentOK, ContextOK, IsPathFrom
<1>2. root[subTree].type # "ARRAY" /\ K(subTree) \o Address(<<>>) = Address(asked)
  BY DEF KeysOK, Reached
<1>3. K(subTree) = Address(asked)
  <2>1. Address(<<>>) = <<>>
    <3>1. <<>> \in Seq(Int)
      OBVIOUS
    <3> QED  BY <3>1, AddressType
  <2>2. K(subTree) \in Seq(KeyValues)
    BY <1>0, <1>1, KeysAtGrows
  <2>3. K(subTree) \o <<>> = K(subTree)
    <3> DEFINE k == K(subTree)
    <3>1. k \in Seq(KeyValues)
      BY <2>2
    <3> HIDE DEF k
    <3>2. k \o <<>> = k
      BY <3>1
    <3> QED  BY <3>2 DEF k
  <2> HIDE DEF K
  <2> QED  BY <1>2, <2>1, <2>3
<1>4. /\ Shape(subTree) = WrittenShape(ctx.sid) /\ subTree # <<>> /\ subTree \in Positions
  <2>1. Shape(subTree) \in Shapes /\ Node(Shape(subTree)).type # "ARRAY" /\ subTree \in Positions
    BY <1>1, <1>2, RootCell
  <2>2. Shape(subTree) # <<>>
    BY <1>1, SchemaAssumption DEF Node
  <2>3. Shape(subTree) = WrittenShape(Node(Shape(subTree)).sid)
    BY <2>1, <2>2, OwnerIs
  <2>4. subTree # <<>>
    BY <2>2 DEF Shape
  <2> QED  BY <1>1, <2>1, <2>3, <2>4
<1>5. IsTarget(root, m, subTree, ctx.sid, own)
  <2>1. m \in DOMAIN root
    BY <1>0, <1>1, <1>4, Cell
  <2>2. /\ own \in Seq(KeyValues)
        /\ Len(own) = IF Kind(ctx.sid) = "list" THEN Len(KeyMapping[ctx.sid]) ELSE 0
    BY <1>1, <1>4, OwnKeysOf
  <2>3. \A y \in DOMAIN root :
          /\ y # <<>> /\ Front(y) = m /\ Shape(y) = Shape(subTree)
          /\ OwnKeys(root, <<>>, y) = own
          => y = subTree
    BY <1>1, <1>4, SiblingsDiffer
  <2> HIDE DEF own
  <2>4. OwnKeys(root, <<>>, subTree) = own
    BY DEF own
  <2> QED  BY <1>1, <1>4, <2>1, <2>2, <2>3, <2>4 DEF IsTarget
<1>6. a = [sid |-> ctx.sid, keys |-> K(m) \o own]
  <2>1. K(subTree) = K(m) \o own
    BY <1>0, <1>1, <1>4, KeysAtStep
  <2> QED  BY <1>3, <2>1
<1> HIDE DEF own, m
<1>7. \A p \in DOMAIN root : Abs!Under(a, N(p)) <=> IsPrefix(subTree, p)
  <2> HIDE DEF a
  <2> QED  BY <1>1, <1>5, <1>6, UnderInData
<1>8. N(subTree) \in D /\ Abs!At(a, N(subTree)) /\ N(subTree).type # "ARRAY"
  BY <1>1, <1>2, <1>3, NodeAddress DEF DataOf, Abs!At
<1>9. D = {N(p) : p \in DOMAIN root}
  BY DEF DataOf
<1> HIDE DEF N, D, a
<1>10. {n \in D : Abs!Under(a, n)} = {N(p) : p \in {p \in DOMAIN root : IsPrefix(subTree, p)}}
  BY <1>7, <1>9
<1>11. Abs!Lookup(D, a) = {n \in D : Abs!Under(a, n)}
  BY <1>8 DEF Abs!Lookup
<1>12. subTree # NULL
  BY <1>4, TreeAssumption DEF Positions
<1> QED  BY <1>10, <1>11, <1>12 DEF N, D, a

\* A read that cannot go on, or has keys left, has nothing to find.
LEMMA ReadFindsNothing ==
  ASSUME IInv, KeysOK, pc = "examine",
         \/ path # <<>> /\ NextNode(ctx.keys) = NULL
         \/ path = <<>> /\ ctx.keys # <<>>
  PROVE  Abs!Lookup(DataOf(root, <<>>, <<>>), [sid |-> ctx.sid, keys |-> Address(asked)]) = NULL
<1> DEFINE K(p) == KeysAt(root, <<>>, <<>>, p)
           a == [sid |-> ctx.sid, keys |-> Address(asked)]
           D == DataOf(root, <<>>, <<>>)
<1>0. <<>> \in Shapes /\ <<>> \in Seq(KeyValues)
  BY SchemaAssumption
<1>1. /\ Conforms(root, <<>>) /\ UniqueKeys(root, <<>>) /\ ctx.sid \in SIDs
      /\ subTree \in DOMAIN root /\ Node(Shape(subTree)).sid = previousSID
      /\ IsPathFrom(previousSID, path, ctx.sid) /\ ctx.keys \in Seq(Int)
  <2>1. Conforms(root, <<>>) /\ UniqueKeys(root, <<>>) /\ DescentOK /\ ContextOK
    BY DEF IInv, TypeOK, UniqueEntries
  <2> QED  BY <2>1 DEF DescentOK, ContextOK
<1>2. root[subTree].type # "ARRAY" /\ K(subTree) \o Address(ctx.keys) = Address(asked)
  BY DEF KeysOK, Reached
<1>3. ASSUME NEW n \in D, Abs!At(a, n), n.type # "ARRAY" PROVE FALSE
  <2>1. PICK p \in DOMAIN root : n = NodeAt(root, <<>>, <<>>, p)
    BY DEF DataOf
  <2>2. /\ Node(Shape(p)).sid = ctx.sid /\ K(p) = Address(asked) /\ root[p].type # "ARRAY"
        /\ Shape(p) \in Shapes /\ Node(Shape(p)).type # "ARRAY"
    <3>1. /\ n.sid = Node(Shape(p)).sid /\ n.keys = K(p)
          /\ n.type = root[p].type /\ Shape(p) \in Shapes /\ root[p].type = Node(Shape(p)).type
      BY <1>1, <2>1, NodeAddress
    <3>2. n.sid = ctx.sid /\ n.keys = Address(asked)
      BY <1>3 DEF Abs!At
    <3> QED  BY <1>3, <3>1, <3>2
  <2>3. Shape(p) = WrittenShape(ctx.sid)
    <3>1. Shape(p) # <<>>
      BY <1>1, <2>2, SchemaAssumption DEF Node
    <3> QED  BY <2>2, <3>1, OwnerIs
  <2>4. K(p) = K(subTree) \o Address(ctx.keys)
    BY <1>2, <2>2
  <2>5. CASE path # <<>> /\ NextNode(ctx.keys) = NULL
    BY <1>1, <1>2, <2>3, <2>4, <2>5, NodeLeadsOn
  <2>6. CASE path = <<>> /\ ctx.keys # <<>>
    <3>1. previousSID = ctx.sid
      BY <1>1, <2>6 DEF IsPathFrom
    <3>2. Shape(subTree) = Shape(p)
      <4>1. Shape(subTree) \in Shapes /\ Node(Shape(subTree)).type # "ARRAY"
        BY <1>1, <1>2, RootCell
      <4> QED  BY <1>1, <2>2, <3>1, <4>1, NonArrayUnique
    <3>3. Len(K(p)) = Len(K(subTree)) /\ K(subTree) \in Seq(KeyValues)
      BY <1>0, <1>1, <3>2, SameShapeSameNumber, KeysAtGrows
    <3>4. Address(ctx.keys) \in Seq(KeyValues) /\ Len(Address(ctx.keys)) # 0
      <4>1. Len(ctx.keys) # 0
        BY <1>1, <2>6
      <4> QED  BY <1>1, <4>1, AddressType
    <3> DEFINE x == K(subTree)
               y == Address(ctx.keys)
    <3>5. Len(x \o y) = Len(x) /\ x \in Seq(KeyValues) /\ y \in Seq(KeyValues) /\ Len(y) # 0
      BY <2>4, <3>3, <3>4
    <3> HIDE DEF x, y
    <3> QED  BY <3>5
  <2> QED  BY <2>5, <2>6
<1> HIDE DEF D, a
<1>4. Abs!Lookup(D, a) = NULL
  BY <1>3 DEF Abs!Lookup
<1> QED  BY <1>4 DEF D, a

-----------------------------------------------------------------------------
(* Writes *)

\* The nodes of a written value: the one at the address, and those below it.
LEMMA ValueUnder ==
  ASSUME NEW q \in Positions, NEW sid \in SIDs, Shape(q) = WrittenShape(sid),
         NEW v, Conforms(v, Shape(q)), NEW k \in Seq(KeyValues),
         NEW a, a = [sid |-> sid, keys |-> k \o OwnKeys(v, Shape(q), <<>>)]
  PROVE  /\ \E n \in DataOf(v, Shape(q), k) : Abs!At(a, n)
         /\ \A n \in DataOf(v, Shape(q), k) : Abs!Under(a, n)
<1> DEFINE S == Shape(q)
           K(s) == KeysAt(v, S, k, s)
           N(s) == NodeAt(v, S, k, s)
<1>1. S \in Shapes /\ S \in Seq(Int) /\ Node(S).sid = sid /\ IsPrefix(ShapeOf(sid), S)
  BY WrittenShapeIs
<1>2. <<>> \in DOMAIN v
  BY DEF Conforms
<1>3. /\ ShapeOf(sid) \in Seq(Int)
      /\ \A s \in DOMAIN v : /\ s \in Positions /\ Shape(s) \in Seq(Int) /\ S \o Shape(s) \in Shapes
                             /\ K(s) \in Seq(KeyValues)
                             /\ IsPrefix(K(<<>>), K(s))
  <2>1. ShapeOf(sid) \in Seq(Int)
    BY ParentShape, SchemaAssumption
  <2> SUFFICES ASSUME NEW s \in DOMAIN v
               PROVE  /\ s \in Positions /\ Shape(s) \in Seq(Int) /\ S \o Shape(s) \in Shapes
                      /\ K(s) \in Seq(KeyValues) /\ IsPrefix(K(<<>>), K(s))
    BY <2>1
  <2> HIDE DEF S
  <2>2. s \in Positions /\ S \o Shape(s) \in Shapes
    BY <1>1, Cell DEF S
  <2>3. IsPrefix(<<>>, s)
    BY <2>2, PrefixEnds DEF Positions
  <2>4. K(s) \in Seq(KeyValues) /\ IsPrefix(K(<<>>), K(s))
    BY <1>1, <1>2, <2>3, KeysAtGrows DEF S
  <2> QED  BY <2>2, <2>4, ShapeType
<1>4. K(<<>>) = a.keys
  BY <1>1, <1>2, KeysAtStep
<1>5. \A s \in DOMAIN v : N(s).sid = Node(S \o Shape(s)).sid /\ N(s).keys = K(s)
  BY DEF NodeAt
<1>6. S \o Shape(<<>>) = S
  <2>1. Shape(<<>>) = <<>>
    BY DEF Shape
  <2> HIDE DEF S
  <2> QED  BY <1>1, <2>1
<1>7. DataOf(v, S, k) = {N(s) : s \in DOMAIN v}
  BY DEF DataOf
<1>8. a.sid = sid
  OBVIOUS
<1> HIDE DEF S, K, N
<1>9. N(<<>>) \in DataOf(v, S, k) /\ Abs!At(a, N(<<>>))
  BY <1>1, <1>2, <1>4, <1>5, <1>6, <1>7, <1>8 DEF Abs!At
<1>10. ASSUME NEW s \in DOMAIN v PROVE Abs!Under(a, N(s))
  <2> DEFINE w == Shape(s)
             u == S \o w
  <2>1. IsPrefix(S, u) /\ u \in Seq(Int)
    <3>1. w \in Seq(Int)
      BY <1>3
    <3> HIDE DEF w
    <3> QED  BY <1>1, <3>1, PrefixConcat
  <2>2. u \in Shapes
    BY <1>3
  <2> HIDE DEF u
  <2>3. IsPrefix(ShapeOf(sid), u)
    BY <1>1, <1>3, <2>1, PrefixesNest
  <2>4. <<sid, Node(u).sid>> \in AboveSIDs
    BY <2>2, <2>3, AboveIs
  <2>5. N(s).sid = Node(u).sid /\ N(s).keys = K(s)
    BY <1>5 DEF u
  <2> QED  BY <1>3, <1>4, <1>8, <2>4, <2>5, UnderMeans
<1> QED  BY <1>7, <1>9, <1>10 DEF S

\* Such a write replaces what is under the address by the written value.
LEMMA WriteReplaces ==
  ASSUME NEW t, Conforms(t, <<>>), UniqueKeys(t, <<>>), NEW m, NEW q, NEW sid, NEW v, NEW P,
         IsTarget(t, m, q, sid, OwnKeys(v, Shape(q), <<>>)), IsWrite(P, t, q, v),
         NEW a, a = [sid |-> sid, keys |-> KeysAt(t, <<>>, <<>>, m) \o OwnKeys(v, Shape(q), <<>>)]
  PROVE  LET new == DataOf(v, Shape(q), KeysAt(t, <<>>, <<>>, m))
         IN /\ \E n \in new : Abs!At(a, n)
            /\ \A n \in new : Abs!Under(a, n)
            /\ DataOf(P, <<>>, <<>>) = Abs!Replace(DataOf(t, <<>>, <<>>), a, new)
<1> DEFINE k == KeysAt(t, <<>>, <<>>, m)
           own == OwnKeys(v, Shape(q), <<>>)
           new == DataOf(v, Shape(q), k)
           N(p) == NodeAt(t, <<>>, <<>>, p)
           D == DataOf(t, <<>>, <<>>)
<1>1. /\ m \in DOMAIN t /\ q \in Positions /\ sid \in SIDs /\ Shape(q) = WrittenShape(sid)
      /\ Front(q) = m
  BY DEF IsTarget
<1>2. Conforms(v, Shape(q))
  BY DEF IsWrite
<1>3. k \in Seq(KeyValues)
  <2>1. <<>> \in Shapes /\ <<>> \in Seq(KeyValues)
    BY SchemaAssumption
  <2> QED  BY <1>1, <2>1, KeysAtGrows
<1>4. \A p \in DOMAIN t : Abs!Under(a, N(p)) <=> IsPrefix(q, p)
  BY UnderInData
<1>5. DataOf(P, <<>>, <<>>) = {N(p) : p \in {p \in DOMAIN t : ~IsPrefix(q, p)}} \cup new
  BY <1>1, WriteData
<1>6. D = {N(p) : p \in DOMAIN t}
  BY DEF DataOf
<1>7. (\E n \in new : Abs!At(a, n)) /\ (\A n \in new : Abs!Under(a, n))
  <2> HIDE DEF k
  <2>1. a = [sid |-> sid, keys |-> k \o own]
    BY DEF k
  <2> QED  BY <1>1, <1>2, <1>3, <2>1, ValueUnder
<1> HIDE DEF N, D, new
<1>8. {n \in D : ~Abs!Under(a, n)} = {N(p) : p \in {p \in DOMAIN t : ~IsPrefix(q, p)}}
  BY <1>4, <1>6
<1>9. Abs!Replace(D, a, new) = {n \in D : ~Abs!Under(a, n)} \cup new
  BY DEF Abs!Replace
<1> QED  BY <1>5, <1>7, <1>8, <1>9 DEF D, new

\* At the parent container, every key has led somewhere.
LEMMA ParentKeys ==
  ASSUME IInv, KeysOK, ParentFound
  PROVE  /\ KeysAt(root, <<>>, <<>>, subTree) = Address(asked)
         /\ Address(asked) \in Seq(KeyValues)
<1> DEFINE k == KeysAt(root, <<>>, <<>>, subTree)
<1>1. k \in Seq(KeyValues)
  <2>1. <<>> \in Shapes /\ <<>> \in Seq(KeyValues)
    BY SchemaAssumption
  <2>2. Conforms(root, <<>>) /\ subTree \in DOMAIN root
    BY DEF IInv, TypeOK, DescentOK, ParentFound
  <2> QED  BY <2>1, <2>2, KeysAtGrows
<1>2. asked \in Seq(Int) /\ k \o Address(<<>>) = Address(asked)
  BY DEF KeysOK, Reached, ParentFound
<1>3. Address(<<>>) = <<>> /\ Address(asked) \in Seq(KeyValues)
  BY <1>2, AddressType
<1> HIDE DEF k
<1>4. k \o <<>> = k
  BY <1>1
<1> QED  BY <1>2, <1>3, <1>4 DEF k

\* The answer to a write that succeeds.
Written ==
  LET keysOf == IF Kind(ctx.sid) = "list"
                THEN Address(asked) \o EntryKeys(value, <<>>, ctx.sid) ELSE Address(asked)
  IN [op |-> "write", at |-> [sid |-> ctx.sid, keys |-> keysOf],
      value |-> DataOf(value, WrittenShape(ctx.sid), Address(asked))]

\* A leaf or a container that is written replaces the node at its address.
LEMMA InsertWrites ==
  ASSUME IInv, KeysOK, InsertValue
  PROVE  Abs!Write(DataOf(root, <<>>, <<>>), DataOf(root', <<>>, <<>>), Written)
<1> DEFINE q == Append(subTree, Key(ctx.sid - schemaParents[ctx.sid]))
           k == Address(asked)
           a == [sid |-> ctx.sid, keys |-> k]
           new == DataOf(value, WrittenShape(ctx.sid), k)
<1>1. /\ ctx.sid \in SIDs /\ subTree \in DOMAIN root /\ root[subTree].type = "MAP"
      /\ Node(Shape(subTree)).sid = schemaParents[ctx.sid]
      /\ finalDeltaSID = ctx.sid - schemaParents[ctx.sid]
  BY ParentIs DEF InsertValue
<1>2. Conforms(root, <<>>) /\ UniqueKeys(root, <<>>)
  BY DEF IInv, TypeOK, UniqueEntries
<1>3. /\ q \in Positions /\ Shape(q) = ShapeOf(ctx.sid) /\ Front(q) = subTree
      /\ Last(q) = Key(ctx.sid - schemaParents[ctx.sid])
      /\ subTree \in Positions /\ Last(q) \in Steps
  BY <1>1, <1>2, ChildPosition
<1>4. q # <<>> /\ Last(q)[2] = 0
  <2>1. Key(ctx.sid - schemaParents[ctx.sid]) \in Steps
    BY <1>3
  <2>2. q # <<>>
    BY <1>3, <2>1, FrontLastAppend DEF Positions, Steps
  <2>3. Last(q)[2] = 0
    BY <1>3 DEF Key
  <2> QED  BY <2>2, <2>3
<1>5. Kind(ctx.sid) # "list" /\ WrittenShape(ctx.sid) = ShapeOf(ctx.sid)
  BY <1>1, WrittenShapeIs DEF InsertValue
<1>6. Conforms(value, Shape(q)) /\ value \in Values[ctx.sid] /\ <<>> \in DOMAIN value
  <2>1. Conforms(value, WrittenShape(ctx.sid)) /\ value \in Values[ctx.sid]
    BY DEF IInv, TypeOK, ValueOK, InsertValue, ParentFound
  <2> QED  BY <1>3, <1>5, <2>1 DEF Conforms
<1>7. /\ Node(Shape(q)).kind \notin {"key", "entry"} /\ Shape(q) \in Shapes
      /\ Shape(q) \in Seq(Int)
  <2>1. Node(ShapeOf(ctx.sid)).kind # "key"
    BY <1>1, <1>6, ClientAssumption
  <2>2. ShapeOf(ctx.sid) \in DataShapes /\ ShapeOf(ctx.sid) \in Shapes
    BY <1>1, ParentShape
  <2> QED  BY <1>3, <2>1, <2>2, SchemaAssumption DEF DataShapes
<1>8. root' = Put(root, q, value)
  BY <1>1 DEF InsertValue, insertCoreconfHashMap
<1> HIDE DEF q
<1>9. IsWrite(root', root, q, value)
  <2>1. Conforms(root', <<>>)
    BY InsertValueKeeps DEF IInv, TypeOK
  <2>2. DOMAIN root \subseteq Positions /\ DOMAIN value \subseteq Positions
    BY ValuePositions DEF InsertValue, ParentFound
  <2>3. IsPut(root', root, q, value)
    BY <1>3, <1>8, <2>2, PutCells
  <2>4. SameButSizes(root, root)
    BY DEF SameButSizes
  <2> QED  BY <1>1, <1>3, <1>4, <1>6, <1>7, <2>1, <2>3, <2>4 DEF IsWrite
<1>10. OwnKeys(value, Shape(q), <<>>) = <<>>
  <2> DEFINE S == Shape(q)
  <2>1. Shape(<<>>) = <<>> /\ S \in Seq(Int) /\ Node(S).kind # "entry"
    BY <1>7 DEF Shape
  <2> HIDE DEF S
  <2>2. S \o Shape(<<>>) = S
    BY <2>1
  <2>3. OwnKeys(value, S, <<>>) = <<>>
    BY <2>1, <2>2 DEF OwnKeys
  <2> QED  BY <2>3 DEF S
<1>11. IsTarget(root, subTree, q, ctx.sid, <<>>)
  <2>1. ASSUME NEW y \in DOMAIN root, y # <<>>, Front(y) = subTree, Shape(y) = Shape(q)
        PROVE  y = q
    <3>1. /\ y \in Positions /\ Last(y) \in Steps /\ y = Append(Front(y), Last(y))
          /\ Last(y)[2] = 0
      <4>1. <<>> \in Shapes
        BY SchemaAssumption
      <4> QED  BY <1>1, <1>2, <2>1, <4>1, Cell
    <3>2. Last(y)[1] = Last(q)[1]
      BY <1>3, <1>4, <2>1, <3>1, ShapeFront
    <3>3. Last(y) = Last(q)
      BY <1>3, <1>4, <3>1, <3>2 DEF Steps
    <3>4. q = Append(Front(q), Last(q))
      BY <1>3, <1>4, ShapeFront
    <3> QED  BY <1>3, <2>1, <3>1, <3>3, <3>4
  <2>2. q \in DOMAIN root => OwnKeys(root, <<>>, q) = <<>>
    <3>1. <<>> \o Shape(q) = Shape(q)
      BY <1>3, ShapeType
    <3> QED  BY <1>7, <3>1 DEF OwnKeys
  <2>3. <<>> \in Seq(KeyValues) /\ Len(<<>>) = 0
    OBVIOUS
  <2> QED  BY <1>1, <1>3, <1>4, <1>5, <2>1, <2>2, <2>3 DEF IsTarget
<1>12. KeysAt(root, <<>>, <<>>, subTree) = k /\ k \in Seq(KeyValues)
  BY ParentKeys DEF InsertValue
<1>13. Written = [op |-> "write", at |-> a, value |-> new]
  BY <1>5 DEF Written
<1> HIDE DEF k
<1>14. a = [sid |-> ctx.sid, keys |-> k \o <<>>]
  BY <1>12
<1>15. /\ \E n \in new : Abs!At(a, n)
       /\ \A n \in new : Abs!Under(a, n)
       /\ DataOf(root', <<>>, <<>>) = Abs!Replace(DataOf(root, <<>>, <<>>), a, new)
  <2> HIDE DEF a
  <2>1. WrittenShape(ctx.sid) = Shape(q)
    BY <1>3, <1>5
  <2> QED  BY <1>2, <1>9, <1>10, <1>11, <1>12, <1>14, <2>1, WriteReplaces
<1> HIDE DEF a, new
<1> QED  BY <1>13, <1>15 DEF Abs!Write

\* An entry that is there where the new one goes has the same keys.
LEMMA ReplacedHasKeys ==
  ASSUME NEW t, NEW a, t[a].val \in Nat, NEW v, NEW kd, EntryIndex(t, a, kd, v) \in 1 .. t[a].val
  PROVE  SameKeys(t, Append(a, Elem(EntryIndex(t, a, kd, v))), v, <<>>, kd)
<1> DEFINE same == Replaceable(t, a, kd, v)
<1>1. same # {}
  BY DEF EntryIndex
<1>2. EntryIndex(t, a, kd, v) = First(same)
  BY <1>1 DEF EntryIndex
<1>3. same \subseteq 1 .. t[a].val
  BY DEF Replaceable
<1> HIDE DEF same
<1>4. PICK i \in same : \A j \in same : i <= j
  BY <1>1, <1>3, LeastOf
<1>5. First(same) \in same
  BY <1>4 DEF First
<1> QED  BY <1>2, <1>5 DEF same, Replaceable

\* A list entry that is written replaces the one with its keys.
LEMMA UpdateWrites ==
  ASSUME IInv, KeysOK, UpdateListEntry
  PROVE  Abs!Write(DataOf(root, <<>>, <<>>), DataOf(root', <<>>, <<>>), Written)
<1> DEFINE arr == arrayValue
           n == WrittenIndex
           kd == KeyDeltas(ctx.sid)
           size == IF n > root[arr].val THEN n ELSE root[arr].val
           u == [root EXCEPT ![arr].val = size]
           q == Append(arr, Elem(n))
           k == Address(asked)
           own == EntryKeys(value, <<>>, ctx.sid)
           a == [sid |-> ctx.sid, keys |-> k \o own]
           new == DataOf(value, WrittenShape(ctx.sid), k)
<1>1. /\ ctx.sid \in SIDs /\ subTree \in DOMAIN root /\ root[subTree].type = "MAP"
      /\ Node(Shape(subTree)).sid = schemaParents[ctx.sid]
      /\ finalDeltaSID = ctx.sid - schemaParents[ctx.sid]
  BY ParentIs DEF UpdateListEntry
<1>2. Conforms(root, <<>>) /\ UniqueKeys(root, <<>>)
  BY DEF IInv, TypeOK, UniqueEntries
<1>3. arr \in DOMAIN root /\ root[arr].type = "ARRAY" /\ arr = Append(subTree, Key(finalDeltaSID))
  BY DEF UpdateListEntry, NoArray, arrayValue, getCoreconfHashMap
<1>4. Shape(arr) = ShapeOf(ctx.sid) /\ Front(arr) = subTree /\ arr \in Positions /\ arr # <<>>
  <2>1. /\ Shape(arr) = ShapeOf(ctx.sid) /\ Front(arr) = subTree /\ arr \in Positions
        /\ subTree \in Positions /\ Key(finalDeltaSID) \in Steps
    BY <1>1, <1>2, <1>3, ChildPosition
  <2>2. arr # <<>>
    BY <1>3, <2>1, FrontLastAppend DEF Positions, Steps
  <2> QED  BY <2>1, <2>2
<1>5. Node(Shape(arr)).sid = ctx.sid
  BY <1>1, <1>4, ParentShape
<1>6. /\ Kind(ctx.sid) = "list" /\ WrittenShape(ctx.sid) = EntryOf(Shape(arr))
      /\ Node(WrittenShape(ctx.sid)).kind = "entry" /\ Node(WrittenShape(ctx.sid)).sid = ctx.sid
      /\ ctx.sid \in DOMAIN KeyMapping /\ WrittenShape(ctx.sid) \in Shapes
      /\ WrittenShape(ctx.sid) \in Seq(Int)
  BY <1>1, <1>4, WrittenShapeIs DEF UpdateListEntry, EntryOf
<1>7. Conforms(value, WrittenShape(ctx.sid)) /\ <<>> \in DOMAIN value
  <2>1. Conforms(value, WrittenShape(ctx.sid))
    BY DEF IInv, TypeOK, ValueOK, UpdateListEntry, ParentFound
  <2> QED  BY <2>1 DEF Conforms
<1>8. /\ root[arr].val \in Nat /\ n \in 1 .. root[arr].val + 1
      /\ \A i \in 1 .. root[arr].val : SameKeys(root, Append(arr, Elem(i)), value, <<>>, kd) => i = n
  BY <1>2, <1>3, <1>5, EntryIndexIs DEF WrittenIndex
<1>9. n \in 1 .. root[arr].val => SameKeys(root, q, value, <<>>, kd)
  BY <1>8, ReplacedHasKeys DEF WrittenIndex
<1>10. root' = Put(u, q, value)
  BY DEF UpdateListEntry, updateCoreconfArrayByKeys, WrittenIndex
<1> HIDE DEF n, arr
<1>11. /\ q \in Positions /\ q # <<>> /\ Front(q) = arr /\ Last(q) = Elem(n) /\ Last(q)[2] = n
       /\ Shape(q) = WrittenShape(ctx.sid)
  <2>1. Elem(n) \in Steps /\ Elem(n)[1] = 0 /\ Elem(n)[2] = n
    BY <1>8, StepTypes
  <2>2. q \in Positions /\ Shape(q) = Append(Shape(arr), 0)
    BY <1>4, <2>1, ShapeAppend
  <2>3. arr \in Seq(Steps)
    BY <1>4 DEF Positions, Steps
  <2> QED  BY <1>6, <2>1, <2>2, <2>3, FrontLastAppend DEF EntryOf
<1>12. HasRoom(u, root, arr, n)
  BY <1>2, <1>3, <1>8, GrownArray
<1> HIDE DEF q, u
<1>13. IsWrite(root', root, q, value)
  <2>1. Conforms(root', <<>>)
    BY UpdateListEntryKeeps DEF IInv, TypeOK
  <2>2. DOMAIN root \subseteq Positions /\ DOMAIN value \subseteq Positions
    BY ValuePositions DEF UpdateListEntry, ParentFound
  <2>3. IsPut(root', u, q, value)
    BY <1>10, <1>11, <1>12, <2>2, PutCells DEF HasRoom
  <2>4. SameButSizes(u, root) /\ \A p \in DOMAIN root : u[p].type = root[p].type
    BY <1>3, <1>12 DEF HasRoom, SameButSizes
  <2> QED  BY <1>3, <1>6, <1>7, <1>11, <2>1, <2>3, <2>4 DEF IsWrite
<1>14. OwnKeys(value, Shape(q), <<>>) = own
  <2> DEFINE S == Shape(q)
  <2>1. Shape(<<>>) = <<>> /\ S \in Seq(Int) /\ Node(S).kind = "entry" /\ Node(S).sid = ctx.sid
    BY <1>6, <1>11 DEF Shape
  <2> HIDE DEF S
  <2>2. S \o Shape(<<>>) = S
    BY <2>1
  <2>3. OwnKeys(value, S, <<>>) = own
    BY <2>1, <2>2 DEF OwnKeys
  <2> QED  BY <2>3 DEF S
<1>15. /\ HasKeys(value, <<>>, kd) /\ own \in Seq(KeyValues)
       /\ Len(own) = Len(KeyMapping[ctx.sid])
  <2> DEFINE S == WrittenShape(ctx.sid)
  <2>1. S \in Shapes /\ S \in Seq(Int) /\ Node(S).kind = "entry" /\ Node(S).sid = ctx.sid
        /\ Conforms(value, S)
    BY <1>6, <1>7
  <2> HIDE DEF S
  <2>2. S \o Shape(<<>>) = S
    <3>1. Shape(<<>>) = <<>>
      BY DEF Shape
    <3> QED  BY <2>1, <3>1
  <2>3. LET sid == Node(S \o Shape(<<>>)).sid
        IN /\ HasKeys(value, <<>>, KeyDeltas(sid))
           /\ EntryKeys(value, <<>>, sid) \in Seq(KeyValues)
           /\ Len(EntryKeys(value, <<>>, sid)) = Len(KeyMapping[sid])
    <3>1. Node(S \o Shape(<<>>)).kind = "entry"
      BY <2>1, <2>2
    <3> QED  BY <1>7, <2>1, <3>1, EntryKeysType
  <2> QED  BY <2>1, <2>2, <2>3
<1> HIDE DEF own
<1>16. ASSUME NEW y \in DOMAIN root, Shape(y) = Shape(q)
       PROVE  /\ OwnKeys(root, <<>>, y) = own <=> SameKeys(root, y, value, <<>>, kd)
              /\ y # <<>> /\ Last(y)[2] \in 1 .. root[Front(y)].val
              /\ y = Append(Front(y), Elem(Last(y)[2]))
  <2>1. Node(Shape(y)).kind = "entry" /\ Node(Shape(y)).sid = ctx.sid /\ <<>> \o Shape(y) = Shape(y)
    BY <1>2, <1>6, <1>11, <1>16, InstanceCell
  <2>2. OwnKeys(root, <<>>, y) = EntryKeys(root, y, ctx.sid)
    BY <2>1 DEF OwnKeys
  <2>3. HasKeys(root, y, kd)
    <3>1. <<>> \in Shapes
      BY SchemaAssumption
    <3> QED  BY <1>2, <2>1, <3>1, EntryKeysType
  <2>4. SameKeys(root, y, value, <<>>, kd) <=> EntryKeys(root, y, ctx.sid) = own
    BY <1>6, <1>15, <2>3, EqualKeys DEF own
  <2>5. /\ y # <<>> /\ Last(y)[2] \in 1 .. root[Front(y)].val
        /\ y = Append(Front(y), Elem(Last(y)[2]))
    BY <1>2, <2>1, EntryPosition
  <2> QED  BY <2>2, <2>4, <2>5
<1>17. IsTarget(root, arr, q, ctx.sid, own)
  <2>1. ASSUME NEW y \in DOMAIN root, Front(y) = arr, Shape(y) = Shape(q),
               OwnKeys(root, <<>>, y) = own
        PROVE  y = q
    <3>1. /\ SameKeys(root, y, value, <<>>, kd) /\ Last(y)[2] \in 1 .. root[arr].val
          /\ y = Append(arr, Elem(Last(y)[2]))
      BY <1>16, <2>1
    <3>2. Last(y)[2] = n
      <4> DEFINE i == Last(y)[2]
      <4>1. i \in 1 .. root[arr].val /\ SameKeys(root, Append(arr, Elem(i)), value, <<>>, kd)
        BY <3>1
      <4> HIDE DEF i
      <4>2. i = n
        BY <1>8, <4>1
      <4> QED  BY <4>2 DEF i
    <3> QED  BY <3>1, <3>2 DEF q
  <2>2. ASSUME q \in DOMAIN root PROVE OwnKeys(root, <<>>, q) = own
    <3>1. n \in 1 .. root[arr].val
      BY <1>11, <1>16, <2>2
    <3> QED  BY <1>9, <1>16, <2>2, <3>1
  <2> QED  BY <1>1, <1>3, <1>6, <1>11, <1>15, <2>1, <2>2 DEF IsTarget
<1>18. KeysAt(root, <<>>, <<>>, arr) = k /\ k \in Seq(KeyValues)
  <2>1. KeysAt(root, <<>>, <<>>, subTree) = k /\ k \in Seq(KeyValues)
    BY ParentKeys DEF UpdateListEntry
  <2>2. OwnKeys(root, <<>>, arr) = <<>>
    <3>1. Node(Shape(arr)).kind # "entry" /\ <<>> \o Shape(arr) = Shape(arr)
      BY <1>2, <1>3, InstanceCell, SchemaAssumption
    <3> QED  BY <3>1 DEF OwnKeys
  <2>3. <<>> \in Shapes
    BY SchemaAssumption
  <2>4. KeysAt(root, <<>>, <<>>, arr) = KeysAt(root, <<>>, <<>>, subTree) \o <<>>
    BY <1>2, <1>3, <1>4, <2>2, <2>3, KeysAtStep
  <2> HIDE DEF k
  <2>5. k \o <<>> = k
    BY <2>1
  <2> QED  BY <2>1, <2>4, <2>5
<1>19. Written = [op |-> "write", at |-> a, value |-> new]
  BY <1>6 DEF Written, own
<1> HIDE DEF k
<1>20. /\ \E x \in new : Abs!At(a, x)
       /\ \A x \in new : Abs!Under(a, x)
       /\ DataOf(root', <<>>, <<>>) = Abs!Replace(DataOf(root, <<>>, <<>>), a, new)
  <2>1. a = [sid |-> ctx.sid, keys |-> KeysAt(root, <<>>, <<>>, arr) \o own]
    BY <1>18
  <2>2. new = DataOf(value, Shape(q), KeysAt(root, <<>>, <<>>, arr))
    BY <1>11, <1>18
  <2> HIDE DEF a, new
  <2>3. IsTarget(root, arr, q, ctx.sid, OwnKeys(value, Shape(q), <<>>))
    BY <1>14, <1>17
  <2>4. a = [sid |-> ctx.sid,
             keys |-> KeysAt(root, <<>>, <<>>, arr) \o OwnKeys(value, Shape(q), <<>>)]
    BY <1>14, <2>1
  <2> QED  BY <1>2, <1>13, <2>2, <2>3, <2>4, WriteReplaces
<1> HIDE DEF a, new
<1> QED  BY <1>19, <1>20 DEF Abs!Write

-----------------------------------------------------------------------------
(* Every step *)

\* What a step of the abstract datastore is, with what the mapping makes of
\* the two states.
LEMMA AbstractStep ==
  ASSUME \/ Abs!Read(DataOf(root, <<>>, <<>>), DataOf(root', <<>>, <<>>), AnswerOf')
         \/ Abs!Write(DataOf(root, <<>>, <<>>), DataOf(root', <<>>, <<>>), AnswerOf')
         \/ Abs!NoEffect(DataOf(root, <<>>, <<>>), DataOf(root', <<>>, <<>>), AnswerOf')
  PROVE  Abs!Next
<1> DEFINE now == DataOf(root, <<>>, <<>>)
           after == DataOf(root', <<>>, <<>>)
<1>1. after = DataOf(root, <<>>, <<>>)'
  OBVIOUS
<1> QED  BY <1>1 DEF Abs!Next

\* A call that begins, fails or returns something else has no effect.
LEMMA NoEffectStep ==
  ASSUME root' = root, result'.op \notin {"read", "write"} \/ (result'.op = "write" /\ result'.ret # 0)
  PROVE  Abs!Next
<1>1. AnswerOf'.op = "none"
  BY DEF AnswerOf
<1>2. Abs!NoEffect(DataOf(root, <<>>, <<>>), DataOf(root', <<>>, <<>>), AnswerOf')
  BY <1>1 DEF Abs!NoEffect
<1> QED  BY <1>2, AbstractStep

\* A read that returns has looked the address up.
LEMMA ReadStep ==
  ASSUME IInv, KeysOK, ExamineFails \/ ExamineReturns
  PROVE  Abs!Next
<1> DEFINE a == [sid |-> ctx.sid, keys |-> Address(asked)]
           D == DataOf(root, <<>>, <<>>)
           found == {NodeAt(root, <<>>, <<>>, p) : p \in {p \in DOMAIN root : IsPrefix(subTree, p)}}
<1>1. root' = root
  BY DEF ExamineFails, ExamineReturns
<1>2. /\ result'.op = "read" /\ result'.sid = ctx.sid /\ result'.keys = asked
      /\ pc = "examine"
  BY DEF ExamineFails, ExamineReturns, Return, Answer
<1>3. /\ result'.node = NULL /\ Abs!Lookup(D, a) = NULL
      \/ /\ result'.node = subTree /\ subTree # NULL /\ Abs!Lookup(D, a) = found
  <2>1. CASE ExamineFails
    <3>1. path # <<>> /\ NextNode(ctx.keys) = NULL /\ result'.node = NULL
      BY <2>1 DEF ExamineFails, Return, Answer
    <3>2. Abs!Lookup(D, a) = NULL
      BY <1>2, <3>1, ReadFindsNothing
    <3> QED  BY <3>1, <3>2
  <2>2. CASE ExamineReturns /\ ctx.keys = <<>>
    <3>1. path = <<>> /\ result'.node = subTree
      BY <2>2 DEF ExamineReturns, Return, Answer
    <3>2. subTree # NULL /\ Abs!Lookup(D, a) = found
      BY <1>2, <2>2, <3>1, ReadFinds
    <3> QED  BY <3>1, <3>2
  <2>3. CASE ExamineReturns /\ ctx.keys # <<>>
    <3>1. path = <<>> /\ result'.node = NULL
      BY <2>3 DEF ExamineReturns, Return, Answer
    <3>2. Abs!Lookup(D, a) = NULL
      BY <1>2, <2>3, <3>1, ReadFindsNothing
    <3> QED  BY <3>1, <3>2
  <2> QED  BY <2>1, <2>2, <2>3
<1>4. AnswerOf' = [op |-> "read", at |-> a, value |-> Abs!Lookup(D, a)]
  <2>1. AskedKeys' = Address(asked)
    BY <1>2 DEF AskedKeys, Address
  <2>2. AnswerOf' = ReadAnswer'
    BY <1>2 DEF AnswerOf
  <2>3. ReadAnswer' = [op |-> "read", at |-> a,
                       value |-> IF result'.node = NULL THEN NULL
                                 ELSE {NodeAt(root, <<>>, <<>>, p) :
                                         p \in {p \in DOMAIN root : IsPrefix(result'.node, p)}}]
    BY <1>1, <1>2, <2>1 DEF ReadAnswer
  <2> QED  BY <1>3, <2>2, <2>3
<1> HIDE DEF a, D
<1>5. Abs!Read(D, D, AnswerOf')
  BY <1>4 DEF Abs!Read
<1> QED  BY <1>1, <1>5, AbstractStep DEF D

\* A write that succeeds has replaced what is at its address.
LEMMA WriteStep ==
  ASSUME IInv, KeysOK, InsertValue \/ UpdateListEntry
  PROVE  Abs!Next
<1>1. /\ result'.op = "write" /\ result'.ret = 0 /\ result'.sid = ctx.sid
      /\ result'.keys = asked /\ result'.value = value
  BY DEF InsertValue, UpdateListEntry, Return, Answer
<1>2. AskedKeys' = Address(asked)
  BY <1>1 DEF AskedKeys, Address
<1>3. WrittenAt' = Written.at
  BY <1>1, <1>2 DEF WrittenAt, Written
<1>4. AnswerOf' = [op |-> "write", at |-> WrittenAt',
                   value |-> DataOf(value, WrittenShape(ctx.sid), Address(asked))]
  BY <1>1, <1>2 DEF AnswerOf
<1>5. AnswerOf' = Written
  BY <1>3, <1>4 DEF Written
<1>6. Abs!Write(DataOf(root, <<>>, <<>>), DataOf(root', <<>>, <<>>), Written)
  BY InsertWrites, UpdateWrites
<1> QED  BY <1>5, <1>6, AbstractStep

\* Each step is one of the abstract datastore, or none.
LEMMA StepRefines ==
  ASSUME IInv, KeysOK, [Next]_vars
  PROVE  [Abs!Next]_<<DataOf(root, <<>>, <<>>), AnswerOf>>
<1>1. CASE UNCHANGED <<root, result>>
  <2>1. UNCHANGED AskedKeys
    BY <1>1 DEF AskedKeys
  <2>2. UNCHANGED <<ReadAnswer, WrittenAt>>
    BY <1>1, <2>1 DEF ReadAnswer, WrittenAt
  <2>3. UNCHANGED AnswerOf
    BY <1>1, <2>1, <2>2 DEF AnswerOf
  <2> QED  BY <1>1, <2>3
<1>2. CASE UNCHANGED vars
  BY <1>1, <1>2 DEF vars
<1>3. CASE Call
  <2>1. root' = root
    BY <1>3 DEF Call, FindRequirementForSID, ExamineCoreconfValue, FreeContext, Write,
         HandlerRejects, UserFunctionFails, UserFunctionSucceeds, UpdateValueBySID,
         BeginNavigate, BuildCLookupHashmap
  <2>2. result' = None \/ (result'.op = "write" /\ result'.ret = -1)
    <3>1. CASE Write
      BY <3>1 DEF Write, HandlerRejects, UserFunctionFails, UserFunctionSucceeds,
           UpdateValueBySID, BeginNavigate, Return, Answer
    <3>2. CASE ~Write
      BY <1>3, <3>2 DEF Call, FindRequirementForSID, ExamineCoreconfValue, FreeContext,
           BuildCLookupHashmap, Return
    <3> QED  BY <3>1, <3>2
  <2> QED  BY <2>1, <2>2, NoEffectStep DEF None
<1>4. CASE FindParent \/ ExamineStep \/ NavigateStep \/ WalkNode
  <2>1. UNCHANGED <<root, result>>
    BY <1>4 DEF FindParent, ExamineStep, NavigateStep, WalkNode
  <2> QED  BY <1>1, <2>1
<1>5. CASE FindFails \/ FindReturns \/ NavigateFails \/ StoreFails \/ WalkReturns
  <2>1. root' = root
    BY <1>5 DEF FindFails, FindReturns, NavigateFails, StoreFails, WalkReturns
  <2>2. \/ result'.op \in {"none", "find", "build"}
        \/ result'.op = "write" /\ result'.ret = -1
    BY <1>5 DEF FindFails, FindReturns, NavigateFails, StoreFails, WalkReturns, Return, Answer,
         None
  <2> QED  BY <2>1, <2>2, NoEffectStep
<1>6. CASE ExamineFails \/ ExamineReturns
  BY <1>6, ReadStep
<1>7. CASE InsertValue \/ UpdateListEntry
  BY <1>7, WriteStep
<1> QED  BY <1>2, <1>3, <1>4, <1>5, <1>6, <1>7 DEF Next, Step

\* Every read returns exactly the node its SID and keys address, or nothing if
\* there is no such node; every write that succeeds replaces exactly that
\* node; a call that is rejected or fails leaves the data as they were.
THEOREM Refinement == Spec => Refines
<1>1. Init => Abs!Init
  BY DEF Init, Abs!Init, AnswerOf, None
<1>2. IInv /\ KeysOK /\ [Next]_vars => [Abs!Next]_<<DataOf(root, <<>>, <<>>), AnswerOf>>
  BY StepRefines
<1> QED  BY <1>1, <1>2, KeysInvariance, PTL DEF Spec, Refines, Abs!Spec
===============================================================================
