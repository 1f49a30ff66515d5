--------------------------- MODULE DatastoreProofs ---------------------------
(***************************************************************************)
(* Theorems about Datastore, for every schema, instance, client and bound. *)
(* First the trees of CoreconfTree and the schema of YangSchema: shapes,   *)
(* what Put leaves and what it replaces, and that putting a value of the   *)
(* right schema node into an instance gives an instance.  Then the         *)
(* inductive invariant IInv: the type invariant (whose DescentOK ties the  *)
(* node reached to the rest of the path), the table of parents and the     *)
(* uniqueness of keys.                                                     *)
(***************************************************************************)
EXTENDS Datastore, SeqLemmas

Steps == Int \X Nat

-----------------------------------------------------------------------------
(* Shapes *)

\* A key or an element is one step of a position.
LEMMA StepTypes ==
  /\ \A d \in Int : Key(d) \in Steps /\ Key(d)[1] = d /\ Key(d)[2] = 0
  /\ \A i \in Nat : Elem(i) \in Steps /\ Elem(i)[1] = 0 /\ Elem(i)[2] = i
  BY DEF Key, Elem, Steps

\* The shape of a position is a sequence of deltas, as long as the position.
LEMMA ShapeType ==
  ASSUME NEW p \in Positions
  PROVE  /\ Shape(p) \in Seq(Int) /\ Len(Shape(p)) = Len(p)
         /\ <<>> \o Shape(p) = Shape(p)
<1>1. \A n \in 1 .. Len(p) : p[n][1] \in Int
  BY DEF Positions
<1>2. Shape(p) \in Seq(Int) /\ Len(Shape(p)) = Len(p)
  BY <1>1 DEF Shape, Positions
<1>3. <<>> \o Shape(p) = Shape(p)
  BY <1>2
<1> QED  BY <1>2, <1>3

\* One step further down, one delta more.
LEMMA ShapeAppend ==
  ASSUME NEW p \in Positions, NEW x \in Steps
  PROVE  /\ Append(p, x) \in Positions
         /\ Shape(Append(p, x)) = Append(Shape(p), x[1])
<1>1. Append(p, x) \in Positions /\ Len(Append(p, x)) = Len(p) + 1
  BY DEF Positions, Steps
<1>2. Shape(p) \in Seq(Int) /\ Len(Shape(p)) = Len(p) /\ x[1] \in Int
  BY ShapeType DEF Steps
<1>3. \A n \in 1 .. Len(p) + 1 : Append(p, x)[n] = IF n = Len(p) + 1 THEN x ELSE p[n]
  BY DEF Positions, Steps
<1>4. \A n \in 1 .. Len(p) + 1 : Shape(Append(p, x))[n] = Append(Shape(p), x[1])[n]
  BY <1>1, <1>2, <1>3 DEF Shape, Positions
<1>5. Shape(Append(p, x)) \in Seq(Int) /\ Len(Shape(Append(p, x))) = Len(p) + 1
  BY <1>1, ShapeType
<1>6. Append(Shape(p), x[1]) \in Seq(Int) /\ Len(Append(Shape(p), x[1])) = Len(p) + 1
  BY <1>2
<1> QED  BY <1>1, <1>4, <1>5, <1>6, SeqEqual

\* The shape of a concatenation.
LEMMA ShapeConcat ==
  ASSUME NEW q \in Positions, NEW s \in Positions
  PROVE  /\ q \o s \in Positions
         /\ Shape(q \o s) = Shape(q) \o Shape(s)
         /\ \A x \in Steps : Append(q \o s, x) = q \o Append(s, x)
<1>1. q \o s \in Positions /\ Len(q \o s) = Len(q) + Len(s)
  BY DEF Positions
<1>2. /\ Shape(q) \in Seq(Int) /\ Len(Shape(q)) = Len(q)
      /\ Shape(s) \in Seq(Int) /\ Len(Shape(s)) = Len(s)
  BY ShapeType
<1>3. \A n \in 1 .. Len(q) + Len(s) : Shape(q \o s)[n] = (Shape(q) \o Shape(s))[n]
  BY <1>1, <1>2 DEF Shape, Positions
<1>4. Shape(q \o s) \in Seq(Int) /\ Len(Shape(q \o s)) = Len(q) + Len(s)
  BY <1>1, ShapeType
<1>5. Shape(q) \o Shape(s) \in Seq(Int) /\ Len(Shape(q) \o Shape(s)) = Len(q) + Len(s)
  BY <1>2
<1>6. ASSUME NEW x \in Steps
      PROVE  Append(q \o s, x) = q \o Append(s, x)
  <2>1. q \in Seq(Steps) /\ s \in Seq(Steps)
    BY DEF Positions, Steps
  <2> QED  BY <2>1
<1> QED  BY <1>1, <1>3, <1>4, <1>5, <1>6, SeqEqual

\* The shape of a node's parent is the front of its own.
LEMMA ShapeFront ==
  ASSUME NEW p \in Positions, p # <<>>
  PROVE  /\ Front(p) \in Positions /\ Last(p) \in Steps
         /\ p = Append(Front(p), Last(p))
         /\ Shape(p) = Append(Shape(Front(p)), Last(p)[1])
         /\ Shape(p) # <<>> /\ Front(Shape(p)) = Shape(Front(p)) /\ Last(Shape(p)) = Last(p)[1]
<1>1. /\ Front(p) \in Positions /\ Last(p) \in Steps
      /\ p = Append(Front(p), Last(p))
  BY FrontLast DEF Positions, Steps
<1>2. Shape(p) = Append(Shape(Front(p)), Last(p)[1])
  BY <1>1, ShapeAppend
<1>3. Shape(Front(p)) \in Seq(Int) /\ Last(p)[1] \in Int
  BY <1>1, ShapeType DEF Steps
<1> QED  BY <1>1, <1>2, <1>3, FrontLastAppend

-----------------------------------------------------------------------------
(* Put *)

\* What Put keeps, and what it puts under q.
IsPut(P, t, q, v) ==
  /\ \A p \in DOMAIN P : \/ p \in DOMAIN t /\ ~IsPrefix(q, p)
                        \/ \E s \in DOMAIN v : p = q \o s
  /\ \A p \in DOMAIN t : ~IsPrefix(q, p) => p \in DOMAIN P /\ P[p] = t[p]
  /\ \A s \in DOMAIN v : /\ q \o s \in DOMAIN P /\ IsPrefix(q, q \o s)
                        /\ P[q \o s] = v[s]

\* Put keeps everything that is not under q, and has v under q.
LEMMA PutCells ==
  ASSUME NEW t, NEW q \in Positions, NEW v,
         DOMAIN t \subseteq Positions, DOMAIN v \subseteq Positions
  PROVE  IsPut(Put(t, q, v), t, q, v)
<1> DEFINE kept == {r \in DOMAIN t : ~IsPrefix(q, r)}
           new == {q \o s : s \in DOMAIN v}
<1>1. Put(t, q, v) = [r \in kept \cup new |->
                        IF r \in kept THEN t[r] ELSE v[SubSeq(r, Len(q) + 1, Len(r))]]
  BY DEF Put
<1>2. \A s \in DOMAIN v : IsPrefix(q, q \o s) /\ SubSeq(q \o s, Len(q) + 1, Len(q \o s)) = s
  BY PrefixConcat DEF Positions
<1>3. \A s \in DOMAIN v : q \o s \notin kept /\ q \o s \in new
  BY <1>2
<1> QED  BY <1>1, <1>2, <1>3 DEF IsPut

-----------------------------------------------------------------------------
(* Putting a value in its place *)

\* Complete, but for an element at q that may still be missing.
CompleteBut(t, q, p) ==
  /\ t[p].type = "ARRAY" => \A i \in 1 .. t[p].val : Append(p, Elem(i)) \in DOMAIN t \cup {q}
  /\ Node(Shape(p)).kind = "entry" => HasKeys(t, p, KeyDeltas(Node(Shape(p)).sid))

\* The deltas of a list's keys are integers.
LEMMA KeyDeltaTypes ==
  ASSUME NEW sid \in DOMAIN KeyMapping
  PROVE  \A k \in DOMAIN KeyDeltas(sid) : KeyDeltas(sid)[k] \in Int
<1>1. KeyMapping[sid] \in Seq(Int) /\ sid \in SIDs
  BY KeyMappingAssumption
<1>2. sid \in Nat
  BY <1>1, SchemaAssumption DEF SIDs, DataShapes
<1>3. DOMAIN KeyDeltas(sid) = DOMAIN KeyMapping[sid]
  BY DEF KeyDeltas
<1>4. \A k \in DOMAIN KeyMapping[sid] : KeyMapping[sid][k] \in Int
  BY <1>1
<1> QED  BY <1>2, <1>3, <1>4 DEF KeyDeltas

\* One step down in the schema.
LEMMA ChildShape ==
  ASSUME NEW c \in Shapes, NEW d \in Int, Append(c, d) \in Shapes
  PROVE  /\ Node(Append(c, d)).sid = Node(c).sid + d
         /\ (Node(Append(c, d)).kind = "entry") <=> (Node(c).kind = "list")
         /\ (Node(Append(c, d)).kind = "entry") <=> (d = 0)
         /\ Node(c).type \in {"MAP", "ARRAY"}
         /\ Node(c).sid \in Nat
<1>1. c \in Seq(Int)
  BY SchemaAssumption
<1>2. Append(c, d) # <<>> /\ Front(Append(c, d)) = c /\ Last(Append(c, d)) = d
  BY <1>1, FrontLastAppend
<1>3. PICK x \in Shapes \ {<<>>} : x = Append(c, d)
  BY <1>2
<1>4. Front(x) = c /\ Last(x) = d
  BY <1>2, <1>3
<1>5. /\ Node(x).sid = Node(Front(x)).sid + Last(x)
      /\ (Node(x).kind = "entry") <=> (Node(Front(x)).kind = "list")
      /\ (Node(x).kind = "entry") <=> (Last(x) = 0)
      /\ Node(Front(x)).type \in {"MAP", "ARRAY"}
  BY SchemaAssumption
<1>6. Node(c).sid \in Nat
  BY SchemaAssumption
<1> QED  BY <1>3, <1>4, <1>5, <1>6

\* One step down, below a schema node.
LEMMA ShapeUnder ==
  ASSUME NEW s \in Shapes, NEW p \in Positions, NEW x \in Steps
  PROVE  s \o Shape(Append(p, x)) = Append(s \o Shape(p), x[1])
<1>1. s \in Seq(Int) /\ Shape(p) \in Seq(Int) /\ x[1] \in Int
  BY ShapeType, SchemaAssumption DEF Steps
<1>2. Shape(Append(p, x)) = Append(Shape(p), x[1])
  BY ShapeAppend
<1> QED  BY <1>1, <1>2

\* A position of a value: what the value has there and above.
LEMMA Cell ==
  ASSUME NEW s \in Shapes, NEW t, Conforms(t, s), NEW p \in DOMAIN t
  PROVE  /\ p \in Positions /\ s \o Shape(p) \in Shapes /\ t[p] \in Cells
         /\ t[p].type = Node(s \o Shape(p)).type
         /\ p # <<>> => /\ Front(p) \in DOMAIN t /\ Front(p) \in Positions /\ Last(p) \in Steps
                        /\ p = Append(Front(p), Last(p)) /\ Len(p) = Len(Front(p)) + 1
                        /\ s \o Shape(p) = Append(s \o Shape(Front(p)), Last(p)[1])
                        /\ Last(p)[2] \in IF t[Front(p)].type = "ARRAY"
                                          THEN 1 .. t[Front(p)].val ELSE {0}
<1>1. Placed(t, s, p)
  BY DEF Conforms
<1>2. p \in Positions /\ s \o Shape(p) \in Shapes /\ t[p] \in Cells /\ t[p].type = Node(s \o Shape(p)).type
  BY <1>1 DEF Placed
<1>3. ASSUME p # <<>>
      PROVE  /\ Front(p) \in DOMAIN t /\ Front(p) \in Positions /\ Last(p) \in Steps
             /\ p = Append(Front(p), Last(p)) /\ Len(p) = Len(Front(p)) + 1
             /\ s \o Shape(p) = Append(s \o Shape(Front(p)), Last(p)[1])
             /\ Last(p)[2] \in IF t[Front(p)].type = "ARRAY"
                               THEN 1 .. t[Front(p)].val ELSE {0}
  <2>1. /\ Front(p) \in Positions /\ Last(p) \in Steps /\ p = Append(Front(p), Last(p))
    BY <1>2, <1>3, ShapeFront
  <2>2. s \o Shape(p) = Append(s \o Shape(Front(p)), Last(p)[1])
    BY <2>1, ShapeUnder
  <2>3. Len(p) = Len(Front(p)) + 1
    <3>1. p \in Seq(Int \X Nat) /\ Len(p) \in Nat
      BY <1>2 DEF Positions
    <3>2. Len(Front(p)) = Len(p) - 1
      BY <1>3, <3>1, FrontLast
    <3> QED  BY <3>1, <3>2
  <2>4. /\ Front(p) \in DOMAIN t
        /\ Last(p)[2] \in IF t[Front(p)].type = "ARRAY" THEN 1 .. t[Front(p)].val ELSE {0}
    BY <1>1, <1>3 DEF Placed
  <2> QED  BY <2>1, <2>2, <2>3, <2>4
<1> QED  BY <1>2, <1>3

\* Induction over the positions of a value, for a set.
LEMMA TreeInduction ==
  ASSUME NEW s \in Shapes, NEW t, Conforms(t, s), NEW P, <<>> \in P,
         \A p \in DOMAIN t : p # <<>> /\ Front(p) \in P => p \in P
  PROVE  \A p \in DOMAIN t : p \in P
<1> DEFINE Q == {p \in Positions : p \in DOMAIN t => p \in P}
<1>1. <<>> \in Q
  BY DEF Positions
<1>2. ASSUME NEW p \in Positions, NEW x \in Int \X Nat, p \in Q PROVE Append(p, x) \in Q
  <2>1. /\ Append(p, x) \in Positions /\ Append(p, x) # <<>> /\ Front(Append(p, x)) = p
    BY FrontLastAppend DEF Positions
  <2> SUFFICES ASSUME Append(p, x) \in DOMAIN t PROVE Append(p, x) \in P
    BY <2>1
  <2>2. p \in DOMAIN t
    BY <2>1, Cell
  <2> QED  BY <1>2, <2>1, <2>2
<1> HIDE DEF Q
<1>3. \A p \in Seq(Int \X Nat) : p \in Q
  BY <1>1, <1>2, SeqSetInduction DEF Positions
<1> QED  BY <1>3, Cell DEF Q, Positions

\* What is above a position is there.
LEMMA PrefixesThere ==
  ASSUME NEW s \in Shapes, NEW t, Conforms(t, s), NEW p \in DOMAIN t,
         NEW q \in Positions, IsPrefix(q, p)
  PROVE  q \in DOMAIN t
<1> DEFINE P == {r \in DOMAIN t : IsPrefix(q, r) => q \in DOMAIN t}
<1>1. <<>> \in P
  <2>1. <<>> \in DOMAIN t
    BY DEF Conforms
  <2>2. ASSUME IsPrefix(q, <<>>) PROVE q = <<>>
    <3>1. q \in Seq(Int \X Nat)
      BY DEF Positions
    <3> QED  BY <2>2, <3>1, PrefixEnds
  <2> QED  BY <2>1, <2>2
<1>2. ASSUME NEW r \in DOMAIN t, r # <<>>, Front(r) \in P PROVE r \in P
  <2> SUFFICES ASSUME IsPrefix(q, r) PROVE q \in DOMAIN t
    OBVIOUS
  <2>1. Front(r) \in Positions /\ Last(r) \in Steps /\ r = Append(Front(r), Last(r))
    BY <1>2, Cell
  <2>2. IsPrefix(q, Front(r)) \/ q = r
    BY <2>1, PrefixAppend DEF Positions, Steps
  <2> QED  BY <1>2, <2>2
<1> HIDE DEF P
<1>3. p \in P
  BY <1>1, <1>2, TreeInduction
<1> QED  BY <1>3 DEF P

\* A list entry is one of a list that the key-mapping names.
LEMMA EntryHasKeyMapping ==
  ASSUME NEW s \in Shapes, Node(s).kind = "entry"
  PROVE  /\ Node(s).sid \in DOMAIN KeyMapping
         /\ Front(s) \in DataShapes /\ Node(Front(s)).kind = "list"
         /\ Node(Front(s)).sid = Node(s).sid
         /\ ShapeOf(Node(s).sid) = Front(s) /\ s = EntryOf(Front(s))
<1>1. s # <<>>
  BY SchemaAssumption DEF Node
<1>2. /\ Front(s) \in Shapes /\ Node(Front(s)).kind = "list"
      /\ Last(s) = 0 /\ Node(s).sid = Node(Front(s)).sid + Last(s)
      /\ Node(Front(s)).sid \in Nat
  BY <1>1, SchemaAssumption
<1>3. Node(s).sid = Node(Front(s)).sid
  BY <1>2
<1>4. Front(s) \in DataShapes
  BY <1>2 DEF DataShapes
<1>5. Node(s).sid \in SIDs
  BY <1>3, <1>4 DEF SIDs
<1>6. ShapeOf(Node(s).sid) = Front(s)
  BY <1>3, <1>4, SchemaAssumption DEF ShapeOf
<1>7. s = EntryOf(Front(s))
  BY <1>1, <1>2, FrontLast, SchemaAssumption DEF EntryOf
<1> QED  BY <1>2, <1>3, <1>4, <1>5, <1>6, <1>7, KeyMappingAssumption

\* A value of the schema node of q, put at q into an instance that has the
\* parent of q and everything else, gives an instance.
LEMMA PutConforms ==
  ASSUME NEW t, NEW q \in Positions, NEW v,
         q # <<>>, <<>> \in DOMAIN t,
         \A p \in DOMAIN t : Placed(t, <<>>, p) /\ CompleteBut(t, q, p),
         Front(q) \in DOMAIN t,
         Last(q)[2] \in IF t[Front(q)].type = "ARRAY" THEN 1 .. t[Front(q)].val ELSE {0},
         Conforms(v, Shape(q))
  PROVE  Conforms(Put(t, q, v), <<>>)
<1> DEFINE P == Put(t, q, v)
<1>1. DOMAIN t \subseteq Positions /\ DOMAIN v \subseteq Positions /\ <<>> \in DOMAIN v
  BY DEF Placed, Conforms
<1>2. /\ \A p \in DOMAIN P : \/ p \in DOMAIN t /\ ~IsPrefix(q, p)
                            \/ \E s \in DOMAIN v : p = q \o s
      /\ \A p \in DOMAIN t : ~IsPrefix(q, p) => p \in DOMAIN P /\ P[p] = t[p]
      /\ \A s \in DOMAIN v : /\ q \o s \in DOMAIN P /\ IsPrefix(q, q \o s)
                            /\ P[q \o s] = v[s]
  <2>1. IsPut(Put(t, q, v), t, q, v)
    BY <1>1, PutCells
  <2> QED  BY <2>1 DEF IsPut
<1> HIDE DEF P
<1>3. q \in DOMAIN P
  <2>1. q \o <<>> = q
    BY DEF Positions
  <2> QED  BY <1>1, <1>2, <2>1
<1>4. \A p \in Positions, x \in Steps : IsPrefix(q, Append(p, x)) <=> IsPrefix(q, p) \/ q = Append(p, x)
  BY PrefixAppend DEF Positions, Steps
<1>5. /\ Front(q) \in Positions /\ Last(q) \in Steps /\ q = Append(Front(q), Last(q))
      /\ ~IsPrefix(q, Front(q))
  <2>1. /\ Front(q) \in Positions /\ Last(q) \in Steps /\ q = Append(Front(q), Last(q))
    BY ShapeFront
  <2>2. Len(q) > Len(Front(q))
    BY <2>1 DEF Positions, Steps
  <2> QED  BY <2>1, <2>2 DEF IsPrefix, Positions
<1>6. <<>> \in DOMAIN P
  <2>1. ~IsPrefix(q, <<>>)
    BY DEF IsPrefix, Positions
  <2> QED  BY <1>2, <2>1
<1>7. ASSUME NEW p \in DOMAIN t, ~IsPrefix(q, p)
      PROVE  Placed(P, <<>>, p) /\ Complete(P, <<>>, p)
  <2>1. p \in DOMAIN P /\ P[p] = t[p] /\ p \in Positions
    BY <1>1, <1>2, <1>7
  <2>2. Placed(t, <<>>, p) /\ CompleteBut(t, q, p)
    OBVIOUS
  <2>3. p # <<>> => Front(p) \in DOMAIN P /\ P[Front(p)] = t[Front(p)]
    <3>1. SUFFICES ASSUME p # <<>> PROVE Front(p) \in DOMAIN P /\ P[Front(p)] = t[Front(p)]
      OBVIOUS
    <3>2. Front(p) \in DOMAIN t
      BY <2>2, <3>1 DEF Placed
    <3>3. ~IsPrefix(q, Front(p))
      BY <1>4, <1>7, <2>1, <3>1, ShapeFront
    <3> QED  BY <1>2, <3>2, <3>3
  <2>4. \A x \in Steps : Append(p, x) \in DOMAIN t \cup {q} => Append(p, x) \in DOMAIN P
    BY <1>2, <1>3, <1>4, <1>7, <2>1
  <2>5. Placed(P, <<>>, p)
    BY <2>1, <2>2, <2>3 DEF Placed
  <2>6. P[p].type = "ARRAY" => \A i \in 1 .. P[p].val : Append(p, Elem(i)) \in DOMAIN P
    <3>1. t[p].type = "ARRAY" => t[p].val \in Nat
      BY <2>2 DEF Placed
    <3> QED  BY <2>1, <2>2, <2>4, <3>1, StepTypes DEF CompleteBut
  <2>7. <<>> \o Shape(p) = Shape(p) /\ Shape(p) \in Shapes
    BY <2>1, <2>2, ShapeType DEF Placed
  <2>8. Node(Shape(p)).kind = "entry" => HasKeys(P, p, KeyDeltas(Node(Shape(p)).sid))
    BY <2>2, <2>4, <2>7, StepTypes, KeyDeltaTypes, EntryHasKeyMapping DEF CompleteBut, HasKeys
  <2> QED  BY <2>5, <2>6, <2>7, <2>8 DEF Complete
<1>8. ASSUME NEW s \in DOMAIN v
      PROVE  Placed(P, <<>>, q \o s) /\ Complete(P, <<>>, q \o s)
  <2>1. /\ s \in Positions /\ q \o s \in Positions /\ q \o s \in DOMAIN P /\ P[q \o s] = v[s]
        /\ Shape(q \o s) = Shape(q) \o Shape(s) /\ <<>> \o Shape(q \o s) = Shape(q \o s)
    BY <1>1, <1>2, ShapeConcat, ShapeType
  <2>2. Placed(v, Shape(q), s) /\ Complete(v, Shape(q), s)
    BY DEF Conforms
  <2>3. /\ q \o s # <<>>
        /\ Front(q \o s) \in DOMAIN P
        /\ Last(q \o s)[2] \in IF P[Front(q \o s)].type = "ARRAY"
                                THEN 1 .. P[Front(q \o s)].val ELSE {0}
    <3>1. CASE s = <<>>
      <4>1. q \o s = q
        BY <3>1 DEF Positions
      <4>2. Front(q) \in DOMAIN P /\ P[Front(q)] = t[Front(q)]
        BY <1>2, <1>5
      <4> QED  BY <4>1, <4>2
    <3>2. CASE s # <<>>
      <4>1. q \o s # <<>> /\ Front(q \o s) = q \o Front(s) /\ Last(q \o s) = Last(s)
        BY <2>1, <3>2, FrontLastConcat DEF Positions
      <4>2. /\ Front(s) \in DOMAIN v
            /\ Last(s)[2] \in IF v[Front(s)].type = "ARRAY" THEN 1 .. v[Front(s)].val ELSE {0}
        BY <2>2, <3>2 DEF Placed
      <4>3. q \o Front(s) \in DOMAIN P /\ P[q \o Front(s)] = v[Front(s)]
        BY <1>2, <4>2
      <4> QED  BY <4>1, <4>2, <4>3
    <3> QED  BY <3>1, <3>2
  <2>4. Placed(P, <<>>, q \o s)
    BY <2>1, <2>2, <2>3 DEF Placed
  <2>5. \A x \in Steps : Append(s, x) \in DOMAIN v => Append(q \o s, x) \in DOMAIN P
    <3>1. ASSUME NEW x \in Steps
          PROVE  Append(q \o s, x) = q \o Append(s, x)
      BY <2>1, ShapeConcat
    <3> QED  BY <1>2, <3>1
  <2>6. P[q \o s].type = "ARRAY" =>
          \A i \in 1 .. P[q \o s].val : Append(q \o s, Elem(i)) \in DOMAIN P
    <3>1. v[s].type = "ARRAY" => v[s].val \in Nat
      BY <2>2 DEF Placed
    <3> QED  BY <2>1, <2>2, <2>5, <3>1, StepTypes DEF Complete
  <2>7. Shape(q) \o Shape(s) \in Shapes
    BY <2>2 DEF Placed
  <2>8. Node(Shape(q \o s)).kind = "entry" =>
          HasKeys(P, q \o s, KeyDeltas(Node(Shape(q \o s)).sid))
    BY <2>1, <2>2, <2>5, <2>7, StepTypes, KeyDeltaTypes, EntryHasKeyMapping DEF Complete, HasKeys
  <2> QED  BY <2>1, <2>4, <2>6, <2>8 DEF Complete
<1>9. \A p \in DOMAIN P : Placed(P, <<>>, p) /\ Complete(P, <<>>, p)
  BY <1>2, <1>7, <1>8
<1> QED  BY <1>6, <1>9 DEF Conforms, P

-----------------------------------------------------------------------------
(* Keys *)

\* Element i of the array at a of t, a value of s, is an entry with its keys.
IsEntry(s, t, a, i) ==
  /\ i \in Nat /\ a \in Positions
  /\ Node(s \o Shape(a)).sid \in DOMAIN KeyMapping
  /\ Append(a, Elem(i)) \in DOMAIN t /\ Append(a, Elem(i)) \in Positions
  /\ t[Append(a, Elem(i))].type = "MAP"
  /\ s \o Shape(Append(a, Elem(i))) \in Shapes
  /\ Node(s \o Shape(Append(a, Elem(i)))).kind = "entry"
  /\ Node(s \o Shape(Append(a, Elem(i)))).sid = Node(s \o Shape(a)).sid
  /\ HasKeys(t, Append(a, Elem(i)), KeyDeltas(Node(s \o Shape(a)).sid))

\* The elements of an array are list entries and hold their keys.
LEMMA EntryKeyCells ==
  ASSUME NEW s \in Shapes, NEW t, Conforms(t, s),
         NEW a \in DOMAIN t, t[a].type = "ARRAY", NEW i \in 1 .. t[a].val
  PROVE  IsEntry(s, t, a, i)
<1> DEFINE e == Append(a, Elem(i))
           c == s \o Shape(a)
<1>1. /\ a \in Positions /\ c \in Shapes /\ Node(c).type = "ARRAY"
      /\ t[a].val \in Nat /\ e \in DOMAIN t
  BY DEF Conforms, Placed, Complete
<1>2. i \in Nat
  BY <1>1
<1>3. Elem(i) \in Steps /\ Elem(i)[1] = 0
  BY <1>2, StepTypes
<1>4. e \in Positions /\ s \o Shape(e) = Append(c, 0)
  BY <1>1, <1>3, ShapeAppend, ShapeUnder
<1>5. s \o Shape(e) \in Shapes /\ t[e].type = Node(s \o Shape(e)).type
  BY <1>1 DEF Conforms, Placed
<1>6. Node(c).kind = "list"
  BY <1>1, SchemaAssumption
<1>7. /\ Node(Append(c, 0)).kind = "entry" /\ Node(Append(c, 0)).sid = Node(c).sid + 0
      /\ Node(c).sid \in Nat
  BY <1>1, <1>4, <1>5, <1>6, ChildShape
<1>8. Node(Append(c, 0)).type = "MAP" /\ Node(Append(c, 0)).sid = Node(c).sid
  BY <1>4, <1>5, <1>7, SchemaAssumption
<1>9. Node(c).sid \in DOMAIN KeyMapping
  BY <1>4, <1>5, <1>7, <1>8, EntryHasKeyMapping
<1>10. HasKeys(t, e, KeyDeltas(Node(c).sid))
  BY <1>1, <1>4, <1>7, <1>8 DEF Conforms, Complete
<1> QED  BY <1>1, <1>2, <1>4, <1>5, <1>7, <1>8, <1>9, <1>10 DEF IsEntry

\* The same in an instance.
LEMMA RootEntry ==
  ASSUME NEW t, Conforms(t, <<>>), NEW a \in DOMAIN t, t[a].type = "ARRAY",
         NEW i \in 1 .. t[a].val
  PROVE  /\ i \in Nat /\ a \in Positions
         /\ Node(Shape(a)).sid \in DOMAIN KeyMapping
         /\ Append(a, Elem(i)) \in DOMAIN t /\ Append(a, Elem(i)) \in Positions
         /\ t[Append(a, Elem(i))].type = "MAP"
         /\ Shape(Append(a, Elem(i))) \in Shapes
         /\ Node(Shape(Append(a, Elem(i)))).kind = "entry"
         /\ Node(Shape(Append(a, Elem(i)))).sid = Node(Shape(a)).sid
         /\ HasKeys(t, Append(a, Elem(i)), KeyDeltas(Node(Shape(a)).sid))
<1>1. <<>> \in Shapes
  BY SchemaAssumption
<1>2. IsEntry(<<>>, t, a, i)
  BY <1>1, EntryKeyCells
<1>3. a \in Positions /\ Append(a, Elem(i)) \in Positions
  BY <1>2 DEF IsEntry
<1>4. <<>> \o Shape(a) = Shape(a) /\ <<>> \o Shape(Append(a, Elem(i))) = Shape(Append(a, Elem(i)))
  BY <1>3, ShapeType
<1> QED  BY <1>2, <1>4 DEF IsEntry

\* Below an entry, a key.
LEMMA ShapeKey ==
  ASSUME NEW e \in Positions, NEW d \in Int
  PROVE  /\ Append(e, Key(d)) \in Positions
         /\ Shape(Append(e, Key(d))) = Append(Shape(e), d)
<1>1. Key(d) \in Steps /\ Key(d)[1] = d
  BY StepTypes
<1> HIDE DEF Key
<1> QED  BY <1>1, ShapeAppend

\* A key of an entry is a key leaf of the schema.
LEMMA KeyCellKind ==
  ASSUME NEW s \in Shapes, Node(s).kind = "entry",
         NEW k \in DOMAIN KeyDeltas(Node(s).sid)
  PROVE  Node(Append(s, KeyDeltas(Node(s).sid)[k])).kind = "key"
<1>1. /\ Node(s).sid \in DOMAIN KeyMapping
      /\ EntryOf(ShapeOf(Node(s).sid)) = s
  BY EntryHasKeyMapping
<1>2. /\ k \in DOMAIN KeyMapping[Node(s).sid]
      /\ KeyDeltas(Node(s).sid)[k] = KeyMapping[Node(s).sid][k] - Node(s).sid
  BY DEF KeyDeltas
<1> QED  BY <1>1, <1>2, KeyMappingAssumption

\* The keys of the entry at e of t are also those of the entry at f of u.
SameCells(t, e, u, f, keyDeltas) ==
  \A k \in DOMAIN keyDeltas :
    /\ Append(e, Key(keyDeltas[k])) \in DOMAIN t
    /\ Append(f, Key(keyDeltas[k])) \in DOMAIN u
    /\ t[Append(e, Key(keyDeltas[k]))] = u[Append(f, Key(keyDeltas[k]))]

\* Comparing entries is comparing their keys.
LEMMA SameKeysSubst ==
  ASSUME NEW t, NEW e, NEW t2, NEW e2, NEW u, NEW f, NEW u2, NEW f2, NEW keyDeltas,
         SameCells(t, e, t2, e2, keyDeltas), SameCells(u, f, u2, f2, keyDeltas),
         SameKeys(t, e, u, f, keyDeltas)
  PROVE  SameKeys(t2, e2, u2, f2, keyDeltas)
  BY DEF SameCells, SameKeys

\* Two entries with the keys of a third have the same keys.
LEMMA SameKeysTransitive ==
  ASSUME NEW t, NEW e, NEW u, NEW f, NEW v, NEW g, NEW keyDeltas,
         SameKeys(t, e, v, g, keyDeltas), SameKeys(u, f, v, g, keyDeltas)
  PROVE  SameKeys(t, e, u, f, keyDeltas) /\ SameKeys(v, g, u, f, keyDeltas)
  BY DEF SameKeys

\* Put leaves the keys of an entry outside q alone, unless q is one of them.
LEMMA PutKeepsKeys ==
  ASSUME NEW t, NEW q \in Positions, NEW v, NEW P, IsPut(P, t, q, v),
         NEW e \in Positions, ~IsPrefix(q, e), NEW sid \in DOMAIN KeyMapping,
         HasKeys(t, e, KeyDeltas(sid)),
         \A k \in DOMAIN KeyDeltas(sid) : q # Append(e, Key(KeyDeltas(sid)[k]))
  PROVE  SameCells(P, e, t, e, KeyDeltas(sid))
<1> SUFFICES ASSUME NEW k \in DOMAIN KeyDeltas(sid)
             PROVE  /\ Append(e, Key(KeyDeltas(sid)[k])) \in DOMAIN P
                    /\ Append(e, Key(KeyDeltas(sid)[k])) \in DOMAIN t
                    /\ P[Append(e, Key(KeyDeltas(sid)[k]))] = t[Append(e, Key(KeyDeltas(sid)[k]))]
  BY DEF SameCells
<1> DEFINE x == Key(KeyDeltas(sid)[k])
<1>1. x \in Steps
  BY KeyDeltaTypes, StepTypes
<1>2. q # Append(e, x) /\ Append(e, x) \in DOMAIN t
  BY DEF HasKeys
<1> HIDE DEF x
<1>3. q \in Seq(Steps) /\ e \in Seq(Steps)
  BY DEF Positions, Steps
<1>4. ~IsPrefix(q, Append(e, x))
  BY <1>1, <1>2, <1>3, PrefixAppend
<1> QED  BY <1>2, <1>4 DEF IsPut, x

\* Under q, Put has the keys v has.
LEMMA PutHasKeys ==
  ASSUME NEW t, NEW q \in Positions, NEW v, NEW P, IsPut(P, t, q, v),
         NEW e \in Positions, NEW sid \in DOMAIN KeyMapping,
         HasKeys(v, e, KeyDeltas(sid))
  PROVE  SameCells(P, q \o e, v, e, KeyDeltas(sid))
<1> SUFFICES ASSUME NEW k \in DOMAIN KeyDeltas(sid)
             PROVE  /\ Append(q \o e, Key(KeyDeltas(sid)[k])) \in DOMAIN P
                    /\ Append(e, Key(KeyDeltas(sid)[k])) \in DOMAIN v
                    /\ P[Append(q \o e, Key(KeyDeltas(sid)[k]))] = v[Append(e, Key(KeyDeltas(sid)[k]))]
  BY DEF SameCells
<1> DEFINE x == Key(KeyDeltas(sid)[k])
<1>1. x \in Steps
  BY KeyDeltaTypes, StepTypes
<1>2. Append(e, x) \in DOMAIN v
  BY DEF HasKeys
<1> HIDE DEF x
<1>3. Append(q \o e, x) = q \o Append(e, x)
  BY <1>1, ShapeConcat
<1> QED  BY <1>2, <1>3 DEF IsPut, x

-----------------------------------------------------------------------------
(* Put and the keys of the lists *)

\* u is t, but for the sizes of its arrays.
SameButSizes(u, t) ==
  DOMAIN u = DOMAIN t /\ \A p \in DOMAIN t : t[p].type # "ARRAY" => u[p] = t[p]

\* The entries of an array that Put keeps, but for the one it replaces, keep
\* their keys.
LEMMA PutKeepsEntry ==
  ASSUME NEW t, Conforms(t, <<>>), NEW u, SameButSizes(u, t),
         NEW q \in Positions, NEW v, NEW P, IsPut(P, u, q, v),
         Shape(q) \in Shapes, Node(Shape(q)).kind # "key",
         NEW a \in DOMAIN t, t[a].type = "ARRAY", ~IsPrefix(q, a),
         NEW i \in 1 .. t[a].val, q # Append(a, Elem(i))
  PROVE  SameCells(P, Append(a, Elem(i)), t, Append(a, Elem(i)), KeyDeltas(Node(Shape(a)).sid))
<1> DEFINE e == Append(a, Elem(i))
           sid == Node(Shape(a)).sid
<1>1. /\ i \in Nat /\ a \in Positions /\ e \in Positions /\ e \in DOMAIN t
      /\ <<>> \o Shape(e) = Shape(e) /\ <<>> \o Shape(a) = Shape(a)
      /\ Shape(e) \in Shapes /\ Node(Shape(e)).kind = "entry" /\ Node(Shape(e)).sid = sid
      /\ sid \in DOMAIN KeyMapping /\ HasKeys(t, e, KeyDeltas(sid))
  <2>1. e \in Positions /\ a \in Positions
    BY RootEntry
  <2> QED  BY <2>1, RootEntry, ShapeType
<1>2. ~IsPrefix(q, e)
  <2>1. q \in Seq(Steps) /\ a \in Seq(Steps) /\ Elem(i) \in Steps
    BY <1>1, StepTypes DEF Positions, Steps
  <2> QED  BY <2>1, PrefixAppend
<1>3. ASSUME NEW k \in DOMAIN KeyDeltas(sid)
      PROVE  /\ q # Append(e, Key(KeyDeltas(sid)[k]))
             /\ u[Append(e, Key(KeyDeltas(sid)[k]))] = t[Append(e, Key(KeyDeltas(sid)[k]))]
  <2> DEFINE c == Append(e, Key(KeyDeltas(sid)[k]))
  <2>1. KeyDeltas(sid)[k] \in Int
    BY <1>1, KeyDeltaTypes
  <2>2. c \in Positions /\ Shape(c) = Append(Shape(e), KeyDeltas(sid)[k])
    BY <1>1, <2>1, ShapeKey
  <2>3. Node(Append(Shape(e), KeyDeltas(sid)[k])).kind = "key"
    BY <1>1, KeyCellKind
  <2>4. c \in DOMAIN t
    BY <1>1 DEF HasKeys
  <2> HIDE DEF c
  <2>5. <<>> \o Shape(c) = Shape(c)
    BY <2>2, ShapeType
  <2>6. Shape(c) \in Shapes /\ t[c].type = Node(Shape(c)).type
    BY <2>4, <2>5 DEF Conforms, Placed
  <2>7. t[c].type # "ARRAY"
    BY <2>2, <2>3, <2>6, SchemaAssumption
  <2>8. q # c /\ u[c] = t[c]
    BY <2>2, <2>3, <2>4, <2>7 DEF SameButSizes
  <2> QED  BY <2>8 DEF c
<1>4. HasKeys(u, e, KeyDeltas(sid))
  BY <1>1 DEF HasKeys, SameButSizes
<1> HIDE DEF e, sid
<1>5. SameCells(P, e, u, e, KeyDeltas(sid))
  BY <1>1, <1>2, <1>3, <1>4, PutKeepsKeys
<1>6. SameCells(P, e, t, e, KeyDeltas(sid))
  BY <1>3, <1>5 DEF SameCells, SameButSizes
<1> QED  BY <1>6 DEF e, sid

\* The entries of an array inside v have the keys they have in v.
LEMMA PutHasEntry ==
  ASSUME NEW q \in Positions, Shape(q) \in Shapes, NEW v, Conforms(v, Shape(q)),
         NEW t, NEW P, IsPut(P, t, q, v),
         NEW a \in DOMAIN v, v[a].type = "ARRAY", NEW i \in 1 .. v[a].val
  PROVE  /\ P[q \o a] = v[a] /\ Shape(q \o a) = Shape(q) \o Shape(a)
         /\ SameCells(P, Append(q \o a, Elem(i)), v, Append(a, Elem(i)),
                      KeyDeltas(Node(Shape(q) \o Shape(a)).sid))
<1> DEFINE e == Append(a, Elem(i))
           sid == Node(Shape(q) \o Shape(a)).sid
<1>1. /\ i \in Nat /\ a \in Positions /\ e \in Positions
      /\ sid \in DOMAIN KeyMapping /\ HasKeys(v, e, KeyDeltas(sid))
  BY EntryKeyCells DEF IsEntry
<1>2. P[q \o a] = v[a]
  BY DEF IsPut
<1>3. Shape(q \o a) = Shape(q) \o Shape(a) /\ Append(q \o a, Elem(i)) = q \o e
  BY <1>1, ShapeConcat, StepTypes
<1> HIDE DEF e, sid
<1>4. SameCells(P, q \o e, v, e, KeyDeltas(sid))
  BY <1>1, PutHasKeys
<1> QED  BY <1>2, <1>3, <1>4 DEF e, sid

\* Under q, keys are as unique as in v.
LEMMA PutUniqueInside ==
  ASSUME NEW q \in Positions, Shape(q) \in Shapes,
         NEW v, Conforms(v, Shape(q)), UniqueKeys(v, Shape(q)),
         NEW t, NEW P, IsPut(P, t, q, v),
         NEW s \in DOMAIN v, P[q \o s].type = "ARRAY",
         NEW i \in 1 .. P[q \o s].val, NEW j \in 1 .. P[q \o s].val,
         SameKeys(P, Append(q \o s, Elem(i)), P, Append(q \o s, Elem(j)),
                  KeyDeltas(Node(<<>> \o Shape(q \o s)).sid))
  PROVE  i = j
<1>1. P[q \o s] = v[s] /\ s \in Positions
  BY DEF IsPut, Conforms, Placed
<1>2. ASSUME NEW n \in 1 .. v[s].val
      PROVE  /\ SameCells(P, Append(q \o s, Elem(n)), v, Append(s, Elem(n)),
                          KeyDeltas(Node(Shape(q) \o Shape(s)).sid))
             /\ Shape(q \o s) = Shape(q) \o Shape(s)
  BY <1>1, PutHasEntry
<1>3. <<>> \o Shape(q \o s) = Shape(q \o s)
  BY <1>1, ShapeConcat, ShapeType
<1>4. SameKeys(P, Append(q \o s, Elem(i)), P, Append(q \o s, Elem(j)),
               KeyDeltas(Node(Shape(q) \o Shape(s)).sid))
  BY <1>1, <1>2, <1>3
<1>5. i \in 1 .. v[s].val /\ j \in 1 .. v[s].val
  BY <1>1
<1>6. SameKeys(v, Append(s, Elem(i)), v, Append(s, Elem(j)),
               KeyDeltas(Node(Shape(q) \o Shape(s)).sid))
  BY <1>2, <1>4, <1>5, SameKeysSubst
<1> QED  BY <1>1, <1>5, <1>6 DEF UniqueKeys

\* Putting a node that is no key and no list entry leaves keys unique.
LEMMA PutUnique ==
  ASSUME NEW t, Conforms(t, <<>>), UniqueKeys(t, <<>>),
         NEW q \in Positions, Shape(q) \in Shapes,
         Node(Shape(q)).kind \notin {"key", "entry"},
         NEW v, Conforms(v, Shape(q)), UniqueKeys(v, Shape(q))
  PROVE  UniqueKeys(Put(t, q, v), <<>>)
<1> DEFINE P == Put(t, q, v)
<1>1. DOMAIN t \subseteq Positions /\ DOMAIN v \subseteq Positions
  BY DEF Conforms, Placed
<1>2. IsPut(P, t, q, v)
  BY <1>1, PutCells
<1> HIDE DEF P
<1>3. ASSUME NEW a \in DOMAIN P, P[a].type = "ARRAY",
             NEW i \in 1 .. P[a].val, NEW j \in 1 .. P[a].val,
             SameKeys(P, Append(a, Elem(i)), P, Append(a, Elem(j)),
                      KeyDeltas(Node(<<>> \o Shape(a)).sid))
      PROVE  i = j
  <2>1. CASE a \in DOMAIN t /\ ~IsPrefix(q, a)
    <3>1. P[a] = t[a] /\ a \in Positions /\ <<>> \o Shape(a) = Shape(a)
      BY <1>1, <1>2, <2>1, ShapeType DEF IsPut
    <3>2. ASSUME NEW n \in 1 .. t[a].val
          PROVE  SameCells(P, Append(a, Elem(n)), t, Append(a, Elem(n)),
                           KeyDeltas(Node(Shape(a)).sid))
      <4>1. Node(Shape(Append(a, Elem(n)))).kind = "entry"
        BY <1>3, <2>1, <3>1, RootEntry
      <4>2. q # Append(a, Elem(n))
        BY <4>1
      <4>3. SameButSizes(t, t)
        BY DEF SameButSizes
      <4> QED  BY <1>2, <1>3, <2>1, <3>1, <4>2, <4>3, PutKeepsEntry
    <3>3. SameKeys(t, Append(a, Elem(i)), t, Append(a, Elem(j)), KeyDeltas(Node(Shape(a)).sid))
      BY <1>3, <3>1, <3>2, SameKeysSubst
    <3> QED  BY <1>3, <2>1, <3>1, <3>3 DEF UniqueKeys
  <2>2. CASE \E s \in DOMAIN v : a = q \o s
    BY <1>2, <1>3, <2>2, PutUniqueInside
  <2> QED  BY <1>2, <2>1, <2>2 DEF IsPut
<1> QED  BY <1>3 DEF UniqueKeys, P

-----------------------------------------------------------------------------
(* updateCoreconfArrayByKeys *)

\* The index written is that of an entry or the one after the last; it is that
\* of every entry with the keys of v.
LEMMA EntryIndexIs ==
  ASSUME NEW t, Conforms(t, <<>>), UniqueKeys(t, <<>>),
         NEW a \in DOMAIN t, t[a].type = "ARRAY", NEW v
  PROVE  LET kd == KeyDeltas(Node(Shape(a)).sid)
             n == EntryIndex(t, a, kd, v)
         IN /\ t[a].val \in Nat /\ n \in 1 .. t[a].val + 1
            /\ \A i \in 1 .. t[a].val : SameKeys(t, Append(a, Elem(i)), v, <<>>, kd) => i = n
<1> DEFINE kd == KeyDeltas(Node(Shape(a)).sid)
           same == Replaceable(t, a, kd, v)
           n == EntryIndex(t, a, kd, v)
<1>1. /\ t[a].val \in Nat /\ a \in Positions /\ <<>> \o Shape(a) = Shape(a)
  BY ShapeType DEF Conforms, Placed
<1>2. \A i \in 1 .. t[a].val : SameKeys(t, Append(a, Elem(i)), v, <<>>, kd) => i \in same
  BY RootEntry DEF Replaceable
<1>3. \A i \in same : i \in 1 .. t[a].val /\ SameKeys(t, Append(a, Elem(i)), v, <<>>, kd)
  BY DEF Replaceable
<1>4. \A i, j \in same : i = j
  <2> SUFFICES ASSUME NEW i \in same, NEW j \in same PROVE i = j
    OBVIOUS
  <2>1. SameKeys(t, Append(a, Elem(i)), t, Append(a, Elem(j)), kd)
    BY <1>3, SameKeysTransitive
  <2> QED  BY <1>1, <1>3, <2>1 DEF UniqueKeys
<1>5. CASE same = {}
  <2>1. n = t[a].val + 1
    BY <1>5 DEF EntryIndex
  <2> QED  BY <1>1, <1>2, <1>5, <2>1
<1>6. CASE same # {}
  <2>1. n = First(same)
    BY <1>6 DEF EntryIndex
  <2>2. same \subseteq Nat
    BY <1>1, <1>3
  <2> HIDE DEF same
  <2>3. First(same) \in same
    BY <1>6, <2>2, LeastOf DEF First
  <2> HIDE DEF n
  <2>4. n \in 1 .. t[a].val
    BY <1>3, <2>1, <2>3
  <2>5. \A i \in 1 .. t[a].val : SameKeys(t, Append(a, Elem(i)), v, <<>>, kd) => i = n
    BY <1>2, <1>4, <2>1, <2>3
  <2> QED  BY <1>1, <2>4, <2>5 DEF n
<1> QED  BY <1>5, <1>6

\* u is t, with room for element n in the array at a.
HasRoom(u, t, a, n) ==
  /\ DOMAIN u = DOMAIN t /\ u[a].type = "ARRAY" /\ u[a].val \in Nat /\ n \in 1 .. u[a].val
  /\ \A i \in 1 .. u[a].val : i \in 1 .. t[a].val \/ i = n
  /\ \A p \in DOMAIN t : u[p].type = t[p].type /\ (p # a => u[p] = t[p])
  /\ \A p \in DOMAIN u : Placed(u, <<>>, p) /\ CompleteBut(u, Append(a, Elem(n)), p)

\* Growing an array by one element that is still missing.
LEMMA GrownArray ==
  ASSUME NEW t, Conforms(t, <<>>), NEW a \in DOMAIN t, t[a].type = "ARRAY",
         NEW n \in 1 .. t[a].val + 1
  PROVE  HasRoom([t EXCEPT ![a].val = IF n > t[a].val THEN n ELSE t[a].val], t, a, n)
<1> DEFINE size == IF n > t[a].val THEN n ELSE t[a].val
           u == [t EXCEPT ![a].val = size]
<1>1. \A p \in DOMAIN t : Placed(t, <<>>, p) /\ Complete(t, <<>>, p) /\ t[p] \in Cells
  BY DEF Conforms, Placed
<1>2. t[a].val \in Nat
  BY <1>1 DEF Placed
<1>3. size \in Nat /\ n \in 1 .. size /\ 1 .. t[a].val \subseteq 1 .. size
      /\ \A i \in 1 .. size : i \in 1 .. t[a].val \/ i = n
  BY <1>2
<1> HIDE DEF size
<1>4. /\ DOMAIN u = DOMAIN t
      /\ \A p \in DOMAIN t : u[p] = IF p = a THEN [t[p] EXCEPT !.val = size] ELSE t[p]
  OBVIOUS
<1> HIDE DEF u
<1>5. /\ \A p \in DOMAIN t : u[p] \in Cells /\ u[p].type = t[p].type /\ (p # a => u[p] = t[p])
      /\ u[a].type = "ARRAY" /\ u[a].val = size
  BY <1>1, <1>3, <1>4 DEF Cells
<1>6. ASSUME NEW p \in DOMAIN u
      PROVE  Placed(u, <<>>, p)
  <2>1. p # <<>> => /\ Front(p) \in DOMAIN t
                    /\ Last(p)[2] \in IF t[Front(p)].type = "ARRAY"
                                       THEN 1 .. t[Front(p)].val ELSE {0}
    BY <1>1, <1>4 DEF Placed
  <2>2. p # <<>> => /\ Front(p) \in DOMAIN u
                    /\ Last(p)[2] \in IF u[Front(p)].type = "ARRAY"
                                       THEN 1 .. u[Front(p)].val ELSE {0}
    BY <1>3, <1>4, <1>5, <2>1
  <2> QED  BY <1>1, <1>3, <1>4, <1>5, <2>2 DEF Placed
<1>7. ASSUME NEW p \in DOMAIN u
      PROVE  CompleteBut(u, Append(a, Elem(n)), p)
  <2>1. p \in Positions /\ <<>> \o Shape(p) = Shape(p)
    BY <1>1, <1>4, ShapeType DEF Placed
  <2>2. u[p].type = "ARRAY" =>
          \A i \in 1 .. u[p].val : Append(p, Elem(i)) \in DOMAIN u \cup {Append(a, Elem(n))}
    BY <1>1, <1>3, <1>4, <1>5 DEF Complete
  <2>3. Node(Shape(p)).kind = "entry" => HasKeys(u, p, KeyDeltas(Node(Shape(p)).sid))
    BY <1>1, <1>4, <2>1 DEF Complete, HasKeys
  <2> QED  BY <2>2, <2>3 DEF CompleteBut
<1>8. HasRoom(u, t, a, n)
  BY <1>3, <1>4, <1>5, <1>6, <1>7 DEF HasRoom
<1> QED  BY <1>8 DEF u, size

\* Writing an entry to a list gives an instance again, with unique keys.
LEMMA UpdateConforms ==
  ASSUME NEW t, Conforms(t, <<>>), UniqueKeys(t, <<>>),
         NEW a \in DOMAIN t, t[a].type = "ARRAY",
         NEW v, Conforms(v, EntryOf(Shape(a))), UniqueKeys(v, EntryOf(Shape(a)))
  PROVE  LET kd == KeyDeltas(Node(Shape(a)).sid)
         IN /\ Conforms(updateCoreconfArrayByKeys(t, a, kd, v), <<>>)
            /\ UniqueKeys(updateCoreconfArrayByKeys(t, a, kd, v), <<>>)
<1> DEFINE sid == Node(Shape(a)).sid
           kd == KeyDeltas(sid)
           n == EntryIndex(t, a, kd, v)
           size == IF n > t[a].val THEN n ELSE t[a].val
           u == [t EXCEPT ![a].val = size]
           q == Append(a, Elem(n))
           P == Put(u, q, v)
<1>1. /\ t[a].val \in Nat /\ n \in 1 .. t[a].val + 1
      /\ \A i \in 1 .. t[a].val : SameKeys(t, Append(a, Elem(i)), v, <<>>, kd) => i = n
  BY EntryIndexIs
<1>2. updateCoreconfArrayByKeys(t, a, kd, v) = P
  BY DEF updateCoreconfArrayByKeys
<1> HIDE DEF n
<1>3. HasRoom(u, t, a, n)
  BY <1>1, GrownArray
<1> HIDE DEF u, size
<1>4. /\ a \in Positions /\ n \in Nat /\ <<>> \o Shape(a) = Shape(a) /\ Shape(a) \in Shapes
      /\ Node(Shape(a)).type = "ARRAY" /\ DOMAIN t \subseteq Positions /\ <<>> \in DOMAIN t
  BY <1>1, ShapeType DEF Conforms, Placed
<1>5. /\ Elem(n) \in Steps /\ q \in Positions /\ q # <<>> /\ Front(q) = a /\ Last(q) = Elem(n)
      /\ Last(q)[2] = n /\ Shape(q) = EntryOf(Shape(a))
  <2>1. Elem(n) \in Steps /\ Elem(n)[1] = 0 /\ Elem(n)[2] = n
    BY <1>4, StepTypes
  <2>2. q \in Positions /\ Shape(q) = Append(Shape(a), 0)
    BY <1>4, <2>1, ShapeAppend
  <2>3. a \in Seq(Steps)
    BY <1>4 DEF Positions, Steps
  <2> QED  BY <2>1, <2>2, <2>3, FrontLastAppend DEF EntryOf
<1> HIDE DEF q
<1>6. Conforms(P, <<>>)
  <2>1. /\ <<>> \in DOMAIN u /\ Front(q) \in DOMAIN u
        /\ \A p \in DOMAIN u : Placed(u, <<>>, p) /\ CompleteBut(u, q, p)
        /\ Last(q)[2] \in IF u[Front(q)].type = "ARRAY" THEN 1 .. u[Front(q)].val ELSE {0}
    BY <1>3, <1>4, <1>5 DEF HasRoom, q
  <2> QED  BY <1>5, <2>1, PutConforms
<1>7. DOMAIN v \subseteq Positions /\ Shape(q) \in Shapes /\ Node(Shape(q)).kind = "entry"
  <2>1. Node(Shape(a)).kind = "list"
    BY <1>4, SchemaAssumption
  <2>2. EntryOf(Shape(a)) \in Shapes
    BY <1>4, <2>1, SchemaAssumption
  <2> QED  BY <1>4, <1>5, <2>1, <2>2, ChildShape DEF Conforms, Placed, EntryOf
<1>8. IsPut(P, u, q, v)
  BY <1>3, <1>4, <1>5, <1>7, PutCells DEF HasRoom
<1> HIDE DEF P
<1>9. SameButSizes(u, t)
  BY <1>3 DEF HasRoom, SameButSizes
<1>10. ~IsPrefix(q, a)
  <2>1. Len(q) = Len(a) + 1
    BY <1>4, <1>5 DEF q, Positions, Steps
  <2> QED  BY <1>4, <2>1 DEF IsPrefix, Positions
<1>11. ASSUME NEW b \in DOMAIN P, P[b].type = "ARRAY",
              NEW i \in 1 .. P[b].val, NEW j \in 1 .. P[b].val,
              SameKeys(P, Append(b, Elem(i)), P, Append(b, Elem(j)),
                       KeyDeltas(Node(<<>> \o Shape(b)).sid))
       PROVE  i = j
  <2>1. CASE b \in DOMAIN t /\ ~IsPrefix(q, b) /\ b # a
    <3>1. P[b] = t[b] /\ b \in Positions /\ <<>> \o Shape(b) = Shape(b)
      BY <1>3, <1>4, <1>8, <2>1, ShapeType DEF IsPut, HasRoom
    <3>2. ASSUME NEW m \in 1 .. t[b].val
          PROVE  SameCells(P, Append(b, Elem(m)), t, Append(b, Elem(m)),
                           KeyDeltas(Node(Shape(b)).sid))
      <4>1. m \in Nat /\ Front(Append(b, Elem(m))) = b
        <5>1. m \in Nat
          BY <1>11, <2>1, <3>1, RootEntry
        <5>2. b \in Seq(Steps) /\ Elem(m) \in Steps
          BY <3>1, <5>1, StepTypes DEF Positions, Steps
        <5> QED  BY <5>1, <5>2, FrontLastAppend
      <4>2. q # Append(b, Elem(m))
        BY <1>5, <2>1, <4>1
      <4> QED  BY <1>5, <1>7, <1>8, <1>9, <1>11, <2>1, <3>1, <4>2, PutKeepsEntry
    <3>3. SameKeys(t, Append(b, Elem(i)), t, Append(b, Elem(j)), KeyDeltas(Node(Shape(b)).sid))
      BY <1>11, <3>1, <3>2, SameKeysSubst
    <3> QED  BY <1>11, <2>1, <3>1, <3>3 DEF UniqueKeys
  <2>2. CASE b = a
    <3>1. P[a].val = u[a].val /\ P[a].type = "ARRAY"
      BY <1>3, <1>8, <1>10 DEF IsPut, HasRoom
    <3>2. \A m \in 1 .. u[a].val : m = n \/ m \in 1 .. t[a].val
      BY <1>3 DEF HasRoom
    <3>3. ASSUME NEW m \in 1 .. t[a].val, m # n
          PROVE  SameCells(P, Append(a, Elem(m)), t, Append(a, Elem(m)), kd)
      <4>1. q # Append(a, Elem(m))
        <5>1. m \in Nat /\ a \in Seq(Steps) /\ Elem(m) \in Steps /\ Elem(n) \in Steps
              /\ Elem(m) # Elem(n)
          BY <1>1, <1>4, <3>3, StepTypes DEF Positions, Steps, Elem
        <5> HIDE DEF Elem
        <5> QED  BY <5>1, FrontLastAppend DEF q
      <4> QED  BY <1>5, <1>7, <1>8, <1>9, <1>10, <4>1, PutKeepsEntry
    <3>4. SameCells(P, q, v, <<>>, kd)
      <4>1. /\ <<>> \in Positions /\ <<>> \in DOMAIN v /\ q \o <<>> = q
            /\ Shape(q) \o Shape(<<>>) = Shape(q)
        <5>1. <<>> \in Positions /\ q \o <<>> = q
          BY <1>5 DEF Positions
        <5>2. Shape(q \o <<>>) = Shape(q) \o Shape(<<>>)
          BY <1>5, <5>1, ShapeConcat
        <5> QED  BY <5>1, <5>2 DEF Conforms
      <4>2. Node(Shape(q)).sid = sid
        <5>1. Append(Shape(a), 0) \in Shapes
          BY <1>5, <1>7 DEF EntryOf
        <5>2. /\ Node(Append(Shape(a), 0)).sid = Node(Shape(a)).sid + 0
              /\ Node(Shape(a)).sid \in Nat
          BY <1>4, <5>1, ChildShape
        <5> QED  BY <1>5, <5>2 DEF EntryOf
      <4>3. sid \in DOMAIN KeyMapping /\ HasKeys(v, <<>>, kd)
        BY <1>5, <1>7, <4>1, <4>2, EntryHasKeyMapping DEF Conforms, Complete
      <4> QED  BY <1>5, <1>8, <4>1, <4>3, PutHasKeys
    <3>5. \A m \in 1 .. t[a].val :
            m # n => /\ ~SameKeys(P, Append(a, Elem(m)), P, q, kd)
                     /\ ~SameKeys(P, q, P, Append(a, Elem(m)), kd)
      <4> SUFFICES ASSUME NEW m \in 1 .. t[a].val, m # n
                   PROVE  /\ ~SameKeys(P, Append(a, Elem(m)), P, q, kd)
                          /\ ~SameKeys(P, q, P, Append(a, Elem(m)), kd)
        OBVIOUS
      <4>1. ~SameKeys(t, Append(a, Elem(m)), v, <<>>, kd)
        BY <1>1
      <4>2. ~SameKeys(v, <<>>, t, Append(a, Elem(m)), kd)
        BY <4>1 DEF SameKeys
      <4>3. SameCells(P, Append(a, Elem(m)), t, Append(a, Elem(m)), kd)
        BY <3>3
      <4> QED  BY <3>4, <4>1, <4>2, <4>3, SameKeysSubst
    <3>6. CASE i = n \/ j = n
      BY <1>11, <2>2, <3>1, <3>2, <3>5, <3>6 DEF q
    <3>7. CASE i # n /\ j # n
      <4>1. i \in 1 .. t[a].val /\ j \in 1 .. t[a].val
        BY <1>11, <2>2, <3>1, <3>2, <3>7
      <4>2. SameKeys(P, Append(a, Elem(i)), P, Append(a, Elem(j)), kd)
        BY <1>4, <1>11, <2>2
      <4>3. /\ SameCells(P, Append(a, Elem(i)), t, Append(a, Elem(i)), kd)
            /\ SameCells(P, Append(a, Elem(j)), t, Append(a, Elem(j)), kd)
        BY <3>3, <3>7, <4>1
      <4>4. SameKeys(t, Append(a, Elem(i)), t, Append(a, Elem(j)), kd)
        BY <4>2, <4>3, SameKeysSubst
      <4> QED  BY <1>4, <4>1, <4>4 DEF UniqueKeys
    <3> QED  BY <3>6, <3>7
  <2>3. CASE \E s \in DOMAIN v : b = q \o s
    BY <1>5, <1>7, <1>8, <1>11, <2>3, PutUniqueInside
  <2> QED  BY <1>3, <1>8, <2>1, <2>2, <2>3 DEF IsPut, HasRoom
<1>12. UniqueKeys(P, <<>>)
  BY <1>11 DEF UniqueKeys
<1> QED  BY <1>2, <1>6, <1>12

-----------------------------------------------------------------------------
(* The schema and paths *)

\* A node that is in the schema is found, below a map or an entry.
LEMMA ParentShape ==
  ASSUME NEW sid \in SIDs
  PROVE  /\ ShapeOf(sid) \in DataShapes /\ ShapeOf(sid) \in Shapes /\ Node(ShapeOf(sid)).sid = sid
         /\ ShapeOf(sid) # <<>> /\ Front(ShapeOf(sid)) \in Shapes
         /\ Node(Front(ShapeOf(sid))).type = "MAP"
         /\ schemaParents[sid] = Node(Front(ShapeOf(sid))).sid
         /\ Last(ShapeOf(sid)) \in Int
         /\ sid = schemaParents[sid] + Last(ShapeOf(sid))
         /\ ShapeOf(sid) = Append(Front(ShapeOf(sid)), Last(ShapeOf(sid)))
         /\ sid \in Nat \ {0} /\ schemaParents[sid] \in Nat
<1> DEFINE s == ShapeOf(sid)
<1>1. s \in DataShapes /\ Node(s).sid = sid
  BY DEF ShapeOf, SIDs
<1>2. s \in Shapes /\ Node(s).kind \notin {"root", "entry"}
  BY <1>1 DEF DataShapes
<1>3. s # <<>>
  BY <1>2, SchemaAssumption DEF Node
<1>4. /\ Front(s) \in Shapes /\ Node(s).sid = Node(Front(s)).sid + Last(s)
      /\ Node(Front(s)).kind # "list" /\ Node(Front(s)).type \in {"MAP", "ARRAY"}
      /\ Node(Front(s)).sid \in Nat /\ Node(s).sid \in Nat
  BY <1>2, <1>3, SchemaAssumption
<1>5. Node(Front(s)).type = "MAP"
  BY <1>4, SchemaAssumption
<1>6. s \in Seq(Int)
  BY <1>2, SchemaAssumption
<1>7. s = Append(Front(s), Last(s)) /\ Last(s) \in Int
  BY <1>3, <1>6, FrontLast
<1>8. schemaParents[sid] = Node(Front(s)).sid
  BY DEF schemaParents
<1>9. sid # 0
  BY SchemaAssumption
<1> QED  BY <1>1, <1>2, <1>3, <1>4, <1>5, <1>7, <1>8, <1>9

\* Maps of the schema with the same SID are the same node.
LEMMA MapShapesUnique ==
  ASSUME NEW s \in Shapes, NEW u \in Shapes, Node(s).type = "MAP", Node(u).type = "MAP",
         Node(s).sid = Node(u).sid
  PROVE  s = u
<1> DEFINE Owner(x) == IF Node(x).kind = "entry" THEN Front(x) ELSE x
<1>1. ASSUME NEW x \in Shapes, Node(x).type = "MAP", x # <<>>
      PROVE  /\ Owner(x) \in DataShapes /\ Node(Owner(x)).sid = Node(x).sid
             /\ Node(x).sid # 0
             /\ (Node(x).kind = "entry") <=> (Node(Owner(x)).kind = "list")
  <2>1. Node(x).kind \in {"container", "entry"}
    BY <1>1, SchemaAssumption
  <2>2. /\ Owner(x) \in DataShapes /\ Node(Owner(x)).sid = Node(x).sid
        /\ (Node(x).kind = "entry") <=> (Node(Owner(x)).kind = "list")
    BY <2>1, EntryHasKeyMapping DEF DataShapes
  <2> QED  BY <2>2, SchemaAssumption DEF SIDs
<1>2. Node(<<>>).sid = 0
  BY SchemaAssumption DEF Node
<1>3. CASE s = <<>> \/ u = <<>>
  BY <1>1, <1>2, <1>3
<1>4. CASE s # <<>> /\ u # <<>>
  <2>1. Owner(s) = Owner(u)
    <3>1. /\ Owner(s) \in DataShapes /\ Owner(u) \in DataShapes
          /\ Node(Owner(s)).sid = Node(Owner(u)).sid
      BY <1>1, <1>4
    <3> HIDE DEF Owner
    <3> QED  BY <3>1, SchemaAssumption
  <2>2. (Node(s).kind = "entry") <=> (Node(u).kind = "entry")
    BY <1>1, <1>4, <2>1
  <2>3. CASE Node(s).kind = "entry"
    BY <2>1, <2>2, <2>3, EntryHasKeyMapping
  <2>4. CASE Node(s).kind # "entry"
    BY <2>1, <2>2, <2>4
  <2> QED  BY <2>3, <2>4
<1> QED  BY <1>3, <1>4

\* The element of a path for a SID.
LEMMA PathNodeType ==
  ASSUME NEW sid \in Int
  PROVE  /\ PathNode(sid) \in PathNodes /\ PathNode(sid).parentSID = sid
         /\ PathNode(sid).SIDKeys \in Seq(Int)
         /\ sid \in DOMAIN KeyMapping => PathNode(sid).SIDKeys = KeyMapping[sid]
<1>1. sid \in DOMAIN KeyMapping => KeyMapping[sid] \in Seq(Int)
  BY KeyMappingAssumption
<1> QED  BY <1>1 DEF PathNode, PathNodes

\* The first step of a path, and the rest of it.
LEMMA PathStep ==
  ASSUME NEW above, NEW p, NEW target, IsPathFrom(above, p, target), p # <<>>
  PROVE  /\ Head(p).parentSID \in SIDs /\ Head(p) = PathNode(Head(p).parentSID)
         /\ schemaParents[Head(p).parentSID] = above
         /\ IsPathFrom(Head(p).parentSID, Tail(p), target)
<1>1. p \in Seq(PathNodes) /\ Len(p) \in Nat \ {0} /\ 1 \in DOMAIN p /\ Head(p) = p[1]
  BY DEF IsPathFrom
<1>2. /\ Head(p).parentSID \in SIDs /\ Head(p) = PathNode(Head(p).parentSID)
      /\ schemaParents[Head(p).parentSID] = above
  BY <1>1 DEF IsPathFrom
<1>3. /\ Tail(p) \in Seq(PathNodes) /\ Len(Tail(p)) = Len(p) - 1
      /\ \A i \in 1 .. Len(p) - 1 : Tail(p)[i] = p[i + 1]
  BY <1>1
<1>4. \A i \in DOMAIN Tail(p) :
        /\ Tail(p)[i].parentSID \in SIDs /\ Tail(p)[i] = PathNode(Tail(p)[i].parentSID)
        /\ schemaParents[Tail(p)[i].parentSID]
             = IF i = 1 THEN Head(p).parentSID ELSE Tail(p)[i - 1].parentSID
  BY <1>1, <1>3 DEF IsPathFrom
<1>5. target = IF Tail(p) = <<>> THEN Head(p).parentSID ELSE Last(Tail(p)).parentSID
  BY <1>1, <1>3 DEF IsPathFrom, Last
<1> QED  BY <1>2, <1>3, <1>4, <1>5 DEF IsPathFrom

\* A path with one more node above it.
LEMMA PathAbove ==
  ASSUME NEW sid \in SIDs, NEW p, NEW target, IsPathFrom(sid, p, target)
  PROVE  /\ IsPathFrom(schemaParents[sid], <<PathNode(sid)>> \o p, target)
         /\ Head(<<PathNode(sid)>> \o p) = PathNode(sid)
         /\ <<PathNode(sid)>> \o p # <<>>
<1> DEFINE n == PathNode(sid)
           r == <<n>> \o p
<1>1. n \in PathNodes /\ n.parentSID = sid
  BY ParentShape, PathNodeType
<1>2. p \in Seq(PathNodes)
  BY DEF IsPathFrom
<1> HIDE DEF n
<1>3. /\ r \in Seq(PathNodes) /\ Len(r) = Len(p) + 1 /\ r # <<>> /\ Head(r) = n
      /\ \A i \in 1 .. Len(p) + 1 : r[i] = IF i = 1 THEN n ELSE p[i - 1]
  BY <1>1, <1>2
<1> HIDE DEF r
<1>4. \A i \in DOMAIN r : /\ r[i].parentSID \in SIDs /\ r[i] = PathNode(r[i].parentSID)
                          /\ schemaParents[r[i].parentSID]
                               = IF i = 1 THEN schemaParents[sid] ELSE r[i - 1].parentSID
  <2>1. r[1] = n /\ n.parentSID \in SIDs /\ n = PathNode(n.parentSID)
    BY <1>1, <1>2, <1>3 DEF n
  <2>2. ASSUME NEW i \in 2 .. Len(p) + 1
        PROVE  /\ r[i] = p[i - 1] /\ i - 1 \in DOMAIN p
               /\ r[i - 1] = IF i - 1 = 1 THEN n ELSE p[i - 2]
    BY <1>2, <1>3
  <2>3. ASSUME NEW i \in 2 .. Len(p) + 1
        PROVE  /\ r[i].parentSID \in SIDs /\ r[i] = PathNode(r[i].parentSID)
               /\ schemaParents[r[i].parentSID] = r[i - 1].parentSID
    BY <1>1, <2>2 DEF IsPathFrom
  <2>4. DOMAIN r = 1 .. Len(p) + 1 /\ Len(p) \in Nat
    BY <1>2, <1>3
  <2> QED  BY <1>1, <2>1, <2>3, <2>4
<1>5. target = Last(r).parentSID
  BY <1>1, <1>2, <1>3 DEF IsPathFrom, Last
<1>6. IsPathFrom(schemaParents[sid], r, target)
  BY <1>3, <1>4, <1>5 DEF IsPathFrom
<1> QED  BY <1>3, <1>6 DEF r, n

-----------------------------------------------------------------------------
(* Walking down the instance *)

\* A node of the instance has a cell of the schema.
LEMMA RootCell ==
  ASSUME Conforms(root, <<>>), NEW p \in DOMAIN root
  PROVE  /\ p \in Positions /\ Shape(p) \in Shapes /\ root[p].type = Node(Shape(p)).type
         /\ Node(Shape(p)).sid \in Nat
         /\ root[p].type = "ARRAY" => root[p].val \in Nat
<1>1. Placed(root, <<>>, p)
  BY DEF Conforms
<1>2. p \in Positions /\ <<>> \o Shape(p) = Shape(p)
  BY <1>1, ShapeType DEF Placed
<1>3. /\ Shape(p) \in Shapes /\ root[p].type = Node(Shape(p)).type
      /\ root[p].type = "ARRAY" => root[p].val \in Nat
  BY <1>1, <1>2 DEF Placed
<1> QED  BY <1>2, <1>3, SchemaAssumption

\* Where a child of the map with the SID of the parent of `sid` would be.
LEMMA ChildPosition ==
  ASSUME Conforms(root, <<>>), NEW m \in DOMAIN root, root[m].type = "MAP",
         NEW sid \in SIDs, Node(Shape(m)).sid = schemaParents[sid]
  PROVE  /\ Append(m, Key(sid - schemaParents[sid])) \in Positions
         /\ Shape(Append(m, Key(sid - schemaParents[sid]))) = ShapeOf(sid)
         /\ m \in Positions /\ Key(sid - schemaParents[sid]) \in Steps
         /\ Front(Append(m, Key(sid - schemaParents[sid]))) = m
         /\ Last(Append(m, Key(sid - schemaParents[sid]))) = Key(sid - schemaParents[sid])
<1> DEFINE d == sid - schemaParents[sid]
<1>1. m \in Positions /\ Shape(m) \in Shapes /\ Node(Shape(m)).type = "MAP"
  BY RootCell
<1>2. /\ Front(ShapeOf(sid)) \in Shapes /\ Node(Front(ShapeOf(sid))).type = "MAP"
      /\ Node(Front(ShapeOf(sid))).sid = schemaParents[sid]
      /\ ShapeOf(sid) = Append(Front(ShapeOf(sid)), Last(ShapeOf(sid)))
      /\ sid = schemaParents[sid] + Last(ShapeOf(sid)) /\ Last(ShapeOf(sid)) \in Int
      /\ sid \in Nat /\ schemaParents[sid] \in Nat
  BY ParentShape
<1>3. Shape(m) = Front(ShapeOf(sid))
  BY <1>1, <1>2, MapShapesUnique
<1>4. d = Last(ShapeOf(sid)) /\ d \in Int
  BY <1>2
<1>5. /\ Append(m, Key(d)) \in Positions /\ Shape(Append(m, Key(d))) = Append(Shape(m), d)
  BY <1>1, <1>4, ShapeKey
<1>6. Key(d) \in Steps
  BY <1>4, StepTypes
<1>7. Front(Append(m, Key(d))) = m /\ Last(Append(m, Key(d))) = Key(d)
  BY <1>1, <1>6, FrontLastAppend DEF Positions, Steps
<1> QED  BY <1>1, <1>2, <1>3, <1>4, <1>5, <1>6, <1>7

\* A step down a path reaches a node of the next SID of the path, and the
\* rest of the path leads on from there.
LEMMA NextNodeFound ==
  ASSUME Conforms(root, <<>>), subTree \in DOMAIN root,
         Node(Shape(subTree)).sid = previousSID,
         IsPathFrom(previousSID, path, ctx.sid), path # <<>>,
         NEW rk \in Seq(Int), NextNode(rk) # NULL
  PROVE  /\ NextNode(rk) \in DOMAIN root
         /\ Node(Shape(NextNode(rk))).sid = Head(path).parentSID
         /\ IsPathFrom(Head(path).parentSID, Tail(path), ctx.sid)
         /\ KeysAfter(rk) \in Seq(Int)
<1> DEFINE sid == Head(path).parentSID
           child == Append(subTree, Key(sid - previousSID))
           ks == Head(path).SIDKeys
<1>1. /\ sid \in SIDs /\ Head(path) = PathNode(sid) /\ schemaParents[sid] = previousSID
      /\ IsPathFrom(sid, Tail(path), ctx.sid)
  BY PathStep
<1>2. ks \in Seq(Int)
  BY <1>1, ParentShape, PathNodeType
<1>3. KeysAfter(rk) \in Seq(Int)
  BY <1>2 DEF KeysAfter
<1>4. /\ root[subTree].type = "MAP"
      /\ getCoreconfHashMap(root, subTree, sid - previousSID) # NULL
  BY DEF NextNode
<1>5. child \in DOMAIN root /\ getCoreconfHashMap(root, subTree, sid - previousSID) = child
  BY <1>4 DEF getCoreconfHashMap
<1>6. /\ child \in Positions /\ Shape(child) = ShapeOf(sid)
  BY <1>1, <1>4, ChildPosition
<1>7. Node(Shape(child)).sid = sid /\ sid \in Nat
  BY <1>1, <1>6, ParentShape
<1>8. CASE ks = <<>>
  <2>1. NextNode(rk) = child
    BY <1>4, <1>5, <1>8 DEF NextNode
  <2> QED  BY <2>1, <1>1, <1>3, <1>5, <1>7
<1>9. CASE ks # <<>>
  <2>1. /\ root[child].type = "ARRAY"
        /\ NextNode(rk) = selectListEntry(child, ks, sid, rk)
    BY <1>4, <1>5, <1>9 DEF NextNode
  <2> DEFINE matching == {i \in 1 .. root[child].val :
                            EntryMatches(Append(child, Elem(i)), ks, sid, rk)}
  <2>2. matching # {} /\ NextNode(rk) = Append(child, Elem(First(matching)))
    BY <2>1 DEF selectListEntry
  <2>3. root[child].val \in Nat
    BY <1>5, <2>1, RootCell
  <2>4. First(matching) \in matching
    <3>1. matching \subseteq Nat
      BY <2>3
    <3>2. \E i \in matching : \A j \in matching : i <= j
      <4> HIDE DEF matching
      <4> QED  BY <2>2, <3>1, LeastOf
    <3> QED  BY <3>2 DEF First
  <2>5. First(matching) \in 1 .. root[child].val
    BY <2>4
  <2> DEFINE n == First(matching)
  <2> HIDE DEF matching, child, n
  <2>6. /\ Append(child, Elem(n)) \in DOMAIN root
        /\ Node(Shape(Append(child, Elem(n)))).sid = Node(Shape(child)).sid
    <3>1. n \in 1 .. root[child].val
      BY <2>5 DEF n
    <3> QED  BY <1>5, <2>1, <3>1, RootEntry
  <2>7. NextNode(rk) = Append(child, Elem(n))
    BY <2>2 DEF n
  <2> QED  BY <1>1, <1>3, <1>7, <2>6, <2>7
<1> QED  BY <1>8, <1>9

-----------------------------------------------------------------------------
(* The inductive invariant: between calls the locals of a call are reset.   *)

IdleOK == pc = "idle" => subTree = <<>> /\ previousSID = 0 /\ keys = <<>>

IInv == TypeOK /\ IdleOK /\ TablesAgree /\ UniqueEntries

\* It holds of the model that was loaded.
LEMMA InitHolds == Init => IInv
<1> SUFFICES ASSUME Init PROVE IInv
  OBVIOUS
<1>1. Conforms(root, <<>>) /\ UniqueEntries
  BY InstanceAssumption DEF Init, UniqueEntries
<1>2. ContextOK
  BY DEF Init, ContextOK, NoContext
<1>3. pc = "walk" => \A call \in frontier : /\ call.node \in DOMAIN root
                                           /\ call.parentSID = Node(Shape(call.node)).sid
  <2>1. <<>> \in DOMAIN root /\ Node(<<>>).sid = 0
    BY <1>1, SchemaAssumption DEF Conforms, Node
  <2>2. Shape(<<>>) = <<>>
    BY DEF Shape
  <2> QED  BY <2>1, <2>2 DEF Init
<1>4. TypeOK
  BY <1>1, <1>2, <1>3 DEF Init, TypeOK
<1>5. TablesAgree
  BY DEF Init, TablesAgree
<1> QED  BY <1>1, <1>4, <1>5 DEF IInv, IdleOK, Init

\* A call that ends without a write keeps it.
LEMMA QuietReturn ==
  ASSUME IInv, NEW answer, Return(answer), UNCHANGED <<root, clookup>>, ContextOK'
  PROVE  IInv'
<1>1. Conforms(root, <<>>)' /\ UniqueEntries'
  BY DEF IInv, TypeOK, UniqueEntries
<1>2. TablesAgree'
  BY DEF IInv, TablesAgree
<1>3. pc' = "idle" /\ subTree' = <<>> /\ previousSID' = 0 /\ keys' = <<>>
  BY DEF Return
<1> QED  BY <1>1, <1>2, <1>3 DEF IInv, TypeOK, IdleOK

\* The context does not change, the call ends.
LEMMA SameContextReturn ==
  ASSUME IInv, NEW answer, Return(answer), UNCHANGED <<root, clookup, ctx>>
  PROVE  IInv'
<1>1. ContextOK'
  BY DEF IInv, TypeOK, ContextOK
<1> QED  BY <1>1, QuietReturn

\* A call that goes on keeps what it does not touch.
LEMMA Undisturbed ==
  ASSUME IInv, UNCHANGED <<root, clookup>>
  PROVE  Conforms(root, <<>>)' /\ UniqueEntries' /\ TablesAgree'
  BY DEF IInv, TypeOK, UniqueEntries, TablesAgree

-----------------------------------------------------------------------------
(* findRequirementForSID *)

\* The parent of a SID is a SID or the root.
LEMMA ParentSID ==
  ASSUME NEW sid \in SIDs, schemaParents[sid] # 0
  PROVE  schemaParents[sid] \in SIDs
<1> DEFINE s == Front(ShapeOf(sid))
<1>1. s \in Shapes /\ Node(s).type = "MAP" /\ Node(s).sid = schemaParents[sid]
  BY ParentShape
<1>2. Node(s).kind \in {"root", "container", "entry"}
  BY <1>1, SchemaAssumption
<1>3. CASE Node(s).kind = "root"
  BY <1>1, <1>3, SchemaAssumption DEF Node
<1>4. CASE Node(s).kind = "container"
  BY <1>1, <1>4 DEF DataShapes, SIDs
<1>5. CASE Node(s).kind = "entry"
  <2>1. Front(s) \in DataShapes /\ Node(Front(s)).sid = Node(s).sid
    BY <1>1, <1>5, EntryHasKeyMapping
  <2> QED  BY <1>1, <2>1 DEF SIDs
<1> QED  BY <1>2, <1>3, <1>4, <1>5

\* The request starts with a path of its own SID.
LEMMA FindBegins ==
  ASSUME IInv, NEW sid \in DOMAIN KeyLists, NEW ks \in KeyLists[sid],
         FindRequirementForSID(sid, ks)
  PROVE  IInv'
<1>1. sid \in Nat \ {0} /\ ks \in Seq(Int)
  BY ClientAssumption
<1>2. ContextOK'
  BY <1>1 DEF FindRequirementForSID, ContextOK
<1>3. FindOK'
  BY <1>1 DEF FindRequirementForSID, FindOK
<1>4. Conforms(root, <<>>)' /\ UniqueEntries' /\ TablesAgree'
  BY Undisturbed DEF FindRequirementForSID
<1>5. pc' = "find"
  BY DEF FindRequirementForSID
<1> QED  BY <1>2, <1>3, <1>4, <1>5 DEF IInv, TypeOK, IdleOK

\* The node the search stands on heads a path to the SID asked for.
LEMMA SearchStands ==
  ASSUME IInv, pc = "find", currentSID \in DOMAIN clookup
  PROVE  /\ currentSID \in SIDs /\ ctx.sid # 0
         /\ peekLong(clookup[currentSID]) = schemaParents[currentSID]
         /\ path # <<>> /\ Head(path).parentSID = currentSID
         /\ IsPathFrom(schemaParents[currentSID], path, ctx.sid)
<1>1. currentSID \in SIDs /\ clookup[currentSID] = <<schemaParents[currentSID]>>
  BY DEF IInv, TablesAgree
<1>2. peekLong(clookup[currentSID]) = schemaParents[currentSID]
  BY <1>1 DEF peekLong, Last
<1>3. currentSID # 0 /\ currentSID \in Int
  BY <1>1, ParentShape
<1>4. FindOK
  BY DEF IInv, TypeOK
<1>5. CASE path = <<PathNode(ctx.sid)>> /\ currentSID = ctx.sid
  <2>1. IsPathFrom(ctx.sid, <<>>, ctx.sid)
    BY DEF IsPathFrom
  <2>2. /\ IsPathFrom(schemaParents[ctx.sid], <<PathNode(ctx.sid)>> \o <<>>, ctx.sid)
    BY <1>1, <1>5, <2>1, PathAbove
  <2>3. <<PathNode(ctx.sid)>> \o <<>> = <<PathNode(ctx.sid)>>
    OBVIOUS
  <2>4. Head(path) = PathNode(ctx.sid)
    BY <1>5
  <2>5. Head(path).parentSID = currentSID
    BY <1>3, <1>5, <2>4, PathNodeType
  <2> QED  BY <1>1, <1>2, <1>4, <1>5, <2>2, <2>3, <2>5 DEF FindOK
<1>6. CASE ~(path = <<PathNode(ctx.sid)>> /\ currentSID = ctx.sid)
  BY <1>1, <1>2, <1>3, <1>4, <1>6 DEF FindOK
<1> QED  BY <1>5, <1>6

\* One node up keeps the path one to the SID asked for.
LEMMA FindParentKeeps ==
  ASSUME IInv, FindParent
  PROVE  IInv'
<1> DEFINE up == schemaParents[currentSID]
<1>1. /\ pc = "find" /\ currentSID \in DOMAIN clookup
      /\ UNCHANGED <<root, clookup, ctx, pc>>
  BY DEF FindParent
<1>2. /\ currentSID \in SIDs /\ ctx.sid # 0
      /\ peekLong(clookup[currentSID]) = up
      /\ path # <<>> /\ Head(path).parentSID = currentSID
      /\ IsPathFrom(up, path, ctx.sid)
  BY <1>1, SearchStands
<1>3. /\ path' = IF up = 0 THEN path ELSE <<PathNode(up)>> \o path
      /\ currentSID' = up
  BY <1>2 DEF FindParent
<1>4. FindOK'
  <2>1. CASE up = 0
    BY <1>1, <1>2, <1>3, <2>1 DEF FindOK
  <2>2. CASE up # 0
    <3>1. up \in SIDs
      BY <1>2, <2>2, ParentSID
    <3>2. /\ IsPathFrom(schemaParents[up], path', ctx.sid)
          /\ Head(path') = PathNode(up) /\ path' # <<>>
      BY <1>2, <1>3, <2>2, <3>1, PathAbove
    <3>3. Head(path').parentSID = up
      BY <3>1, <3>2, ParentShape, PathNodeType
    <3> QED  BY <1>1, <1>2, <1>3, <3>1, <3>2, <3>3 DEF FindOK
  <2> QED  BY <2>1, <2>2
<1>5. ContextOK'
  BY <1>1 DEF IInv, TypeOK, ContextOK
<1>6. Conforms(root, <<>>)' /\ UniqueEntries' /\ TablesAgree'
  BY <1>1, Undisturbed
<1> QED  BY <1>1, <1>4, <1>5, <1>6 DEF IInv, TypeOK, IdleOK

\* At the top, the path is whole.
LEMMA FindReturnsKeeps ==
  ASSUME IInv, FindReturns
  PROVE  IInv'
<1>1. FindOK /\ currentSID = 0 /\ ContextOK
  BY DEF IInv, TypeOK, FindReturns
<1>2. IsPathFrom(0, path, ctx.sid) /\ path # <<>>
  <2>1. 0 \notin SIDs
    BY SchemaAssumption
  <2> QED  BY <1>1, <2>1 DEF FindOK
<1>3. path \in Seq(PathNodes) /\ ctx.sid \in SIDs
  <2>1. path \in Seq(PathNodes) /\ Len(path) \in DOMAIN path /\ ctx.sid = path[Len(path)].parentSID
    BY <1>2 DEF IsPathFrom, Last
  <2>2. path[Len(path)].parentSID \in SIDs
    BY <1>2, <2>1 DEF IsPathFrom
  <2> QED  BY <2>1, <2>2
<1>4. ctx' = [ctx EXCEPT !.pathNode = path]
  BY DEF FindReturns
<1>5. ContextOK'
  BY <1>1, <1>2, <1>3, <1>4 DEF ContextOK
<1>6. Return(None) /\ UNCHANGED <<root, clookup>>
  BY DEF FindReturns
<1> QED  BY <1>5, <1>6, QuietReturn

\* freePathNode between requests.
LEMMA FreeContextKeeps ==
  ASSUME IInv, FreeContext
  PROVE  IInv'
<1>1. ContextOK'
  BY DEF FreeContext, ContextOK, NoContext
<1>2. Return(None) /\ UNCHANGED <<root, clookup>>
  BY DEF FreeContext
<1> QED  BY <1>1, <1>2, QuietReturn

-----------------------------------------------------------------------------
(* examineCoreconfValue *)

\* A call that starts down the path stands at the root.
LEMMA DescentBegins ==
  ASSUME IInv, pc = "idle", ctx.pathNode # NULL, path' = ctx.pathNode,
         UNCHANGED <<root, ctx, subTree, previousSID>>, keys' \in Seq(Int)
  PROVE  DescentOK'
<1>1. subTree = <<>> /\ previousSID = 0 /\ <<>> \in DOMAIN root
  BY DEF IInv, TypeOK, IdleOK, Conforms
<1>2. Shape(<<>>) = <<>> /\ Node(<<>>).sid = 0
  BY SchemaAssumption DEF Shape, Node
<1>3. IsPathFrom(0, ctx.pathNode, ctx.sid)
  BY DEF IInv, TypeOK, ContextOK
<1> QED  BY <1>1, <1>2, <1>3 DEF DescentOK

\* A read starts at the root with the whole path before it.
LEMMA ExamineBegins ==
  ASSUME IInv, ExamineCoreconfValue
  PROVE  IInv'
<1>1. /\ pc = "idle" /\ ctx.pathNode # NULL /\ path' = ctx.pathNode /\ pc' = "examine"
      /\ UNCHANGED <<root, clookup, ctx, subTree, previousSID, keys>>
  BY DEF ExamineCoreconfValue
<1>2. keys' \in Seq(Int)
  BY <1>1 DEF IInv, IdleOK
<1>3. DescentOK'
  BY <1>1, <1>2, DescentBegins
<1>4. ContextOK'
  BY <1>1 DEF IInv, TypeOK, ContextOK
<1>5. Conforms(root, <<>>)' /\ UniqueEntries' /\ TablesAgree'
  BY <1>1, Undisturbed
<1> QED  BY <1>1, <1>3, <1>4, <1>5 DEF IInv, TypeOK, IdleOK

\* A step down stays on the path and in the instance.
LEMMA DescendKeeps ==
  ASSUME IInv, pc \in {"examine", "navigate"}, path # <<>>,
         NEW rk \in Seq(Int), NextNode(rk) # NULL, Descend(rk)
  PROVE  /\ KeysAfter(rk) \in Seq(Int)
         /\ subTree' \in DOMAIN root /\ Node(Shape(subTree')).sid = previousSID'
         /\ IsPathFrom(previousSID', path', ctx.sid)
<1>1. /\ Conforms(root, <<>>) /\ DescentOK
  BY DEF IInv, TypeOK
<1>2. /\ NextNode(rk) \in DOMAIN root
      /\ Node(Shape(NextNode(rk))).sid = Head(path).parentSID
      /\ IsPathFrom(Head(path).parentSID, Tail(path), ctx.sid)
      /\ KeysAfter(rk) \in Seq(Int)
  BY <1>1, NextNodeFound DEF DescentOK
<1> QED  BY <1>2 DEF Descend

\* A read goes one node down, and stands where its path says.
LEMMA ExamineStepKeeps ==
  ASSUME IInv, ExamineStep
  PROVE  IInv'
<1>1. /\ pc = "examine" /\ path # <<>> /\ NextNode(ctx.keys) # NULL /\ Descend(ctx.keys)
      /\ ctx' = [ctx EXCEPT !.keys = KeysAfter(ctx.keys)]
      /\ UNCHANGED <<root, clookup, pc, keys>>
  BY DEF ExamineStep
<1>2. ContextOK /\ DescentOK
  BY <1>1 DEF IInv, TypeOK
<1>3. ctx.keys \in Seq(Int)
  BY <1>2 DEF ContextOK
<1>4. /\ KeysAfter(ctx.keys) \in Seq(Int)
      /\ subTree' \in DOMAIN root /\ Node(Shape(subTree')).sid = previousSID'
      /\ IsPathFrom(previousSID', path', ctx.sid)
  BY <1>1, <1>3, DescendKeeps
<1>5. ctx'.sid = ctx.sid /\ ctx'.pathNode = ctx.pathNode
  BY <1>1, <1>2 DEF ContextOK
<1>6. ContextOK'
  BY <1>1, <1>2, <1>4, <1>5 DEF ContextOK
<1>7. DescentOK'
  BY <1>1, <1>2, <1>4, <1>5 DEF DescentOK
<1>8. Conforms(root, <<>>)' /\ UniqueEntries' /\ TablesAgree'
  BY <1>1, Undisturbed
<1> QED  BY <1>1, <1>6, <1>7, <1>8 DEF IInv, TypeOK, IdleOK

-----------------------------------------------------------------------------
(* The write handlers and navigateToParentContainer *)

\* A value that passes the handler's checks is one of the SID asked for.
LEMMA AcceptedValue ==
  ASSUME IInv, ctx.pathNode # NULL, NEW v \in Values[ctx.sid],
         \/ Accepts(ctx.sid, v)
         \/ Kind(ctx.sid) = "enum"
  PROVE  Conforms(v, WrittenShape(ctx.sid)) /\ UniqueKeys(v, WrittenShape(ctx.sid))
<1>1. ctx.sid \in SIDs
  BY DEF IInv, TypeOK, ContextOK
<1>2. CASE Accepts(ctx.sid, v)
  BY <1>1, <1>2, ClientAssumption DEF Accepts, Kind
<1>3. CASE Kind(ctx.sid) = "enum"
  <2>1. WrittenShape(ctx.sid) = ShapeOf(ctx.sid)
    BY <1>3 DEF WrittenShape, Kind
  <2> QED  BY <1>1, <1>3, <2>1, ClientAssumption DEF Kind
<1> QED  BY <1>2, <1>3

\* A write starts at the root with a value of the written node's shape.
LEMMA NavigateBegins ==
  ASSUME IInv, pc = "idle", ctx.pathNode # NULL, NEW v \in Values[ctx.sid],
         \/ UserFunctionSucceeds(v)
         \/ UpdateValueBySID(v)
  PROVE  IInv'
<1>1. /\ pc' = "navigate" /\ path' = ctx.pathNode /\ keys' = ctx.keys /\ value' = v
      /\ UNCHANGED <<root, clookup, ctx, subTree, previousSID>>
  BY DEF UserFunctionSucceeds, UpdateValueBySID, BeginNavigate
<1>2. Conforms(v, WrittenShape(ctx.sid)) /\ UniqueKeys(v, WrittenShape(ctx.sid))
  BY AcceptedValue DEF UserFunctionSucceeds, UpdateValueBySID
<1>3. ValueOK'
  BY <1>1, <1>2 DEF ValueOK
<1>4. keys' \in Seq(Int)
  BY <1>1 DEF IInv, TypeOK, ContextOK
<1>5. DescentOK'
  BY <1>1, <1>4, DescentBegins
<1>6. ContextOK'
  BY <1>1 DEF IInv, TypeOK, ContextOK
<1>7. Conforms(root, <<>>)' /\ UniqueEntries' /\ TablesAgree'
  BY <1>1, Undisturbed
<1> QED  BY <1>1, <1>3, <1>5, <1>6, <1>7 DEF IInv, TypeOK, IdleOK

\* A write is refused, or starts.
LEMMA WriteKeeps ==
  ASSUME IInv, Write
  PROVE  IInv'
<1>1. pc = "idle" /\ ctx.pathNode # NULL
  BY DEF Write
<1>2. PICK v \in Values[ctx.sid] :
        \/ HandlerRejects(v) \/ UserFunctionFails(v)
        \/ UserFunctionSucceeds(v) \/ UpdateValueBySID(v)
  BY DEF Write
<1>3. CASE HandlerRejects(v)
  BY <1>3, SameContextReturn DEF HandlerRejects
<1>4. CASE UserFunctionFails(v)
  BY <1>4, SameContextReturn DEF UserFunctionFails
<1>5. CASE UserFunctionSucceeds(v) \/ UpdateValueBySID(v)
  BY <1>1, <1>5, NavigateBegins
<1> QED  BY <1>2, <1>3, <1>4, <1>5

\* A write goes one node down, and stands where its path says.
LEMMA NavigateStepKeeps ==
  ASSUME IInv, NavigateStep
  PROVE  IInv'
<1>1. /\ pc = "navigate" /\ path # <<>> /\ NextNode(keys) # NULL /\ Descend(keys)
      /\ keys' = KeysAfter(keys)
      /\ UNCHANGED <<root, clookup, ctx, pc, value>>
  BY DEF NavigateStep, AtTarget
<1>2. ContextOK /\ DescentOK /\ ValueOK
  BY <1>1 DEF IInv, TypeOK
<1>3. /\ KeysAfter(keys) \in Seq(Int)
      /\ subTree' \in DOMAIN root /\ Node(Shape(subTree')).sid = previousSID'
      /\ IsPathFrom(previousSID', path', ctx.sid)
  BY <1>1, <1>2, DescendKeeps DEF DescentOK
<1>4. ContextOK' /\ ValueOK'
  BY <1>1, <1>2 DEF ContextOK, ValueOK
<1>5. DescentOK'
  BY <1>1, <1>2, <1>3 DEF DescentOK
<1>6. Conforms(root, <<>>)' /\ UniqueEntries' /\ TablesAgree'
  BY <1>1, Undisturbed
<1> QED  BY <1>1, <1>4, <1>5, <1>6 DEF IInv, TypeOK, IdleOK

\* navigateToParentContainer stops at the parent of the SID asked for.
LEMMA ParentIs ==
  ASSUME IInv, ParentFound
  PROVE  /\ ctx.sid \in SIDs /\ previousSID = schemaParents[ctx.sid]
         /\ subTree \in DOMAIN root /\ root[subTree].type = "MAP"
         /\ Node(Shape(subTree)).sid = schemaParents[ctx.sid]
         /\ finalDeltaSID = ctx.sid - schemaParents[ctx.sid]
<1>1. DescentOK /\ path # <<>> /\ Head(path).parentSID = ctx.sid /\ root[subTree].type = "MAP"
  BY DEF IInv, TypeOK, ParentFound, AtTarget
<1>2. ctx.sid \in SIDs /\ schemaParents[ctx.sid] = previousSID
  BY <1>1, PathStep DEF DescentOK
<1> QED  BY <1>1, <1>2 DEF DescentOK, finalDeltaSID

\* The value is put into the container that is the parent of its node.
LEMMA InsertValueKeeps ==
  ASSUME IInv, InsertValue
  PROVE  IInv'
<1> DEFINE q == Append(subTree, Key(ctx.sid - schemaParents[ctx.sid]))
<1>1. /\ ctx.sid \in SIDs /\ subTree \in DOMAIN root /\ root[subTree].type = "MAP"
      /\ Node(Shape(subTree)).sid = schemaParents[ctx.sid]
      /\ finalDeltaSID = ctx.sid - schemaParents[ctx.sid]
  BY ParentIs DEF InsertValue
<1>2. Conforms(root, <<>>) /\ UniqueKeys(root, <<>>)
  BY DEF IInv, TypeOK, UniqueEntries
<1>3. /\ q \in Positions /\ Shape(q) = ShapeOf(ctx.sid) /\ Front(q) = subTree
      /\ Last(q) = Key(ctx.sid - schemaParents[ctx.sid])
      /\ subTree \in Positions /\ Last(q) \in Steps
  BY <1>1, <1>2, ChildPosition
<1>4. q # <<>> /\ Last(q)[2] = 0
  <2>1. Key(ctx.sid - schemaParents[ctx.sid]) \in Steps
    BY <1>3
  <2>2. q # <<>>
    BY <1>3, <2>1, FrontLastAppend DEF Positions, Steps
  <2>3. Last(q)[2] = 0
    BY <1>3 DEF Key
  <2> QED  BY <2>2, <2>3
<1>5. /\ Conforms(value, ShapeOf(ctx.sid)) /\ UniqueKeys(value, ShapeOf(ctx.sid))
      /\ value \in Values[ctx.sid]
  BY DEF IInv, TypeOK, ValueOK, InsertValue, ParentFound, WrittenShape, Kind
<1>6. Node(ShapeOf(ctx.sid)).kind \notin {"key", "entry"} /\ ShapeOf(ctx.sid) \in Shapes
  <2>1. Node(ShapeOf(ctx.sid)).kind # "key"
    BY <1>1, <1>5, ClientAssumption
  <2>2. ShapeOf(ctx.sid) \in DataShapes /\ ShapeOf(ctx.sid) \in Shapes
    BY <1>1, ParentShape
  <2> QED  BY <2>1, <2>2 DEF DataShapes
<1>7. root' = Put(root, q, value)
  BY <1>1 DEF InsertValue, insertCoreconfHashMap
<1> HIDE DEF q
<1>8. Conforms(Put(root, q, value), <<>>)
  <2>1. \A p \in DOMAIN root : Placed(root, <<>>, p) /\ CompleteBut(root, q, p)
    <3> SUFFICES ASSUME NEW p \in DOMAIN root
                 PROVE  Placed(root, <<>>, p) /\ CompleteBut(root, q, p)
      OBVIOUS
    <3>1. Placed(root, <<>>, p) /\ Complete(root, <<>>, p)
      BY <1>2 DEF Conforms
    <3>2. <<>> \o Shape(p) = Shape(p)
      BY <1>2, RootCell, ShapeType
    <3> QED  BY <3>1, <3>2 DEF Complete, CompleteBut
  <2>2. <<>> \in DOMAIN root
    BY <1>2 DEF Conforms
  <2>3. Conforms(value, Shape(q))
    BY <1>3, <1>5
  <2>4. Last(q)[2] \in IF root[Front(q)].type = "ARRAY" THEN 1 .. root[Front(q)].val ELSE {0}
    BY <1>1, <1>3, <1>4
  <2> QED  BY <1>1, <1>3, <1>4, <2>1, <2>2, <2>3, <2>4, PutConforms
<1>9. UniqueKeys(Put(root, q, value), <<>>)
  <2>1. Conforms(value, Shape(q)) /\ UniqueKeys(value, Shape(q))
    BY <1>3, <1>5
  <2>2. Shape(q) \in Shapes /\ Node(Shape(q)).kind \notin {"key", "entry"}
    BY <1>3, <1>6
  <2> QED  BY <1>2, <1>3, <2>1, <2>2, PutUnique
<1>10. Conforms(root, <<>>)' /\ UniqueEntries'
  BY <1>7, <1>8, <1>9 DEF UniqueEntries
<1>11. TablesAgree' /\ ContextOK'
  BY DEF InsertValue, IInv, TypeOK, TablesAgree, ContextOK
<1>12. pc' = "idle" /\ subTree' = <<>> /\ previousSID' = 0 /\ keys' = <<>>
  BY DEF InsertValue, Return
<1> QED  BY <1>10, <1>11, <1>12 DEF IInv, TypeOK, IdleOK

\* The entry is put into the array of its list.
LEMMA UpdateListEntryKeeps ==
  ASSUME IInv, UpdateListEntry
  PROVE  IInv'
<1> DEFINE a == arrayValue
<1>1. /\ ctx.sid \in SIDs /\ subTree \in DOMAIN root /\ root[subTree].type = "MAP"
      /\ Node(Shape(subTree)).sid = schemaParents[ctx.sid]
      /\ finalDeltaSID = ctx.sid - schemaParents[ctx.sid]
  BY ParentIs DEF UpdateListEntry
<1>2. Conforms(root, <<>>) /\ UniqueKeys(root, <<>>)
  BY DEF IInv, TypeOK, UniqueEntries
<1>3. a # NULL /\ root[a].type = "ARRAY"
  BY DEF UpdateListEntry, NoArray
<1>4. a = Append(subTree, Key(finalDeltaSID)) /\ a \in DOMAIN root
  BY <1>3 DEF arrayValue, getCoreconfHashMap
<1>5. Shape(a) = ShapeOf(ctx.sid)
  BY <1>1, <1>2, <1>4, ChildPosition
<1>6. Node(Shape(a)).sid = ctx.sid
  BY <1>1, <1>5, ParentShape
<1>7. Conforms(value, EntryOf(Shape(a))) /\ UniqueKeys(value, EntryOf(Shape(a)))
  BY <1>5 DEF IInv, TypeOK, ValueOK, UpdateListEntry, ParentFound, WrittenShape, Kind
<1>8. root' = updateCoreconfArrayByKeys(root, a, KeyDeltas(ctx.sid), value)
  BY DEF UpdateListEntry
<1> HIDE DEF a
<1>9. /\ Conforms(updateCoreconfArrayByKeys(root, a, KeyDeltas(ctx.sid), value), <<>>)
      /\ UniqueKeys(updateCoreconfArrayByKeys(root, a, KeyDeltas(ctx.sid), value), <<>>)
  BY <1>2, <1>3, <1>4, <1>6, <1>7, UpdateConforms
<1>10. Conforms(root, <<>>)' /\ UniqueEntries'
  BY <1>8, <1>9 DEF UniqueEntries
<1>11. TablesAgree' /\ ContextOK'
  BY DEF UpdateListEntry, IInv, TypeOK, TablesAgree, ContextOK
<1>12. pc' = "idle" /\ subTree' = <<>> /\ previousSID' = 0 /\ keys' = <<>>
  BY DEF UpdateListEntry, Return
<1> QED  BY <1>10, <1>11, <1>12 DEF IInv, TypeOK, IdleOK

-----------------------------------------------------------------------------
(* buildCLookupHashmapFromCoreconf *)

\* A rebuild starts from an empty table, which agrees with any.
LEMMA BuildKeeps ==
  ASSUME IInv, BuildCLookupHashmap
  PROVE  IInv'
<1>1. /\ clookup' = <<>> /\ pc' = "walk" /\ UNCHANGED <<root, ctx>>
      /\ frontier' = {[node |-> <<>>, parentSID |-> 0, depth |-> 0]}
  BY DEF BuildCLookupHashmap
<1>2. TablesAgree'
  BY <1>1 DEF TablesAgree
<1>3. Conforms(root, <<>>)' /\ UniqueEntries' /\ ContextOK'
  BY <1>1 DEF IInv, TypeOK, UniqueEntries, ContextOK
<1>4. \A call \in frontier' : call.node \in DOMAIN root' /\ call.parentSID = Node(Shape(call.node)).sid
  <2>1. <<>> \in DOMAIN root' /\ Node(<<>>).sid = 0
    BY <1>3, SchemaAssumption DEF Conforms, Node
  <2>2. Shape(<<>>) = <<>>
    BY DEF Shape
  <2> QED  BY <1>1, <2>1, <2>2
<1> QED  BY <1>1, <1>2, <1>3, <1>4 DEF IInv, TypeOK, IdleOK

\* A child of a node has the SID the walk gives it, and a child of a map is
\* a node of the schema with its parent's SID as its parent.
LEMMA ChildOf ==
  ASSUME Conforms(root, <<>>), NEW p \in DOMAIN root, NEW q \in Children(p)
  PROVE  /\ q \in DOMAIN root
         /\ Node(Shape(q)).sid = Node(Shape(p)).sid + Last(q)[1]
         /\ root[p].type = "MAP" => /\ Node(Shape(q)).sid \in SIDs
                                    /\ schemaParents[Node(Shape(q)).sid] = Node(Shape(p)).sid
<1>1. q \in DOMAIN root /\ q # <<>> /\ Front(q) = p
  BY DEF Children
<1>2. /\ q \in Positions /\ Shape(q) \in Shapes /\ Shape(p) \in Shapes
      /\ root[p].type = Node(Shape(p)).type
  BY <1>1, RootCell
<1>3. /\ Shape(q) # <<>> /\ Front(Shape(q)) = Shape(p) /\ Last(Shape(q)) = Last(q)[1]
      /\ Shape(q) = Append(Shape(p), Last(q)[1]) /\ Last(q) \in Steps
  BY <1>1, <1>2, ShapeFront
<1>4. Last(q)[1] \in Int
  BY <1>3 DEF Steps
<1>5. /\ Node(Shape(q)).sid = Node(Shape(p)).sid + Last(q)[1]
      /\ (Node(Shape(q)).kind = "entry") <=> (Node(Shape(p)).kind = "list")
  BY <1>2, <1>3, <1>4, ChildShape
<1>6. ASSUME root[p].type = "MAP"
      PROVE  /\ Node(Shape(q)).sid \in SIDs
             /\ schemaParents[Node(Shape(q)).sid] = Node(Shape(p)).sid
  <2>1. Node(Shape(p)).kind # "list"
    BY <1>2, <1>6, SchemaAssumption
  <2>2. Node(Shape(q)).kind # "root"
    BY <1>2, <1>3, SchemaAssumption
  <2>3. Shape(q) \in DataShapes
    BY <1>2, <1>5, <2>1, <2>2 DEF DataShapes
  <2>4. Node(Shape(q)).sid \in SIDs
    BY <2>3 DEF SIDs
  <2>5. ShapeOf(Node(Shape(q)).sid) = Shape(q)
    <3>1. /\ ShapeOf(Node(Shape(q)).sid) \in DataShapes
          /\ Node(ShapeOf(Node(Shape(q)).sid)).sid = Node(Shape(q)).sid
      BY <2>4, ParentShape
    <3> QED  BY <2>3, <3>1, SchemaAssumption
  <2> QED  BY <1>3, <2>4, <2>5 DEF schemaParents
<1> QED  BY <1>1, <1>5, <1>6

\* Every step of a walk adds only what the schema says.
LEMMA WalkNodeKeeps ==
  ASSUME IInv, WalkNode
  PROVE  IInv'
<1> DEFINE call == CHOOSE c \in frontier : TRUE
           children == IF call.depth > MaxRecursion THEN {} ELSE Children(call.node)
           sids == IF root[call.node].type = "MAP"
                   THEN {ChildSID(call, q) : q \in children} ELSE {}
           parents(sid) == IF sid \in DOMAIN clookup THEN clookup[sid] ELSE <<>>
<1>1. /\ pc = "walk" /\ frontier # {}
      /\ clookup' = [sid \in DOMAIN clookup \cup sids |->
                       IF sid \in sids THEN addUniqueLong(parents(sid), call.parentSID)
                                       ELSE parents(sid)]
      /\ frontier' = (frontier \ {call}) \cup
           {[node |-> q, parentSID |-> ChildSID(call, q), depth |-> call.depth + 1] :
              q \in children}
      /\ UNCHANGED <<root, ctx, pc>>
  BY DEF WalkNode
<1>2. call \in frontier
  BY <1>1
<1>3. \A c \in frontier : c.node \in DOMAIN root /\ c.parentSID = Node(Shape(c.node)).sid
  BY <1>1 DEF IInv, TypeOK
<1>4. call.node \in DOMAIN root /\ call.parentSID = Node(Shape(call.node)).sid
  BY <1>2, <1>3
<1>5. children \subseteq Children(call.node)
  OBVIOUS
<1> HIDE DEF call, children
<1>6. Conforms(root, <<>>)
  BY DEF IInv, TypeOK
<1>7. \A q \in children :
        /\ q \in DOMAIN root /\ ChildSID(call, q) = Node(Shape(q)).sid
        /\ root[call.node].type = "MAP" =>
             ChildSID(call, q) \in SIDs /\ schemaParents[ChildSID(call, q)] = call.parentSID
  BY <1>4, <1>5, <1>6, ChildOf DEF ChildSID
<1>8. \A c \in frontier' : c.node \in DOMAIN root /\ c.parentSID = Node(Shape(c.node)).sid
  BY <1>1, <1>3, <1>7
<1>9. \A sid \in sids : sid \in SIDs /\ schemaParents[sid] = call.parentSID
  BY <1>7
<1>10. \A sid \in DOMAIN clookup : sid \in SIDs /\ clookup[sid] = <<schemaParents[sid]>>
  BY DEF IInv, TablesAgree
<1> HIDE DEF sids
<1>11. ASSUME NEW sid \in sids
       PROVE  addUniqueLong(parents(sid), call.parentSID) = <<schemaParents[sid]>>
  <2>1. schemaParents[sid] = call.parentSID
    BY <1>9
  <2>2. CASE sid \in DOMAIN clookup
    <3>1. parents(sid) = <<call.parentSID>>
      BY <1>10, <2>1, <2>2
    <3>2. call.parentSID \in ToSet(<<call.parentSID>>)
      BY DEF ToSet
    <3> QED  BY <2>1, <3>1, <3>2 DEF addUniqueLong
  <2>3. CASE sid \notin DOMAIN clookup
    <3>1. parents(sid) = <<>>
      BY <2>3
    <3>2. \A x : x \notin ToSet(<<>>)
      BY DEF ToSet
    <3>3. Append(<<>>, schemaParents[sid]) = <<schemaParents[sid]>>
      OBVIOUS
    <3>4. addUniqueLong(parents(sid), call.parentSID)
            = addUniqueLong(<<>>, schemaParents[sid])
      BY <2>1, <3>1
    <3> QED  BY <3>2, <3>3, <3>4 DEF addUniqueLong
  <2> QED  BY <2>2, <2>3
<1>12. TablesAgree'
  <2>1. DOMAIN clookup' = DOMAIN clookup \cup sids
    BY <1>1
  <2>2. \A sid \in DOMAIN clookup' :
          clookup'[sid] = IF sid \in sids THEN addUniqueLong(parents(sid), call.parentSID)
                                          ELSE parents(sid)
    BY <1>1
  <2> QED  BY <1>9, <1>10, <1>11, <2>1, <2>2 DEF TablesAgree
<1>13. Conforms(root, <<>>)' /\ UniqueEntries' /\ ContextOK'
  BY <1>1 DEF IInv, TypeOK, UniqueEntries, ContextOK
<1> QED  BY <1>1, <1>8, <1>12, <1>13 DEF IInv, TypeOK, IdleOK

-----------------------------------------------------------------------------
(* The invariant, and what follows from it *)

\* The code's own steps keep the invariant.
LEMMA StepKeeps == IInv /\ Step => IInv'
<1> SUFFICES ASSUME IInv, Step PROVE IInv'
  OBVIOUS
<1>1. CASE FindParent
  BY <1>1, FindParentKeeps
<1>2. CASE FindFails
  BY <1>2, SameContextReturn DEF FindFails
<1>3. CASE FindReturns
  BY <1>3, FindReturnsKeeps
<1>4. CASE ExamineStep
  BY <1>4, ExamineStepKeeps
<1>5. CASE ExamineFails
  BY <1>5, SameContextReturn DEF ExamineFails
<1>6. CASE ExamineReturns
  BY <1>6, SameContextReturn DEF ExamineReturns
<1>7. CASE NavigateStep
  BY <1>7, NavigateStepKeeps
<1>8. CASE NavigateFails
  BY <1>8, SameContextReturn DEF NavigateFails
<1>9. CASE InsertValue
  BY <1>9, InsertValueKeeps
<1>10. CASE UpdateListEntry
  BY <1>10, UpdateListEntryKeeps
<1>11. CASE StoreFails
  BY <1>11, SameContextReturn DEF StoreFails
<1>12. CASE WalkNode
  BY <1>12, WalkNodeKeeps
<1>13. CASE WalkReturns
  BY <1>13, SameContextReturn DEF WalkReturns
<1> QED
  BY <1>1, <1>2, <1>3, <1>4, <1>5, <1>6, <1>7, <1>8, <1>9, <1>10, <1>11, <1>12, <1>13 DEF Step

\* A client's calls keep the invariant.
LEMMA CallKeeps == IInv /\ Call => IInv'
<1> SUFFICES ASSUME IInv, Call PROVE IInv'
  OBVIOUS
<1>1. CASE \E sid \in DOMAIN KeyLists : \E ks \in KeyLists[sid] : FindRequirementForSID(sid, ks)
  BY <1>1, FindBegins
<1>2. CASE ExamineCoreconfValue
  BY <1>2, ExamineBegins
<1>3. CASE FreeContext
  BY <1>3, FreeContextKeeps
<1>4. CASE Write
  BY <1>4, WriteKeeps
<1>5. CASE BuildCLookupHashmap
  BY <1>5, BuildKeeps
<1> QED  BY <1>1, <1>2, <1>3, <1>4, <1>5 DEF Call

\* Stuttering keeps the invariant.
LEMMA StutterKeeps == IInv /\ UNCHANGED vars => IInv'
<1> SUFFICES ASSUME IInv, UNCHANGED vars PROVE IInv'
  OBVIOUS
<1>1. UNCHANGED <<root, clookup, ctx, pc, currentSID, path, subTree, previousSID, keys, value,
                  frontier, asked, result>>
  BY DEF vars, locals
<1>2. Conforms(root, <<>>)' /\ UniqueEntries' /\ TablesAgree'
  BY <1>1, Undisturbed
<1>3. ContextOK' /\ IdleOK'
  BY <1>1 DEF IInv, TypeOK, ContextOK, IdleOK
<1>4. (pc = "find" => FindOK)'
  BY <1>1 DEF IInv, TypeOK, FindOK
<1>5. (pc \in {"examine", "navigate"} => DescentOK)'
  BY <1>1 DEF IInv, TypeOK, DescentOK
<1>6. (pc = "navigate" => ValueOK)'
  BY <1>1 DEF IInv, TypeOK, ValueOK
<1>7. (pc = "walk" => \A call \in frontier : /\ call.node \in DOMAIN root
                                            /\ call.parentSID = Node(Shape(call.node)).sid)'
  BY <1>1 DEF IInv, TypeOK
<1>8. (pc \in {"idle", "find", "examine", "navigate", "walk"})'
  BY <1>1 DEF IInv, TypeOK
<1> QED  BY <1>2, <1>3, <1>4, <1>5, <1>6, <1>7, <1>8 DEF IInv, TypeOK

\* The inductive invariant holds of every behaviour.
THEOREM Invariance == Spec => []IInv
<1>1. IInv /\ [Next]_vars => IInv'
  BY CallKeeps, StepKeeps, StutterKeeps DEF Next
<1> QED  BY InitHolds, <1>1, PTL DEF Spec

\* Whatever instance is loaded and whatever is written, the instance stays one
\* of its schema and no call ever stands on a node that is not there or that
\* is not the one its path speaks of.
THEOREM TypeCorrect == Spec => []TypeOK
<1>1. IInv => TypeOK
  BY DEF IInv
<1> QED  BY Invariance, <1>1, PTL

\* The table of parents built from an instance says the same of a SID as the
\* static table of the generated model: the parent the schema gives it.
THEOREM ParentsAgree == Spec => []TablesAgree
<1>1. IInv => TablesAgree
  BY DEF IInv
<1> QED  BY Invariance, <1>1, PTL

\* No sequence of writes puts two entries with equal keys into a list.
THEOREM KeysStayUnique == Spec => []UniqueEntries
<1>1. IInv => UniqueEntries
  BY DEF IInv
<1> QED  BY Invariance, <1>1, PTL

-----------------------------------------------------------------------------
(* What a write may touch *)

\* Outside q, Put changes nothing.
LEMMA PutElsewhere ==
  ASSUME NEW t, NEW q \in Positions, NEW v,
         DOMAIN t \subseteq Positions, DOMAIN v \subseteq Positions,
         NEW p \in DOMAIN t \cup DOMAIN Put(t, q, v), ~IsPrefix(q, p)
  PROVE  p \in DOMAIN t /\ p \in DOMAIN Put(t, q, v) /\ Put(t, q, v)[p] = t[p]
<1>1. IsPut(Put(t, q, v), t, q, v)
  BY PutCells
<1>2. p \in DOMAIN t
  BY <1>1 DEF IsPut
<1> QED  BY <1>1, <1>2 DEF IsPut

\* The value under way is made of positions.
LEMMA ValuePositions ==
  ASSUME IInv, pc = "navigate"
  PROVE  DOMAIN root \subseteq Positions /\ DOMAIN value \subseteq Positions
  BY DEF IInv, TypeOK, ValueOK, Conforms, Placed

\* What putting a value into a container changes of the instance.
LEMMA InsertChanges ==
  ASSUME IInv, InsertValue
  PROVE  /\ result'.op = "write" /\ result'.ret = 0
         /\ \A p \in DOMAIN root \cup DOMAIN root' :
              \/ IsPrefix(result'.node, p)
              \/ /\ p \in DOMAIN root /\ p \in DOMAIN root'
                 /\ root'[p].type = root[p].type
                 /\ p = Front(result'.node) \/ root'[p] = root[p]
<1> DEFINE q == Append(subTree, Key(finalDeltaSID))
<1>1. result'.op = "write" /\ result'.ret = 0 /\ result'.node = q
  BY DEF InsertValue, Return, Answer
<1>2. root' = Put(root, q, value)
  BY DEF InsertValue, insertCoreconfHashMap
<1>3. DOMAIN root \subseteq Positions /\ DOMAIN value \subseteq Positions
  BY ValuePositions DEF InsertValue, ParentFound
<1>4. q \in Positions
  <2>1. Conforms(root, <<>>)
    BY DEF IInv, TypeOK
  <2> QED  BY <2>1, ParentIs, ChildPosition DEF InsertValue
<1> HIDE DEF q
<1>5. \A p \in DOMAIN root \cup DOMAIN root' :
        ~IsPrefix(q, p) => p \in DOMAIN root /\ p \in DOMAIN root' /\ root'[p] = root[p]
  BY <1>2, <1>3, <1>4, PutElsewhere
<1> QED  BY <1>1, <1>5

\* What putting an entry into a list changes of the instance.
LEMMA UpdateChanges ==
  ASSUME IInv, UpdateListEntry
  PROVE  /\ result'.op = "write" /\ result'.ret = 0
         /\ \A p \in DOMAIN root \cup DOMAIN root' :
              \/ IsPrefix(result'.node, p)
              \/ /\ p \in DOMAIN root /\ p \in DOMAIN root'
                 /\ root'[p].type = root[p].type
                 /\ p = Front(result'.node) \/ root'[p] = root[p]
<1> DEFINE a == arrayValue
           i == WrittenIndex
           size == IF i > root[a].val THEN i ELSE root[a].val
           u == [root EXCEPT ![a].val = size]
           q == Append(a, Elem(i))
<1>1. result'.op = "write" /\ result'.ret = 0 /\ result'.node = q
  BY DEF UpdateListEntry, Return, Answer
<1>2. root' = Put(u, q, value)
  BY DEF UpdateListEntry, updateCoreconfArrayByKeys, WrittenIndex
<1>3. DOMAIN root \subseteq Positions /\ DOMAIN value \subseteq Positions
  BY ValuePositions DEF UpdateListEntry, ParentFound
<1>4. Conforms(root, <<>>) /\ UniqueKeys(root, <<>>)
  BY DEF IInv, TypeOK, UniqueEntries
<1>5. /\ ctx.sid \in SIDs /\ subTree \in DOMAIN root /\ root[subTree].type = "MAP"
      /\ Node(Shape(subTree)).sid = schemaParents[ctx.sid]
      /\ finalDeltaSID = ctx.sid - schemaParents[ctx.sid]
  BY ParentIs DEF UpdateListEntry
<1>6. a \in DOMAIN root /\ root[a].type = "ARRAY" /\ a = Append(subTree, Key(finalDeltaSID))
  BY DEF UpdateListEntry, NoArray, arrayValue, getCoreconfHashMap
<1>7. Node(Shape(a)).sid = ctx.sid
  BY <1>4, <1>5, <1>6, ChildPosition, ParentShape
<1>8. a \in Positions /\ Elem(i) \in Steps /\ q \in Positions /\ Front(q) = a
  <2>1. i \in 1 .. root[a].val + 1 /\ root[a].val \in Nat
    BY <1>4, <1>6, <1>7, EntryIndexIs DEF WrittenIndex
  <2>2. a \in Positions /\ Elem(i) \in Steps
    BY <1>3, <1>6, <2>1, StepTypes
  <2> QED  BY <2>2, ShapeAppend, FrontLastAppend DEF Positions, Steps
<1>9. /\ DOMAIN u = DOMAIN root
      /\ \A p \in DOMAIN root : u[p].type = root[p].type /\ (p = a \/ u[p] = root[p])
  <2>1. Placed(root, <<>>, a)
    BY <1>4, <1>6 DEF Conforms
  <2>2. root[a] \in Cells
    BY <2>1 DEF Placed
  <2> QED  BY <1>6, <2>2 DEF Cells
<1> HIDE DEF q, u
<1>10. \A p \in DOMAIN u \cup DOMAIN root' :
         ~IsPrefix(q, p) => p \in DOMAIN u /\ p \in DOMAIN root' /\ root'[p] = u[p]
  BY <1>2, <1>3, <1>8, <1>9, PutElsewhere
<1> QED  BY <1>1, <1>8, <1>9, <1>10

\* Every other step leaves the instance alone.
LEMMA OthersKeepRoot ==
  ASSUME [Next]_vars, ~InsertValue, ~UpdateListEntry
  PROVE  root' = root
<1>1. CASE Call
  BY <1>1 DEF Call, FindRequirementForSID, ExamineCoreconfValue, FreeContext, Write,
       HandlerRejects, UserFunctionFails, UserFunctionSucceeds, UpdateValueBySID, BeginNavigate,
       BuildCLookupHashmap
<1>2. CASE Step
  BY <1>2 DEF Step, FindParent, FindFails, FindReturns, ExamineStep, ExamineFails,
       ExamineReturns, NavigateStep, NavigateFails, StoreFails, WalkNode, WalkReturns
<1>3. CASE UNCHANGED vars
  BY <1>3 DEF vars
<1> QED  BY <1>1, <1>2, <1>3 DEF Next

\* Only the last step of a successful write changes the instance, and it
\* changes nothing outside the node written but the size of its list.
THEOREM WritesAreLocal == Spec => OnlyTargetChanges
<1> DEFINE A == root' # root =>
                  /\ result'.op = "write" /\ result'.ret = 0
                  /\ \A p \in DOMAIN root \cup DOMAIN root' :
                       \/ IsPrefix(result'.node, p)
                       \/ /\ p \in DOMAIN root /\ p \in DOMAIN root'
                          /\ root'[p].type = root[p].type
                          /\ p = Front(result'.node) \/ root'[p] = root[p]
<1>1. IInv /\ [Next]_vars => [A]_vars
  <2> SUFFICES ASSUME IInv, [Next]_vars PROVE A
    OBVIOUS
  <2>1. CASE InsertValue
    BY <2>1, InsertChanges
  <2>2. CASE UpdateListEntry
    BY <2>2, UpdateChanges
  <2>3. CASE ~InsertValue /\ ~UpdateListEntry
    BY <2>3, OthersKeepRoot
  <2> QED  BY <2>1, <2>2, <2>3
<1> QED  BY Invariance, <1>1, PTL DEF Spec, OnlyTargetChanges
-----------------------------------------------------------------------------
(* A walk comes by every node *)

\* The call has still to come by p.
Above(call, p) == IsPrefix(call.node, p) /\ call.node # p

WalkOK ==
  pc = "walk" =>
    /\ \A call \in frontier : call.depth = Len(call.node)
    /\ \A p \in DOMAIN root \ {<<>>} :
         Node(Shape(p)).sid \in DOMAIN clookup \/ \E call \in frontier : Above(call, p)

\* The walk begins above everything.
LEMMA WalkBegins ==
  ASSUME Conforms(root, <<>>), frontier = {[node |-> <<>>, parentSID |-> 0, depth |-> 0]}
  PROVE  WalkOK
<1> DEFINE top == [node |-> <<>>, parentSID |-> 0, depth |-> 0]
<1>1. top \in frontier /\ \A call \in frontier : call.depth = Len(call.node)
  OBVIOUS
<1>2. ASSUME NEW p \in DOMAIN root \ {<<>>}
      PROVE  Above(top, p)
  <2>1. p \in Seq(Int \X Nat)
    BY <1>2, RootCell DEF Positions
  <2> QED  BY <2>1, PrefixEnds DEF Above
<1> QED  BY <1>1, <1>2 DEF WalkOK

\* Between a node and one further down is a child of the first, which is the
\* second one or above it.
LEMMA ChildBetween ==
  ASSUME Conforms(root, <<>>), NEW p \in DOMAIN root, NEW n \in DOMAIN root, IsPrefix(n, p), n # p
  PROVE  /\ Len(n) < Len(p) /\ root[n].type \in {"MAP", "ARRAY"}
         /\ \E q \in Children(n) : IsPrefix(q, p)
<1> DEFINE S == Int \X Nat
           k == Len(n) + 1
           q == SubSeq(p, 1, k)
<1>1. p \in Seq(S) /\ n \in Seq(S) /\ Len(p) \in Nat /\ Len(n) \in Nat
  BY RootCell DEF Positions
<1>2. Len(n) <= Len(p) /\ \A i \in 1 .. Len(n) : n[i] = p[i]
  BY <1>1, PrefixPoints
<1>3. Len(n) # Len(p)
  <2> SUFFICES ASSUME Len(n) = Len(p)
               PROVE  n = p
    OBVIOUS
  <2> QED  BY <1>1, <1>2, SeqEqual
<1>4. Len(n) < Len(p) /\ k \in 0 .. Len(p) /\ k \in Nat
  BY <1>1, <1>2, <1>3
<1> HIDE DEF k
<1>5. q \in Seq(S) /\ Len(q) = k /\ IsPrefix(q, p) /\ \A i \in 1 .. k : q[i] = p[i]
  BY <1>1, <1>4, PrefixOfLength
<1> HIDE DEF q
<1>6. q \in DOMAIN root
  <2>1. <<>> \in Shapes
    BY SchemaAssumption
  <2> QED  BY <1>5, <2>1, PrefixesThere DEF Positions
<1>7. q # <<>>
  BY <1>1, <1>5 DEF k
<1>8. Front(q) \in Seq(S) /\ Len(Front(q)) = Len(n) /\ Len(Front(q)) \in Nat
  <2>1. Front(q) \in Seq(S) /\ Len(Front(q)) = Len(q) - 1
    BY <1>5, <1>7, FrontLast
  <2> QED  BY <1>1, <1>5, <2>1 DEF k
<1>9. IsPrefix(Front(q), q)
  <2>1. Last(q) \in S /\ q = Append(Front(q), Last(q))
    BY <1>5, <1>7, FrontLast
  <2> DEFINE f == Front(q)
             x == Last(q)
  <2>2. f \in Seq(S) /\ x \in S /\ q = Append(f, x)
    BY <1>8, <2>1
  <2> HIDE DEF f, x
  <2>3. IsPrefix(f, f)
    BY <2>2, PrefixEnds
  <2>4. IsPrefix(f, Append(f, x))
    BY <2>2, <2>3, PrefixAppend
  <2> QED  BY <2>2, <2>4 DEF f
<1>10. Front(q) = n
  <2>1. IsPrefix(Front(q), p)
    BY <1>1, <1>5, <1>8, <1>9, PrefixesNest
  <2>2. \A i \in 1 .. Len(n) : Front(q)[i] = p[i]
    BY <1>1, <1>8, <2>1, PrefixPoints
  <2> QED  BY <1>1, <1>2, <1>8, <2>2, SeqEqual
<1>11. q \in Children(n)
  BY <1>6, <1>7, <1>10 DEF Children
<1>12. root[n].type \in {"MAP", "ARRAY"}
  <2>1. /\ Shape(q) \in Shapes /\ Shape(q) # <<>> /\ Front(Shape(q)) = Shape(n)
    BY <1>6, <1>7, <1>10, RootCell, ShapeFront
  <2>2. Node(Front(Shape(q))).type \in {"MAP", "ARRAY"}
    BY <2>1, SchemaAssumption
  <2> QED  BY <2>1, <2>2, RootCell
<1> QED  BY <1>4, <1>5, <1>11, <1>12

\* A call puts the SIDs of its node's children into the table, or leaves them
\* to the call before it, and its own calls come by what is further down.
LEMMA WalkNodeCovers ==
  ASSUME IInv, WalkOK, WalkNode, \A s \in Shapes : Len(s) <= MaxRecursion + 1
  PROVE  WalkOK'
<1> DEFINE call == CHOOSE c \in frontier : TRUE
           children == IF call.depth > MaxRecursion THEN {} ELSE Children(call.node)
           sids == IF root[call.node].type = "MAP"
                   THEN {ChildSID(call, q) : q \in children} ELSE {}
           Calls(q) == [node |-> q, parentSID |-> ChildSID(call, q), depth |-> call.depth + 1]
<1>1. /\ pc = "walk" /\ frontier # {} /\ root' = root
      /\ DOMAIN clookup' = DOMAIN clookup \cup sids
      /\ frontier' = (frontier \ {call}) \cup {Calls(q) : q \in children}
  BY DEF WalkNode
<1>2. call \in frontier
  BY <1>1
<1>3. \A c \in frontier : c.node \in DOMAIN root /\ c.parentSID = Node(Shape(c.node)).sid
                          /\ c.depth = Len(c.node)
  BY <1>1 DEF IInv, TypeOK, WalkOK
<1>4. Conforms(root, <<>>) /\ MaxRecursion \in Nat
  BY InstanceAssumption DEF IInv, TypeOK
<1>5. children \subseteq Children(call.node)
  OBVIOUS
<1>6. call.depth <= MaxRecursion => children = Children(call.node)
  <2>1. call.depth \in Nat
    <3>1. call.node \in Seq(Int \X Nat)
      BY <1>2, <1>3, <1>4, RootCell DEF Positions
    <3> QED  BY <1>2, <1>3, <3>1
  <2> QED  BY <1>4, <2>1
<1>7. \A q \in children : Calls(q).node = q /\ Calls(q).depth = call.depth + 1
  OBVIOUS
<1>8. root[call.node].type = "MAP" => sids = {ChildSID(call, q) : q \in children}
  OBVIOUS
<1> HIDE DEF call, children, sids, Calls
<1>9. \A c \in frontier' : c.depth = Len(c.node)
  <2>1. ASSUME NEW q \in children
        PROVE  Len(q) = call.depth + 1
    <3>1. q \in DOMAIN root /\ q # <<>> /\ Front(q) = call.node
      BY <1>5, <2>1 DEF Children
    <3>2. Len(q) = Len(Front(q)) + 1
      BY <1>4, <3>1, Cell, SchemaAssumption
    <3> QED  BY <1>2, <1>3, <3>1, <3>2
  <2> QED  BY <1>1, <1>3, <1>7, <2>1
<1>10. ASSUME NEW p \in DOMAIN root, p # <<>>
       PROVE  Node(Shape(p)).sid \in DOMAIN clookup' \/ \E c \in frontier' : Above(c, p)
  <2>1. CASE Node(Shape(p)).sid \in DOMAIN clookup
    BY <1>1, <2>1
  <2>2. CASE \E c \in frontier \ {call} : Above(c, p)
    BY <1>1, <2>2
  <2>3. CASE Above(call, p)
    <3>1. /\ Len(call.node) < Len(p) /\ root[call.node].type \in {"MAP", "ARRAY"}
          /\ \E q \in Children(call.node) : IsPrefix(q, p)
      BY <1>2, <1>3, <1>4, <1>10, <2>3, ChildBetween DEF Above
    <3>2. PICK q \in Children(call.node) : IsPrefix(q, p)
      BY <3>1
    <3>3. q \in children
      <4>1. /\ p \in Seq(Int \X Nat) /\ call.node \in Seq(Int \X Nat)
            /\ Len(Shape(p)) = Len(p) /\ Shape(p) \in Shapes
        BY <1>2, <1>3, <1>4, <1>10, RootCell, ShapeType DEF Positions
      <4>2. Len(p) <= MaxRecursion + 1 /\ Len(p) \in Nat /\ Len(call.node) \in Nat
        BY <4>1
      <4>3. Len(call.node) <= MaxRecursion
        BY <1>4, <3>1, <4>2
      <4> QED  BY <1>2, <1>3, <1>6, <4>3
    <3>4. CASE q # p
      <4>1. Above(Calls(q), p) /\ Calls(q) \in frontier'
        BY <1>1, <1>7, <3>2, <3>3, <3>4 DEF Above
      <4> QED  BY <4>1
    <3>5. CASE q = p /\ root[call.node].type = "MAP"
      <4>1. Node(Shape(p)).sid = ChildSID(call, p)
        BY <1>2, <1>3, <1>4, <3>2, <3>5, ChildOf DEF ChildSID
      <4> QED  BY <1>1, <1>8, <3>3, <3>5, <4>1
    <3>6. CASE q = p /\ root[call.node].type = "ARRAY"
      <4>1. Node(Shape(p)).sid = Node(Shape(call.node)).sid
        <5>1. /\ Shape(p) \in Shapes /\ Shape(call.node) \in Shapes
              /\ Node(Shape(call.node)).type = "ARRAY" /\ Front(p) = call.node
          BY <1>2, <1>3, <1>4, <1>10, <3>2, <3>6, RootCell DEF Children
        <5>2. Shape(p) # <<>> /\ Front(Shape(p)) = Shape(call.node)
          BY <1>4, <1>10, <5>1, RootCell, ShapeFront
        <5>3. Node(Shape(call.node)).kind = "list"
          BY <5>1, SchemaAssumption
        <5>4. Node(Shape(p)).kind = "entry"
          BY <5>1, <5>2, <5>3, SchemaAssumption
        <5> QED  BY <5>1, <5>2, <5>4, EntryHasKeyMapping
      <4>2. call.node # <<>>
        <5>1. root[<<>>].type = "MAP"
          <6>1. <<>> \in DOMAIN root /\ Shape(<<>>) = <<>>
            BY <1>4 DEF Conforms, Shape
          <6> QED  BY <1>4, <6>1, RootCell, SchemaAssumption DEF Node
        <5> QED  BY <3>6, <5>1
      <4>3. CASE Node(Shape(call.node)).sid \in DOMAIN clookup
        BY <1>1, <4>1, <4>3
      <4>4. CASE \E c \in frontier : Above(c, call.node)
        <5>1. PICK c \in frontier : Above(c, call.node)
          BY <4>4
        <5>2. c # call
          BY <5>1 DEF Above
        <5>3. Above(c, p)
          <6>1. /\ c.node \in Seq(Int \X Nat) /\ call.node \in Seq(Int \X Nat)
                /\ p \in Seq(Int \X Nat) /\ IsPrefix(c.node, call.node) /\ IsPrefix(call.node, p)
            BY <1>2, <1>3, <1>4, <1>10, <2>3, <5>1, RootCell DEF Positions, Above
          <6>2. IsPrefix(c.node, p)
            BY <6>1, PrefixesNest
          <6>3. Len(c.node) <= Len(call.node) /\ Len(call.node) < Len(p)
            BY <3>1, <6>1, PrefixPoints
          <6>4. c.node # p
            BY <6>1, <6>3
          <6> QED  BY <6>2, <6>4 DEF Above
        <5> QED  BY <1>1, <5>1, <5>2, <5>3
      <4> QED  BY <1>1, <1>2, <1>3, <4>2, <4>3, <4>4 DEF WalkOK
    <3> QED  BY <3>1, <3>4, <3>5, <3>6
  <2> QED  BY <1>1, <1>10, <2>1, <2>2, <2>3 DEF WalkOK
<1> QED  BY <1>1, <1>9, <1>10 DEF WalkOK, Above

\* Every step keeps it.
LEMMA WalkOKKept ==
  ASSUME IInv, WalkOK, [Next]_vars, \A s \in Shapes : Len(s) <= MaxRecursion + 1
  PROVE  WalkOK'
<1>1. CASE WalkNode
  BY <1>1, WalkNodeCovers
<1>2. CASE BuildCLookupHashmap
  <2>1. (Conforms(root, <<>>) /\ frontier = {[node |-> <<>>, parentSID |-> 0, depth |-> 0]})'
    BY <1>2 DEF BuildCLookupHashmap, IInv, TypeOK
  <2>2. (Conforms(root, <<>>) /\ frontier = {[node |-> <<>>, parentSID |-> 0, depth |-> 0]}
           => WalkOK)'
    BY WalkBegins, PTL
  <2> QED  BY <2>1, <2>2
<1>3. CASE UNCHANGED vars
  BY <1>3 DEF vars, locals, WalkOK
<1>4. CASE pc' # "walk"
  BY <1>4 DEF WalkOK
<1>5. CASE Call /\ ~BuildCLookupHashmap
  <2>1. pc' # "walk"
    BY <1>5 DEF Call, FindRequirementForSID, ExamineCoreconfValue, FreeContext, Write,
         HandlerRejects, UserFunctionFails, UserFunctionSucceeds, UpdateValueBySID, BeginNavigate,
         Return
  <2> QED  BY <1>4, <2>1
<1>6. CASE Step /\ ~WalkNode
  <2>1. pc' # "walk"
    BY <1>6 DEF Step, FindParent, FindFails, FindReturns, ExamineStep, ExamineFails, ExamineReturns,
         NavigateStep, NavigateFails, InsertValue, UpdateListEntry, StoreFails, WalkReturns, Return
  <2> QED  BY <1>4, <2>1
<1> QED  BY <1>1, <1>2, <1>3, <1>5, <1>6 DEF Next

\* When ccoreconfModelBuildCLookupHashmap returns, findRequirementForSID finds
\* every node there is, for a schema that is not deeper than
\* MAX_CORECONF_RECURSION_DEPTH lets it go.
THEOREM WalksComplete ==
  ASSUME \A s \in Shapes : Len(s) <= MaxRecursion + 1
  PROVE  Spec => WalkIsComplete
<1> DEFINE A == pc = "walk" /\ pc' = "idle" =>
                  \A p \in DOMAIN root : Shape(p) # <<>> => Node(Shape(p)).sid \in DOMAIN clookup
<1>1. Init => WalkOK
  <2> SUFFICES ASSUME Init, pc = "walk"
               PROVE  WalkOK
    BY DEF WalkOK
  <2>1. Conforms(root, <<>>) /\ frontier = {[node |-> <<>>, parentSID |-> 0, depth |-> 0]}
    BY InstanceAssumption DEF Init
  <2> QED  BY <2>1, WalkBegins
<1>2. IInv /\ WalkOK /\ [Next]_vars => WalkOK'
  BY WalkOKKept
<1>3. IInv /\ WalkOK /\ [Next]_vars => [A]_vars
  <2> SUFFICES ASSUME IInv, WalkOK, [Next]_vars, pc = "walk", pc' = "idle",
                      NEW p \in DOMAIN root, Shape(p) # <<>>
               PROVE  Node(Shape(p)).sid \in DOMAIN clookup
    OBVIOUS
  <2>1. frontier = {}
    BY DEF Next, Call, Step, FindRequirementForSID, ExamineCoreconfValue, FreeContext, Write,
         BuildCLookupHashmap, FindParent, FindFails, FindReturns, ExamineStep, ExamineFails,
         ExamineReturns, NavigateStep, NavigateFails, ParentFound, InsertValue, UpdateListEntry,
         StoreFails, WalkNode, WalkReturns, vars
  <2>2. p # <<>>
    BY DEF Shape
  <2> QED  BY <2>1, <2>2 DEF WalkOK
<1> QED  BY Invariance, <1>1, <1>2, <1>3, PTL DEF Spec, WalkIsComplete
=============================================================================
