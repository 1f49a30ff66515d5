--------------------------- MODULE RoundTripProofs ---------------------------
(***************************************************************************)
(* What is decoded is what was encoded: the induction is along the buffer  *)
(* for the encoder, which has a to-do list before each item, and along the *)
(* stack for the decoder, each of whose calls knows how much of a position *)
(* of the value it has read and what of the to-do list is left for it.     *)
(***************************************************************************)
EXTENDS SerializationProofs

-----------------------------------------------------------------------------
(* The value that is encoded *)

\* The children of a position, in the order in which they are encoded.
IsOrder(v, p, order) ==
  /\ order \in Seq(DOMAIN v)
  /\ \A i, j \in DOMAIN order : order[i] = order[j] => i = j
  /\ {order[i] : i \in DOMAIN order} = Children(v, p)
  /\ v[p].type \in {"ARRAY", "MAP"} => Len(order) = v[p].val
  /\ v[p].type = "ARRAY" => \A i \in DOMAIN order : order[i] = Append(p, Elem(i))

\* What an integer is decoded as: its least width, and no sign if it has none.
NormalCell(c) ==
  IF c.type \notin {"UINT", "INT"} THEN c
  ELSE IF c.val >= 0 THEN Cell("UINT", UintWidth(c.val), c.val)
  ELSE Cell("INT", IntWidth(c.val), c.val)

\* The limits of the decoder at a position.
LimitAt(v, p) ==
  /\ Len(p) <= CORECONF_MAX_DEPTH
  /\ v[p].type = "MAP" => v[p].val <= CORECONF_MAX_LOOP + 1
  /\ v[p].type = "TAG" => v[p].val <= 2 * Largest[32] + 1

\* A position is a sequence of steps.
LEMMA PositionSteps == Positions = Seq(Steps) /\ <<>> \in Positions
BY DEF Positions, Steps

\* What IsValue says of a position.
LEMMA ValueAt ==
  ASSUME NEW v \in Values, NEW p \in DOMAIN v
  PROVE  /\ p \in Positions /\ v[p] \in Cells /\ Fits(v[p]) /\ (p # <<>> => Front(p) \in DOMAIN v)
         /\ v[p].type = "ARRAY" =>
              v[p].val >= 0 /\ Children(v, p) = {Append(p, Elem(i)) : i \in 1 .. v[p].val}
         /\ v[p].type = "MAP" =>
              v[p].val = Cardinality(Children(v, p)) /\ \A q \in Children(v, p) : Last(q)[1] = "key"
         /\ v[p].type = "TAG" => Children(v, p) = {Append(p, Content)}
         /\ v[p].type \notin {"ARRAY", "MAP", "TAG"} => Children(v, p) = {}
<1>1. IsValue(v)
  BY SerializationAssumption
<1>2. p \in Positions /\ v[p] \in Cells /\ Fits(v[p]) /\ (p # <<>> => Front(p) \in DOMAIN v)
  BY <1>1 DEF IsValue
<1>3. CASE v[p].type = "ARRAY"
  BY <1>1, <1>2, <1>3 DEF IsValue
<1>4. CASE v[p].type = "MAP"
  BY <1>1, <1>2, <1>4 DEF IsValue
<1>5. CASE v[p].type = "TAG"
  BY <1>1, <1>2, <1>5 DEF IsValue
<1>6. CASE v[p].type \notin {"ARRAY", "MAP", "TAG"}
  BY <1>1, <1>2, <1>6 DEF IsValue
<1> QED BY <1>2, <1>3, <1>4, <1>5, <1>6

\* A child is its parent and one step more.
LEMMA ChildStep ==
  ASSUME NEW v \in Values, NEW p \in DOMAIN v, NEW c \in Children(v, p)
  PROVE  /\ c \in DOMAIN v /\ c \in Positions /\ c # <<>> /\ Front(c) = p /\ Last(c) \in Steps
         /\ c = Append(p, Last(c)) /\ Len(c) = Len(p) + 1
<1>1. c \in DOMAIN v /\ c # <<>> /\ Front(c) = p
  BY DEF Children
<1>2. c \in Seq(Steps) /\ p \in Seq(Steps)
  BY <1>1, ValueAt, PositionSteps
<1>3. Last(c) \in Steps /\ c = Append(Front(c), Last(c)) /\ Len(Front(c)) = Len(c) - 1
  BY <1>1, <1>2, FrontLast
<1>4. Len(c) = Len(p) + 1
  BY <1>1, <1>2, <1>3
<1> QED BY <1>1, <1>2, <1>3, <1>4, PositionSteps

\* A position and one step more is a child, if it is there.
LEMMA StepChild ==
  ASSUME NEW v \in Values, NEW p \in DOMAIN v, NEW s \in Steps, Append(p, s) \in DOMAIN v
  PROVE  Append(p, s) \in Children(v, p) /\ Last(Append(p, s)) = s
<1>1. p \in Seq(Steps)
  BY ValueAt, PositionSteps
<1>2. Append(p, s) # <<>> /\ Front(Append(p, s)) = p /\ Last(Append(p, s)) = s
  BY <1>1, FrontLastAppend
<1> QED BY <1>2 DEF Children

\* With a position, its prefixes are there.
LEMMA PrefixThere ==
  ASSUME NEW v \in Values, NEW p \in Positions, NEW q \in Positions, p \o q \in DOMAIN v
  PROVE  p \in DOMAIN v
<1> DEFINE P == {r \in Seq(Steps) : p \o r \in DOMAIN v => p \in DOMAIN v}
<1>1. p \in Seq(Steps) /\ q \in Seq(Steps)
  BY PositionSteps
<1>2. <<>> \in P
  <2>1. p \o <<>> = p
    BY <1>1
  <2> QED BY <2>1
<1>3. ASSUME NEW r \in Seq(Steps), NEW s \in Steps, r \in P
      PROVE  Append(r, s) \in P
  <2> DEFINE x == p \o r
  <2>1. x \in Seq(Steps) /\ p \o Append(r, s) = Append(x, s) /\ Append(r, s) \in Seq(Steps)
    BY <1>1
  <2> SUFFICES ASSUME p \o Append(r, s) \in DOMAIN v PROVE p \in DOMAIN v
    BY <2>1
  <2> HIDE DEF x
  <2>2. Append(x, s) \in DOMAIN v /\ Append(x, s) # <<>> /\ Front(Append(x, s)) = x
    BY <2>1, FrontLastAppend
  <2>3. x \in DOMAIN v
    BY <2>2, ValueAt
  <2> QED BY <1>3, <2>3 DEF x
<1> HIDE DEF P
<1>4. q \in P
  BY <1>1, <1>2, <1>3, SeqSetInduction
<1> QED BY <1>1, <1>4 DEF P

\* A position and a longer one below it, with the step between them.
LEMMA FirstStep ==
  ASSUME NEW p \in Positions, NEW q \in Positions, q # <<>>
  PROVE  /\ q[1] \in Steps /\ Tail(q) \in Positions /\ q = <<q[1]>> \o Tail(q)
         /\ Append(p, q[1]) \in Positions /\ p \o q = Append(p, q[1]) \o Tail(q)
<1>1. p \in Seq(Steps) /\ q \in Seq(Steps)
  BY PositionSteps
<1>2. /\ q[1] \in Steps /\ Tail(q) \in Seq(Steps) /\ Len(Tail(q)) = Len(q) - 1 /\ Len(q) >= 1
      /\ \A i \in 1 .. Len(Tail(q)) : Tail(q)[i] = q[i + 1]
  BY <1>1
<1> DEFINE t == Tail(q)
           s == q[1]
           x == p \o q
           a == Append(p, s)
           y == a \o t
           z == <<s>> \o t
<1>3. a \in Seq(Steps) /\ Len(a) = Len(p) + 1 /\ a[Len(p) + 1] = s /\ \A i \in 1 .. Len(p) : a[i] = p[i]
  BY <1>1, <1>2
<1>4. x \in Seq(Steps) /\ Len(x) = Len(p) + Len(q)
      /\ \A i \in 1 .. Len(x) : x[i] = IF i <= Len(p) THEN p[i] ELSE q[i - Len(p)]
  BY <1>1
<1> HIDE DEF t, s, a, x
<1>5. y \in Seq(Steps) /\ Len(y) = Len(a) + Len(t)
      /\ \A i \in 1 .. Len(y) : y[i] = IF i <= Len(a) THEN a[i] ELSE t[i - Len(a)]
  BY <1>2, <1>3 DEF t, s
<1>6. z \in Seq(Steps) /\ Len(z) = 1 + Len(t)
      /\ \A i \in 1 .. Len(z) : z[i] = IF i = 1 THEN s ELSE t[i - 1]
  BY <1>2 DEF t, s
<1> HIDE DEF y, z
<1>7. q = z
  <2>1. Len(q) = Len(z)
    BY <1>1, <1>2, <1>6 DEF t
  <2>2. \A i \in 1 .. Len(q) : q[i] = z[i]
    BY <1>1, <1>2, <1>6, <2>1 DEF t, s
  <2> QED BY <1>1, <1>6, <2>1, <2>2
<1>8. x = y
  <2>1. Len(x) = Len(y)
    BY <1>1, <1>2, <1>3, <1>4, <1>5 DEF t
  <2>2. ASSUME NEW i \in 1 .. Len(x) PROVE x[i] = y[i]
    <3>1. CASE i <= Len(p)
      <4>1. i \in 1 .. Len(p) /\ i \in 1 .. Len(y) /\ i <= Len(a)
        BY <1>1, <1>3, <1>4, <2>1, <3>1
      <4>2. y[i] = a[i] /\ x[i] = p[i]
        BY <1>4, <1>5, <3>1, <4>1
      <4> QED BY <1>3, <4>1, <4>2
    <3>2. CASE i = Len(p) + 1
      BY <1>1, <1>3, <1>4, <1>5, <2>1, <3>2 DEF s
    <3>3. CASE i > Len(p) + 1
      <4> DEFINE j == i - Len(a)
      <4>1. j \in 1 .. Len(t) /\ i - Len(p) = j + 1
        BY <1>1, <1>2, <1>3, <1>4, <3>3 DEF t
      <4>2. x[i] = q[j + 1]
        BY <1>1, <1>4, <3>3, <4>1
      <4>3. y[i] = t[j]
        BY <1>1, <1>3, <1>5, <2>1, <3>3
      <4> QED BY <1>2, <4>1, <4>2, <4>3 DEF t
    <3> QED BY <1>1, <3>1, <3>2, <3>3
  <2> QED BY <1>4, <1>5, <2>1, <2>2
<1> QED BY <1>1, <1>2, <1>3, <1>7, <1>8, PositionSteps DEF t, s, a, x, y, z

\* The order in which an encoder takes the children: each of them once.
LEMMA OrderOf ==
  ASSUME src \in Values, NEW p \in DOMAIN src, NEW order \in ChildOrders(p)
  PROVE  IsOrder(src, p, order)
<1>1. order \in Seq(DOMAIN src)
  BY ChildOrdersType
<1>2. CASE src[p].type = "ARRAY"
  <2> DEFINE n == src[p].val
             c(i) == Append(p, Elem(i))
  <2>1. order = [i \in 1 .. n |-> c(i)]
    BY <1>2 DEF ChildOrders
  <2>2. n \in Nat /\ Children(src, p) = {c(i) : i \in 1 .. n}
    BY <1>2, ValueAt DEF Cells
  <2>3. \A i, j \in 1 .. n : c(i) = c(j) => i = j
    <3> SUFFICES ASSUME NEW i \in 1 .. n, NEW j \in 1 .. n, c(i) = c(j) PROVE i = j
      OBVIOUS
    <3>1. p \in Seq(Steps) /\ Elem(i) \in Steps /\ Elem(j) \in Steps
      BY ValueAt, PositionSteps DEF Elem, Steps
    <3>2. Last(c(i)) = Elem(i) /\ Last(c(j)) = Elem(j)
      BY <3>1, FrontLastAppend
    <3> HIDE DEF c
    <3>3. Elem(i) = Elem(j)
      BY <3>2
    <3> QED BY <3>3 DEF Elem
  <2> HIDE DEF n, c
  <2>4. DOMAIN order = 1 .. n /\ Len(order) = n /\ \A i \in 1 .. n : order[i] = c(i)
    BY <2>1, <2>2
  <2>5. \A i, j \in DOMAIN order : order[i] = order[j] => i = j
    BY <2>3, <2>4
  <2>6. {order[i] : i \in DOMAIN order} = Children(src, p)
    BY <2>2, <2>4
  <2> QED BY <1>1, <2>4, <2>5, <2>6 DEF IsOrder, n, c
<1>3. CASE src[p].type # "ARRAY"
  <2> DEFINE S == Children(src, p)
             n == Cardinality(S)
  <2>1. order \in SetToSeqs(S)
    BY <1>3 DEF ChildOrders, ChildrenOf
  <2>2. IsFiniteSet(S)
    <3>1. S \subseteq DOMAIN src
      BY DEF Children
    <3>2. IsFiniteSet(DOMAIN src)
      BY ValueFacts
    <3> QED BY <3>1, <3>2, FS_Subset
  <2>3. src[p].type = "MAP" => src[p].val = n
    BY ValueAt
  <2> HIDE DEF S
  <2>4. n \in Nat
    BY <2>2, FS_CardinalityType
  <2>5. order \in [1 .. n -> S] /\ \A i, j \in 1 .. n : i # j => order[i] # order[j]
    BY <2>1 DEF SetToSeqs
  <2>6. order \in Injection(1 .. n, S)
    BY <2>5 DEF Injection, IsInjective
  <2>7. Cardinality(1 .. n) = n
    <3> HIDE DEF n
    <3> QED BY <2>4, FS_Interval
  <2>8. order \in Surjection(1 .. n, S)
    BY <2>2, <2>6, <2>7, FS_Injection
  <2>9. \A x \in S : \E i \in 1 .. n : order[i] = x
    BY <2>8 DEF Surjection
  <2> HIDE DEF n
  <2>10. DOMAIN order = 1 .. n /\ Len(order) = n
    BY <2>4, <2>5
  <2>11. {order[i] : i \in DOMAIN order} = S
    BY <2>5, <2>9, <2>10
  <2>12. \A i, j \in DOMAIN order : order[i] = order[j] => i = j
    BY <2>5, <2>10
  <2> QED BY <1>1, <1>3, <2>3, <2>10, <2>11, <2>12 DEF IsOrder, S
<1> QED BY <1>2, <1>3

-----------------------------------------------------------------------------
(* Parts of the value *)

\* Below its root, t is what the value v has below p, under the children D.
IsPart(v, t, p, D) ==
  /\ \A q \in Positions \ {<<>>} :
       q \in DOMAIN t <=> p \o q \in DOMAIN v /\ Append(p, q[1]) \in D
  /\ \A q \in DOMAIN t \ {<<>>} : t[q].cell = NormalCell(v[p \o q]) /\ LimitAt(v, p \o q)

\* t is all that v has at p and below.
IsWhole(v, t, p) ==
  /\ \A q \in Positions : q \in DOMAIN t <=> p \o q \in DOMAIN v
  /\ \A q \in DOMAIN t : t[q].cell = NormalCell(v[p \o q]) /\ LimitAt(v, p \o q)

\* g is t, but for the root, and r under the step s.
IsJoin(g, t, s, r) ==
  /\ DOMAIN g = {<<>>} \cup DOMAIN t \cup DOMAIN Under(s, r)
  /\ \A q \in DOMAIN t \ {<<>>} : q \notin DOMAIN Under(s, r) => g[q] = t[q]
  /\ \A q \in DOMAIN Under(s, r) : g[q] = Under(s, r)[q]

\* A part grows by a whole child.
LEMMA PartGrows ==
  ASSUME NEW v \in Values, NEW p \in DOMAIN v, NEW s \in Steps, Append(p, s) \in Children(v, p),
         NEW t, NEW D, IsPart(v, t, p, D), DOMAIN t \subseteq Positions, Append(p, s) \notin D,
         NEW r, IsWhole(v, r, Append(p, s)), DOMAIN r \subseteq Positions,
         NEW g, IsJoin(g, t, s, r)
  PROVE  IsPart(v, g, p, D \cup {Append(p, s)})
<1> DEFINE c == Append(p, s)
           u == Under(s, r)
<1>1. p \in Positions /\ p \in Seq(Steps) /\ c \in Positions
  BY ValueAt, PositionSteps
<1>2. /\ DOMAIN u \subseteq Positions /\ <<>> \notin DOMAIN u
      /\ \A q \in DOMAIN r : <<s>> \o q \in DOMAIN u
      /\ \A q \in DOMAIN u : q[1] = s /\ Tail(q) \in DOMAIN r /\ u[q] = r[Tail(q)]
  BY UnderShape
<1>3. \A q \in Positions \ {<<>>} :
        /\ q[1] \in Steps /\ Tail(q) \in Positions /\ q = <<q[1]>> \o Tail(q)
        /\ p \o q = Append(p, q[1]) \o Tail(q)
  BY <1>1, FirstStep
<1>4. \A x \in Steps : Append(p, x) = c => x = s
  <2> SUFFICES ASSUME NEW x \in Steps, Append(p, x) = c PROVE x = s
    OBVIOUS
  <2>1. Last(Append(p, x)) = x /\ Last(Append(p, s)) = s
    BY <1>1, FrontLastAppend
  <2> QED BY <2>1
<1> HIDE DEF u, c
<1>5. \A q \in Positions \ {<<>>} : q \in DOMAIN u <=> q[1] = s /\ c \o Tail(q) \in DOMAIN v
  <2> TAKE q \in Positions \ {<<>>}
  <2>1. Tail(q) \in DOMAIN r <=> c \o Tail(q) \in DOMAIN v
    BY <1>3 DEF IsWhole, c
  <2>2. q[1] = s /\ Tail(q) \in DOMAIN r => q \in DOMAIN u
    BY <1>2, <1>3
  <2> QED BY <1>2, <2>1, <2>2
<1>6. \A q \in DOMAIN u : p \o q = c \o Tail(q)
  BY <1>2, <1>3 DEF c
<1>7. ASSUME NEW q \in Positions \ {<<>>}
      PROVE  q \in DOMAIN g <=> p \o q \in DOMAIN v /\ Append(p, q[1]) \in D \cup {c}
  <2>1. q \in DOMAIN g <=> q \in DOMAIN t \/ q \in DOMAIN u
    BY DEF IsJoin, u
  <2>2. q \in DOMAIN t <=> p \o q \in DOMAIN v /\ Append(p, q[1]) \in D
    BY DEF IsPart
  <2>3. q \in DOMAIN u <=> p \o q \in DOMAIN v /\ Append(p, q[1]) = c
    BY <1>3, <1>4, <1>5 DEF c
  <2> QED BY <2>1, <2>2, <2>3
<1>8. ASSUME NEW q \in DOMAIN g \ {<<>>}
      PROVE  g[q].cell = NormalCell(v[p \o q]) /\ LimitAt(v, p \o q)
  <2>1. CASE q \in DOMAIN u
    <3>1. g[q] = r[Tail(q)] /\ Tail(q) \in DOMAIN r
      BY <1>2, <2>1 DEF IsJoin, u
    <3>2. r[Tail(q)].cell = NormalCell(v[c \o Tail(q)]) /\ LimitAt(v, c \o Tail(q))
      BY <3>1 DEF IsWhole, c
    <3> QED BY <1>6, <2>1, <3>1, <3>2
  <2>2. CASE q \notin DOMAIN u
    <3>1. q \in DOMAIN t \ {<<>>} /\ g[q] = t[q]
      BY <2>2 DEF IsJoin, u
    <3> QED BY <3>1 DEF IsPart
  <2> QED BY <2>1, <2>2
<1> QED BY <1>7, <1>8 DEF IsPart, c

\* With all children, and its root, a part is the whole.
LEMMA PartWhole ==
  ASSUME NEW v \in Values, NEW p \in DOMAIN v, NEW t, IsPart(v, t, p, Children(v, p)),
         <<>> \in DOMAIN t, DOMAIN t \subseteq Positions,
         t[<<>>].cell = NormalCell(v[p]), LimitAt(v, p)
  PROVE  IsWhole(v, t, p)
<1>1. p \in Positions /\ p \in Seq(Steps)
  BY ValueAt, PositionSteps
<1>2. p \o <<>> = p
  BY <1>1
<1>3. ASSUME NEW q \in Positions \ {<<>>}, p \o q \in DOMAIN v
      PROVE  Append(p, q[1]) \in Children(v, p)
  <2>1. /\ q[1] \in Steps /\ Tail(q) \in Positions /\ Append(p, q[1]) \in Positions
        /\ p \o q = Append(p, q[1]) \o Tail(q)
    BY <1>1, FirstStep
  <2>2. Append(p, q[1]) \in DOMAIN v
    BY <1>3, <2>1, PrefixThere
  <2> QED BY <2>1, <2>2, StepChild
<1>4. \A q \in Positions : q \in DOMAIN t <=> p \o q \in DOMAIN v
  <2> TAKE q \in Positions
  <2>1. CASE q = <<>>
    BY <1>2, <2>1
  <2>2. CASE q # <<>>
    BY <1>3, <2>2 DEF IsPart
  <2> QED BY <2>1, <2>2
<1>5. ASSUME NEW q \in DOMAIN t
      PROVE  t[q].cell = NormalCell(v[p \o q]) /\ LimitAt(v, p \o q)
  <2>1. CASE q = <<>>
    BY <1>2, <2>1
  <2>2. CASE q # <<>>
    BY <2>2 DEF IsPart
  <2> QED BY <2>1, <2>2
<1> QED BY <1>4, <1>5 DEF IsWhole

\* A root alone is a part without children.
LEMMA PartEmpty ==
  ASSUME NEW v, NEW p, NEW t, DOMAIN t \subseteq {<<>>}
  PROVE  IsPart(v, t, p, {})
BY DEF IsPart

\* The whole of the value, within the limits, is the value without the widths
\* of its integers.
LEMMA WholeValue ==
  ASSUME NEW v \in Values, NEW t, IsWhole(v, t, <<>>), DOMAIN t \subseteq Positions
  PROVE  [p \in DOMAIN t |-> t[p].cell] = Normal(v) /\ WithinLimits(v)
<1>1. \A q \in Positions : <<>> \o q = q
  BY PositionSteps
<1>2. DOMAIN v \subseteq Positions
  BY ValueFacts
<1>3. DOMAIN t = DOMAIN v
  BY <1>1, <1>2 DEF IsWhole
<1>4. \A q \in DOMAIN v : t[q].cell = NormalCell(v[q]) /\ LimitAt(v, q)
  BY <1>1, <1>2, <1>3 DEF IsWhole
<1>5. WithinLimits(v)
  BY <1>4 DEF WithinLimits, LimitAt
<1>6. Normal(v) = [p \in DOMAIN v |-> NormalCell(v[p])]
  BY DEF Normal, NormalCell
<1> QED BY <1>3, <1>4, <1>5, <1>6

\* What is beyond a limit somewhere is not within them.
LEMMA BeyondLimit ==
  ASSUME NEW v, NEW p \in DOMAIN v, ~LimitAt(v, p)
  PROVE  ~WithinLimits(v)
BY DEF WithinLimits, LimitAt

-----------------------------------------------------------------------------
(* The encoder's to-do list along the buffer *)

Todos(v) == Seq(DOMAIN v \cup {Closing})

\* An item is written when the to-do list is x, and y is left; k and l say
\* whether the key of the first position has been written.
Writes(v, x, k, item, y, l) ==
  /\ x # <<>>
  /\ \/ Head(x) = Closing /\ ~k /\ item = Break /\ y = Tail(x) /\ ~l
     \/ Head(x) # Closing /\ ~k /\ KeyItem(Head(x)) = <<item>> /\ y = x /\ l
     \/ /\ Head(x) # Closing /\ (k \/ KeyItem(Head(x)) = <<>>) /\ ~l
        /\ \E order :
             /\ IsOrder(v, Head(x), order)
             /\ \/ item = HeadItem(v[Head(x)]) /\ y = order \o Tail(x)
                \/ /\ v[Head(x)].type \in {"ARRAY", "MAP"}
                   /\ item = Item(v[Head(x)].type, INDEFINITE)
                   /\ y = order \o <<Closing>> \o Tail(x)

Lists(v) == [todo : Todos(v), keyed : BOOLEAN]

\* The to-do lists before each item of b, and after the last.
IsHistory(v, b, h) ==
  /\ h \in [0 .. Len(b) -> Lists(v)]
  /\ h[0] = [todo |-> <<<<>>>>, keyed |-> FALSE]
  /\ \A i \in 1 .. Len(b) :
       Writes(v, h[i - 1].todo, h[i - 1].keyed, b[i], h[i].todo, h[i].keyed)

\* b has been written and x is left to be.
Written(v, b, x, k) == \E h : IsHistory(v, b, h) /\ h[Len(b)] = [todo |-> x, keyed |-> k]

\* From item i on, b is what was written when x was left.
Reading(v, b, i, x, k) ==
  \E h : /\ IsHistory(v, b, h) /\ h[Len(b)] = [todo |-> <<>>, keyed |-> FALSE]
         /\ i - 1 \in 0 .. Len(b) /\ h[i - 1] = [todo |-> x, keyed |-> k]

\* Nothing has been written yet.
LEMMA WrittenFirst ==
  ASSUME NEW v \in Values
  PROVE  Written(v, <<>>, <<<<>>>>, FALSE)
<1> DEFINE e == <<>>
           S == DOMAIN v \cup {Closing}
           l == [todo |-> <<e>>, keyed |-> FALSE]
           h == [i \in {0} |-> l]
<1>1. e \in S
  BY ValueFacts
<1>2. l \in Lists(v)
  <2> HIDE DEF S, e
  <2>1. <<e>> \in Seq(S)
    BY <1>1
  <2> QED BY <2>1 DEF Lists, Todos, S
<1>3. Len(<<>>) = 0 /\ 0 .. 0 = {0} /\ 1 .. 0 = {}
  OBVIOUS
<1> HIDE DEF l
<1>4. h \in [0 .. 0 -> Lists(v)] /\ h[0] = l
  BY <1>2, <1>3
<1> HIDE DEF h
<1>5. IsHistory(v, <<>>, h) /\ h[Len(<<>>)] = l
  BY <1>3, <1>4 DEF IsHistory, l
<1> QED BY <1>5 DEF Written, l

\* One item more is written.
LEMMA WrittenMore ==
  ASSUME NEW v, NEW b \in Seq(Items), NEW x, NEW k, Written(v, b, x, k),
         NEW item \in Items, NEW y \in Todos(v), NEW l \in BOOLEAN, Writes(v, x, k, item, y, l)
  PROVE  Written(v, Append(b, item), y, l)
<1>1. PICK h : IsHistory(v, b, h) /\ h[Len(b)] = [todo |-> x, keyed |-> k]
  BY DEF Written
<1> DEFINE n == Len(b)
           a == Append(b, item)
           z == [todo |-> y, keyed |-> l]
           g == [i \in 0 .. n + 1 |-> IF i = n + 1 THEN z ELSE h[i]]
<1>2. n \in Nat /\ Len(a) = n + 1 /\ a[n + 1] = item /\ \A i \in 1 .. n : a[i] = b[i]
  OBVIOUS
<1>3. z \in Lists(v) /\ z.todo = y /\ z.keyed = l
  BY DEF Lists
<1>4. /\ h \in [0 .. n -> Lists(v)] /\ h[0] = [todo |-> <<<<>>>>, keyed |-> FALSE]
      /\ \A i \in 1 .. n : Writes(v, h[i - 1].todo, h[i - 1].keyed, b[i], h[i].todo, h[i].keyed)
      /\ h[n].todo = x /\ h[n].keyed = k
  BY <1>1 DEF IsHistory
<1> HIDE DEF a, z, n
<1>5. /\ g \in [0 .. n + 1 -> Lists(v)] /\ g[n + 1] = z /\ \A i \in 0 .. n : g[i] = h[i]
  <2>1. \A i \in 0 .. n + 1 : i = n + 1 \/ i \in 0 .. n
    BY <1>2
  <2>2. \A i \in 0 .. n : i \in 0 .. n + 1 /\ i # n + 1
    BY <1>2
  <2>3. n + 1 \in 0 .. n + 1
    BY <1>2
  <2> QED BY <1>3, <1>4, <2>1, <2>2, <2>3
<1> HIDE DEF g
<1>6. ASSUME NEW i \in 1 .. n + 1
      PROVE  Writes(v, g[i - 1].todo, g[i - 1].keyed, a[i], g[i].todo, g[i].keyed)
  <2>1. CASE i = n + 1
    <3>1. i - 1 = n /\ n \in 0 .. n
      BY <1>2, <2>1
    <3>2. g[i - 1] = h[n] /\ g[i] = z /\ a[i] = item
      BY <1>2, <1>5, <2>1, <3>1
    <3> QED BY <1>3, <1>4, <3>2
  <2>2. CASE i # n + 1
    <3>1. i \in 1 .. n /\ i \in 0 .. n /\ i - 1 \in 0 .. n
      BY <1>2, <2>2
    <3>2. g[i - 1] = h[i - 1] /\ g[i] = h[i] /\ a[i] = b[i]
      BY <1>2, <1>5, <3>1
    <3> QED BY <1>4, <3>1, <3>2
  <2> QED BY <2>1, <2>2
<1>7. g[0] = h[0]
  BY <1>2, <1>5
<1>8. IsHistory(v, a, g) /\ g[Len(a)] = z
  BY <1>2, <1>4, <1>5, <1>6, <1>7 DEF IsHistory
<1> QED BY <1>8 DEF Written, a, z

\* What was written to the end is read from its first item on.
LEMMA ReadingFirst ==
  ASSUME NEW v, NEW b \in Seq(Items), Written(v, b, <<>>, FALSE)
  PROVE  Reading(v, b, 1, <<<<>>>>, FALSE)
<1>1. PICK h : IsHistory(v, b, h) /\ h[Len(b)] = [todo |-> <<>>, keyed |-> FALSE]
  BY DEF Written
<1>2. 1 - 1 \in 0 .. Len(b) /\ 1 - 1 = 0
  OBVIOUS
<1>3. h[0] = [todo |-> <<<<>>>>, keyed |-> FALSE]
  BY <1>1 DEF IsHistory
<1>4. h[1 - 1] = [todo |-> <<<<>>>>, keyed |-> FALSE]
  BY <1>2, <1>3
<1> QED BY <1>1, <1>2, <1>4 DEF Reading

\* As long as something is left, there is an item, and it is the next.
LEMMA ReadingNext ==
  ASSUME NEW v, NEW b \in Seq(Items), NEW i \in Nat \ {0}, NEW x, NEW k,
         Reading(v, b, i, x, k), x # <<>>
  PROVE  /\ i <= Len(b)
         /\ \E y, l : Writes(v, x, k, b[i], y, l) /\ Reading(v, b, i + 1, y, l) /\ l \in BOOLEAN
<1>1. PICK h : /\ IsHistory(v, b, h) /\ h[Len(b)] = [todo |-> <<>>, keyed |-> FALSE]
               /\ i - 1 \in 0 .. Len(b) /\ h[i - 1] = [todo |-> x, keyed |-> k]
  BY DEF Reading
<1>2. Len(b) \in Nat
  OBVIOUS
<1>3. i - 1 # Len(b)
  <2>1. [todo |-> x, keyed |-> k].todo = x /\ [todo |-> <<>>, keyed |-> FALSE].todo = <<>>
    OBVIOUS
  <2> QED BY <1>1, <2>1
<1>4. i \in 1 .. Len(b) /\ i \in 0 .. Len(b) /\ (i + 1) - 1 = i
  BY <1>1, <1>2, <1>3
<1>5. /\ h[i] \in Lists(v)
      /\ Writes(v, h[i - 1].todo, h[i - 1].keyed, b[i], h[i].todo, h[i].keyed)
  BY <1>1, <1>4 DEF IsHistory
<1>6. h[i] = [todo |-> h[i].todo, keyed |-> h[i].keyed] /\ h[i].keyed \in BOOLEAN
  BY <1>5 DEF Lists
<1>7. Reading(v, b, i + 1, h[i].todo, h[i].keyed)
  <2>1. (i + 1) - 1 \in 0 .. Len(b) /\ h[(i + 1) - 1] = [todo |-> h[i].todo, keyed |-> h[i].keyed]
    BY <1>4, <1>6
  <2> QED BY <1>1, <2>1 DEF Reading
<1>8. Writes(v, x, k, b[i], h[i].todo, h[i].keyed)
  BY <1>1, <1>5
<1> QED BY <1>4, <1>6, <1>7, <1>8

\* Each item shortens the to-do list by one at most.
LEMMA WritesOne ==
  ASSUME NEW v, NEW x \in Todos(v), NEW k, NEW item, NEW y \in Todos(v), NEW l,
         Writes(v, x, k, item, y, l)
  PROVE  Len(x) <= Len(y) + 1
<1>1. x # <<>> /\ Tail(x) \in Todos(v) /\ Len(x) = Len(Tail(x)) + 1
  BY DEF Writes, Todos
<1>2. CASE y = Tail(x)
  BY <1>1, <1>2 DEF Todos
<1>3. CASE y = x
  BY <1>1, <1>3 DEF Todos
<1>4. ASSUME NEW order, IsOrder(v, Head(x), order),
             y = order \o Tail(x) \/ y = order \o <<Closing>> \o Tail(x)
      PROVE  Len(Tail(x)) <= Len(y)
  <2> DEFINE S == DOMAIN v \cup {Closing}
             t == Tail(x)
  <2>1. order \in Seq(S) /\ t \in Seq(S) /\ Closing \in S
    <3>1. order \in Seq(DOMAIN v) /\ t \in Seq(S)
      BY <1>1, <1>4 DEF IsOrder, Todos
    <3> QED BY <3>1
  <2> HIDE DEF S, t
  <2>2. Len(order \o t) = Len(order) + Len(t) /\ Len(order \o <<Closing>> \o t) = Len(order) + 1 + Len(t)
        /\ Len(order) \in Nat /\ Len(t) \in Nat
    BY <2>1
  <2> DEFINE p == order \o t
             q == order \o <<Closing>> \o t
  <2> HIDE DEF p, q
  <2>3. y = p \/ y = q
    BY <1>4 DEF p, q, t
  <2>4. Len(p) = Len(order) + Len(t) /\ Len(q) = Len(order) + 1 + Len(t)
    BY <2>2 DEF p, q
  <2>5. Len(t) <= Len(y)
    BY <2>2, <2>3, <2>4
  <2> QED BY <2>5 DEF t
<1>5. Len(y) \in Nat /\ Len(x) \in Nat
  BY DEF Todos
<1> QED BY <1>1, <1>2, <1>3, <1>4, <1>5 DEF Writes

\* So there are at least as many items as there is left to do.
LEMMA ReadingEnough ==
  ASSUME NEW v, NEW b \in Seq(Items), NEW i \in Nat \ {0}, NEW x, NEW k, Reading(v, b, i, x, k)
  PROVE  x \in Todos(v) /\ Len(x) <= Len(b) - i + 1
<1>1. PICK h : /\ IsHistory(v, b, h) /\ h[Len(b)] = [todo |-> <<>>, keyed |-> FALSE]
               /\ i - 1 \in 0 .. Len(b) /\ h[i - 1] = [todo |-> x, keyed |-> k]
  BY DEF Reading
<1> DEFINE n == Len(b)
           P == {j \in Nat : j <= n => Len(h[n - j].todo) <= j}
<1>2. n \in Nat
  OBVIOUS
<1>3. \A j \in 0 .. n : h[j].todo \in Todos(v)
  BY <1>1 DEF IsHistory, Lists
<1>4. 0 \in P
  <2>1. h[n - 0].todo = <<>> /\ Len(<<>>) = 0
    BY <1>1, <1>2
  <2> QED BY <2>1
<1>5. ASSUME NEW j \in Nat, j \in P
      PROVE  j + 1 \in P
  <2> SUFFICES ASSUME j + 1 <= n PROVE Len(h[n - (j + 1)].todo) <= j + 1
    OBVIOUS
  <2> DEFINE m == n - j
  <2>1. m \in 1 .. n /\ m \in 0 .. n /\ m - 1 \in 0 .. n /\ n - (j + 1) = m - 1 /\ j <= n
    BY <1>2
  <2>2. Len(h[m].todo) <= j
    BY <1>5, <2>1
  <2> HIDE DEF m, n
  <2>3. Writes(v, h[m - 1].todo, h[m - 1].keyed, b[m], h[m].todo, h[m].keyed)
    BY <1>1, <2>1 DEF IsHistory, n
  <2>4. h[m - 1].todo \in Todos(v) /\ h[m].todo \in Todos(v)
    BY <1>3, <2>1
  <2>5. Len(h[m - 1].todo) <= Len(h[m].todo) + 1
    BY <2>3, <2>4, WritesOne
  <2>6. Len(h[m - 1].todo) \in Nat /\ Len(h[m].todo) \in Nat
    BY <2>4 DEF Todos
  <2>7. Len(h[m - 1].todo) <= j + 1
    BY <2>2, <2>5, <2>6
  <2> QED BY <2>1, <2>7
<1> HIDE DEF P
<1>6. \A j \in Nat : j \in P
  BY <1>4, <1>5, NatSetInduction
<1> HIDE DEF n
<1>7. n - (i - 1) \in Nat /\ n - (n - (i - 1)) = i - 1 /\ n - (i - 1) <= n
  BY <1>1, <1>2 DEF n
<1>8. Len(h[i - 1].todo) <= n - (i - 1)
  <2> DEFINE j == n - (i - 1)
  <2>1. j \in P /\ j <= n /\ n - j = i - 1
    BY <1>6, <1>7
  <2> HIDE DEF j
  <2>2. Len(h[i - 1].todo) <= j
    BY <2>1 DEF P
  <2> QED BY <2>2 DEF j
<1>9. h[i - 1].todo = x
  BY <1>1
<1>10. x \in Todos(v)
  BY <1>1, <1>3, <1>9 DEF n
<1>11. Len(x) \in Nat
  BY <1>10 DEF Todos
<1> QED BY <1>2, <1>8, <1>9, <1>10, <1>11 DEF n

\* A to-do list with a first entry.
LEMMA FirstEntry ==
  ASSUME NEW v, NEW c \in DOMAIN v \cup {Closing}, NEW r \in Todos(v)
  PROVE  /\ <<c>> \o r \in Todos(v) /\ <<c>> \o r # <<>>
         /\ Head(<<c>> \o r) = c /\ Tail(<<c>> \o r) = r
<1> DEFINE S == DOMAIN v \cup {Closing}
<1>1. c \in S /\ r \in Seq(S)
  BY DEF Todos
<1> HIDE DEF S
<1> DEFINE x == <<c>> \o r
<1>2. x \in Seq(S) /\ Len(x) = Len(r) + 1 /\ x[1] = c /\ \A i \in 1 .. Len(r) : x[i + 1] = r[i]
  BY <1>1
<1> HIDE DEF x
<1>3. x # <<>> /\ Head(x) = c
  BY <1>1, <1>2
<1>4. Tail(x) = r
  <2>1. Tail(x) \in Seq(S) /\ Len(Tail(x)) = Len(r) /\ \A i \in 1 .. Len(r) : Tail(x)[i] = x[i + 1]
    BY <1>1, <1>2
  <2> DEFINE y == Tail(x)
  <2>2. y \in Seq(S) /\ Len(y) = Len(r) /\ \A i \in 1 .. Len(r) : y[i] = r[i]
    BY <1>2, <2>1
  <2> HIDE DEF y
  <2>3. y = r
    BY <1>1, <2>2
  <2> QED BY <2>3 DEF y
<1> QED BY <1>2, <1>3, <1>4 DEF x, S, Todos

\* A position's head is read once its key has been: what follows are its
\* children.
LEMMA ReadHead ==
  ASSUME NEW v \in Values, NEW b \in Seq(Items), NEW i \in Nat \ {0}, NEW c \in DOMAIN v,
         NEW r \in Todos(v), Reading(v, b, i, <<c>> \o r, KeyItem(c) # <<>>)
  PROVE  /\ i <= Len(b)
         /\ \E order :
              /\ IsOrder(v, c, order)
              /\ \/ b[i] = HeadItem(v[c]) /\ Reading(v, b, i + 1, order \o r, FALSE)
                 \/ /\ v[c].type \in {"ARRAY", "MAP"} /\ b[i] = Item(v[c].type, INDEFINITE)
                    /\ Reading(v, b, i + 1, order \o <<Closing>> \o r, FALSE)
<1> DEFINE x == <<c>> \o r
           k == KeyItem(c) # <<>>
<1>1. x # <<>> /\ Head(x) = c /\ Tail(x) = r
  BY FirstEntry
<1>2. Reading(v, b, i, x, k)
  OBVIOUS
<1> HIDE DEF x, k
<1>3. i <= Len(b) /\ \E y, l : Writes(v, x, k, b[i], y, l) /\ Reading(v, b, i + 1, y, l) /\ l \in BOOLEAN
  BY <1>1, <1>2, ReadingNext
<1>4. PICK y, l : Writes(v, x, k, b[i], y, l) /\ Reading(v, b, i + 1, y, l) /\ l \in BOOLEAN
  BY <1>3
<1>5. c # Closing
  BY ValueAt, SerializationAssumption
<1>6. ~(~k /\ KeyItem(c) = <<b[i]>>)
  <2>1. <<b[i]>> # <<>>
    OBVIOUS
  <2> QED BY <2>1 DEF k
<1>7. /\ ~l
      /\ \E order :
           /\ IsOrder(v, c, order)
           /\ \/ b[i] = HeadItem(v[c]) /\ y = order \o r
              \/ /\ v[c].type \in {"ARRAY", "MAP"} /\ b[i] = Item(v[c].type, INDEFINITE)
                 /\ y = order \o <<Closing>> \o r
  BY <1>1, <1>4, <1>5, <1>6, Zenon DEF Writes
<1>8. l = FALSE
  BY <1>4, <1>7
<1> QED BY <1>3, <1>4, <1>7, <1>8

\* The key of a position is read before its head.
LEMMA ReadKey ==
  ASSUME NEW v \in Values, NEW b \in Seq(Items), NEW i \in Nat \ {0}, NEW c \in DOMAIN v,
         NEW r \in Todos(v), Reading(v, b, i, <<c>> \o r, FALSE), KeyItem(c) # <<>>
  PROVE  /\ i <= Len(b) /\ KeyItem(c) = <<b[i]>>
         /\ Reading(v, b, i + 1, <<c>> \o r, KeyItem(c) # <<>>)
<1> DEFINE x == <<c>> \o r
<1>1. x # <<>> /\ Head(x) = c
  BY FirstEntry
<1>2. Reading(v, b, i, x, FALSE)
  OBVIOUS
<1> HIDE DEF x
<1>3. i <= Len(b) /\ \E y, l : Writes(v, x, FALSE, b[i], y, l) /\ Reading(v, b, i + 1, y, l) /\ l \in BOOLEAN
  BY <1>1, <1>2, ReadingNext
<1>4. PICK y, l : Writes(v, x, FALSE, b[i], y, l) /\ Reading(v, b, i + 1, y, l) /\ l \in BOOLEAN
  BY <1>3
<1>5. c # Closing
  BY ValueAt, SerializationAssumption
<1>6. KeyItem(c) = <<b[i]>> /\ y = x /\ l
  BY <1>1, <1>4, <1>5, Zenon DEF Writes
<1>7. l = (KeyItem(c) # <<>>)
  BY <1>4, <1>6
<1> QED BY <1>3, <1>4, <1>6, <1>7 DEF x

\* A container of indefinite length ends with a break.
LEMMA ReadClose ==
  ASSUME NEW v, NEW b \in Seq(Items), NEW i \in Nat \ {0}, NEW r \in Todos(v),
         Reading(v, b, i, <<Closing>> \o r, FALSE)
  PROVE  i <= Len(b) /\ b[i] = Break /\ Reading(v, b, i + 1, r, FALSE)
<1> DEFINE x == <<Closing>> \o r
<1>1. x # <<>> /\ Head(x) = Closing /\ Tail(x) = r
  BY FirstEntry
<1>2. Reading(v, b, i, x, FALSE)
  OBVIOUS
<1> HIDE DEF x
<1>3. i <= Len(b) /\ \E y, l : Writes(v, x, FALSE, b[i], y, l) /\ Reading(v, b, i + 1, y, l) /\ l \in BOOLEAN
  BY <1>1, <1>2, ReadingNext
<1>4. PICK y, l : Writes(v, x, FALSE, b[i], y, l) /\ Reading(v, b, i + 1, y, l) /\ l \in BOOLEAN
  BY <1>3
<1>5. b[i] = Break /\ y = r /\ ~l
  BY <1>1, <1>4, Zenon DEF Writes
<1>6. l = FALSE
  BY <1>4, <1>5
<1> QED BY <1>3, <1>4, <1>5, <1>6

-----------------------------------------------------------------------------
(* What the calls of the decoder have read, and what is left for each *)

\* A call's position, its children that are left and what is left after it.
Plans(v) == [pos : DOMAIN v, left : Seq(DOMAIN v), rest : Todos(v)]

Taken(v, e) == Children(v, e.pos) \ {e.left[i] : i \in DOMAIN e.left}

Size(f) == f.tree[<<>>].cell.val

\* A frame of the stack, and what of its position it holds.
Fills(v, b, f, e) ==
  /\ e \in Plans(v)
  /\ \A i, j \in DOMAIN e.left : e.left[i] = e.left[j] => i = j
  /\ \A i \in DOMAIN e.left : e.left[i] \in Children(v, e.pos)
  /\ f.kind = v[e.pos].type /\ f.left \in {INDEFINITE, Len(e.left)}
  /\ IsPart(v, f.tree, e.pos, Taken(v, e))
  /\ Len(e.pos) <= CORECONF_MAX_DEPTH
  /\ f.kind = "TAG" =>
       /\ f.left = 1 /\ v[e.pos].val <= 2 * Largest[32] + 1
       /\ b[f.id].arg = v[e.pos].val /\ v[e.pos].width = 0
       /\ \A i \in DOMAIN e.left : e.left[i] = Append(e.pos, Content)
  /\ f.kind # "TAG" =>
       /\ f.tree[<<>>].cell = Cell(f.kind, 0, Size(f))
       /\ Size(f) + Len(e.left) = v[e.pos].val
  /\ f.kind = "ARRAY" => \A i \in DOMAIN e.left : e.left[i] = Append(e.pos, Elem(Size(f) + i))
  /\ f.kind = "MAP" =>
       /\ f.loopCount = Size(f) /\ Cardinality(Entries(f.tree)) = Size(f)
       /\ f.loopCount <= CORECONF_MAX_LOOP + 1

\* A frame that waits for the first of its children that are left.
Awaits(f, e) ==
  /\ e.left # <<>>
  /\ f.kind = "MAP" => Last(Head(e.left)) = Key(f.key)

End(f) == IF f.left = INDEFINITE THEN <<Closing>> ELSE <<>>
Follow(f, e) == Tail(e.left) \o End(f) \o e.rest

\* The frames s fill the plans g, each for the child that the one before awaits.
Chain(v, b, s, g) ==
  /\ g \in Seq(Plans(v)) /\ Len(g) = Len(s)
  /\ \A i \in 1 .. Len(s) :
       /\ Fills(v, b, s[i], g[i]) /\ Awaits(s[i], g[i]) /\ Len(g[i].pos) = i - 1
       /\ i = 1 => g[i].pos = <<>> /\ g[i].rest = <<>>
       /\ i > 1 => g[i].pos = Head(g[i - 1].left) /\ g[i].rest = Follow(s[i - 1], g[i - 1])

\* The calls s wait for the value at c, and r follows it.
Stacked(v, b, s, c, r) ==
  /\ c \in DOMAIN v /\ Len(c) = Len(s) /\ r \in Todos(v)
  /\ \E g : /\ Chain(v, b, s, g)
            /\ s = <<>> => c = <<>> /\ r = <<>>
            /\ s # <<>> => c = Head(Last(g).left) /\ r = Follow(Last(s), Last(g))

\* Without a call, it is the whole value that is to be decoded.
LEMMA StackedNone ==
  ASSUME NEW v \in Values, NEW b
  PROVE  /\ Stacked(v, b, <<>>, <<>>, <<>>)
         /\ \A c, r : Stacked(v, b, <<>>, c, r) => c = <<>> /\ r = <<>>
<1> DEFINE e == <<>>
<1>1. e \in DOMAIN v /\ Len(e) = 0 /\ 1 .. 0 = {} /\ e \in Todos(v) /\ e \in Seq(Plans(v))
  BY ValueFacts DEF Todos
<1> HIDE DEF e
<1>2. Chain(v, b, e, e)
  BY <1>1 DEF Chain
<1>3. Stacked(v, b, e, e, e)
  BY <1>1, <1>2 DEF Stacked
<1>4. \A c, r : Stacked(v, b, e, c, r) => c = e /\ r = e
  BY DEF Stacked, e
<1> QED BY <1>3, <1>4 DEF e

\* What is left for a call that gets its value.
LEMMA FollowType ==
  ASSUME NEW v, NEW f, NEW e \in Plans(v)
  PROVE  /\ End(f) \in Todos(v) /\ e.rest \in Todos(v)
         /\ End(f) \o e.rest \in Todos(v)
         /\ e.left # <<>> =>
              /\ Head(e.left) \in DOMAIN v /\ Tail(e.left) \in Seq(DOMAIN v)
              /\ Follow(f, e) \in Todos(v)
              /\ e.left \o End(f) \o e.rest = <<Head(e.left)>> \o Follow(f, e)
<1> DEFINE S == DOMAIN v \cup {Closing}
           w == e.left
           n == End(f)
           r == e.rest
<1>1. w \in Seq(DOMAIN v) /\ r \in Seq(S) /\ w \in Seq(S)
  BY DEF Plans, Todos
<1>2. n \in Seq(S)
  <2>1. Closing \in S
    OBVIOUS
  <2> HIDE DEF S
  <2>2. <<Closing>> \in Seq(S) /\ <<>> \in Seq(S)
    BY <2>1
  <2> QED BY <2>2 DEF End
<1> HIDE DEF w, n, r
<1>3. w # <<>> => Head(w) \in DOMAIN v /\ Tail(w) \in Seq(DOMAIN v) /\ Tail(w) \in Seq(S)
  <2> DEFINE D == DOMAIN v
  <2>1. D \subseteq S
    OBVIOUS
  <2>2. w \in Seq(D)
    BY <1>1
  <2> HIDE DEF D, S
  <2>3. ASSUME w # <<>> PROVE Head(w) \in D /\ Tail(w) \in Seq(D) /\ Tail(w) \in Seq(S)
    BY <2>1, <2>2, <2>3
  <2> QED BY <2>3 DEF D
<1> HIDE DEF S
<1>4. n \o r \in Seq(S)
  BY <1>1, <1>2
<1>5. ASSUME w # <<>>
      PROVE  Tail(w) \o n \o r \in Seq(S) /\ w \o n \o r = <<Head(w)>> \o (Tail(w) \o n \o r)
  <2> DEFINE t == Tail(w)
             h == Head(w)
  <2>1. t \in Seq(S) /\ h \in S /\ Len(w) = Len(t) + 1 /\ w[1] = h /\ \A i \in 1 .. Len(t) : w[i + 1] = t[i]
    BY <1>1, <1>3, <1>5
  <2> HIDE DEF t, h
  <2>2. t \o n \in Seq(S) /\ w = <<h>> \o t
    <3>1. <<h>> \o t \in Seq(S) /\ Len(<<h>> \o t) = Len(t) + 1 /\ (<<h>> \o t)[1] = h
          /\ \A i \in 1 .. Len(t) : (<<h>> \o t)[i + 1] = t[i]
      BY <2>1
    <3> DEFINE y == <<h>> \o t
    <3> HIDE DEF y
    <3>2. y \in Seq(S) /\ Len(y) = Len(w) /\ \A i \in 1 .. Len(w) : y[i] = w[i]
      <4>1. y \in Seq(S) /\ Len(y) = Len(t) + 1 /\ y[1] = h /\ \A i \in 1 .. Len(t) : y[i + 1] = t[i]
        BY <3>1 DEF y
      <4>2. ASSUME NEW i \in 1 .. Len(w) PROVE y[i] = w[i]
        <5>1. CASE i = 1
          BY <2>1, <4>1, <5>1
        <5>2. CASE i # 1
          <6> DEFINE j == i - 1
          <6>1. j \in 1 .. Len(t) /\ i = j + 1
            BY <2>1, <5>2
          <6> HIDE DEF j
          <6> QED BY <2>1, <4>1, <6>1
        <5> QED BY <5>1, <5>2
      <4> QED BY <2>1, <4>1, <4>2
    <3>3. y = w
      BY <1>1, <3>2
    <3> QED BY <1>2, <2>1, <3>3 DEF y
  <2>3. \A a, x, y, z \in Seq(S) : (a \o x) \o y = a \o (x \o y) /\ x \o y \in Seq(S)
    OBVIOUS
  <2>4. <<h>> \in Seq(S)
    BY <2>1
  <2>5. ((<<h>> \o t) \o n) \o r = <<h>> \o ((t \o n) \o r)
    <3>1. (<<h>> \o t) \o n = <<h>> \o (t \o n) /\ t \o n \in Seq(S)
      BY <1>2, <2>1, <2>3, <2>4
    <3>2. (<<h>> \o (t \o n)) \o r = <<h>> \o ((t \o n) \o r)
      BY <1>1, <2>3, <2>4, <3>1
    <3> QED BY <3>1, <3>2
  <2>6. (t \o n) \o r \in Seq(S)
    BY <1>1, <2>2, <2>3
  <2> QED BY ONLY <2>2, <2>5, <2>6 DEF t, h
<1>6. Follow(f, e) = Tail(w) \o n \o r
  BY DEF Follow, w, n, r
<1> QED BY <1>1, <1>2, <1>3, <1>4, <1>5, <1>6 DEF S, w, n, r, Todos

\* A call is begun inside the others, and waits for its first child.
LEMMA StackedPush ==
  ASSUME NEW v \in Values, NEW b, NEW s \in Seq(Frames), NEW f \in Frames, NEW c, NEW r,
         Stacked(v, b, s, c, r), NEW e, Fills(v, b, f, e), Awaits(f, e), e.pos = c, e.rest = r
  PROVE  Stacked(v, b, Append(s, f), Head(e.left), Follow(f, e))
<1>1. PICK g : /\ Chain(v, b, s, g)
               /\ s = <<>> => c = <<>> /\ r = <<>>
               /\ s # <<>> => c = Head(Last(g).left) /\ r = Follow(Last(s), Last(g))
  BY DEF Stacked
<1>2. c \in DOMAIN v /\ Len(c) = Len(s)
  BY DEF Stacked
<1>3. e \in Plans(v) /\ e.left # <<>>
  BY DEF Fills, Awaits
<1>4. g \in Seq(Plans(v)) /\ Len(g) = Len(s)
  BY <1>1 DEF Chain
<1> DEFINE a == Append(s, f)
           k == Append(g, e)
           n == Len(s)
<1>5. /\ n \in Nat /\ Len(a) = n + 1 /\ a[n + 1] = f /\ (\A i \in 1 .. n : a[i] = s[i])
      /\ a # <<>> /\ Last(a) = f
  BY StackAppend
<1>6. /\ k \in Seq(Plans(v)) /\ Len(k) = n + 1 /\ k[n + 1] = e /\ (\A i \in 1 .. n : k[i] = g[i])
      /\ Last(k) = e
  BY <1>3, <1>4, FrontLastAppend
<1> HIDE DEF a, k
<1>7. n > 0 => Last(g) = g[n] /\ Last(s) = s[n] /\ s # <<>>
  BY <1>4 DEF Last
<1>8. n = 0 => s = <<>>
  OBVIOUS
<1> HIDE DEF n
<1>9. ASSUME NEW i \in 1 .. n + 1
      PROVE  /\ Fills(v, b, a[i], k[i]) /\ Awaits(a[i], k[i]) /\ Len(k[i].pos) = i - 1
             /\ i = 1 => k[i].pos = <<>> /\ k[i].rest = <<>>
             /\ i > 1 => k[i].pos = Head(k[i - 1].left) /\ k[i].rest = Follow(a[i - 1], k[i - 1])
  <2>1. CASE i = n + 1
    <3>1. a[i] = f /\ k[i] = e /\ Len(e.pos) = i - 1
      BY <1>2, <1>5, <1>6, <2>1 DEF n
    <3>2. i = 1 => e.pos = <<>> /\ e.rest = <<>>
      BY <1>1, <1>5, <1>8, <2>1
    <3>3. ASSUME i > 1 PROVE e.pos = Head(k[i - 1].left) /\ e.rest = Follow(a[i - 1], k[i - 1])
      <4>1. n > 0 /\ i - 1 = n /\ n \in 1 .. n
        BY <1>5, <2>1, <3>3
      <4>2. a[i - 1] = s[n] /\ k[i - 1] = g[n]
        BY <1>5, <1>6, <4>1
      <4> QED BY <1>1, <1>7, <4>1, <4>2
    <3> QED BY <3>1, <3>2, <3>3
  <2>2. CASE i # n + 1
    <3>1. i \in 1 .. n
      BY <1>5, <2>2
    <3>2. a[i] = s[i] /\ k[i] = g[i]
      BY <1>5, <1>6, <3>1
    <3>3. i > 1 => i - 1 \in 1 .. n /\ a[i - 1] = s[i - 1] /\ k[i - 1] = g[i - 1]
      BY <1>5, <1>6, <3>1
    <3> QED BY <1>1, <3>1, <3>2, <3>3 DEF Chain, n
  <2> QED BY <2>1, <2>2
<1>10. Chain(v, b, a, k)
  BY <1>5, <1>6, <1>9 DEF Chain
<1>11. Head(e.left) \in DOMAIN v /\ Follow(f, e) \in Todos(v)
  BY <1>3, FollowType
<1>12. Len(Head(e.left)) = Len(a)
  <2>1. Head(e.left) \in Children(v, e.pos)
    BY <1>3 DEF Fills, Plans
  <2>2. Len(Head(e.left)) = Len(e.pos) + 1
    BY <1>2, <2>1, ChildStep
  <2> QED BY <1>2, <1>5, <2>2 DEF n
<1>13. Stacked(v, b, a, Head(e.left), Follow(f, e))
  BY <1>5, <1>6, <1>10, <1>11, <1>12 DEF Stacked
<1> QED BY <1>13 DEF a

\* The last call waits for the first of its children that are left, and is
\* itself what the others wait for.
LEMMA StackedPop ==
  ASSUME NEW v \in Values, NEW b, NEW s \in Seq(Frames), NEW f \in Frames, NEW c, NEW r,
         Stacked(v, b, Append(s, f), c, r)
  PROVE  \E e : /\ Fills(v, b, f, e) /\ Awaits(f, e) /\ c = Head(e.left) /\ r = Follow(f, e)
                /\ Stacked(v, b, s, e.pos, e.rest)
<1> DEFINE a == Append(s, f)
           n == Len(s)
<1>1. /\ n \in Nat /\ Len(a) = n + 1 /\ a[n + 1] = f /\ (\A i \in 1 .. n : a[i] = s[i])
      /\ a # <<>> /\ Last(a) = f
  BY StackAppend
<1> HIDE DEF a
<1>2. PICK k : /\ Chain(v, b, a, k) /\ c = Head(Last(k).left) /\ r = Follow(Last(a), Last(k))
  BY <1>1 DEF Stacked, a
<1>3. k \in Seq(Plans(v)) /\ Len(k) = n + 1
  BY <1>1, <1>2 DEF Chain
<1> DEFINE e == Last(k)
           g == Front(k)
<1>4. /\ g \in Seq(Plans(v)) /\ Len(g) = n /\ e \in Plans(v) /\ k = Append(g, e)
  <2>1. k # <<>>
    BY <1>1, <1>3
  <2> QED BY <1>1, <1>3, <2>1, FrontLast
<1> HIDE DEF e, g
<1>5. k[n + 1] = e /\ \A i \in 1 .. n : k[i] = g[i]
  BY <1>1, <1>4
<1>6. n > 0 => Last(g) = g[n] /\ Last(s) = s[n]
  BY <1>4 DEF Last
<1>7. n = 0 <=> s = <<>>
  OBVIOUS
<1>8. n = Len(s)
  OBVIOUS
<1> HIDE DEF n
<1>9. \A i \in 1 .. n + 1 :
        /\ Fills(v, b, a[i], k[i]) /\ Awaits(a[i], k[i]) /\ Len(k[i].pos) = i - 1
        /\ i = 1 => k[i].pos = <<>> /\ k[i].rest = <<>>
        /\ i > 1 => k[i].pos = Head(k[i - 1].left) /\ k[i].rest = Follow(a[i - 1], k[i - 1])
  BY <1>1, <1>2 DEF Chain
<1>10. n + 1 \in 1 .. n + 1 /\ (n + 1) - 1 = n
  BY <1>1
<1>11. Fills(v, b, f, e) /\ Awaits(f, e) /\ Len(e.pos) = n
  BY <1>1, <1>5, <1>9, <1>10
<1>12. Chain(v, b, s, g)
  <2>1. ASSUME NEW i \in 1 .. n
        PROVE  /\ Fills(v, b, s[i], g[i]) /\ Awaits(s[i], g[i]) /\ Len(g[i].pos) = i - 1
               /\ i = 1 => g[i].pos = <<>> /\ g[i].rest = <<>>
               /\ i > 1 => g[i].pos = Head(g[i - 1].left) /\ g[i].rest = Follow(s[i - 1], g[i - 1])
    <3>1. i \in 1 .. n + 1 /\ a[i] = s[i] /\ k[i] = g[i]
      BY <1>1, <1>5
    <3>2. i > 1 => i - 1 \in 1 .. n /\ a[i - 1] = s[i - 1] /\ k[i - 1] = g[i - 1]
      BY <1>1, <1>5
    <3> QED BY <1>9, <3>1, <3>2
  <2> QED BY <1>4, <1>8, <2>1 DEF Chain
<1>13. /\ s = <<>> => e.pos = <<>> /\ e.rest = <<>>
       /\ s # <<>> => e.pos = Head(Last(g).left) /\ e.rest = Follow(Last(s), Last(g))
  <2>1. CASE n = 0
    BY <1>5, <1>7, <1>9, <1>10, <2>1
  <2>2. CASE n # 0
    <3>1. n > 0 /\ n + 1 > 1 /\ n \in 1 .. n
      BY <1>1, <2>2
    <3>2. a[n] = s[n] /\ k[n] = g[n]
      BY <1>1, <1>5, <3>1
    <3>3. e.pos = Head(k[n].left) /\ e.rest = Follow(a[n], k[n])
      BY <1>5, <1>9, <1>10, <3>1
    <3> QED BY <1>6, <1>7, <2>2, <3>1, <3>2, <3>3
  <2> QED BY <2>1, <2>2
<1>14. Stacked(v, b, s, e.pos, e.rest)
  <2>1. e.pos \in DOMAIN v /\ e.rest \in Todos(v)
    BY <1>4 DEF Plans
  <2> QED BY <1>8, <1>11, <1>12, <1>13, <2>1 DEF Stacked
<1>15. c = Head(e.left) /\ r = Follow(f, e)
  BY <1>1, <1>2 DEF e
<1> QED BY <1>11, <1>14, <1>15

\* A tag's call begins.
LEMMA TagBegins ==
  ASSUME NEW v \in Values, NEW b, NEW c \in DOMAIN v, v[c].type = "TAG", LimitAt(v, c),
         NEW order, IsOrder(v, c, order), NEW r \in Todos(v),
         NEW f, f.kind = "TAG", f.tree = NULL, f.left = 1, b[f.id].arg = v[c].val,
         NEW e, e = [pos |-> c, left |-> order, rest |-> r]
  PROVE  Fills(v, b, f, e) /\ Awaits(f, e) /\ order = <<Append(c, Content)>>
<1> DEFINE a == Append(c, Content)
<1>1. Children(v, c) = {a} /\ v[c].width = 0
  BY ValueAt DEF Fits
<1> HIDE DEF a
<1>2. /\ order \in Seq(DOMAIN v) /\ \A i, j \in DOMAIN order : order[i] = order[j] => i = j
      /\ {order[i] : i \in DOMAIN order} = {a}
  BY <1>1 DEF IsOrder
<1>3. \A i \in DOMAIN order : order[i] = a
  BY <1>2
<1>4. Len(order) = 1 /\ DOMAIN order = {1}
  <2>1. DOMAIN order = 1 .. Len(order) /\ Len(order) \in Nat
    BY <1>2
  <2>2. PICK i \in DOMAIN order : order[i] = a
    BY <1>2
  <2>3. 1 \in DOMAIN order
    BY <2>1, <2>2
  <2>4. \A j \in DOMAIN order : j = 1
    BY <1>2, <1>3, <2>3
  <2>5. ~(Len(order) > 1)
    <3> SUFFICES ASSUME Len(order) > 1 PROVE FALSE
      OBVIOUS
    <3>1. 2 \in 1 .. Len(order)
      BY <2>1
    <3> QED BY <2>1, <2>4, <3>1
  <2> QED BY <2>1, <2>3, <2>5
<1>5. order = <<a>>
  BY <1>2, <1>3, <1>4
<1>6. e.pos = c /\ e.left = order /\ e.rest = r /\ e \in Plans(v)
  BY <1>2 DEF Plans
<1>7. Taken(v, e) = {}
  BY <1>1, <1>2, <1>6 DEF Taken
<1>8. IsPart(v, f.tree, c, {})
  <2>1. DOMAIN NULL \subseteq {<<>>}
    BY NULLFacts
  <2> QED BY <2>1, PartEmpty
<1>9. /\ \A i \in DOMAIN order : order[i] \in Children(v, c)
      /\ Len(c) <= CORECONF_MAX_DEPTH /\ v[c].val <= 2 * Largest[32] + 1
      /\ \A i \in DOMAIN order : order[i] = Append(c, Content)
  BY <1>1, <1>3 DEF LimitAt, a
<1>10. Fills(v, b, f, e)
  BY <1>1, <1>2, <1>4, <1>6, <1>7, <1>8, <1>9 DEF Fills
<1>11. Awaits(f, e)
  <2>1. <<a>> # <<>>
    OBVIOUS
  <2> QED BY <1>5, <1>6, <2>1 DEF Awaits
<1> QED BY <1>5, <1>10, <1>11 DEF a

\* The call of an array or a map begins.
LEMMA ContainerBegins ==
  ASSUME NEW v \in Values, NEW b, NEW c \in DOMAIN v, v[c].type \in {"ARRAY", "MAP"},
         Len(c) <= CORECONF_MAX_DEPTH, NEW order, IsOrder(v, c, order), NEW r \in Todos(v),
         NEW f, f.kind = v[c].type, f.left \in {INDEFINITE, v[c].val}, f.loopCount = 0,
         DOMAIN f.tree = {<<>>}, f.tree[<<>>].cell = Cell(v[c].type, 0, 0),
         NEW e, e = [pos |-> c, left |-> order, rest |-> r]
  PROVE  Fills(v, b, f, e)
<1>1. /\ order \in Seq(DOMAIN v) /\ \A i, j \in DOMAIN order : order[i] = order[j] => i = j
      /\ {order[i] : i \in DOMAIN order} = Children(v, c) /\ Len(order) = v[c].val
      /\ v[c].type = "ARRAY" => \A i \in DOMAIN order : order[i] = Append(c, Elem(i))
  BY DEF IsOrder
<1>2. e.pos = c /\ e.left = order /\ e.rest = r /\ e \in Plans(v)
  BY <1>1 DEF Plans
<1>3. Taken(v, e) = {}
  BY <1>1, <1>2 DEF Taken
<1>4. IsPart(v, f.tree, c, {})
  BY PartEmpty
<1>5. Size(f) = 0
  BY DEF Size, Cell
<1>6. Cardinality(Entries(f.tree)) = 0
  <2>1. Entries(f.tree) = {}
    <3>1. Len(<<>>) # 1
      OBVIOUS
    <3> QED BY <3>1 DEF Entries
  <2> QED BY <2>1, FS_EmptySet
<1>7. Len(order) \in Nat /\ \A i \in DOMAIN order : i \in Nat
  BY <1>1
<1>8. /\ \A i \in DOMAIN order : order[i] \in Children(v, c)
      /\ \A i \in DOMAIN order : 0 + i = i
      /\ 0 + Len(order) = v[c].val /\ 0 <= CORECONF_MAX_LOOP + 1
  BY <1>1, <1>7, SerializationAssumption
<1> QED BY <1>1, <1>2, <1>3, <1>4, <1>5, <1>6, <1>8 DEF Fills

\* A call has nothing left: the container is whole.
LEMMA ContainerWhole ==
  ASSUME NEW v \in Values, NEW b, NEW f \in Frames, f.kind # "TAG", NEW e, Fills(v, b, f, e),
         e.left = <<>>
  PROVE  IsWhole(v, f.tree, e.pos)
<1>1. e.pos \in DOMAIN v /\ f.kind = v[e.pos].type
  BY DEF Fills, Plans
<1>2. f.kind \in {"ARRAY", "MAP"} /\ f.tree \in Trees /\ IsContainer(f)
  BY FrameFacts DEF IsFrame, IsTag, IsArray, IsMap
<1>3. DOMAIN f.tree \subseteq Positions /\ <<>> \in DOMAIN f.tree
  BY <1>2, TreeFacts DEF IsContainer, IsTree
<1>4. Taken(v, e) = Children(v, e.pos)
  <2>1. DOMAIN e.left = {}
    OBVIOUS
  <2> QED BY <2>1 DEF Taken
<1>5. IsPart(v, f.tree, e.pos, Children(v, e.pos))
  BY <1>4 DEF Fills
<1>6. Size(f) \in Nat /\ Size(f) = v[e.pos].val
  <2>1. Size(f) \in Nat
    BY <1>2 DEF Size, IsContainer
  <2>2. Size(f) + Len(e.left) = v[e.pos].val /\ Len(e.left) = 0
    BY DEF Fills
  <2> QED BY <2>1, <2>2
<1>7. v[e.pos] \in Cells /\ v[e.pos].width = 0
  BY <1>1, <1>2, ValueAt DEF Fits
<1>8. f.tree[<<>>].cell = NormalCell(v[e.pos])
  <2>1. f.tree[<<>>].cell = Cell(f.kind, 0, Size(f))
    BY DEF Fills
  <2>2. v[e.pos] = [type |-> v[e.pos].type, width |-> v[e.pos].width, val |-> v[e.pos].val]
    BY <1>7 DEF Cells
  <2>3. v[e.pos] = Cell(f.kind, 0, Size(f))
    BY <1>1, <1>6, <1>7, <2>2 DEF Cell
  <2>4. NormalCell(v[e.pos]) = v[e.pos]
    BY <1>1, <1>2 DEF NormalCell
  <2> QED BY <2>1, <2>3, <2>4
<1>9. LimitAt(v, e.pos)
  <2>1. v[e.pos].type = "MAP" => v[e.pos].val <= CORECONF_MAX_LOOP + 1
    BY <1>1, <1>6 DEF Fills
  <2>2. v[e.pos].type # "TAG" /\ Len(e.pos) <= CORECONF_MAX_DEPTH
    BY <1>1 DEF Fills
  <2> QED BY <2>1, <2>2 DEF LimitAt
<1> QED BY <1>1, <1>3, <1>5, <1>8, <1>9, PartWhole

\* A tag with its value is whole.
LEMMA TagWhole ==
  ASSUME NEW v \in Values, NEW b, NEW f \in Frames, f.kind = "TAG", NEW e, Fills(v, b, f, e),
         Awaits(f, e), NEW r \in Trees, IsWhole(v, r, Head(e.left)),
         NEW t, t = Tagged(f.id, Cell("TAG", 0, b[f.id].arg), r), t \in Trees
  PROVE  IsWhole(v, t, e.pos) /\ Tail(e.left) = <<>> /\ End(f) = <<>>
<1> DEFINE c == Append(e.pos, Content)
           u == Under(Content, r)
<1>1. /\ e.pos \in DOMAIN v /\ v[e.pos].type = "TAG" /\ e.left \in Seq(DOMAIN v) /\ e.left # <<>>
  BY DEF Fills, Plans, Awaits
<1>2. f.left = 1 /\ Len(e.left) = 1
  <2>1. f.left = 1 /\ f.left \in {INDEFINITE, Len(e.left)}
    BY DEF Fills
  <2>2. INDEFINITE # 1
    BY DEF INDEFINITE
  <2> QED BY <2>1, <2>2
<1>3. 1 \in DOMAIN e.left /\ Head(e.left) = e.left[1] /\ Tail(e.left) = <<>>
  <2> DEFINE w == e.left
             x == Tail(w)
             S == DOMAIN v
  <2>1. w \in Seq(S) /\ Len(w) = 1 /\ w # <<>>
    BY <1>1, <1>2
  <2> HIDE DEF w, S
  <2>2. 1 \in DOMAIN w /\ Head(w) = w[1] /\ x \in Seq(S) /\ Len(x) = 0
    <3>1. x \in Seq(S) /\ Len(x) = Len(w) - 1
      BY <2>1
    <3>2. 1 \in DOMAIN w /\ Head(w) = w[1]
      BY <2>1
    <3> QED BY <2>1, <3>1, <3>2
  <2> HIDE DEF x
  <2>3. x = <<>>
    BY <2>2
  <2> QED BY <2>2, <2>3 DEF w, x
<1>4. Head(e.left) = c
  BY <1>3 DEF Fills
<1>5. End(f) = <<>>
  BY <1>2 DEF End, INDEFINITE
<1>6. Content \in Steps /\ c \in Children(v, e.pos) /\ Children(v, e.pos) = {c}
  <2>1. Content \in Steps
    BY DEF Content, Steps
  <2>2. Children(v, e.pos) = {c}
    BY <1>1, ValueAt
  <2> QED BY <2>1, <2>2
<1>7. Taken(v, e) = {}
  BY <1>3, <1>4, <1>6 DEF Taken
<1>8. f.tree = NULL /\ DOMAIN NULL = {}
  BY FrameFacts, NULLFacts DEF IsFrame, IsTag, IsArray, IsMap
<1>9. DOMAIN r \subseteq Positions /\ DOMAIN t \subseteq Positions
  BY TreeFacts
<1>10. <<>> \notin DOMAIN u
  BY <1>6, <1>9, UnderShape
<1> HIDE DEF u
<1>11. /\ DOMAIN t = {<<>>} \cup DOMAIN u
       /\ t[<<>>].cell = Cell("TAG", 0, b[f.id].arg)
       /\ \A q \in DOMAIN u : t[q] = u[q]
  BY <1>10 DEF Tagged, u
<1>12. IsJoin(t, NULL, Content, r)
  BY <1>8, <1>11 DEF IsJoin, u
<1>13. IsPart(v, NULL, e.pos, {})
  BY <1>7, <1>8 DEF Fills
<1>14. IsPart(v, t, e.pos, {c})
  <2> DEFINE D == {}
  <2>1. c \notin D /\ DOMAIN NULL \subseteq Positions /\ IsPart(v, NULL, e.pos, D)
    BY <1>8, <1>13
  <2>2. D \cup {c} = {c}
    OBVIOUS
  <2>3. IsWhole(v, r, c)
    BY <1>4
  <2> HIDE DEF D
  <2>4. IsPart(v, t, e.pos, D \cup {c})
    BY <1>1, <1>6, <1>9, <1>12, <2>1, <2>3, PartGrows
  <2> QED BY <2>2, <2>4
<1>15. t[<<>>].cell = NormalCell(v[e.pos])
  <2>1. v[e.pos] \in Cells /\ v[e.pos].width = 0 /\ b[f.id].arg = v[e.pos].val
    BY <1>1, ValueAt DEF Fills
  <2>2. v[e.pos] = [type |-> v[e.pos].type, width |-> v[e.pos].width, val |-> v[e.pos].val]
    BY <2>1 DEF Cells
  <2>3. v[e.pos] = Cell("TAG", 0, b[f.id].arg)
    BY <1>1, <2>1, <2>2 DEF Cell
  <2>4. NormalCell(v[e.pos]) = v[e.pos]
    BY <1>1 DEF NormalCell
  <2> QED BY <1>11, <2>3, <2>4
<1>16. LimitAt(v, e.pos)
  BY <1>1 DEF Fills, LimitAt
<1>17. IsWhole(v, t, e.pos)
  BY <1>1, <1>6, <1>9, <1>11, <1>14, <1>15, <1>16, PartWhole
<1> QED BY <1>3, <1>5, <1>17

\* The value a container waited for goes where the encoder had it.
LEMMA ContainerTakes ==
  ASSUME NEW v \in Values, NEW b, NEW f \in Frames, f.kind # "TAG", NEW e, Fills(v, b, f, e),
         Awaits(f, e), Waiting(f), NEW r \in Trees, IsWhole(v, r, Head(e.left)),
         NEW g, g.kind = f.kind, g.left = (IF f.left = INDEFINITE THEN INDEFINITE ELSE f.left - 1),
         IsJoin(g.tree, f.tree, Last(Head(e.left)), r),
         g.tree[<<>>].cell = Cell(f.kind, 0, Size(f) + 1),
         f.kind = "MAP" => g.loopCount = f.loopCount + 1,
         NEW d, d = [pos |-> e.pos, left |-> Tail(e.left), rest |-> e.rest]
  PROVE  Fills(v, b, g, d)
<1> DEFINE c == Head(e.left)
           p == e.pos
           s == Last(c)
           n == Size(f)
           w == e.left
           t == Tail(w)
<1>1. /\ p \in DOMAIN v /\ w \in Seq(DOMAIN v) /\ w # <<>> /\ e.rest \in Todos(v)
      /\ \A i, j \in DOMAIN w : w[i] = w[j] => i = j
      /\ \A i \in DOMAIN w : w[i] \in Children(v, p)
  BY DEF Fills, Plans, Awaits
<1>2. /\ t \in Seq(DOMAIN v) /\ Len(w) = Len(t) + 1 /\ Len(t) \in Nat
      /\ DOMAIN w = 1 .. Len(t) + 1 /\ DOMAIN t = 1 .. Len(t)
      /\ w[1] = c /\ \A i \in 1 .. Len(t) : t[i] = w[i + 1]
  <2> DEFINE S == DOMAIN v
  <2>1. w \in Seq(S) /\ w # <<>>
    BY <1>1
  <2> HIDE DEF S, w
  <2>2. /\ t \in Seq(S) /\ Len(w) = Len(t) + 1 /\ Len(t) \in Nat
        /\ DOMAIN w = 1 .. Len(t) + 1 /\ DOMAIN t = 1 .. Len(t)
        /\ w[1] = Head(w) /\ \A i \in 1 .. Len(t) : t[i] = w[i + 1]
    BY <2>1
  <2> QED BY <2>2 DEF S, w
<1> HIDE DEF c, w, t
<1>3. 1 \in DOMAIN w /\ \A i \in DOMAIN t : i + 1 \in DOMAIN w /\ i + 1 # 1
  BY <1>2
<1>4. d.pos = p /\ d.left = t /\ d.rest = e.rest /\ d \in Plans(v)
  BY <1>1, <1>2 DEF Plans, t, w
<1>5. c \in Children(v, p) /\ s \in Steps /\ c = Append(p, s)
  <2>1. p \in DOMAIN v /\ c \in Children(v, p)
    <3>1. w[1] = c /\ w[1] \in Children(v, p)
      BY ONLY <1>1, <1>2, <1>3
    <3> QED BY ONLY <1>1, <3>1
  <2>2. Last(c) \in Steps /\ c = Append(p, Last(c))
    BY ONLY <2>1, ChildStep, v \in Values, SerializationAssumption
  <2> QED BY ONLY <2>1, <2>2
<1>6. c \notin Taken(v, e) /\ Taken(v, d) = Taken(v, e) \cup {c}
  <2>1. {w[i] : i \in DOMAIN w} = {c} \cup {t[i] : i \in DOMAIN t}
    <3>1. \A i \in DOMAIN w : i = 1 \/ (i - 1 \in DOMAIN t /\ t[i - 1] = w[i])
      <4> SUFFICES ASSUME NEW i \in DOMAIN w, i # 1 PROVE i - 1 \in DOMAIN t /\ t[i - 1] = w[i]
        OBVIOUS
      <4> DEFINE j == i - 1
      <4>1. j \in 1 .. Len(t) /\ j + 1 = i
        BY <1>2
      <4> HIDE DEF j
      <4>2. j \in DOMAIN t /\ t[j] = w[i]
        BY <1>2, <4>1
      <4> QED BY <4>2 DEF j
    <3>2. \A i \in DOMAIN t : t[i] = w[i + 1]
      BY <1>2
    <3>3. ASSUME NEW x PROVE (\E i \in DOMAIN w : x = w[i]) <=> x = c \/ \E i \in DOMAIN t : x = t[i]
      BY <1>2, <1>3, <3>1, <3>2
    <3> QED BY <3>3
  <2>2. c \notin {t[i] : i \in DOMAIN t}
    <3> SUFFICES ASSUME NEW i \in DOMAIN t, t[i] = c PROVE FALSE
      OBVIOUS
    <3>1. w[i + 1] = w[1]
      BY <1>2
    <3> QED BY <1>1, <1>3, <3>1
  <2>3. Taken(v, e) = Children(v, p) \ {w[i] : i \in DOMAIN w}
    BY DEF Taken, w
  <2>4. Taken(v, d) = Children(v, p) \ {t[i] : i \in DOMAIN t}
    BY <1>4 DEF Taken
  <2> QED BY <1>5, <2>1, <2>2, <2>3, <2>4
<1>7. f.tree \in Trees /\ IsContainer(f) /\ DOMAIN f.tree \subseteq Positions /\ n \in Nat
  BY FrameFacts, TreeFacts DEF IsFrame, IsTag, IsArray, IsMap, IsContainer, Size
<1> HIDE DEF s, n, p
<1>8. IsPart(v, g.tree, p, Taken(v, d))
  <2> DEFINE D == Taken(v, e)
             x == f.tree
             y == g.tree
  <2>1. IsPart(v, x, p, D) /\ Append(p, s) \notin D /\ DOMAIN x \subseteq Positions
    BY <1>5, <1>6, <1>7 DEF Fills, p
  <2>2. IsWhole(v, r, Append(p, s)) /\ DOMAIN r \subseteq Positions
    BY <1>5, TreeFacts DEF c, w
  <2>3. IsJoin(y, x, s, r) /\ Append(p, s) \in Children(v, p)
    BY <1>5 DEF s, c, w
  <2> HIDE DEF D, x, y
  <2>4. IsPart(v, y, p, D \cup {Append(p, s)})
    BY <1>1, <1>5, <2>1, <2>2, <2>3, PartGrows
  <2> QED BY <1>5, <1>6, <2>4 DEF D, y
<1>9. Size(g) = n + 1 /\ g.tree[<<>>].cell = Cell(g.kind, 0, Size(g))
  BY DEF Size, Cell, n
<1>10. Size(g) + Len(t) = v[p].val
  <2>1. n + Len(w) = v[p].val
    BY DEF Fills, n, p, w
  <2> QED BY <1>2, <1>7, <1>9, <2>1
<1>11. g.left \in {INDEFINITE, Len(t)}
  <2>1. f.left \in {INDEFINITE, Len(w)}
    BY DEF Fills, w
  <2>2. Len(w) - 1 = Len(t)
    BY <1>2
  <2> QED BY <2>1, <2>2
<1>12. /\ \A i, j \in DOMAIN t : t[i] = t[j] => i = j
       /\ \A i \in DOMAIN t : t[i] \in Children(v, p)
  <2>1. \A i \in DOMAIN t : i + 1 \in DOMAIN w /\ t[i] = w[i + 1] /\ i \in Nat
    BY <1>2, <1>3
  <2>2. ASSUME NEW i \in DOMAIN t, NEW j \in DOMAIN t, t[i] = t[j] PROVE i = j
    <3>1. i + 1 = j + 1 /\ i \in Nat /\ j \in Nat
      BY <1>1, <2>1, <2>2 DEF w
    <3> QED BY <3>1
  <2> QED BY <1>1, <2>1, <2>2
<1>13. g.kind = "ARRAY" => \A i \in DOMAIN t : t[i] = Append(p, Elem(Size(g) + i))
  <2> SUFFICES ASSUME f.kind = "ARRAY", NEW i \in DOMAIN t PROVE t[i] = Append(p, Elem(Size(g) + i))
    OBVIOUS
  <2>1. t[i] = w[i + 1] /\ i + 1 \in DOMAIN w /\ i \in Nat
    BY <1>2, <1>3
  <2>2. \A j \in DOMAIN w : w[j] = Append(p, Elem(n + j))
    BY DEF Fills, w, p, n
  <2>3. w[i + 1] = Append(p, Elem(n + (i + 1)))
    BY <2>1, <2>2
  <2>4. n + (i + 1) = Size(g) + i
    BY <1>7, <1>9, <2>1
  <2> QED BY <2>1, <2>3, <2>4
<1>14. ASSUME g.kind = "MAP"
       PROVE  /\ g.loopCount = Size(g) /\ Cardinality(Entries(g.tree)) = Size(g)
              /\ g.loopCount <= CORECONF_MAX_LOOP + 1
  <2>1. /\ f.loopCount = n /\ Cardinality(Entries(f.tree)) = n /\ g.loopCount = n + 1
        /\ f.loopCount <= CORECONF_MAX_LOOP
    BY <1>14 DEF Fills, n, Waiting
  <2>2. IsFiniteSet(Entries(f.tree))
    BY <1>14, FrameFacts DEF IsFrame, IsTag, IsArray, IsMap
  <2> DEFINE u == Under(s, r)
             x == <<s>>
  <2>3. /\ DOMAIN u \subseteq Positions /\ <<>> \notin DOMAIN u /\ <<>> \in Positions
        /\ \A q \in DOMAIN r : <<s>> \o q \in DOMAIN u
        /\ \A q \in DOMAIN u : q[1] = s /\ q = <<s>> \o Tail(q)
    BY <1>5, TreeFacts, UnderShape, PositionSteps
  <2>4. x \in Positions /\ Len(x) = 1 /\ x # <<>> /\ x[1] = s /\ p \o x = c
    <3>1. p \in Seq(Steps) /\ <<s>> \in Seq(Steps)
      BY <1>1, <1>5, ValueAt, PositionSteps DEF p
    <3>2. p \o <<s>> = Append(p, s)
      BY <3>1
    <3> QED BY <1>5, <3>1, <3>2, PositionSteps
  <2>5. x \in DOMAIN u
    <3>1. c \in Seq(Steps) /\ c \in DOMAIN v
      BY <1>1, <1>5, ChildStep, PositionSteps DEF p
    <3>2. c \o <<>> = c
      BY <3>1
    <3>3. <<>> \in DOMAIN r
      BY <2>3, <3>1, <3>2 DEF IsWhole, c, w
    <3>4. <<s>> \o <<>> = <<s>>
      OBVIOUS
    <3> QED BY <2>3, <3>3, <3>4
  <2>6. \A q \in Seq(Steps) : Len(q) = 1 => q = <<q[1]>>
    OBVIOUS
  <2> HIDE DEF u, x
  <2>7. x \notin DOMAIN f.tree
    <3>1. x \in DOMAIN f.tree => Append(p, x[1]) \in Taken(v, e)
      BY <2>4 DEF Fills, IsPart, p
    <3> QED BY <1>5, <1>6, <2>4, <3>1
  <2>8. Entries(g.tree) = Entries(f.tree) \cup {x}
    <3>1. DOMAIN g.tree = {<<>>} \cup DOMAIN f.tree \cup DOMAIN u
      BY DEF IsJoin, u, s, c, w
    <3>2. Len(<<>>) # 1
      OBVIOUS
    <3>3. \A q \in DOMAIN u : Len(q) = 1 => q = x
      BY <2>3, <2>6, PositionSteps DEF x
    <3> QED BY <2>4, <2>5, <3>1, <3>2, <3>3 DEF Entries
  <2>9. Cardinality(Entries(g.tree)) = n + 1
    <3>1. x \notin Entries(f.tree)
      BY <2>7 DEF Entries
    <3> QED BY <2>1, <2>2, <2>8, <3>1, FS_AddElement
  <2>10. n + 1 <= CORECONF_MAX_LOOP + 1
    BY <1>7, <2>1, SerializationAssumption
  <2> QED BY <1>9, <2>1, <2>9, <2>10
<1>15. g.kind = v[p].type /\ g.kind # "TAG" /\ Len(p) <= CORECONF_MAX_DEPTH
  BY DEF Fills, p
<1> QED BY <1>4, <1>8, <1>9, <1>10, <1>11, <1>12, <1>13, <1>14, <1>15 DEF Fills

-----------------------------------------------------------------------------
(* The inductive invariant *)

\* A call waits for the value that begins at item i.
AwaitsValue(v, b, i, s) ==
  \E c, r : Stacked(v, b, s, c, r) /\ Reading(v, b, i, <<c>> \o r, KeyItem(c) # <<>>)

\* The last call is in its loop, at item i.
InLoop(v, b, i, s) ==
  /\ s # <<>>
  /\ \E e : /\ Stacked(v, b, Front(s), e.pos, e.rest) /\ Fills(v, b, Last(s), e)
            /\ Reading(v, b, i, e.left \o End(Last(s)) \o e.rest, FALSE)

\* A call is given its value, and goes on at item i.
IsGiven(v, b, i, s, t) ==
  \E c, r : Stacked(v, b, s, c, r) /\ IsWhole(v, t, c) /\ Reading(v, b, i, r, FALSE)

SourceOK ==
  /\ src # NULL => src \in Values
  /\ pc = "idle" => src = NULL

WrittenOK ==
  /\ pc \in {"encode", "peer"} => Written(src, buf, todo, FALSE)
  /\ pc = "encoded" /\ src # NULL => Written(src, buf, <<>>, FALSE)

DecodedOK ==
  src # NULL /\ oom # "ignored" =>
    /\ pc = "value" => AwaitsValue(src, buf, at, stack)
    /\ pc = "loop" => InLoop(src, buf, at, stack)
    /\ pc = "return" /\ ret # NULL => IsGiven(src, buf, at, stack, ret)
    /\ pc = "return" /\ ret = NULL => oom = "noticed" \/ ~WithinLimits(src)

Faithful == SourceOK /\ WrittenOK /\ DecodedOK

-----------------------------------------------------------------------------
(* The encoders *)

\* A position is encoded: its key, if it has one, and its head.
LEMMA WritesPosition ==
  ASSUME src \in Values, NEW b \in Seq(Items), NEW x \in Todos(src), x # <<>>,
         Head(x) \in DOMAIN src, Written(src, b, x, FALSE),
         NEW order \in ChildOrders(Head(x)), NEW item, NEW y,
         \/ item = HeadItem(src[Head(x)]) /\ y = order \o Tail(x)
         \/ /\ src[Head(x)].type \in {"ARRAY", "MAP"} /\ item = Item(src[Head(x)].type, INDEFINITE)
            /\ y = order \o <<Closing>> \o Tail(x)
  PROVE  Written(src, Append(b \o KeyItem(Head(x)), item), y, FALSE)
<1> DEFINE c == Head(x)
           t == Tail(x)
           S == DOMAIN src \cup {Closing}
<1>1. c # Closing
  BY ValueAt, SerializationAssumption
<1>2. IsOrder(src, c, order)
  BY OrderOf
<1>3. KeyItem(c) \in Seq(Items) /\ item \in Items
  BY ItemTypes
<1>4. y \in Todos(src)
  <2>1. order \in Seq(S) /\ t \in Seq(S) /\ Closing \in S
    <3>1. order \in Seq(DOMAIN src)
      BY <1>2 DEF IsOrder
    <3>2. t \in Seq(S)
      BY DEF Todos
    <3> QED BY <3>1, <3>2
  <2> HIDE DEF t, S
  <2>2. order \o t \in Seq(S) /\ order \o <<Closing>> \o t \in Seq(S)
    BY <2>1
  <2>3. y \in Seq(S)
    BY <2>2 DEF t
  <2> QED BY <2>3 DEF S, Todos
<1>5. ASSUME NEW k \in BOOLEAN, k \/ KeyItem(c) = <<>>
      PROVE  Writes(src, x, k, item, y, FALSE)
  BY <1>1, <1>2, <1>5 DEF Writes
<1>6. CASE KeyItem(c) = <<>>
  <2>1. b \o <<>> = b
    OBVIOUS
  <2>2. Writes(src, x, FALSE, item, y, FALSE)
    BY <1>5, <1>6
  <2>3. Written(src, Append(b, item), y, FALSE)
    BY <1>3, <1>4, <2>2, WrittenMore
  <2> QED BY <1>6, <2>1, <2>3
<1>7. CASE KeyItem(c) # <<>>
  <2> DEFINE z == Item("UINT", Last(c)[2])
             a == Append(b, z)
  <2>1. KeyItem(c) = <<z>>
    BY <1>7 DEF KeyItem
  <2> HIDE DEF z
  <2>2. z \in Items
    <3>1. <<z>> \in Seq(Items)
      BY <1>3, <2>1
    <3>2. z = <<z>>[1] /\ Len(<<z>>) = 1
      OBVIOUS
    <3> QED BY <3>1, <3>2
  <2>3. Writes(src, x, FALSE, z, x, TRUE)
    BY <1>1, <2>1 DEF Writes
  <2>4. Written(src, a, x, TRUE)
    BY <2>2, <2>3, WrittenMore
  <2>5. Writes(src, x, TRUE, item, y, FALSE)
    BY <1>5
  <2>6. a \in Seq(Items) /\ b \o <<z>> = a
    BY <2>2
  <2> HIDE DEF a
  <2>7. Written(src, Append(a, item), y, FALSE)
    BY <1>3, <1>4, <2>4, <2>5, <2>6, WrittenMore
  <2> QED BY <2>1, <2>6, <2>7
<1> QED BY <1>6, <1>7

\* An encoder's step, as the invariant sees it.
LEMMA EncodingKeeps ==
  ASSUME IInv, Faithful, EncodeStep \/ PeerStep
  PROVE  Faithful'
<1>1. /\ pc \in {"encode", "peer"} /\ src \in Values /\ todo \in Todos(src) /\ todo # <<>>
      /\ buf \in Seq(Items) /\ UNCHANGED <<pc, src>> /\ Written(src, buf, todo, FALSE)
  <2>1. pc \in {"encode", "peer"} /\ todo # <<>> /\ UNCHANGED <<pc, src>>
    BY DEF EncodeStep, PeerStep
  <2>2. todo \in Seq(DOMAIN src) => todo \in Todos(src)
    BY DEF Todos
  <2>3. src \in Values /\ todo \in Todos(src) /\ buf \in Seq(Items)
    BY <2>1, <2>2 DEF IInv, EncoderOK, Todos
  <2> QED BY <2>1, <2>3 DEF Faithful, WrittenOK
<1>2. SourceOK'
  BY <1>1 DEF Faithful, SourceOK
<1>3. DecodedOK'
  BY <1>1 DEF DecodedOK
<1> DEFINE c == Head(todo)
<1>4. c \in DOMAIN src \cup {Closing}
  BY <1>1 DEF Todos
<1>5. CASE EncodeStep
  <2>1. PICK order \in ChildOrders(c) : todo' = order \o Tail(todo)
    BY <1>5 DEF EncodeStep
  <2>2. c \in DOMAIN src
    <3>1. todo \in Seq(DOMAIN src)
      BY <1>5 DEF EncodeStep, IInv, EncoderOK
    <3> QED BY <1>1, <3>1
  <2> DEFINE item == HeadItem(src[c])
             k == KeyItem(c)
  <2>3. buf' = buf \o Append(k, item)
    BY <1>5 DEF EncodeStep
  <2>4. Written(src, Append(buf \o k, item), todo', FALSE)
    BY <1>1, <2>1, <2>2, WritesPosition
  <2>5. k \in Seq(Items) /\ item \in Items
    BY <1>1, <2>2, ItemTypes
  <2> HIDE DEF k, item
  <2>6. buf \o Append(k, item) = Append(buf \o k, item)
    BY <1>1, <2>5
  <2>7. Written(src', buf', todo', FALSE)
    BY <1>1, <2>3, <2>4, <2>6
  <2>8. WrittenOK'
    BY <1>1, <2>7 DEF WrittenOK
  <2> QED BY <1>2, <1>3, <2>8 DEF Faithful
<1>6. CASE PeerStep /\ c = Closing
  <2>1. buf' = Append(buf, Break) /\ todo' = Tail(todo)
    BY <1>6 DEF PeerStep
  <2>2. Writes(src, todo, FALSE, Break, Tail(todo), FALSE)
    BY <1>1, <1>6 DEF Writes
  <2>3. Break \in Items /\ Tail(todo) \in Todos(src)
    BY <1>1 DEF Break, Item, Items, Todos
  <2>4. Written(src, Append(buf, Break), Tail(todo), FALSE)
    BY <1>1, <2>2, <2>3, WrittenMore
  <2>5. WrittenOK'
    BY <1>1, <2>1, <2>4 DEF WrittenOK
  <2> QED BY <1>2, <1>3, <2>5 DEF Faithful
<1>7. CASE PeerStep /\ c # Closing
  <2>1. \E item : \E order \in ChildOrders(c) :
          /\ buf' = Append(buf \o KeyItem(c), item)
          /\ \/ item = HeadItem(src[c]) /\ todo' = order \o Tail(todo)
             \/ /\ src[c].type \in {"ARRAY", "MAP"} /\ item = Item(src[c].type, INDEFINITE)
                /\ todo' = order \o <<Closing>> \o Tail(todo)
    <3>1. \/ /\ buf' = Append(buf \o KeyItem(c), HeadItem(src[c]))
             /\ \E order \in ChildOrders(c) : todo' = order \o Tail(todo)
          \/ /\ src[c].type \in {"ARRAY", "MAP"}
             /\ buf' = Append(buf \o KeyItem(c), Item(src[c].type, INDEFINITE))
             /\ \E order \in ChildOrders(c) : todo' = order \o <<Closing>> \o Tail(todo)
      BY <1>7 DEF PeerStep
    <3> QED BY <3>1, Zenon
  <2>2. PICK item : \E order \in ChildOrders(c) :
          /\ buf' = Append(buf \o KeyItem(c), item)
          /\ \/ item = HeadItem(src[c]) /\ todo' = order \o Tail(todo)
             \/ /\ src[c].type \in {"ARRAY", "MAP"} /\ item = Item(src[c].type, INDEFINITE)
                /\ todo' = order \o <<Closing>> \o Tail(todo)
    BY <2>1
  <2>3. c \in DOMAIN src
    BY <1>4, <1>7
  <2>4. Written(src, Append(buf \o KeyItem(c), item), todo', FALSE)
    BY <1>1, <2>2, <2>3, WritesPosition
  <2>5. WrittenOK'
    BY <1>1, <2>2, <2>4 DEF WrittenOK
  <2> QED BY <1>2, <1>3, <2>5 DEF Faithful
<1> QED BY <1>5, <1>6, <1>7

\* An encoding begins or ends, or malformed input arrives.
LEMMA EncoderKeeps ==
  ASSUME IInv, Faithful,
         \/ \E v \in Values : Encode(v) \/ PeerEncodes(v)
         \/ \E items \in Malformed : Receive(items)
         \/ EncodeFails \/ EncodeReturns \/ PeerReturns
  PROVE  Faithful'
<1>1. CASE \E v \in Values : Encode(v) \/ PeerEncodes(v)
  <2>1. PICK v \in Values : Encode(v) \/ PeerEncodes(v)
    BY <1>1
  <2>2. pc' \in {"encode", "peer"} /\ src' = v /\ buf' = <<>> /\ todo' = <<<<>>>>
    BY <2>1 DEF Encode, PeerEncodes, StartEncoding
  <2>3. Written(v, <<>>, <<<<>>>>, FALSE)
    BY WrittenFirst
  <2> QED BY <2>2, <2>3 DEF Faithful, SourceOK, WrittenOK, DecodedOK
<1>2. CASE \E items \in Malformed : Receive(items)
  <2>1. pc = "idle" /\ pc' = "encoded" /\ src' = src
    BY <1>2 DEF Receive
  <2>2. src' = NULL
    BY <2>1 DEF Faithful, SourceOK
  <2> QED BY <2>1, <2>2 DEF Faithful, SourceOK, WrittenOK, DecodedOK
<1>3. CASE EncodeFails
  <2>1. pc' = "idle" /\ src' = NULL
    BY <1>3 DEF EncodeFails
  <2> QED BY <2>1 DEF Faithful, SourceOK, WrittenOK, DecodedOK
<1>4. CASE EncodeReturns \/ PeerReturns
  <2>1. /\ pc \in {"encode", "peer"} /\ pc' = "encoded" /\ todo = <<>>
        /\ UNCHANGED <<src, buf>>
    BY <1>4 DEF EncodeReturns, PeerReturns
  <2>2. Written(src, buf, <<>>, FALSE)
    BY <2>1 DEF Faithful, WrittenOK
  <2> QED BY <2>1, <2>2 DEF Faithful, SourceOK, WrittenOK, DecodedOK
<1> QED BY <1>1, <1>2, <1>3, <1>4

\* Decoding begins, or is over.
LEMMA CallKeeps ==
  ASSUME IInv, Faithful, StartDecoding \/ Done \/ Halt
  PROVE  Faithful'
<1>1. CASE StartDecoding
  <2>1. /\ pc = "encoded" /\ pc' = "value" /\ at' = 1 /\ UNCHANGED <<src, buf, stack, oom>>
    BY <1>1 DEF StartDecoding
  <2>2. stack = <<>> /\ buf \in Seq(Items)
    BY <2>1 DEF IInv, FreshOK, EncoderOK
  <2>3. ASSUME src # NULL PROVE AwaitsValue(src, buf, 1, <<>>)
    <3>1. src \in Values /\ Written(src, buf, <<>>, FALSE)
      BY <2>1, <2>3 DEF Faithful, SourceOK, WrittenOK
    <3> DEFINE e == <<>>
    <3>2. Reading(src, buf, 1, <<e>>, FALSE)
      BY <2>2, <3>1, ReadingFirst
    <3>3. KeyItem(e) = <<>>
      BY DEF KeyItem
    <3>4. Stacked(src, buf, e, e, e)
      BY <3>1, StackedNone
    <3>5. <<e>> \o <<>> = <<e>> /\ (KeyItem(e) # <<>>) = FALSE
      BY <3>3
    <3> HIDE DEF e
    <3>6. Reading(src, buf, 1, <<e>> \o e, KeyItem(e) # <<>>)
      BY <3>2, <3>5 DEF e
    <3>7. AwaitsValue(src, buf, 1, e)
      BY <3>4, <3>6 DEF AwaitsValue
    <3> QED BY <3>7 DEF e
  <2>4. DecodedOK'
    BY <2>1, <2>2, <2>3 DEF DecodedOK
  <2> QED BY <2>1, <2>4 DEF Faithful, SourceOK, WrittenOK
<1>2. CASE Done
  <2>1. pc' = "idle" /\ src' = NULL
    BY <1>2 DEF Done
  <2> QED BY <2>1 DEF Faithful, SourceOK, WrittenOK, DecodedOK
<1>3. CASE Halt
  <2>1. pc' = "halted" /\ src' = src
    BY <1>3 DEF Halt
  <2> QED BY <2>1 DEF Faithful, SourceOK, WrittenOK, DecodedOK
<1> QED BY <1>1, <1>2, <1>3

-----------------------------------------------------------------------------
(* The decoder begins a value *)

\* A step of the decoder leaves the input and what was encoded alone.
LEMMA DecoderKeeps ==
  ASSUME Faithful, pc \in {"value", "loop", "return"}, pc' \in {"value", "loop", "return"},
         UNCHANGED <<src, buf>>, DecodedOK'
  PROVE  Faithful'
BY DEF Faithful, SourceOK, WrittenOK

\* A step that returns NULL has a reason.
LEMMA NULLKeeps ==
  ASSUME Faithful, pc \in {"value", "loop", "return"}, pc' = "return", ret' = NULL,
         UNCHANGED <<src, buf>>,
         src # NULL /\ oom' # "ignored" => oom' = "noticed" \/ ~WithinLimits(src)
  PROVE  Faithful'
<1>1. DecodedOK'
  BY DEF DecodedOK, WithinLimits
<1> QED BY <1>1, DecoderKeeps

\* What an item that begins a value is taken for.
LEMMA HeadOf ==
  ASSUME NEW v \in Values, NEW c \in DOMAIN v
  PROVE  /\ v[c].type \in {"ARRAY", "MAP", "TAG"} =>
              HeadItem(v[c]) = Item(v[c].type, v[c].val) /\ ~IsLeaf(HeadItem(v[c]))
         /\ v[c].type \in {"ARRAY", "MAP"} => v[c].val >= 0
         /\ v[c].type \notin {"ARRAY", "MAP", "TAG"} =>
              /\ IsLeaf(HeadItem(v[c])) /\ LeafOf(HeadItem(v[c])) = NormalCell(v[c])
              /\ HeadItem(v[c]).major \notin {"ARRAY", "MAP", "TAG"}
<1> DEFINE d == v[c]
<1>1. d \in Cells /\ Fits(d) /\ (d.type \in {"ARRAY", "MAP"} => d.val >= 0)
  BY ValueAt, ValueFacts
<1>2. d.type \in Types /\ d.val \in Int /\ d.width \in Widths \cup {0}
      /\ d = [type |-> d.type, width |-> d.width, val |-> d.val]
  BY <1>1 DEF Cells
<1>3. /\ \A w \in Widths : Largest[w] \in Nat /\ Largest[w] <= Largest[64]
      /\ 64 \in Widths
  BY SerializationAssumption DEF Widths
<1> DEFINE h == HeadItem(d)
<1> HIDE DEF d, h
<1> SUFFICES /\ d.type \in {"ARRAY", "MAP", "TAG"} => h = Item(d.type, d.val) /\ ~IsLeaf(h)
             /\ d.type \notin {"ARRAY", "MAP", "TAG"} =>
                  IsLeaf(h) /\ LeafOf(h) = NormalCell(d) /\ h.major \notin {"ARRAY", "MAP", "TAG"}
  BY <1>1 DEF d, h
<1>4. CASE d.type \in {"ARRAY", "MAP", "TAG"}
  <2>1. h = Item(d.type, d.val)
    BY <1>4 DEF h, HeadItem
  <2>2. h.major = d.type
    BY <2>1 DEF Item
  <2> QED BY <1>4, <2>1, <2>2 DEF IsLeaf
<1>5. CASE d.type = "UINT"
  <2>1. d.val >= 0 /\ d.val <= 2 * Largest[64] + 1
    <3>1. d.width \in Widths /\ d.val \in 0 .. 2 * Largest[d.width] + 1
      BY <1>1, <1>5 DEF Fits
    <3> QED BY <1>3, <3>1
  <2>2. h = Item("UINT", d.val)
    BY <1>5, <2>1 DEF h, HeadItem
  <2>3. h.major = "UINT" /\ h.arg = d.val
    BY <2>2 DEF Item
  <2> QED BY <1>5, <2>1, <2>3 DEF IsLeaf, LeafOf, NormalCell
<1>6. CASE d.type = "INT"
  <2>1. d.val <= Largest[64] /\ -d.val - 1 <= Largest[64]
    <3>1. d.width \in Widths /\ d.val \in -Largest[d.width] - 1 .. Largest[d.width]
      BY <1>1, <1>6 DEF Fits
    <3> QED BY <1>2, <1>3, <3>1
  <2>2. h = Item(IF d.val >= 0 THEN "UINT" ELSE "NINT", d.val)
    BY <1>6 DEF h, HeadItem
  <2>3. h.major = (IF d.val >= 0 THEN "UINT" ELSE "NINT") /\ h.arg = d.val
    BY <2>2 DEF Item
  <2>4. d.val >= 0 => d.val <= 2 * Largest[64] + 1
    BY <1>2, <1>3, <2>1
  <2> QED BY <1>6, <2>1, <2>3, <2>4 DEF IsLeaf, LeafOf, NormalCell
<1>7. CASE d.type \notin {"ARRAY", "MAP", "TAG", "UINT", "INT"}
  <2>1. d.width = 0
    BY <1>1, <1>7 DEF Fits
  <2>2. h.major = d.type /\ h.arg = d.val
    BY <1>7 DEF h, HeadItem, Item
  <2>3. LeafOf(h) = d
    BY <1>2, <1>7, <2>1, <2>2 DEF LeafOf, Cell, Types
  <2> QED BY <1>2, <1>7, <2>2, <2>3 DEF IsLeaf, NormalCell, Types
<1> QED BY <1>4, <1>5, <1>6, <1>7

\* What is known of the value that is about to be decoded.
LEMMA AtValue ==
  ASSUME IInv, Faithful, pc = "value", src # NULL, oom # "ignored"
  PROVE  /\ src \in Values /\ buf \in Seq(Items) /\ at \in Nat \ {0} /\ next = buf[at]
         /\ stack \in Seq(Frames)
         /\ \E c, r : \E order :
              /\ c \in DOMAIN src /\ r \in Todos(src) /\ Len(c) = indent
              /\ Stacked(src, buf, stack, c, r) /\ IsOrder(src, c, order)
              /\ \/ next = HeadItem(src[c]) /\ Reading(src, buf, at + 1, order \o r, FALSE)
                 \/ /\ src[c].type \in {"ARRAY", "MAP"} /\ next = Item(src[c].type, INDEFINITE)
                    /\ Reading(src, buf, at + 1, order \o <<Closing>> \o r, FALSE)
<1>1. src \in Values /\ AwaitsValue(src, buf, at, stack)
  BY DEF Faithful, SourceOK, DecodedOK
<1>2. buf \in Seq(Items) /\ at \in Nat \ {0} /\ stack \in Seq(Frames)
  BY NextItem DEF IInv, EncoderOK, DecoderOK
<1>3. PICK c, r : Stacked(src, buf, stack, c, r) /\ Reading(src, buf, at, <<c>> \o r, KeyItem(c) # <<>>)
  BY <1>1 DEF AwaitsValue
<1>4. c \in DOMAIN src /\ r \in Todos(src) /\ Len(c) = indent
  BY <1>3 DEF Stacked, indent
<1>5. /\ at <= Len(buf)
      /\ \E order :
           /\ IsOrder(src, c, order)
           /\ \/ buf[at] = HeadItem(src[c]) /\ Reading(src, buf, at + 1, order \o r, FALSE)
              \/ /\ src[c].type \in {"ARRAY", "MAP"} /\ buf[at] = Item(src[c].type, INDEFINITE)
                 /\ Reading(src, buf, at + 1, order \o <<Closing>> \o r, FALSE)
  BY <1>1, <1>2, <1>3, <1>4, ReadHead
<1>6. next = buf[at]
  BY <1>5 DEF next
<1> QED BY <1>1, <1>2, <1>3, <1>4, <1>5, <1>6

\* A leaf is all there is of its position.
LEMMA LeafWhole ==
  ASSUME NEW v \in Values, NEW c \in DOMAIN v, v[c].type \notin {"ARRAY", "MAP", "TAG"},
         Len(c) <= CORECONF_MAX_DEPTH, NEW order, IsOrder(v, c, order), NEW r \in Todos(v),
         NEW t, DOMAIN t = {<<>>}, t[<<>>].cell = NormalCell(v[c])
  PROVE  IsWhole(v, t, c) /\ order \o r = r
<1>1. Children(v, c) = {}
  BY ValueAt
<1>2. IsPart(v, t, c, Children(v, c))
  BY <1>1, PartEmpty
<1>3. LimitAt(v, c)
  BY DEF LimitAt
<1>4. IsWhole(v, t, c)
  BY <1>2, <1>3, PartWhole, PositionSteps
<1>5. order = <<>>
  <2>1. order \in Seq(DOMAIN v) /\ {order[i] : i \in DOMAIN order} = {}
    BY <1>1 DEF IsOrder
  <2>2. DOMAIN order = {}
    BY <2>1
  <2> QED BY <2>1, <2>2
<1>6. r \in Seq(DOMAIN v \cup {Closing})
  BY DEF Todos
<1>7. <<>> \o r = r
  BY <1>6
<1> QED BY <1>4, <1>5, <1>7

\* A leaf is returned.
LEMMA DecodeLeafKeeps ==
  ASSUME IInv, Faithful, DecodeLeaf
  PROVE  Faithful'
<1> DEFINE t == Single(LeafOf(next))
<1>1. /\ pc = "value" /\ pc' = "return" /\ indent <= CORECONF_MAX_DEPTH /\ IsLeaf(next)
      /\ ret' = t /\ at' = at + 1 /\ UNCHANGED <<src, buf, stack, oom>>
  BY DEF DecodeLeaf, Return
<1>2. ASSUME src # NULL, oom # "ignored"
      PROVE  IsGiven(src, buf, at + 1, stack, t)
  <2>1. PICK c, r : \E order :
          /\ c \in DOMAIN src /\ r \in Todos(src) /\ Len(c) = indent
          /\ Stacked(src, buf, stack, c, r) /\ IsOrder(src, c, order)
          /\ \/ next = HeadItem(src[c]) /\ Reading(src, buf, at + 1, order \o r, FALSE)
             \/ /\ src[c].type \in {"ARRAY", "MAP"} /\ next = Item(src[c].type, INDEFINITE)
                /\ Reading(src, buf, at + 1, order \o <<Closing>> \o r, FALSE)
    BY <1>1, <1>2, AtValue
  <2>2. PICK order :
          /\ IsOrder(src, c, order)
          /\ \/ next = HeadItem(src[c]) /\ Reading(src, buf, at + 1, order \o r, FALSE)
             \/ src[c].type \in {"ARRAY", "MAP"} /\ next = Item(src[c].type, INDEFINITE)
    BY <2>1
  <2>3. src \in Values
    BY <1>2 DEF Faithful, SourceOK
  <2>4. ~(src[c].type \in {"ARRAY", "MAP"} /\ next = Item(src[c].type, INDEFINITE))
    BY <1>1 DEF IsLeaf, Item
  <2>5. next = HeadItem(src[c]) /\ Reading(src, buf, at + 1, order \o r, FALSE)
    BY <2>2, <2>4
  <2>6. src[c].type \notin {"ARRAY", "MAP", "TAG"} /\ LeafOf(next) = NormalCell(src[c])
    BY <1>1, <2>1, <2>3, <2>5, HeadOf
  <2>7. DOMAIN t = {<<>>} /\ t[<<>>].cell = NormalCell(src[c])
    BY <2>6 DEF Single, Decoded
  <2> HIDE DEF t
  <2>8. IsWhole(src, t, c) /\ order \o r = r
    BY <1>1, <2>1, <2>2, <2>3, <2>6, <2>7, LeafWhole
  <2> QED BY <2>1, <2>5, <2>8 DEF IsGiven
<1>3. t # NULL
  <2>1. DOMAIN t # {}
    BY DEF Single
  <2> QED BY <2>1, NULLFacts
<1> HIDE DEF t
<1>4. DecodedOK'
  BY <1>1, <1>2, <1>3 DEF DecodedOK
<1> QED BY <1>1, <1>4, DecoderKeeps

\* The value is too deep, there is no memory for it, or its item cannot be read.
LEMMA RefusesKeep ==
  ASSUME IInv, Faithful, TooDeep \/ LeafOutOfMemory \/ Unsupported \/ EnterFails
  PROVE  Faithful'
<1>1. /\ pc = "value" /\ pc' = "return" /\ ret' = NULL /\ UNCHANGED <<src, buf>>
      /\ oom' \in {oom, Noticed}
  BY DEF TooDeep, LeafOutOfMemory, Unsupported, EnterFails, ReturnNULL, Return
<1>2. ASSUME src # NULL, oom' # "ignored"
      PROVE  oom' = "noticed" \/ ~WithinLimits(src)
  <2> SUFFICES ASSUME oom' # "noticed" PROVE ~WithinLimits(src)
    OBVIOUS
  <2>1. oom' = oom /\ oom # "ignored" /\ oom' # Noticed
    BY <1>1, <1>2 DEF Noticed
  <2>2. /\ src \in Values /\ buf \in Seq(Items) /\ at \in Nat \ {0} /\ stack \in Seq(Frames)
        /\ \E c, r : \E order :
             /\ c \in DOMAIN src /\ r \in Todos(src) /\ Len(c) = indent
             /\ Stacked(src, buf, stack, c, r) /\ IsOrder(src, c, order)
             /\ \/ next = HeadItem(src[c]) /\ Reading(src, buf, at + 1, order \o r, FALSE)
                \/ /\ src[c].type \in {"ARRAY", "MAP"} /\ next = Item(src[c].type, INDEFINITE)
                   /\ Reading(src, buf, at + 1, order \o <<Closing>> \o r, FALSE)
    BY <1>1, <1>2, <2>1, AtValue
  <2>3. PICK c, r : \E order :
          /\ c \in DOMAIN src /\ r \in Todos(src) /\ Len(c) = indent
          /\ Stacked(src, buf, stack, c, r) /\ IsOrder(src, c, order)
          /\ \/ next = HeadItem(src[c]) /\ Reading(src, buf, at + 1, order \o r, FALSE)
             \/ /\ src[c].type \in {"ARRAY", "MAP"} /\ next = Item(src[c].type, INDEFINITE)
                /\ Reading(src, buf, at + 1, order \o <<Closing>> \o r, FALSE)
    BY <2>2
  <2>4. PICK order :
          /\ IsOrder(src, c, order)
          /\ \/ next = HeadItem(src[c]) /\ Reading(src, buf, at + 1, order \o r, FALSE)
             \/ src[c].type \in {"ARRAY", "MAP"} /\ next = Item(src[c].type, INDEFINITE)
    BY <2>3
  <2>5. c \in DOMAIN src /\ Len(c) = indent
    BY <2>3
  <2>6. CASE TooDeep
    <3>1. indent > CORECONF_MAX_DEPTH /\ indent \in Nat /\ CORECONF_MAX_DEPTH \in Nat
      BY <2>2, <2>6, SerializationAssumption DEF TooDeep, indent
    <3>2. ~LimitAt(src, c)
      BY <2>5, <3>1 DEF LimitAt
    <3> QED BY <2>5, <3>2, BeyondLimit
  <2>7. CASE LeafOutOfMemory
    BY <2>1, <2>7 DEF LeafOutOfMemory
  <2>8. CASE Unsupported
    <3>1. /\ ~IsLeaf(next)
          /\ \/ next.major \notin {"ARRAY", "MAP", "TAG"}
             \/ next.major = "TAG" /\ next.arg > 2 * Largest[32] + 1
      BY <2>8 DEF Unsupported
    <3>2. next = HeadItem(src[c])
      <4>1. Item(src[c].type, INDEFINITE).major = src[c].type
        BY DEF Item
      <4> QED BY <2>4, <3>1, <4>1
    <3>3. src[c].type \in {"ARRAY", "MAP", "TAG"} /\ next = Item(src[c].type, src[c].val)
      BY <2>2, <2>5, <3>1, <3>2, HeadOf
    <3>4. src[c].type = "TAG" /\ src[c].val > 2 * Largest[32] + 1
      BY <3>1, <3>3 DEF Item
    <3>5. src[c].val \in Int /\ 2 * Largest[32] + 1 \in Int
      <4>1. src[c] \in Cells
        BY <2>2, <2>5, ValueAt
      <4>2. Largest[32] \in Nat
        BY SerializationAssumption DEF Widths
      <4> QED BY <4>1, <4>2 DEF Cells
    <3>6. ~LimitAt(src, c)
      <4> DEFINE x == src[c].val
                 y == 2 * Largest[32] + 1
      <4>1. x \in Int /\ y \in Int /\ x > y /\ (LimitAt(src, c) => x <= y)
        BY <3>4, <3>5 DEF LimitAt
      <4> HIDE DEF x, y
      <4> QED BY <4>1
    <3> QED BY <2>5, <3>6, BeyondLimit
  <2>9. CASE EnterFails
    <3>1. TooLong
      BY <2>1, <2>9 DEF EnterFails
    <3>2. next.major = "ARRAY" /\ next.arg > Len(buf) - at
      BY <3>1 DEF TooLong
    <3>3. Len(buf) \in Nat
      BY <2>2
    <3>4. CASE next = Item(src[c].type, INDEFINITE)
      <4>1. at <= Len(buf)
        BY <3>2, NextItem
      <4>2. next.arg = INDEFINITE
        BY <3>4 DEF Item
      <4> QED BY <2>2, <3>2, <3>3, <4>1, <4>2 DEF INDEFINITE
    <3>5. CASE next = HeadItem(src[c]) /\ src[c].type \notin {"ARRAY", "MAP", "TAG"}
      BY <2>2, <2>5, <3>2, <3>5, HeadOf
    <3>6. CASE next = HeadItem(src[c]) /\ src[c].type \in {"ARRAY", "MAP", "TAG"}
      <4>1. next = Item(src[c].type, src[c].val)
        BY <2>2, <2>5, <3>6, HeadOf
      <4>2. src[c].type = "ARRAY" /\ next.arg = src[c].val
        BY <3>2, <4>1 DEF Item
      <4>3. Len(order) = src[c].val /\ order \in Seq(DOMAIN src)
        BY <2>4, <4>2 DEF IsOrder
      <4>4. Reading(src, buf, at + 1, order \o r, FALSE)
        <5>1. Item(src[c].type, INDEFINITE).arg = -1
          BY DEF Item, INDEFINITE
        <5>2. src[c].val >= 0 /\ src[c].val \in Int
          BY <2>2, <2>5, <4>2, ValueAt DEF Cells
        <5>3. next # Item(src[c].type, INDEFINITE)
          BY <4>2, <5>1, <5>2
        <5> QED BY <2>4, <5>3
      <4> DEFINE x == order \o r
                 S == DOMAIN src \cup {Closing}
      <4>5. Len(x) >= Len(order) /\ Len(order) \in Nat
        <5>1. order \in Seq(S) /\ r \in Seq(S)
          <6>1. r \in Seq(S)
            BY <2>3 DEF Todos
          <6> QED BY <4>3, <6>1
        <5> HIDE DEF S
        <5> QED BY <5>1
      <4>6. Len(x) <= Len(buf) - (at + 1) + 1 /\ Len(x) \in Nat
        <5> DEFINE i == at + 1
        <5>1. Reading(src, buf, i, x, FALSE)
          BY <4>4
        <5>3. i \in Nat \ {0}
          BY <2>2
        <5> HIDE DEF i, x
        <5>2. x \in Todos(src) /\ Len(x) <= Len(buf) - i + 1
          BY <2>2, <5>1, <5>3, ReadingEnough
        <5> QED BY <5>2 DEF Todos, i
      <4> HIDE DEF x
      <4> QED BY <2>2, <3>2, <3>3, <4>2, <4>3, <4>5, <4>6
    <3> QED BY <2>4, <3>4, <3>5, <3>6
  <2> QED BY <2>6, <2>7, <2>8, <2>9
<1> QED BY <1>1, <1>2, NULLKeeps

\* A child without a key can be read at once.
LEMMA ReadChild ==
  ASSUME NEW v, NEW b, NEW i, NEW f, NEW e \in Plans(v), e.left # <<>>,
         KeyItem(Head(e.left)) = <<>>, Reading(v, b, i, e.left \o End(f) \o e.rest, FALSE)
  PROVE  Reading(v, b, i, <<Head(e.left)>> \o Follow(f, e), KeyItem(Head(e.left)) # <<>>)
<1>1. e.left \o End(f) \o e.rest = <<Head(e.left)>> \o Follow(f, e)
  BY FollowType
<1>2. (KeyItem(Head(e.left)) # <<>>) = FALSE
  OBVIOUS
<1> QED BY ONLY <1>1, <1>2, Reading(v, b, i, e.left \o End(f) \o e.rest, FALSE)

\* A tag's call waits for the tag's value.
LEMMA EnterTagKeeps ==
  ASSUME IInv, Faithful, EnterTag
  PROVE  Faithful'
<1> DEFINE f == Frame("TAG", NULL, 1, 0)
<1>1. /\ pc = "value" /\ pc' = "value" /\ indent <= CORECONF_MAX_DEPTH /\ next.major = "TAG"
      /\ next.arg <= 2 * Largest[32] + 1 /\ stack' = Append(stack, f) /\ at' = at + 1
      /\ UNCHANGED <<src, buf, oom>>
  BY DEF EnterTag
<1>2. ASSUME src # NULL, oom # "ignored"
      PROVE  AwaitsValue(src, buf, at + 1, Append(stack, f))
  <2>1. /\ src \in Values /\ buf \in Seq(Items) /\ at \in Nat \ {0} /\ stack \in Seq(Frames)
        /\ next = buf[at]
        /\ \E c, r : \E order :
             /\ c \in DOMAIN src /\ r \in Todos(src) /\ Len(c) = indent
             /\ Stacked(src, buf, stack, c, r) /\ IsOrder(src, c, order)
             /\ \/ next = HeadItem(src[c]) /\ Reading(src, buf, at + 1, order \o r, FALSE)
                \/ /\ src[c].type \in {"ARRAY", "MAP"} /\ next = Item(src[c].type, INDEFINITE)
                   /\ Reading(src, buf, at + 1, order \o <<Closing>> \o r, FALSE)
    BY <1>1, <1>2, AtValue
  <2>2. PICK c, r : \E order :
          /\ c \in DOMAIN src /\ r \in Todos(src) /\ Len(c) = indent
          /\ Stacked(src, buf, stack, c, r) /\ IsOrder(src, c, order)
          /\ \/ next = HeadItem(src[c]) /\ Reading(src, buf, at + 1, order \o r, FALSE)
             \/ /\ src[c].type \in {"ARRAY", "MAP"} /\ next = Item(src[c].type, INDEFINITE)
                /\ Reading(src, buf, at + 1, order \o <<Closing>> \o r, FALSE)
    BY <2>1
  <2>3. PICK order :
          /\ IsOrder(src, c, order)
          /\ \/ next = HeadItem(src[c]) /\ Reading(src, buf, at + 1, order \o r, FALSE)
             \/ src[c].type \in {"ARRAY", "MAP"} /\ next = Item(src[c].type, INDEFINITE)
    BY <2>2
  <2>4. c \in DOMAIN src /\ r \in Todos(src) /\ Len(c) = indent
    BY <2>2
  <2>5. next = HeadItem(src[c]) /\ Reading(src, buf, at + 1, order \o r, FALSE)
    <3>1. Item(src[c].type, INDEFINITE).major = src[c].type
      BY DEF Item
    <3> QED BY <1>1, <2>3, <3>1
  <2>6. src[c].type = "TAG" /\ next.arg = src[c].val
    <3>1. src[c].type \in {"ARRAY", "MAP", "TAG"}
      BY <1>1, <2>1, <2>4, <2>5, HeadOf
    <3>2. next = Item(src[c].type, src[c].val)
      BY <2>1, <2>4, <2>5, <3>1, HeadOf
    <3> QED BY <1>1, <3>2 DEF Item
  <2>7. LimitAt(src, c)
    BY <1>1, <2>4, <2>6 DEF LimitAt
  <2>8. f = [kind |-> "TAG", tree |-> NULL, id |-> at, left |-> 1, room |-> 0, loopCount |-> 0,
             key |-> 0]
    BY DEF Frame
  <2> HIDE DEF f
  <2>9. /\ f.kind = "TAG" /\ f.tree = NULL /\ f.left = 1 /\ f.room = 0 /\ f.id = at
        /\ f \in Frames
    <3>1. f \in Records
      BY <2>1, <2>8, NULLFacts DEF Records
    <3> QED BY <2>8, <3>1 DEF Frames, IsFrame, IsTag
  <2>10. buf[f.id].arg = src[c].val
    BY <2>1, <2>6, <2>9
  <2> DEFINE e == [pos |-> c, left |-> order, rest |-> r]
  <2>11. e.pos = c /\ e.left = order /\ e.rest = r
    OBVIOUS
  <2>12. Fills(src, buf, f, e) /\ Awaits(f, e) /\ order = <<Append(c, Content)>>
    BY <2>1, <2>3, <2>4, <2>6, <2>7, <2>9, <2>10, TagBegins
  <2> HIDE DEF e
  <2>13. Stacked(src, buf, Append(stack, f), Head(e.left), Follow(f, e))
    BY <2>1, <2>2, <2>9, <2>11, <2>12, StackedPush
  <2>14. e \in Plans(src) /\ e.left # <<>>
    BY <2>12 DEF Fills, Awaits
  <2>15. KeyItem(Head(e.left)) = <<>>
    <3> DEFINE p == Append(c, Content)
    <3>1. Last(p) = Content
      <4>1. c \in Positions /\ Content \in Steps
        BY <2>1, <2>4, ValueAt DEF Content, Steps
      <4>2. c \in Seq(Steps)
        BY <4>1, PositionSteps
      <4> QED BY <4>1, <4>2, FrontLastAppend
    <3> HIDE DEF p
    <3>2. Head(e.left) = p
      BY <2>11, <2>12 DEF p
    <3> QED BY <3>1, <3>2 DEF KeyItem, Content
  <2>16. Reading(src, buf, at + 1, e.left \o End(f) \o e.rest, FALSE)
    <3>1. End(f) = <<>>
      BY <2>9 DEF End, INDEFINITE
    <3>2. order \o <<>> = order
      BY <2>3 DEF IsOrder
    <3>3. e.left \o End(f) \o e.rest = order \o r
      BY ONLY <2>11, <3>1, <3>2
    <3> QED BY ONLY <2>5, <3>3
  <2>17. Reading(src, buf, at + 1, <<Head(e.left)>> \o Follow(f, e), KeyItem(Head(e.left)) # <<>>)
    BY ONLY <2>14, <2>15, <2>16, ReadChild
  <2> QED BY <2>13, <2>17 DEF AwaitsValue
<1> HIDE DEF f
<1>3. DecodedOK'
  BY <1>1, <1>2 DEF DecodedOK
<1> QED BY <1>1, <1>3, DecoderKeeps

\* A container is begun, with all its children left to be read.
LEMMA EnterKeeps ==
  ASSUME IInv, Faithful, Enter
  PROVE  Faithful'
<1> DEFINE f == Frame(next.major, Single(Cell(next.major, 0, 0)), next.arg, Room)
           a == Append(stack, f)
<1>1. /\ pc = "value" /\ pc' = "loop" /\ indent <= CORECONF_MAX_DEPTH
      /\ next.major \in {"ARRAY", "MAP"} /\ stack' = a /\ at' = at + 1
      /\ UNCHANGED <<src, buf, oom>>
  BY DEF Enter
<1>2. a \in Seq(Frames)
  <2>1. IInv'
    BY EnterPreserves
  <2> QED BY <1>1, <2>1 DEF IInv, DecoderOK
<1>3. ASSUME src # NULL, oom # "ignored"
      PROVE  InLoop(src, buf, at + 1, a)
  <2>1. /\ src \in Values /\ buf \in Seq(Items) /\ at \in Nat \ {0} /\ stack \in Seq(Frames)
        /\ next = buf[at]
        /\ \E c, r : \E order :
             /\ c \in DOMAIN src /\ r \in Todos(src) /\ Len(c) = indent
             /\ Stacked(src, buf, stack, c, r) /\ IsOrder(src, c, order)
             /\ \/ next = HeadItem(src[c]) /\ Reading(src, buf, at + 1, order \o r, FALSE)
                \/ /\ src[c].type \in {"ARRAY", "MAP"} /\ next = Item(src[c].type, INDEFINITE)
                   /\ Reading(src, buf, at + 1, order \o <<Closing>> \o r, FALSE)
    BY <1>1, <1>3, AtValue
  <2>2. PICK c, r : \E order :
          /\ c \in DOMAIN src /\ r \in Todos(src) /\ Len(c) = indent
          /\ Stacked(src, buf, stack, c, r) /\ IsOrder(src, c, order)
          /\ \/ next = HeadItem(src[c]) /\ Reading(src, buf, at + 1, order \o r, FALSE)
             \/ /\ src[c].type \in {"ARRAY", "MAP"} /\ next = Item(src[c].type, INDEFINITE)
                /\ Reading(src, buf, at + 1, order \o <<Closing>> \o r, FALSE)
    BY <2>1
  <2>3. PICK order :
          /\ IsOrder(src, c, order)
          /\ \/ next = HeadItem(src[c]) /\ Reading(src, buf, at + 1, order \o r, FALSE)
             \/ /\ src[c].type \in {"ARRAY", "MAP"} /\ next = Item(src[c].type, INDEFINITE)
                /\ Reading(src, buf, at + 1, order \o <<Closing>> \o r, FALSE)
    BY <2>2
  <2>4. c \in DOMAIN src /\ r \in Todos(src) /\ Len(c) <= CORECONF_MAX_DEPTH
    BY <1>1, <2>2
  <2>5. /\ f.kind = next.major /\ f.tree = Single(Cell(next.major, 0, 0)) /\ f.left = next.arg
        /\ f.loopCount = 0
    BY DEF Frame
  <2>6. f \in Frames /\ Front(a) = stack /\ Last(a) = f /\ a # <<>>
    <3> HIDE DEF f
    <3>1. f = a[Len(stack) + 1] /\ Len(stack) + 1 \in DOMAIN a
      BY <2>1
    <3> DEFINE n == Len(stack) + 1
    <3> HIDE DEF n, a
    <3>2. f \in Frames
      BY <1>2, <3>1 DEF n
    <3> QED BY <2>1, <3>2, StackAppend DEF a
  <2>7. DOMAIN f.tree = {<<>>} /\ f.tree[<<>>].cell = Cell(next.major, 0, 0)
    BY <2>5 DEF Single, Decoded
  <2> HIDE DEF f, a
  <2>8. src[c].type = next.major /\ f.left \in {INDEFINITE, src[c].val}
        /\ Reading(src, buf, at + 1, order \o End(f) \o r, FALSE)
    <3>1. CASE next = HeadItem(src[c]) /\ Reading(src, buf, at + 1, order \o r, FALSE)
      <4>1. src[c].type \in {"ARRAY", "MAP", "TAG"}
        BY <1>1, <2>1, <2>4, <3>1, HeadOf
      <4>2. next = Item(src[c].type, src[c].val)
        BY <2>1, <2>4, <3>1, <4>1, HeadOf
      <4>3. src[c].type = next.major /\ next.arg = src[c].val
        BY <4>2 DEF Item
      <4>4. src[c].val >= 0 /\ src[c].val \in Int
        BY <1>1, <2>1, <2>4, <4>3, ValueAt, HeadOf DEF Cells
      <4>5. End(f) = <<>>
        BY <2>5, <4>3, <4>4 DEF End, INDEFINITE
      <4>6. order \o <<>> = order
        BY <2>3 DEF IsOrder
      <4>7. order \o End(f) \o r = order \o r
        BY ONLY <4>5, <4>6
      <4>8. Reading(src, buf, at + 1, order \o End(f) \o r, FALSE)
        BY ONLY <3>1, <4>7
      <4> QED BY <2>5, <4>3, <4>8
    <3>2. CASE /\ src[c].type \in {"ARRAY", "MAP"} /\ next = Item(src[c].type, INDEFINITE)
               /\ Reading(src, buf, at + 1, order \o <<Closing>> \o r, FALSE)
      <4>1. src[c].type = next.major /\ next.arg = INDEFINITE
        BY <3>2 DEF Item
      <4>2. End(f) = <<Closing>>
        BY <2>5, <4>1 DEF End
      <4>3. Reading(src, buf, at + 1, order \o End(f) \o r, FALSE)
        BY ONLY <3>2, <4>2
      <4> QED BY <2>5, <4>1, <4>3
    <3> QED BY ONLY <2>3, <3>1, <3>2
  <2> DEFINE e == [pos |-> c, left |-> order, rest |-> r]
  <2>9. e.pos = c /\ e.left = order /\ e.rest = r
    OBVIOUS
  <2>10. Fills(src, buf, f, e)
    <3>1. /\ src[c].type \in {"ARRAY", "MAP"} /\ f.kind = src[c].type
          /\ f.tree[<<>>].cell = Cell(src[c].type, 0, 0)
      BY <1>1, <2>5, <2>7, <2>8
    <3> QED BY <2>1, <2>3, <2>4, <2>5, <2>7, <2>8, <3>1, ContainerBegins
  <2> HIDE DEF e
  <2>11. Stacked(src, buf, Front(a), e.pos, e.rest) /\ Fills(src, buf, Last(a), e)
    BY <2>2, <2>6, <2>9, <2>10
  <2>12. Reading(src, buf, at + 1, e.left \o End(Last(a)) \o e.rest, FALSE)
    BY ONLY <2>6, <2>8, <2>9
  <2> QED BY <2>6, <2>11, <2>12 DEF InLoop
<1> HIDE DEF a
<1>4. DecodedOK'
  BY <1>1, <1>3 DEF DecodedOK
<1> QED BY <1>1, <1>4, DecoderKeeps

-----------------------------------------------------------------------------
(* The loops *)

\* The first item of a child is no break.
LEMMA ChildNoBreak ==
  ASSUME NEW v \in Values, NEW b \in Seq(Items), NEW i \in Nat \ {0}, NEW f,
         NEW e \in Plans(v), e.left # <<>>,
         Reading(v, b, i, e.left \o End(f) \o e.rest, FALSE)
  PROVE  i <= Len(b) /\ b[i] # Break
<1> DEFINE c == Head(e.left)
           r == Follow(f, e)
<1>1. c \in DOMAIN v /\ r \in Todos(v) /\ e.left \o End(f) \o e.rest = <<c>> \o r
  BY FollowType
<1>2. Reading(v, b, i, <<c>> \o r, FALSE)
  BY ONLY <1>1, Reading(v, b, i, e.left \o End(f) \o e.rest, FALSE)
<1> HIDE DEF c, r
<1>3. CASE KeyItem(c) # <<>>
  <2>1. i <= Len(b) /\ KeyItem(c) = <<b[i]>>
    BY <1>1, <1>2, <1>3, ReadKey
  <2>2. KeyItem(c) = <<Item("UINT", Last(c)[2])>>
    BY <1>3 DEF KeyItem
  <2>3. b[i] = Item("UINT", Last(c)[2])
    BY <2>1, <2>2
  <2> QED BY <2>1, <2>3 DEF Item, Break
<1>4. CASE KeyItem(c) = <<>>
  <2>1. Reading(v, b, i, <<c>> \o r, KeyItem(c) # <<>>)
    <3>1. (KeyItem(c) # <<>>) = FALSE
      BY <1>4
    <3> QED BY ONLY <1>2, <3>1
  <2>2. i <= Len(b) /\ (b[i] = HeadItem(v[c]) \/ b[i] = Item(v[c].type, INDEFINITE))
    BY <1>1, <2>1, ReadHead
  <2>3. v[c].type \in Types
    BY <1>1, ValueAt DEF Cells
  <2>4. b[i].major \in Types \cup {"NINT"}
    BY <2>2, <2>3 DEF HeadItem, Item, Types
  <2> QED BY <2>2, <2>4 DEF Break, Item, Types
<1> QED BY <1>3, <1>4

\* What is known at the head of a loop.
AtTurn(v, b, i, e) ==
  /\ Stacked(v, b, Front(stack), e.pos, e.rest) /\ Fills(v, b, top, e)
  /\ Reading(v, b, i, e.left \o End(top) \o e.rest, FALSE)
  /\ AtEnd <=> e.left = <<>>
  /\ e.left = <<>> =>
       Reading(v, b, IF i <= Len(b) /\ top.left = INDEFINITE THEN i + 1 ELSE i, e.rest, FALSE)

\* A loop that runs is that of the top call, which fills its container along a plan.
LEMMA AtLoop ==
  ASSUME IInv, Faithful, pc = "loop", src # NULL, oom # "ignored"
  PROVE  /\ src \in Values /\ buf \in Seq(Items) /\ at \in Nat \ {0}
         /\ stack # <<>> /\ Front(stack) \in Seq(Frames) /\ top \in Frames
         /\ stack = Append(Front(stack), top) /\ top.kind \in {"ARRAY", "MAP"}
         /\ \E e \in Plans(src) : AtTurn(src, buf, at, e)
<1>1. src \in Values /\ InLoop(src, buf, at, stack)
  BY DEF Faithful, SourceOK, DecodedOK
<1>2. /\ buf \in Seq(Items) /\ at \in Nat \ {0} /\ stack # <<>> /\ top.kind # "TAG"
  BY NextItem DEF IInv, EncoderOK, DecoderOK
<1>3. Front(stack) \in Seq(Frames) /\ top \in Frames /\ stack = Append(Front(stack), top)
  BY <1>2, TopFacts
<1>4. top.kind \in {"ARRAY", "MAP"}
  BY <1>2, <1>3, FrameFacts
<1> DEFINE f == top
<1>5. PICK e : /\ Stacked(src, buf, Front(stack), e.pos, e.rest) /\ Fills(src, buf, f, e)
               /\ Reading(src, buf, at, e.left \o End(f) \o e.rest, FALSE)
  BY <1>1 DEF InLoop, top
<1>6. e \in Plans(src) /\ f.left \in {INDEFINITE, Len(e.left)}
  BY <1>5 DEF Fills
<1>7. e.left \in Seq(DOMAIN src) /\ e.rest \in Todos(src)
  BY <1>6 DEF Plans
<1>8. Len(e.left) # INDEFINITE /\ (Len(e.left) = 0 <=> e.left = <<>>)
  BY <1>7 DEF INDEFINITE
<1> HIDE DEF f
<1>9. CASE e.left # <<>>
  <2>1. at <= Len(buf) /\ buf[at] # Break
    BY <1>1, <1>2, <1>5, <1>6, <1>9, ChildNoBreak
  <2>2. next # Break
    BY <2>1 DEF next
  <2>3. ~AtEnd
    <3>1. at \in Nat /\ Len(buf) \in Nat
      BY NextItem
    <3> QED BY <1>6, <1>8, <1>9, <2>1, <2>2, <3>1 DEF AtEnd, f
  <2> QED BY <1>1, <1>2, <1>3, <1>4, <1>5, <1>6, <1>9, <2>3 DEF AtTurn, f
<1>10. CASE e.left = <<>> /\ f.left = INDEFINITE
  <2>1. e.left \o End(f) \o e.rest = <<Closing>> \o e.rest
    <3>1. <<>> \o <<Closing>> = <<Closing>>
      OBVIOUS
    <3>2. End(f) = <<Closing>>
      BY <1>10 DEF End
    <3> QED BY ONLY <1>10, <3>1, <3>2
  <2>2. Reading(src, buf, at, <<Closing>> \o e.rest, FALSE)
    BY ONLY <1>5, <2>1
  <2>3. at <= Len(buf) /\ buf[at] = Break /\ Reading(src, buf, at + 1, e.rest, FALSE)
    BY <1>2, <1>7, <2>2, ReadClose
  <2>4. next = Break
    BY <2>3 DEF next
  <2>5. AtEnd
    BY <1>10, <2>4 DEF AtEnd, f
  <2> QED BY <1>1, <1>2, <1>3, <1>4, <1>5, <1>6, <1>10, <2>3, <2>5 DEF AtTurn, f
<1>11. CASE e.left = <<>> /\ f.left # INDEFINITE
  <2>1. e.left \o End(f) \o e.rest = e.rest
    <3>1. e.rest \in Seq(DOMAIN src \cup {Closing})
      BY <1>7 DEF Todos
    <3>2. <<>> \o <<>> \o e.rest = e.rest
      BY <3>1
    <3>3. End(f) = <<>>
      BY <1>11 DEF End
    <3> QED BY ONLY <1>11, <3>2, <3>3
  <2>2. Reading(src, buf, at, e.rest, FALSE)
    BY ONLY <1>5, <2>1
  <2>3. AtEnd
    BY <1>6, <1>8, <1>11 DEF AtEnd, f
  <2> QED BY <1>1, <1>2, <1>3, <1>4, <1>5, <1>6, <1>11, <2>2, <2>3 DEF AtTurn, f
<1> QED BY <1>9, <1>10, <1>11

\* A container is returned when all its children have been read.
LEMMA LeaveKeeps ==
  ASSUME IInv, Faithful, Leave
  PROVE  Faithful'
<1>1. /\ pc = "loop" /\ pc' = "return" /\ AtEnd /\ ret' = top.tree /\ stack' = Front(stack)
      /\ at' = (IF at <= Len(buf) /\ top.left = INDEFINITE THEN at + 1 ELSE at)
      /\ UNCHANGED <<src, buf, oom>>
  BY DEF Leave, Return
<1>2. ASSUME src # NULL, oom # "ignored"
      PROVE  IsGiven(src, buf, at', Front(stack), top.tree) /\ top.tree # NULL
  <2>1. src \in Values /\ top \in Frames /\ top.kind \in {"ARRAY", "MAP"}
    BY <1>1, <1>2, AtLoop
  <2>2. PICK e \in Plans(src) : AtTurn(src, buf, at, e)
    BY <1>1, <1>2, AtLoop
  <2>3. e.left = <<>> /\ Fills(src, buf, top, e)
    BY <1>1, <2>2 DEF AtTurn
  <2>4. IsWhole(src, top.tree, e.pos)
    BY <2>1, <2>3, ContainerWhole
  <2>5. Stacked(src, buf, Front(stack), e.pos, e.rest) /\ Reading(src, buf, at', e.rest, FALSE)
    BY <1>1, <2>2, <2>3 DEF AtTurn
  <2>6. top.tree # NULL
    BY <2>1 DEF Frames, IsFrame, IsTag, IsArray, IsMap, IsContainer
  <2> QED BY <2>4, <2>5, <2>6 DEF IsGiven
<1>3. DecodedOK'
  BY <1>1, <1>2 DEF DecodedOK
<1> QED BY <1>1, <1>3, DecoderKeeps

\* An array's next element is read.
LEMMA NextElementKeeps ==
  ASSUME IInv, Faithful, NextElement
  PROVE  Faithful'
<1>1. /\ pc = "loop" /\ pc' = "value" /\ ~AtEnd /\ top.kind = "ARRAY"
      /\ UNCHANGED <<src, buf, at, stack, oom>>
  BY DEF NextElement
<1>2. ASSUME src # NULL, oom # "ignored"
      PROVE  AwaitsValue(src, buf, at, stack)
  <2>1. /\ src \in Values /\ Front(stack) \in Seq(Frames) /\ top \in Frames
        /\ stack = Append(Front(stack), top)
    BY <1>1, <1>2, AtLoop
  <2>2. PICK e \in Plans(src) : AtTurn(src, buf, at, e)
    BY <1>1, <1>2, AtLoop
  <2> DEFINE f == top
             s == Front(stack)
             c == Head(e.left)
  <2>3. /\ e.left # <<>> /\ Fills(src, buf, f, e) /\ Stacked(src, buf, s, e.pos, e.rest)
        /\ Reading(src, buf, at, e.left \o End(f) \o e.rest, FALSE)
    BY <1>1, <2>2 DEF AtTurn
  <2>4. Awaits(f, e)
    BY <1>1, <2>3 DEF Awaits
  <2>5. Stacked(src, buf, Append(s, f), c, Follow(f, e))
    BY <2>1, <2>3, <2>4, StackedPush
  <2>6. KeyItem(c) = <<>>
    <3>1. e.left \in Seq(DOMAIN src) /\ e.pos \in DOMAIN src
      BY DEF Plans
    <3>2. c = e.left[1] /\ 1 \in DOMAIN e.left
      BY <2>3, <3>1
    <3>3. c = Append(e.pos, Elem(Size(f) + 1))
      BY <1>1, <2>3, <3>2 DEF Fills
    <3>4. src[e.pos].type = "ARRAY" /\ c \in Children(src, e.pos)
      BY <1>1, <2>3, <3>2 DEF Fills
    <3>5. Children(src, e.pos) = {Append(e.pos, Elem(i)) : i \in 1 .. src[e.pos].val}
      BY <2>1, <3>1, <3>4, ValueAt
    <3>6. PICK i \in 1 .. src[e.pos].val : c = Append(e.pos, Elem(i))
      BY <3>4, <3>5
    <3>7. e.pos \in Seq(Steps) /\ Elem(i) \in Steps
      BY <2>1, <3>1, ValueAt, PositionSteps DEF Elem, Steps
    <3>8. Last(c) = Elem(i)
      BY <3>6, <3>7, FrontLastAppend
    <3> QED BY <3>8 DEF KeyItem, Elem
  <2>7. Reading(src, buf, at, <<c>> \o Follow(f, e), KeyItem(c) # <<>>)
    BY <2>3, <2>6, ReadChild
  <2> QED BY <2>1, <2>5, <2>7 DEF AwaitsValue
<1>3. DecodedOK'
  BY <1>1, <1>2 DEF DecodedOK
<1> QED BY <1>1, <1>3, DecoderKeeps

\* Before a map's next value comes its key.
LEMMA KeyAhead ==
  ASSUME NEW v \in Values, NEW b \in Seq(Items), NEW i \in Nat \ {0}, NEW f, f.kind = "MAP",
         NEW e, Fills(v, b, f, e), e.left # <<>>,
         Reading(v, b, i, e.left \o End(f) \o e.rest, FALSE)
  PROVE  /\ i <= Len(b) /\ b[i].major = "UINT" /\ Last(Head(e.left)) = Key(b[i].arg)
         /\ Reading(v, b, i + 1, <<Head(e.left)>> \o Follow(f, e), KeyItem(Head(e.left)) # <<>>)
<1> DEFINE c == Head(e.left)
           r == Follow(f, e)
<1>1. e \in Plans(v)
  BY DEF Fills
<1>2. c \in DOMAIN v /\ r \in Todos(v) /\ e.left \o End(f) \o e.rest = <<c>> \o r
  BY <1>1, FollowType
<1>3. Reading(v, b, i, <<c>> \o r, FALSE)
  BY ONLY <1>2, Reading(v, b, i, e.left \o End(f) \o e.rest, FALSE)
<1>4. c \in Children(v, e.pos) /\ e.pos \in DOMAIN v /\ v[e.pos].type = "MAP"
  <2>1. e.left \in Seq(DOMAIN v) /\ e.pos \in DOMAIN v
    BY <1>1 DEF Plans
  <2>2. c = e.left[1] /\ 1 \in DOMAIN e.left
    BY <2>1
  <2> QED BY <2>1, <2>2 DEF Fills
<1>5. c # <<>> /\ Last(c) \in Steps
  BY <1>4, ChildStep
<1>6. Last(c)[1] = "key"
  BY <1>4, ValueAt
<1> HIDE DEF c, r
<1>7. KeyItem(c) = <<Item("UINT", Last(c)[2])>>
  BY <1>5, <1>6 DEF KeyItem
<1>8. KeyItem(c) # <<>>
  BY <1>7
<1>9. /\ i <= Len(b) /\ KeyItem(c) = <<b[i]>>
      /\ Reading(v, b, i + 1, <<c>> \o r, KeyItem(c) # <<>>)
  BY <1>2, <1>3, <1>8, ReadKey
<1>10. b[i] = Item("UINT", Last(c)[2])
  BY <1>7, <1>9
<1>11. Last(c) = Key(Last(c)[2])
  BY <1>5, <1>6 DEF Steps, Key
<1>12. b[i].major = "UINT" /\ Last(c) = Key(b[i].arg)
  BY <1>10, <1>11 DEF Item
<1> QED BY <1>9, <1>12 DEF c, r

\* A map's next key is read.
LEMMA NextEntryKeeps ==
  ASSUME IInv, Faithful, NextEntry
  PROVE  Faithful'
<1> DEFINE f == top
           g == [f EXCEPT !.key = next.arg]
           s == Front(stack)
<1>1. /\ pc = "loop" /\ pc' = "value" /\ ~AtEnd /\ f.kind = "MAP" /\ at' = at + 1
      /\ stack' = [stack EXCEPT ![indent].key = next.arg] /\ UNCHANGED <<src, buf, oom>>
  BY DEF NextEntry
<1>2. stack # <<>>
  BY <1>1 DEF IInv, DecoderOK
<1>3. stack' = Append(s, g)
  <2>1. stack[indent] = f
    BY <1>2 DEF top, indent, Last
  <2>2. stack' = [stack EXCEPT ![indent] = g]
    BY <1>1, <2>1
  <2> QED BY <1>2, <2>2, TopFacts
<1>4. ASSUME src # NULL, oom # "ignored"
      PROVE  AwaitsValue(src, buf, at + 1, Append(s, g))
  <2>1. /\ src \in Values /\ buf \in Seq(Items) /\ at \in Nat \ {0} /\ s \in Seq(Frames)
        /\ f \in Frames
    BY <1>1, <1>4, AtLoop
  <2>2. PICK e \in Plans(src) : AtTurn(src, buf, at, e)
    BY <1>1, <1>4, AtLoop
  <2> DEFINE c == Head(e.left)
  <2>3. /\ e.left # <<>> /\ Fills(src, buf, f, e) /\ Stacked(src, buf, s, e.pos, e.rest)
        /\ Reading(src, buf, at, e.left \o End(f) \o e.rest, FALSE)
    BY <1>1, <2>2 DEF AtTurn
  <2> HIDE DEF f, s
  <2>4. /\ at <= Len(buf) /\ Last(c) = Key(buf[at].arg)
        /\ Reading(src, buf, at + 1, <<c>> \o Follow(f, e), KeyItem(c) # <<>>)
    BY <1>1, <2>1, <2>3, KeyAhead
  <2>5. next = buf[at]
    BY <2>4 DEF next
  <2> DEFINE k == next.arg
  <2>6. k \in Int
    <3>1. buf[at] \in Items
      BY <2>1, <2>4
    <3> QED BY <2>5, <3>1 DEF Items
  <2>7. g = [f EXCEPT !.key = k]
    OBVIOUS
  <2> HIDE DEF k, g
  <2>8. /\ g \in Frames /\ g.kind = "MAP" /\ g.key = k /\ g.tree = f.tree /\ g.left = f.left
        /\ g.loopCount = f.loopCount
    <3>1. g \in Frames /\ g.kind = "MAP" /\ g.loopCount = f.loopCount
      BY <1>1, <2>1, <2>6, <2>7, FrameKey
    <3>2. f = [kind |-> f.kind, tree |-> f.tree, id |-> f.id, left |-> f.left, room |-> f.room,
               loopCount |-> f.loopCount, key |-> f.key]
      BY <2>1, FrameFacts DEF Records
    <3>3. g.key = k /\ g.tree = f.tree /\ g.left = f.left
      BY <2>7, <3>2
    <3> QED BY <3>1, <3>3
  <2>9. Fills(src, buf, g, e)
    BY <1>1, <2>3, <2>8 DEF Fills, Size
  <2>10. Awaits(g, e)
    BY <2>3, <2>4, <2>5, <2>8 DEF Awaits, k
  <2>11. Follow(g, e) = Follow(f, e)
    <3>1. End(g) = End(f)
      BY <2>8 DEF End
    <3> QED BY ONLY <3>1 DEF Follow
  <2>12. Stacked(src, buf, Append(s, g), c, Follow(g, e))
    BY <2>1, <2>3, <2>8, <2>9, <2>10, StackedPush
  <2>13. Reading(src, buf, at + 1, <<c>> \o Follow(g, e), KeyItem(c) # <<>>)
    BY ONLY <2>4, <2>11
  <2> QED BY <2>12, <2>13 DEF AwaitsValue
<1> HIDE DEF f, g, s
<1>5. DecodedOK'
  BY <1>1, <1>3, <1>4 DEF DecodedOK
<1> QED BY <1>1, <1>5, DecoderKeeps

\* A map fails only if it has too many entries.
LEMMA MapFailsKeeps ==
  ASSUME IInv, Faithful, MapFails
  PROVE  Faithful'
<1>1. /\ pc = "loop" /\ pc' = "return" /\ ~AtEnd /\ top.kind = "MAP" /\ ret' = NULL
      /\ MapIsFull \/ next.major # "UINT"
  BY DEF MapFails, Fail, Return
<1>2. UNCHANGED <<src, buf, oom>>
  BY DEF MapFails, Fail, Return
<1>3. ASSUME src # NULL, oom # "ignored"
      PROVE  ~WithinLimits(src)
  <2>1. src \in Values /\ buf \in Seq(Items) /\ at \in Nat \ {0} /\ top \in Frames
    BY <1>1, <1>3, AtLoop
  <2>2. PICK e \in Plans(src) : AtTurn(src, buf, at, e)
    BY <1>1, <1>3, AtLoop
  <2> DEFINE f == top
  <2>3. /\ e.left # <<>> /\ Fills(src, buf, f, e)
        /\ Reading(src, buf, at, e.left \o End(f) \o e.rest, FALSE)
    BY <1>1, <2>2 DEF AtTurn
  <2>4. f.kind = "MAP" /\ (f.loopCount > CORECONF_MAX_LOOP \/ next.major # "UINT")
    BY <1>1 DEF MapIsFull
  <2>5. f.loopCount \in Nat
    BY <2>1, FrameFacts
  <2> HIDE DEF f
  <2>6. at <= Len(buf) /\ buf[at].major = "UINT"
    BY <2>1, <2>3, <2>4, KeyAhead
  <2>7. f.loopCount > CORECONF_MAX_LOOP
    BY <2>4, <2>6 DEF next
  <2>8. /\ src[e.pos].type = "MAP" /\ f.loopCount + Len(e.left) = src[e.pos].val
        /\ e.pos \in DOMAIN src
    BY <2>3, <2>4 DEF Fills, Plans
  <2>9. Len(e.left) \in Nat /\ Len(e.left) # 0
    BY <2>3 DEF Plans
  <2>10. ~LimitAt(src, e.pos)
    <3> DEFINE n == Len(e.left)
               x == src[e.pos].val
    <3>1. CORECONF_MAX_LOOP \in Nat /\ (LimitAt(src, e.pos) => x <= CORECONF_MAX_LOOP + 1)
      BY <2>8, SerializationAssumption DEF LimitAt
    <3>2. f.loopCount + n = x
      BY <2>8
    <3> HIDE DEF n, x
    <3>3. n \in Nat /\ n # 0
      BY <2>9 DEF n
    <3> QED BY <2>5, <2>7, <3>1, <3>2, <3>3
  <2> QED BY <2>8, <2>10, BeyondLimit
<1> QED BY <1>1, <1>2, <1>3, NULLKeeps

-----------------------------------------------------------------------------
(* A value is returned to the call that waits for it *)

\* What is known when a call is given the value it waits for.
LEMMA AtReturn ==
  ASSUME IInv, Faithful, pc = "return", ret # NULL, stack # <<>>, src # NULL, oom # "ignored"
  PROVE  /\ src \in Values /\ buf \in Seq(Items) /\ ret \in Trees /\ Waiting(top)
         /\ Front(stack) \in Seq(Frames) /\ top \in Frames /\ stack = Append(Front(stack), top)
         /\ \E e : /\ Fills(src, buf, top, e) /\ Awaits(top, e)
                   /\ Stacked(src, buf, Front(stack), e.pos, e.rest)
                   /\ IsWhole(src, ret, Head(e.left))
                   /\ Reading(src, buf, at, Follow(top, e), FALSE)
<1>1. src \in Values /\ IsGiven(src, buf, at, stack, ret)
  BY DEF Faithful, SourceOK, DecodedOK
<1>2. /\ buf \in Seq(Items) /\ ret \in Trees /\ Waiting(top)
      /\ Front(stack) \in Seq(Frames) /\ top \in Frames /\ stack = Append(Front(stack), top)
  BY TopFacts DEF IInv, EncoderOK, DecoderOK
<1>3. PICK c, r : Stacked(src, buf, stack, c, r) /\ IsWhole(src, ret, c) /\ Reading(src, buf, at, r, FALSE)
  BY <1>1 DEF IsGiven
<1> DEFINE f == top
           s == Front(stack)
<1> HIDE DEF f, s
<1>4. Stacked(src, buf, Append(s, f), c, r)
  BY <1>2, <1>3 DEF f, s
<1>5. \E e : /\ Fills(src, buf, f, e) /\ Awaits(f, e) /\ c = Head(e.left) /\ r = Follow(f, e)
             /\ Stacked(src, buf, s, e.pos, e.rest)
  BY <1>1, <1>2, <1>4, StackedPop DEF f, s
<1> QED BY <1>1, <1>2, <1>3, <1>5 DEF f, s

\* The tag with its value is returned.
LEMMA TagReturnsKeeps ==
  ASSUME IInv, Faithful, TagReturns
  PROVE  Faithful'
<1> DEFINE f == top
           t == Tagged(f.id, Cell("TAG", 0, buf[f.id].arg), ret)
<1>1. /\ pc = "return" /\ stack # <<>> /\ f.kind = "TAG" /\ ret # NULL /\ pc' = "return"
      /\ ret' = t /\ stack' = Front(stack) /\ UNCHANGED <<src, buf, at, oom>>
  BY DEF TagReturns, Return, Tagged
<1>2. t \in Trees
  <2>1. IInv'
    BY TagReturnsPreserves
  <2> QED BY <1>1, <2>1 DEF IInv, DecoderOK
<1>3. t # NULL
  <2>1. <<>> \in DOMAIN t
    BY DEF Tagged
  <2> QED BY <2>1, NULLFacts
<1>4. ASSUME src # NULL, oom # "ignored"
      PROVE  IsGiven(src, buf, at, Front(stack), t)
  <2>1. src \in Values /\ ret \in Trees /\ f \in Frames
    BY <1>1, <1>4, AtReturn
  <2>2. PICK e : /\ Fills(src, buf, f, e) /\ Awaits(f, e)
                 /\ Stacked(src, buf, Front(stack), e.pos, e.rest)
                 /\ IsWhole(src, ret, Head(e.left)) /\ Reading(src, buf, at, Follow(f, e), FALSE)
    BY <1>1, <1>4, AtReturn
  <2>3. t = Tagged(f.id, Cell("TAG", 0, buf[f.id].arg), ret)
    OBVIOUS
  <2> HIDE DEF f, t
  <2>4. IsWhole(src, t, e.pos) /\ Tail(e.left) = <<>> /\ End(f) = <<>>
    BY <1>1, <1>2, <2>1, <2>2, <2>3, TagWhole
  <2>5. Follow(f, e) = e.rest
    <3>1. e.rest \in Seq(DOMAIN src \cup {Closing})
      BY <2>2 DEF Fills, Plans, Todos
    <3>2. <<>> \o <<>> \o e.rest = e.rest
      BY <3>1
    <3> QED BY ONLY <2>4, <3>2 DEF Follow
  <2>6. Reading(src, buf, at, e.rest, FALSE)
    BY ONLY <2>2, <2>5
  <2> QED BY <2>2, <2>4, <2>6 DEF IsGiven
<1> HIDE DEF f, t
<1>5. DecodedOK'
  BY <1>1, <1>3, <1>4 DEF DecodedOK
<1> QED BY <1>1, <1>5, DecoderKeeps

\* NULL is handed on, and so is its reason.
LEMMA NULLsKeep ==
  ASSUME IInv, Faithful, NULLInside \/ TagOutOfMemory
  PROVE  Faithful'
<1>1. pc = "return" /\ pc' = "return" /\ ret' = NULL /\ UNCHANGED <<src, buf>>
  BY DEF NULLInside, Fail, TagOutOfMemory, Return
<1>2. ASSUME src # NULL, oom' # "ignored"
      PROVE  oom' = "noticed" \/ ~WithinLimits(src)
  <2>1. CASE NULLInside
    <3>1. ret = NULL /\ oom' = oom
      BY <2>1 DEF NULLInside, Fail
    <3> QED BY <1>1, <1>2, <3>1 DEF Faithful, DecodedOK
  <2>2. CASE TagOutOfMemory
    BY <1>2, <2>2 DEF TagOutOfMemory, Noticed
  <2> QED BY <2>1, <2>2
<1> QED BY <1>1, <1>2, NULLKeeps

\* An array or a map takes the value in, and goes on with the children left.
LEMMA TakesKeeps ==
  ASSUME IInv, IInv', Faithful, pc = "return", ret # NULL, stack # <<>>, top.kind # "TAG",
         pc' = "loop", UNCHANGED <<src, buf, at, oom>>,
         NEW g, stack' = Append(Front(stack), g), g.kind = top.kind,
         g.left = (IF top.left = INDEFINITE THEN INDEFINITE ELSE top.left - 1),
         top.kind = "MAP" => g.loopCount = top.loopCount + 1,
         \A e : src \in Values /\ Fills(src, buf, top, e) /\ Awaits(top, e) =>
                  /\ IsJoin(g.tree, top.tree, Last(Head(e.left)), ret)
                  /\ g.tree[<<>>].cell = Cell(top.kind, 0, Size(top) + 1)
  PROVE  Faithful'
<1> DEFINE f == top
           s == Front(stack)
           a == Append(s, g)
<1>1. ASSUME src # NULL, oom # "ignored"
      PROVE  InLoop(src, buf, at, a)
  <2>1. /\ src \in Values /\ ret \in Trees /\ f \in Frames /\ Waiting(f) /\ s \in Seq(Frames)
    BY <1>1, AtReturn
  <2>2. PICK e : /\ Fills(src, buf, f, e) /\ Awaits(f, e) /\ Stacked(src, buf, s, e.pos, e.rest)
                 /\ IsWhole(src, ret, Head(e.left)) /\ Reading(src, buf, at, Follow(f, e), FALSE)
    BY <1>1, AtReturn
  <2>3. a \in Seq(Frames)
    BY DEF IInv, DecoderOK
  <2>4. g \in Frames
    <3> DEFINE n == Len(s) + 1
    <3> HIDE DEF s
    <3>1. n \in DOMAIN a /\ a[n] = g
      BY <2>1
    <3> HIDE DEF n, a
    <3> QED BY <2>3, <3>1
  <2>5. Front(a) = s /\ Last(a) = g /\ a # <<>>
    <3> HIDE DEF s
    <3> QED BY <2>1, <2>4, StackAppend
  <2>6. /\ IsJoin(g.tree, f.tree, Last(Head(e.left)), ret)
        /\ g.tree[<<>>].cell = Cell(f.kind, 0, Size(f) + 1)
    BY <2>1, <2>2
  <2> HIDE DEF s, a
  <2> DEFINE d == [pos |-> e.pos, left |-> Tail(e.left), rest |-> e.rest]
  <2>7. d.pos = e.pos /\ d.left = Tail(e.left) /\ d.rest = e.rest
    OBVIOUS
  <2>8. Fills(src, buf, g, d)
    <3>1. /\ f.kind # "TAG" /\ g.kind = f.kind
          /\ g.left = (IF f.left = INDEFINITE THEN INDEFINITE ELSE f.left - 1)
          /\ f.kind = "MAP" => g.loopCount = f.loopCount + 1
      OBVIOUS
    <3> HIDE DEF f
    <3> QED BY <2>1, <2>2, <2>6, <3>1, ContainerTakes
  <2> HIDE DEF d
  <2>9. End(g) = End(f)
    <3>1. f.left \in {INDEFINITE, Len(e.left)} /\ e.left \in Seq(DOMAIN src) /\ e.left # <<>>
      BY <2>2 DEF Fills, Plans, Awaits
    <3> DEFINE n == Len(e.left)
    <3>2. n \in Nat /\ n # 0 /\ (f.left = INDEFINITE \/ f.left = n)
      BY <3>1
    <3> HIDE DEF n
    <3> QED BY <3>2 DEF End, INDEFINITE
  <2>10. Reading(src, buf, at, d.left \o End(g) \o d.rest, FALSE)
    BY ONLY <2>2, <2>7, <2>9 DEF Follow
  <2>11. Stacked(src, buf, s, d.pos, d.rest)
    BY <2>2, <2>7
  <2> QED BY <2>5, <2>8, <2>10, <2>11 DEF InLoop
<1>2. stack' = a
  OBVIOUS
<1> HIDE DEF a
<1>3. DecodedOK'
  BY <1>1, <1>2 DEF DecodedOK
<1> QED BY <1>3, DecoderKeeps

\* A value is dropped: the result is no longer asked about.
LEMMA DropsKeep ==
  ASSUME IInv, Faithful, ElementDropped \/ EntryDropped
  PROVE  Faithful'
<1>1. pc = "return" /\ pc' = "loop" /\ UNCHANGED <<src, buf>>
  BY DEF ElementDropped, EntryDropped, Continue
<1>2. CASE ElementDropped
  <2>1. oom' = "ignored"
    BY <1>2 DEF ElementDropped
  <2>2. DecodedOK'
    BY <2>1 DEF DecodedOK
  <2> QED BY <1>1, <2>2, DecoderKeeps
<1>3. CASE EntryDropped
  <2>1. pc = "return" /\ stack # <<>> /\ top.kind = "MAP"
    BY <1>3 DEF EntryDropped
  <2>2. top \in Frames /\ Waiting(top)
    BY <2>1, TopFacts
  <2>3. ~(OthersInBucket + (IF Replaces THEN 1 ELSE 0) > CORECONF_MAX_LOOP + 1)
    BY <2>1, <2>2, NeverGivesUp
  <2> DEFINE givesUp == OthersInBucket + (IF Replaces THEN 1 ELSE 0) > CORECONF_MAX_LOOP + 1
  <2>4. oom' \in IF givesUp THEN {oom, "ignored"} ELSE {"ignored"}
    BY <1>3 DEF EntryDropped
  <2>5. ~givesUp
    BY <2>3
  <2> HIDE DEF givesUp
  <2>6. oom' = "ignored"
    BY <2>4, <2>5
  <2>7. DecodedOK'
    BY <2>6 DEF DecodedOK
  <2> QED BY <1>1, <2>7, DecoderKeeps
<1> QED BY <1>2, <1>3

\* A root that gets a new size.
Resize(n, size) == [n EXCEPT !.cell.val = size]

\* Only the size changes.
LEMMA Resized ==
  ASSUME NEW n \in Nodes, NEW kind, NEW size, NEW old, n.cell = Cell(kind, 0, old)
  PROVE  Resize(n, size).cell = Cell(kind, 0, size)
<1>1. n = [cell |-> n.cell, id |-> n.id]
  BY DEF Nodes
<1>2. Resize(n, size) = [cell |-> [n.cell EXCEPT !.val = size], id |-> n.id]
  BY <1>1 DEF Resize
<1> QED BY <1>2 DEF Cell

\* What a frame has when its container has taken a value.
TakesElement(f, t, room) == Counted([f EXCEPT !.tree = t, !.room = room])
TakesEntry(f, t) == Counted([f EXCEPT !.tree = t, !.loopCount = @ + 1])

\* One value less to come, and for a map one turn of its loop more.
LEMMA TakenFields ==
  ASSUME NEW f \in Records, NEW t, NEW room
  PROVE  \A g \in {TakesElement(f, t, room), TakesEntry(f, t)} :
           /\ g.kind = f.kind /\ g.tree = t
           /\ g.left = IF f.left = INDEFINITE THEN INDEFINITE ELSE f.left - 1
           /\ g = TakesEntry(f, t) => g.loopCount = f.loopCount + 1
<1>1. DOMAIN f = {"kind", "tree", "id", "left", "room", "loopCount", "key"}
  BY DEF Records
<1>2. LET g == TakesElement(f, t, room)
      IN  g.kind = f.kind /\ g.tree = t /\ g.left = IF f.left = INDEFINITE THEN INDEFINITE ELSE f.left - 1
  <2> DEFINE x == [f EXCEPT !.tree = t]
             y == [x EXCEPT !.room = room]
  <2>1. /\ DOMAIN x = DOMAIN f /\ x.kind = f.kind /\ x.tree = t /\ x.left = f.left
    BY <1>1
  <2> HIDE DEF x
  <2>2. /\ DOMAIN y = DOMAIN f /\ y.kind = f.kind /\ y.tree = t /\ y.left = f.left
    BY <1>1, <2>1
  <2>3. TakesElement(f, t, room) = Counted(y)
    BY DEF TakesElement, x
  <2> HIDE DEF y
  <2> QED BY <1>1, <2>2, <2>3 DEF Counted
<1>3. LET g == TakesEntry(f, t)
      IN  /\ g.kind = f.kind /\ g.tree = t /\ g.loopCount = f.loopCount + 1
          /\ g.left = IF f.left = INDEFINITE THEN INDEFINITE ELSE f.left - 1
  <2> DEFINE x == [f EXCEPT !.tree = t]
             y == [x EXCEPT !.loopCount = @ + 1]
  <2>1. /\ DOMAIN x = DOMAIN f /\ x.kind = f.kind /\ x.tree = t /\ x.left = f.left
        /\ x.loopCount = f.loopCount
    BY <1>1
  <2> HIDE DEF x
  <2>2. /\ DOMAIN y = DOMAIN f /\ y.kind = f.kind /\ y.tree = t /\ y.left = f.left
        /\ y.loopCount = f.loopCount + 1
    BY <1>1, <2>1
  <2>3. TakesEntry(f, t) = Counted(y)
    BY DEF TakesEntry, x
  <2> HIDE DEF y
  <2> QED BY <1>1, <2>2, <2>3 DEF Counted
<1> QED BY <1>2, <1>3

\* An array takes its next element.
LEMMA TakesElementKeeps ==
  ASSUME IInv, Faithful, AddElement
  PROVE  Faithful'
<1> DEFINE f == top
           F == f.tree
           size == F[<<>>].cell.val + 1
           t == Grown(F, ret)
           m == IF size > f.room THEN size ELSE f.room
           u == [f EXCEPT !.tree = t, !.room = m]
           g == Counted(u)
<1>1. /\ pc = "return" /\ pc' = "loop" /\ stack # <<>> /\ f.kind = "ARRAY" /\ ret # NULL
      /\ UNCHANGED <<src, buf, at, oom>>
  BY DEF AddElement, Continue
<1>2. stack' = [stack EXCEPT ![indent] = g]
  BY DEF AddElement, Continue, Grown, Counted
<1>3. stack' = Append(Front(stack), g)
  BY <1>1, <1>2, TopFacts
<1>4. IInv'
  BY AddElementPreserves
<1>5. f \in Frames /\ F \in Trees /\ f \in Records /\ F # NULL /\ ret \in Trees
  <2>1. f \in Frames /\ ret \in Trees
    BY <1>1, ReturnFacts
  <2>2. F # NULL
    BY <1>1, <2>1 DEF Frames, IsFrame, IsTag, IsArray, IsMap, IsContainer
  <2> QED BY <2>1, <2>2, FrameFacts
<1>6. g.kind = f.kind /\ g.tree = t /\ g.left = IF f.left = INDEFINITE THEN INDEFINITE ELSE f.left - 1
  <2>1. g = TakesElement(f, t, m)
    BY DEF TakesElement
  <2> HIDE DEF f, t, m, u, g
  <2> QED BY <1>5, <2>1, TakenFields
<1>7. ASSUME NEW e, src \in Values, Fills(src, buf, f, e), Awaits(f, e)
      PROVE  IsJoin(t, F, Last(Head(e.left)), ret) /\ t[<<>>].cell = Cell(f.kind, 0, Size(f) + 1)
  <2>1. Last(Head(e.left)) = Elem(size)
    <3>1. e.left \in Seq(DOMAIN src) /\ e.pos \in DOMAIN src /\ e.left # <<>>
      BY <1>7 DEF Fills, Plans, Awaits
    <3>2. Head(e.left) = e.left[1] /\ 1 \in DOMAIN e.left
      BY <3>1
    <3>3. Head(e.left) = Append(e.pos, Elem(size))
      BY <1>1, <1>7, <3>2 DEF Fills, Size
    <3>4. e.pos \in Seq(Steps)
      BY <1>7, <3>1, ValueAt, PositionSteps
    <3>5. Elem(size) \in Steps
      <4>1. F[<<>>] \in Nodes
        BY <1>5, TreeFacts DEF IsTree
      <4> HIDE DEF F
      <4>2. size \in Int
        BY <4>1 DEF Nodes, Cells
      <4> HIDE DEF size
      <4> QED BY <4>2 DEF Elem, Steps
    <3> HIDE DEF size
    <3> QED BY <3>3, <3>4, <3>5, FrontLastAppend
  <2> DEFINE w == Under(Elem(size), ret)
  <2>2. <<>> \in DOMAIN F /\ F[<<>>] \in Nodes
    BY <1>5, TreeFacts DEF IsTree
  <2>3. <<>> \notin DOMAIN w
    <3> DEFINE st == Elem(size)
    <3>1. st \in Steps
      <4>1. F[<<>>].cell.val \in Int
        BY <2>2 DEF Nodes, Cells
      <4>2. size \in Int
        BY <4>1
      <4> HIDE DEF size
      <4> QED BY <4>2 DEF Elem, Steps
    <3> HIDE DEF st
    <3>2. <<>> \notin DOMAIN Under(st, ret)
      BY <1>5, <3>1, TreeFacts, UnderShape
    <3> QED BY <3>2 DEF st
  <2>4. t = [p \in DOMAIN F \cup DOMAIN w |->
               IF p = <<>> THEN [F[p] EXCEPT !.cell.val = size]
               ELSE IF p \in DOMAIN w THEN w[p] ELSE F[p]]
    BY DEF Grown
  <2> DEFINE root == [F[<<>>] EXCEPT !.cell.val = size]
  <2>5. t[<<>>] = root
    BY <2>2, <2>4
  <2>6. root.cell = Cell(f.kind, 0, size)
    <3>1. F[<<>>].cell = Cell(f.kind, 0, Size(f))
      BY <1>1, <1>7 DEF Fills
    <3> DEFINE n == F[<<>>]
               kind == f.kind
               old == Size(f)
    <3>2. n \in Nodes /\ n.cell = Cell(kind, 0, old) /\ root = Resize(n, size)
      BY <2>2, <3>1 DEF Resize
    <3> HIDE DEF n, size, kind, old, root
    <3>3. root.cell = Cell(kind, 0, size)
      BY <3>2, Resized
    <3> QED BY <3>3 DEF kind
  <2>7. size = Size(f) + 1
    BY DEF Size
  <2> HIDE DEF w, F, t, root, size
  <2>8. IsJoin(t, F, Elem(size), ret)
    <3>1. DOMAIN t = {<<>>} \cup DOMAIN F \cup DOMAIN w
      BY <2>2, <2>4
    <3>2. \A q \in DOMAIN F \ {<<>>} : q \notin DOMAIN w => t[q] = F[q]
      BY <2>4
    <3>3. \A q \in DOMAIN w : t[q] = w[q]
      BY <2>3, <2>4
    <3> QED BY <3>1, <3>2, <3>3 DEF IsJoin, w
  <2> QED BY <2>1, <2>5, <2>6, <2>7, <2>8
<1>8. /\ g.left = (IF top.left = INDEFINITE THEN INDEFINITE ELSE top.left - 1)
      /\ g.kind = top.kind /\ top.kind = "ARRAY"
      /\ \A e : src \in Values /\ Fills(src, buf, top, e) /\ Awaits(top, e) =>
                  /\ IsJoin(g.tree, top.tree, Last(Head(e.left)), ret)
                  /\ g.tree[<<>>].cell = Cell(top.kind, 0, Size(top) + 1)
  <2>1. g.tree = t
    BY <1>6
  <2> HIDE DEF g, t
  <2> QED BY <1>1, <1>6, <1>7, <2>1
<1> HIDE DEF g, f
<1> QED BY <1>1, <1>3, <1>4, <1>8, TakesKeeps DEF f

\* A map takes its next entry, whose key no other has.
LEMMA TakesEntryKeeps ==
  ASSUME IInv, Faithful, AddEntry
  PROVE  Faithful'
<1> DEFINE f == top
           F == f.tree
           k == f.key
           t == WithEntry(F, k, ret)
           g == TakesEntry(f, t)
<1>1. /\ pc = "return" /\ pc' = "loop" /\ stack # <<>> /\ f.kind = "MAP" /\ ret # NULL
      /\ UNCHANGED <<src, buf, at, oom>>
  BY DEF AddEntry, Continue
<1>2. stack' = [stack EXCEPT ![indent] = g]
  BY DEF AddEntry, Continue, WithEntry, TakesEntry, Counted
<1>3. stack' = Append(Front(stack), g)
  BY <1>1, <1>2, TopFacts
<1>4. IInv'
  BY AddEntryPreserves
<1>5. f \in Frames /\ F \in Trees /\ f \in Records /\ F # NULL /\ ret \in Trees /\ k \in Int
  <2>1. f \in Frames /\ ret \in Trees
    BY <1>1, ReturnFacts
  <2>2. F # NULL
    BY <1>1, <2>1 DEF Frames, IsFrame, IsTag, IsArray, IsMap, IsContainer
  <2> QED BY <2>1, <2>2, FrameFacts
<1>6. /\ g.kind = f.kind /\ g.tree = t /\ g.loopCount = f.loopCount + 1
      /\ g.left = IF f.left = INDEFINITE THEN INDEFINITE ELSE f.left - 1
  <2>1. g = TakesEntry(f, t) /\ g \in {TakesElement(f, t, 0), TakesEntry(f, t)}
    OBVIOUS
  <2> HIDE DEF f, t, g
  <2> QED BY <1>5, <2>1, TakenFields
<1>7. ASSUME NEW e, src \in Values, Fills(src, buf, f, e), Awaits(f, e)
      PROVE  IsJoin(t, F, Last(Head(e.left)), ret) /\ t[<<>>].cell = Cell(f.kind, 0, Size(f) + 1)
  <2> DEFINE w == Under(Key(k), ret)
             kept == {p \in DOMAIN F : p = <<>> \/ p[1] # Key(k)}
             size == Cardinality({p \in kept : Len(p) = 1}) + 1
             c == Head(e.left)
  <2>1. Last(c) = Key(k)
    BY <1>1, <1>7 DEF Awaits
  <2>2. c = Append(e.pos, Key(k)) /\ c \notin Taken(src, e)
    <3>1. e.left \in Seq(DOMAIN src) /\ e.pos \in DOMAIN src /\ e.left # <<>>
      BY <1>7 DEF Fills, Plans, Awaits
    <3>2. c = e.left[1] /\ 1 \in DOMAIN e.left
      BY <3>1
    <3>3. c \in Children(src, e.pos)
      BY <1>7, <3>2 DEF Fills
    <3>4. c = Append(e.pos, Last(c))
      BY <1>7, <3>1, <3>3, ChildStep
    <3>5. c \notin Taken(src, e)
      BY <3>2 DEF Taken
    <3> QED BY <2>1, <3>4, <3>5
  <2>3. <<>> \in DOMAIN F /\ F[<<>>] \in Nodes /\ DOMAIN F \subseteq Positions
    BY <1>5, TreeFacts DEF IsTree
  <2>4. /\ <<>> \notin DOMAIN w /\ \A p \in DOMAIN w : p[1] = Key(k)
    <3>1. Key(k) \in Steps
      <4> HIDE DEF k
      <4> QED BY <1>5 DEF Key, Steps
    <3> DEFINE st == Key(k)
    <3> HIDE DEF st
    <3>2. st \in Steps /\ DOMAIN ret \subseteq Positions
      BY <1>5, <3>1, TreeFacts DEF st
    <3>3. <<>> \notin DOMAIN Under(st, ret)
      BY <3>2, UnderShape
    <3>4. \A p \in DOMAIN Under(st, ret) :
            p[1] = st /\ Tail(p) \in DOMAIN ret /\ p = <<st>> \o Tail(p)
      BY <3>2, UnderShape
    <3> QED BY <3>3, <3>4 DEF st
  <2>5. kept = DOMAIN F
    <3> SUFFICES ASSUME NEW p \in DOMAIN F, p # <<>> PROVE p[1] # Key(k)
      OBVIOUS
    <3>1. Append(e.pos, p[1]) \in Taken(src, e)
      BY <1>7, <2>3 DEF Fills, IsPart
    <3> QED BY <2>2, <3>1
  <2>6. t = [p \in kept \cup DOMAIN w |->
               IF p = <<>> THEN [F[p] EXCEPT !.cell.val = size]
               ELSE IF p \in kept THEN F[p] ELSE w[p]]
    BY DEF WithEntry
  <2>7. size = Size(f) + 1
    <3>1. {p \in kept : Len(p) = 1} = Entries(F)
      BY <2>5 DEF Entries
    <3>2. Cardinality(Entries(F)) = Size(f)
      BY <1>1, <1>7 DEF Fills
    <3> QED BY <3>1, <3>2
  <2> DEFINE root == [F[<<>>] EXCEPT !.cell.val = size]
  <2>8. t[<<>>] = root
    BY <2>3, <2>6
  <2>9. root.cell = Cell(f.kind, 0, size)
    <3>1. F[<<>>].cell = Cell(f.kind, 0, Size(f))
      BY <1>1, <1>7 DEF Fills
    <3> DEFINE n == F[<<>>]
               kind == f.kind
               old == Size(f)
    <3>2. n \in Nodes /\ n.cell = Cell(kind, 0, old) /\ root = Resize(n, size)
      BY <2>3, <3>1 DEF Resize
    <3> HIDE DEF n, size, kind, old, root
    <3>3. root.cell = Cell(kind, 0, size)
      BY <3>2, Resized
    <3> QED BY <3>3 DEF kind
  <2> HIDE DEF w, t, root, size, kept
  <2>10. IsJoin(t, F, Key(k), ret)
    <3> HIDE DEF F, k
    <3>1. DOMAIN t = {<<>>} \cup DOMAIN F \cup DOMAIN w
      BY <2>3, <2>5, <2>6
    <3>2. \A q \in DOMAIN F \ {<<>>} : q \notin DOMAIN w => t[q] = F[q]
      BY <2>5, <2>6
    <3>3. \A q \in DOMAIN w : t[q] = w[q]
      BY <2>4, <2>6 DEF kept
    <3> QED BY <3>1, <3>2, <3>3 DEF IsJoin, w
  <2> QED BY <2>1, <2>7, <2>8, <2>9, <2>10
<1>8. /\ g.left = (IF top.left = INDEFINITE THEN INDEFINITE ELSE top.left - 1)
      /\ g.kind = top.kind /\ top.kind = "MAP" /\ g.loopCount = top.loopCount + 1
      /\ \A e : src \in Values /\ Fills(src, buf, top, e) /\ Awaits(top, e) =>
                  /\ IsJoin(g.tree, top.tree, Last(Head(e.left)), ret)
                  /\ g.tree[<<>>].cell = Cell(top.kind, 0, Size(top) + 1)
  <2>1. g.tree = t
    BY <1>6
  <2> HIDE DEF g, t
  <2> QED BY <1>1, <1>6, <1>7, <2>1
<1>9. /\ pc = "return" /\ pc' = "loop" /\ stack # <<>> /\ top.kind # "TAG" /\ ret # NULL
      /\ UNCHANGED <<src, buf, at, oom>> /\ stack' = Append(Front(stack), g)
  BY <1>1, <1>3
<1> HIDE DEF f, F, k, t, g
<1> QED BY <1>4, <1>8, <1>9, TakesKeeps

-----------------------------------------------------------------------------
(* The theorem *)

\* Nothing is encoded yet.
LEMMA InitFaithful == Init => Faithful
BY DEF Init, Faithful, SourceOK, WrittenOK, DecodedOK

\* Every step keeps the invariant.
LEMMA StepFaithful ==
  IInv /\ IInv' /\ Faithful /\ [Client \/ Step]_vars => Faithful'
<1> SUFFICES ASSUME IInv, Faithful, [Client \/ Step]_vars PROVE Faithful'
  OBVIOUS
<1>1. CASE Client
  BY <1>1, EncoderKeeps, CallKeeps DEF Client
<1>2. CASE EncodeStep \/ EncodeFails \/ EncodeReturns \/ PeerStep \/ PeerReturns
  BY <1>2, EncodingKeeps, EncoderKeeps
<1>3. CASE TooDeep \/ DecodeLeaf \/ LeafOutOfMemory \/ Unsupported
  BY <1>3, DecodeLeafKeeps, RefusesKeep
<1>4. CASE EnterTag \/ TagReturns \/ TagOutOfMemory \/ Enter \/ EnterFails \/ Halt
  BY <1>4, EnterTagKeeps, TagReturnsKeeps, NULLsKeep, EnterKeeps, RefusesKeep, CallKeeps
<1>5. CASE Leave \/ NextElement \/ NextEntry \/ MapFails \/ NULLInside
  BY <1>5, LeaveKeeps, NextElementKeeps, NextEntryKeeps, MapFailsKeeps, NULLsKeep
<1>6. CASE AddElement \/ ElementDropped \/ AddEntry \/ EntryDropped
  BY <1>6, TakesElementKeeps, TakesEntryKeeps, DropsKeep
<1>7. CASE UNCHANGED vars
  <2>1. UNCHANGED <<pc, src, todo, buf, at, stack, ret, oom>>
    BY <1>7 DEF vars
  <2>2. SourceOK' /\ WrittenOK'
    BY <2>1 DEF Faithful, SourceOK, WrittenOK
  <2>3. DecodedOK'
    BY <2>1 DEF Faithful, DecodedOK
  <2> QED BY <2>2, <2>3 DEF Faithful
<1> QED BY <1>1, <1>2, <1>3, <1>4, <1>5, <1>6, <1>7 DEF Step

\* What is decoded is what was encoded, by this library or a peer and in whatever
\* order the entries of maps came, or NULL: for a value beyond the limits, and
\* where an allocation fails and it is noticed.
THEOREM RoundTrips == Spec => []RoundTrip
<1>1. IInv /\ Faithful => RoundTrip
  <2> SUFFICES ASSUME IInv, Faithful, Returned, src # NULL, oom # "ignored"
               PROVE  IF ret # NULL
                        THEN [p \in DOMAIN ret |-> ret[p].cell] = Normal(src) /\ WithinLimits(src)
                        ELSE oom = "noticed" \/ ~WithinLimits(src)
    BY DEF RoundTrip
  <2>1. pc = "return" /\ stack = <<>>
    BY DEF Returned
  <2>2. CASE ret # NULL
    <3>1. src \in Values /\ IsGiven(src, buf, at, stack, ret)
      BY <2>1, <2>2 DEF Faithful, SourceOK, DecodedOK
    <3>2. PICK c, r : Stacked(src, buf, <<>>, c, r) /\ IsWhole(src, ret, c)
      BY <2>1, <3>1 DEF IsGiven
    <3>3. c = <<>>
      <4>1. \A x, y : Stacked(src, buf, <<>>, x, y) => x = <<>> /\ y = <<>>
        BY <3>1, StackedNone
      <4> QED BY <3>2, <4>1
    <3>4. IsWhole(src, ret, <<>>) /\ DOMAIN ret \subseteq Positions
      BY <3>2, <3>3, TreeFacts DEF IInv, DecoderOK
    <3>5. [p \in DOMAIN ret |-> ret[p].cell] = Normal(src) /\ WithinLimits(src)
      BY <3>1, <3>4, WholeValue
    <3> QED BY <2>2, <3>5
  <2>3. CASE ret = NULL
    BY <2>1, <2>3 DEF Faithful, DecodedOK
  <2> QED BY <2>2, <2>3
<1> QED BY <1>1, InitFaithful, Invariance, StepFaithful, PTL DEF Spec
=============================================================================
