---------------------------- MODULE HashMapProofs ----------------------------
(***************************************************************************)
(* CoreconfHashMap keeps its chains in order and implements OwningMap, for *)
(* every set of keys and values, every hash and every limit on the length  *)
(* of a chain.  The lemmas speak of a table t, so that they hold of `table`*)
(* before and after a step.                                                *)
(***************************************************************************)
EXTENDS CoreconfHashMap, FiniteSetTheorems, TLAPS

-----------------------------------------------------------------------------
(* Tables *)

Tables == [Buckets -> Seq(Objects)]

\* An object of key k with value v is in the chain of its bucket.
Has(t, k, v) ==
  \E i \in DOMAIN t[hashKey[k]] : t[hashKey[k]][i].key = k /\ t[hashKey[k]][i].value = v

WellHashed(t) == \A b \in Buckets : \A i \in DOMAIN t[b] : hashKey[t[b][i].key] = b
Short(t) == \A b \in Buckets : Len(t[b]) <= Reach + 1
KeyOnce(t) ==
  \A b, c \in Buckets : \A i \in DOMAIN t[b], j \in DOMAIN t[c] :
    t[b][i].key = t[c][j].key => b = c /\ i = j
ValueOnce(t) ==
  \A b, c \in Buckets : \A i \in DOMAIN t[b], j \in DOMAIN t[c] :
    t[b][i].value = t[c][j].value => b = c /\ i = j
Stored(t) == {v \in Values : \E b \in Buckets : \E i \in DOMAIN t[b] : t[b][i].value = v}

\* What is in a place.
LEMMA InTable ==
  ASSUME NEW t \in Tables, NEW b \in Buckets, NEW i \in DOMAIN t[b]
  PROVE  /\ t[b][i].key \in Keys /\ t[b][i].value \in Values
         /\ t[b] \in Seq(Objects) /\ i \in 1 .. Len(t[b])
<1>1. t[b] \in Seq(Objects)
  BY DEF Tables
<1>2. t[b][i] \in Objects /\ i \in 1 .. Len(t[b])
  BY <1>1
<1> QED  BY <1>1, <1>2 DEF Objects

\* The table after the value of the object at <<c, n>> was replaced.
Replaced(u, t, c, n, v) ==
  /\ u \in Tables
  /\ \A b \in Buckets : /\ DOMAIN u[b] = DOMAIN t[b] /\ Len(u[b]) = Len(t[b])
                        /\ \A i \in DOMAIN t[b] :
                             /\ u[b][i].key = t[b][i].key
                             /\ u[b][i].value = IF b = c /\ i = n THEN v ELSE t[b][i].value

\* It is what an EXCEPT makes.
LEMMA ReplaceInTable ==
  ASSUME NEW t \in Tables, NEW c \in Buckets, NEW n \in DOMAIN t[c], NEW v \in Values
  PROVE  Replaced([t EXCEPT ![c][n].value = v], t, c, n, v)
<1> DEFINE o == [t[c][n] EXCEPT !.value = v]
           s == [t[c] EXCEPT ![n] = o]
           u == [t EXCEPT ![c] = s]
<1>1. t[c] \in Seq(Objects) /\ t[c][n] \in Objects /\ n \in 1 .. Len(t[c])
  BY InTable DEF Tables
<1>2. o \in Objects /\ o.key = t[c][n].key /\ o.value = v
  BY <1>1 DEF Objects
<1> HIDE DEF o
<1>3. /\ s \in Seq(Objects) /\ Len(s) = Len(t[c]) /\ DOMAIN s = DOMAIN t[c]
      /\ \A i \in DOMAIN t[c] : s[i] = IF i = n THEN o ELSE t[c][i]
  BY <1>1, <1>2
<1> HIDE DEF s
<1>4. u \in Tables /\ \A b \in Buckets : u[b] = IF b = c THEN s ELSE t[b]
  BY <1>3 DEF Tables
<1>5. Replaced(u, t, c, n, v)
  BY <1>2, <1>3, <1>4 DEF Replaced
<1> QED  BY <1>5 DEF s, o

\* The table after an object was put in front of chain c.
Prepended(u, t, c, o) ==
  /\ u \in Tables
  /\ \A b \in Buckets \ {c} : u[b] = t[b]
  /\ DOMAIN u[c] = 1 .. Len(t[c]) + 1 /\ Len(u[c]) = Len(t[c]) + 1
  /\ \A i \in DOMAIN u[c] : u[c][i] = IF i = 1 THEN o ELSE t[c][i - 1]

\* It is what an EXCEPT makes.
LEMMA PrependInTable ==
  ASSUME NEW t \in Tables, NEW c \in Buckets, NEW o \in Objects
  PROVE  Prepended([t EXCEPT ![c] = <<o>> \o @], t, c, o)
<1> DEFINE s == <<o>> \o t[c]
           u == [t EXCEPT ![c] = s]
<1>1. t[c] \in Seq(Objects)
  BY DEF Tables
<1>2. /\ s \in Seq(Objects) /\ Len(s) = Len(t[c]) + 1 /\ DOMAIN s = 1 .. Len(t[c]) + 1
      /\ \A i \in DOMAIN s : s[i] = IF i = 1 THEN o ELSE t[c][i - 1]
  BY <1>1
<1> HIDE DEF s
<1>3. u \in Tables /\ u[c] = s /\ \A b \in Buckets \ {c} : u[b] = t[b]
  BY <1>2 DEF Tables
<1>4. Prepended(u, t, c, o)
  BY <1>2, <1>3 DEF Prepended
<1> QED  BY <1>4 DEF s

-----------------------------------------------------------------------------
(* Places *)

\* A place is a pair of a bucket and a position.
LEMMA PlacePairs ==
  ASSUME NEW t
  PROVE  \A p : p \in UNION {{<<b, i>> : i \in DOMAIN t[b]} : b \in Buckets}
                  <=> \E b \in Buckets : \E i \in DOMAIN t[b] : p = <<b, i>>
  OBVIOUS

\* A statement of the table's places, by bucket and position.
LEMMA ByPlace ==
  /\ \A p \in Places : /\ p[1] \in Buckets /\ p[2] \in DOMAIN table[p[1]]
                       /\ p = <<p[1], p[2]>>
                       /\ ObjectAt(p) = table[p[1]][p[2]]
  /\ \A b \in Buckets : \A i \in DOMAIN table[b] :
       /\ <<b, i>> \in Places /\ <<b, i>>[1] = b /\ <<b, i>>[2] = i
       /\ ObjectAt(<<b, i>>) = table[b][i]
<1>1. \A p : p \in Places <=> \E b \in Buckets : \E i \in DOMAIN table[b] : p = <<b, i>>
  BY PlacePairs DEF Places
<1>2. ASSUME NEW p \in Places
      PROVE  /\ p[1] \in Buckets /\ p[2] \in DOMAIN table[p[1]]
             /\ p = <<p[1], p[2]>> /\ ObjectAt(p) = table[p[1]][p[2]]
  <2>1. PICK b \in Buckets : \E i \in DOMAIN table[b] : p = <<b, i>>
    BY <1>1
  <2>2. PICK i \in DOMAIN table[b] : p = <<b, i>>
    BY <2>1
  <2>3. p[1] = b /\ p[2] = i
    BY <2>2
  <2> QED  BY <2>2, <2>3 DEF ObjectAt
<1>3. ASSUME NEW b \in Buckets, NEW i \in DOMAIN table[b]
      PROVE  /\ <<b, i>> \in Places /\ <<b, i>>[1] = b /\ <<b, i>>[2] = i
             /\ ObjectAt(<<b, i>>) = table[b][i]
  <2>1. <<b, i>> \in Places
    BY <1>1
  <2> QED  BY <2>1 DEF ObjectAt
<1> QED  BY <1>2, <1>3

\* The properties of the places, said of the table.
LEMMA PlacesAreTable ==
  /\ HashMapOK <=> /\ table \in Tables /\ WellHashed(table) /\ Short(table)
                   /\ size \in Nat /\ lost \in Nat
  /\ OneObjectPerKey <=> KeyOnce(table)
  /\ table \in Tables => MapValues = Stored(table)
<1>1. (\A p \in Places : hashKey[ObjectAt(p).key] = p[1]) <=> WellHashed(table)
  <2>1. ASSUME \A p \in Places : hashKey[ObjectAt(p).key] = p[1],
               NEW b \in Buckets, NEW i \in DOMAIN table[b]
        PROVE  hashKey[table[b][i].key] = b
    <3>1. <<b, i>> \in Places /\ <<b, i>>[1] = b /\ ObjectAt(<<b, i>>) = table[b][i]
      BY ByPlace
    <3> QED  BY <2>1, <3>1
  <2>2. ASSUME WellHashed(table), NEW p \in Places
        PROVE  hashKey[ObjectAt(p).key] = p[1]
    BY <2>2, ByPlace DEF WellHashed
  <2> QED  BY <2>1, <2>2 DEF WellHashed
<1>2. HashMapOK <=> /\ table \in Tables /\ WellHashed(table) /\ Short(table)
                    /\ size \in Nat /\ lost \in Nat
  BY <1>1 DEF HashMapOK, Tables, Short
<1>3. OneObjectPerKey => KeyOnce(table)
  <2> SUFFICES ASSUME OneObjectPerKey, NEW b \in Buckets, NEW c \in Buckets,
                      NEW i \in DOMAIN table[b], NEW j \in DOMAIN table[c],
                      table[b][i].key = table[c][j].key
               PROVE  b = c /\ i = j
    BY DEF KeyOnce
  <2> DEFINE p == <<b, i>>
             q == <<c, j>>
  <2>1. p \in Places /\ q \in Places /\ ObjectAt(p).key = ObjectAt(q).key
    BY ByPlace
  <2>2. p = q
    BY <2>1 DEF OneObjectPerKey
  <2> QED  BY <2>2
<1>4. KeyOnce(table) => OneObjectPerKey
  <2> SUFFICES ASSUME KeyOnce(table), NEW p \in Places, NEW q \in Places,
                      ObjectAt(p).key = ObjectAt(q).key
               PROVE  p = q
    BY DEF OneObjectPerKey
  <2>1. /\ p[1] \in Buckets /\ p[2] \in DOMAIN table[p[1]] /\ p = <<p[1], p[2]>>
        /\ q[1] \in Buckets /\ q[2] \in DOMAIN table[q[1]] /\ q = <<q[1], q[2]>>
        /\ table[p[1]][p[2]].key = table[q[1]][q[2]].key
    BY ByPlace
  <2>2. p[1] = q[1] /\ p[2] = q[2]
    BY <2>1 DEF KeyOnce
  <2> QED  BY <2>1, <2>2
<1>5. ASSUME table \in Tables PROVE MapValues = Stored(table)
  <2>1. \A b \in Buckets : \A i \in DOMAIN table[b] : table[b][i].value \in Values
    BY <1>5, InTable
  <2>2. ASSUME NEW v \in MapValues PROVE v \in Stored(table)
    <3>1. PICK p \in Places : v = ObjectAt(p).value
      BY <2>2 DEF MapValues
    <3> QED  BY <2>1, <3>1, ByPlace DEF Stored
  <2>3. ASSUME NEW v \in Stored(table) PROVE v \in MapValues
    <3>1. PICK b \in Buckets : \E i \in DOMAIN table[b] : table[b][i].value = v
      BY <2>3 DEF Stored
    <3>2. PICK i \in DOMAIN table[b] : table[b][i].value = v
      BY <3>1
    <3>3. <<b, i>> \in Places /\ ObjectAt(<<b, i>>).value = v
      BY <3>2, ByPlace
    <3> QED  BY <3>3 DEF MapValues
  <2> QED  BY <2>2, <2>3
<1> QED  BY <1>2, <1>3, <1>4, <1>5

\* Who owns what, said of the table.
LEMMA OwnersAreTable ==
  table \in Tables =>
    (OneOwner <=> /\ allocated = held \cup Stored(table)
                  /\ held \cap Stored(table) = {}
                  /\ ValueOnce(table))
<1> SUFFICES ASSUME table \in Tables
             PROVE  OneOwner <=> /\ allocated = held \cup Stored(table)
                                 /\ held \cap Stored(table) = {}
                                 /\ ValueOnce(table)
  OBVIOUS
<1>1. OneOwner => ValueOnce(table)
  <2> SUFFICES ASSUME OneOwner, NEW b \in Buckets, NEW c \in Buckets,
                      NEW i \in DOMAIN table[b], NEW j \in DOMAIN table[c],
                      table[b][i].value = table[c][j].value
               PROVE  b = c /\ i = j
    BY DEF ValueOnce
  <2> DEFINE p == <<b, i>>
             q == <<c, j>>
  <2>1. p \in Places /\ q \in Places /\ ObjectAt(p).value = ObjectAt(q).value
    BY ByPlace
  <2>2. p = q
    BY <2>1 DEF OneOwner
  <2> QED  BY <2>2
<1>2. ASSUME ValueOnce(table), NEW p \in Places, NEW q \in Places,
             ObjectAt(p).value = ObjectAt(q).value
      PROVE  p = q
  <2>1. /\ p[1] \in Buckets /\ p[2] \in DOMAIN table[p[1]] /\ p = <<p[1], p[2]>>
        /\ q[1] \in Buckets /\ q[2] \in DOMAIN table[q[1]] /\ q = <<q[1], q[2]>>
        /\ table[p[1]][p[2]].value = table[q[1]][q[2]].value
    BY <1>2, ByPlace
  <2>2. p[1] = q[1] /\ p[2] = q[2]
    BY <1>2, <2>1 DEF ValueOnce
  <2> QED  BY <2>1, <2>2
<1>3. MapValues = Stored(table)
  BY PlacesAreTable
<1> QED  BY <1>1, <1>2, <1>3 DEF OneOwner

-----------------------------------------------------------------------------
(* What insert makes of a table *)

Good(t) ==
  t \in Tables /\ WellHashed(t) /\ Short(t) /\ KeyOnce(t) /\ ValueOnce(t)

\* Table u maps k to v and the other keys as t does.
MapsTo(u, t, k, v) ==
  \A j \in Keys : \A w : Has(u, j, w) <=> IF j = k THEN w = v ELSE Has(t, j, w)

\* A key is hashed to a bucket.
LEMMA HashIsBucket ==
  ASSUME NEW k \in Keys
  PROVE  hashKey[k] \in Buckets
  BY DEF Buckets

\* The table of a new map.
LEMMA EmptyIsGood ==
  ASSUME NEW t, t = [b \in Buckets |-> <<>>]
  PROVE  Good(t) /\ Stored(t) = {} /\ \A k \in Keys : \A v : ~ Has(t, k, v)
<1>1. t \in Tables /\ \A b \in Buckets : DOMAIN t[b] = {} /\ Len(t[b]) = 0
  BY DEF Tables
<1>2. WellHashed(t) /\ KeyOnce(t) /\ ValueOnce(t) /\ Stored(t) = {}
  BY <1>1 DEF WellHashed, KeyOnce, ValueOnce, Stored
<1>3. Short(t)
  BY <1>1, HashMapAssumption DEF Short, Reach
<1>4. \A k \in Keys : \A v : ~ Has(t, k, v)
  BY <1>1, HashIsBucket DEF Has
<1> QED  BY <1>1, <1>2, <1>3, <1>4 DEF Good

\* A value that is replaced by a new one.
LEMMA ReplaceIsGood ==
  ASSUME NEW t, Good(t), NEW c \in Buckets, NEW n \in DOMAIN t[c],
         NEW v \in Values, v \notin Stored(t), NEW u, Replaced(u, t, c, n, v)
  PROVE  /\ Good(u) /\ MapsTo(u, t, t[c][n].key, v)
         /\ Stored(u) = (Stored(t) \ {t[c][n].value}) \cup {v}
<1>1. /\ u \in Tables
      /\ \A b \in Buckets : DOMAIN u[b] = DOMAIN t[b] /\ Len(u[b]) = Len(t[b])
      /\ \A b \in Buckets : \A i \in DOMAIN t[b] :
           /\ u[b][i].key = t[b][i].key
           /\ u[b][i].value = IF b = c /\ i = n THEN v ELSE t[b][i].value
  BY DEF Replaced
<1>2. WellHashed(u) /\ KeyOnce(u)
  BY <1>1 DEF Good, WellHashed, KeyOnce
<1>3. Short(u)
  BY <1>1 DEF Good, Short
<1>4. \A b \in Buckets : \A i \in DOMAIN t[b] : t[b][i].value \in Values /\ t[b][i].value # v
  BY InTable DEF Good, Stored
<1>5. ValueOnce(u)
  BY <1>1, <1>4 DEF Good, ValueOnce
<1>6. Stored(u) = (Stored(t) \ {t[c][n].value}) \cup {v}
  <2>1. ASSUME NEW w \in Stored(u) PROVE w \in (Stored(t) \ {t[c][n].value}) \cup {v}
    <3>1. PICK b \in Buckets : \E i \in DOMAIN u[b] : u[b][i].value = w
      BY <2>1 DEF Stored
    <3>2. PICK i \in DOMAIN t[b] : u[b][i].value = w
      BY <1>1, <3>1
    <3>3. CASE b = c /\ i = n
      BY <1>1, <3>2, <3>3
    <3>4. CASE ~ (b = c /\ i = n)
      <4>1. t[b][i].value = w /\ w \in Stored(t)
        BY <1>1, <1>4, <3>2, <3>4 DEF Stored
      <4>2. t[c][n].value # w
        BY <3>4, <4>1 DEF Good, ValueOnce
      <4> QED  BY <4>1, <4>2
    <3> QED  BY <3>3, <3>4
  <2>2. v \in Stored(u)
    BY <1>1 DEF Stored
  <2>3. ASSUME NEW w \in Stored(t), w # t[c][n].value PROVE w \in Stored(u)
    <3>1. PICK b \in Buckets : \E i \in DOMAIN t[b] : t[b][i].value = w
      BY <2>3 DEF Stored
    <3>2. PICK i \in DOMAIN t[b] : t[b][i].value = w
      BY <3>1
    <3>3. u[b][i].value = w
      BY <1>1, <2>3, <3>2
    <3> QED  BY <1>1, <2>3, <3>3 DEF Stored
  <2> QED  BY <2>1, <2>2, <2>3
<1>7. MapsTo(u, t, t[c][n].key, v)
  <2> SUFFICES ASSUME NEW j \in Keys, NEW w
               PROVE  Has(u, j, w) <=> IF j = t[c][n].key THEN w = v ELSE Has(t, j, w)
    BY DEF MapsTo
  <2>1. hashKey[j] \in Buckets
    BY HashIsBucket
  <2>2. CASE j # t[c][n].key
    BY <1>1, <2>1, <2>2 DEF Has
  <2>3. CASE j = t[c][n].key
    <3>1. hashKey[j] = c
      BY <2>3 DEF Good, WellHashed
    <3>2. \A i \in DOMAIN t[c] : t[c][i].key = j <=> i = n
      BY <2>3 DEF Good, KeyOnce
    <3> QED  BY <1>1, <2>3, <3>1, <3>2 DEF Has
  <2> QED  BY <2>2, <2>3
<1> QED  BY <1>1, <1>2, <1>3, <1>5, <1>6, <1>7 DEF Good

\* A new key, in front of its chain.
LEMMA PrependIsGood ==
  ASSUME NEW t, Good(t), NEW c \in Buckets, NEW o \in Objects, c = hashKey[o.key],
         \A i \in DOMAIN t[c] : t[c][i].key # o.key, Len(t[c]) <= Reach,
         o.value \notin Stored(t), NEW u, Prepended(u, t, c, o)
  PROVE  /\ Good(u) /\ MapsTo(u, t, o.key, o.value)
         /\ Stored(u) = Stored(t) \cup {o.value}
<1>1. /\ u \in Tables /\ t \in Tables
      /\ \A b \in Buckets \ {c} : u[b] = t[b]
      /\ DOMAIN u[c] = 1 .. Len(t[c]) + 1 /\ Len(u[c]) = Len(t[c]) + 1
      /\ \A i \in DOMAIN u[c] : u[c][i] = IF i = 1 THEN o ELSE t[c][i - 1]
      /\ Len(t[c]) \in Nat /\ DOMAIN t[c] = 1 .. Len(t[c])
  BY DEF Prepended, Good, Tables
<1>2. o.key \in Keys /\ o.value \in Values /\ Reach \in Nat
  BY HashMapAssumption DEF Objects, Reach
\* Where the objects of u come from.
<1>3. ASSUME NEW b \in Buckets, NEW i \in DOMAIN u[b]
      PROVE  \/ b = c /\ i = 1 /\ u[b][i] = o
             \/ b = c /\ i \in Nat /\ i - 1 \in DOMAIN t[b] /\ u[b][i] = t[b][i - 1]
             \/ b # c /\ i \in DOMAIN t[b] /\ u[b][i] = t[b][i]
  BY <1>1, <1>3
\* Where the objects of t go.
<1>4. ASSUME NEW b \in Buckets, NEW i \in DOMAIN t[b]
      PROVE  \E j \in DOMAIN u[b] : u[b][j] = t[b][i]
  <2>1. CASE b = c
    <3>1. i \in Nat /\ i + 1 \in DOMAIN u[c] /\ i + 1 # 1 /\ (i + 1) - 1 = i
      BY <1>1, <1>4, <2>1
    <3>2. u[c][i + 1] = t[c][i]
      BY <1>1, <3>1
    <3> QED  BY <2>1, <3>1, <3>2
  <2>2. CASE b # c
    BY <1>1, <1>4, <2>2
  <2> QED  BY <2>1, <2>2
<1>5. 1 \in DOMAIN u[c] /\ u[c][1] = o
  BY <1>1
<1>6. WellHashed(u)
  BY <1>3 DEF Good, WellHashed
<1>7. Short(u)
  BY <1>1, <1>2 DEF Good, Short
<1>8. ASSUME NEW b \in Buckets, NEW i \in DOMAIN t[b]
      PROVE  t[b][i].key # o.key /\ t[b][i].value # o.value /\ t[b][i].value \in Values
  <2>1. t[b][i].value \in Values
    BY <1>1, InTable
  <2> QED  BY <1>8, <2>1 DEF Good, WellHashed, Stored
\* Only the new object has its key or its value.
<1>9. ASSUME NEW b \in Buckets, NEW i \in DOMAIN u[b],
             u[b][i].key = o.key \/ u[b][i].value = o.value
      PROVE  b = c /\ i = 1
  <2>1. CASE b = c /\ i \in Nat /\ i - 1 \in DOMAIN t[b] /\ u[b][i] = t[b][i - 1]
    BY <1>8, <1>9, <2>1
  <2>2. CASE b # c /\ i \in DOMAIN t[b] /\ u[b][i] = t[b][i]
    BY <1>8, <1>9, <2>2
  <2> QED  BY <1>3, <2>1, <2>2
<1>10. KeyOnce(u)
  <2> SUFFICES ASSUME NEW b \in Buckets, NEW d \in Buckets,
                      NEW i \in DOMAIN u[b], NEW j \in DOMAIN u[d],
                      u[b][i].key = u[d][j].key
               PROVE  b = d /\ i = j
    BY DEF KeyOnce
  <2>1. KeyOnce(t)
    BY DEF Good
  <2>2. CASE u[b][i].key = o.key
    BY <1>9, <2>2
  <2>3. CASE u[b][i].key # o.key
    <3>1. \/ b = c /\ i \in Nat /\ i - 1 \in DOMAIN t[b] /\ u[b][i] = t[b][i - 1]
          \/ b # c /\ i \in DOMAIN t[b] /\ u[b][i] = t[b][i]
      BY <1>3, <2>3
    <3>2. \/ d = c /\ j \in Nat /\ j - 1 \in DOMAIN t[d] /\ u[d][j] = t[d][j - 1]
          \/ d # c /\ j \in DOMAIN t[d] /\ u[d][j] = t[d][j]
      BY <1>3, <2>3
    <3> QED  BY <2>1, <3>1, <3>2 DEF KeyOnce
  <2> QED  BY <2>2, <2>3
<1>11. ValueOnce(u)
  <2> SUFFICES ASSUME NEW b \in Buckets, NEW d \in Buckets,
                      NEW i \in DOMAIN u[b], NEW j \in DOMAIN u[d],
                      u[b][i].value = u[d][j].value
               PROVE  b = d /\ i = j
    BY DEF ValueOnce
  <2>1. ValueOnce(t)
    BY DEF Good
  <2>2. CASE u[b][i].value = o.value
    BY <1>9, <2>2
  <2>3. CASE u[b][i].value # o.value
    <3>1. \/ b = c /\ i \in Nat /\ i - 1 \in DOMAIN t[b] /\ u[b][i] = t[b][i - 1]
          \/ b # c /\ i \in DOMAIN t[b] /\ u[b][i] = t[b][i]
      BY <1>3, <2>3
    <3>2. \/ d = c /\ j \in Nat /\ j - 1 \in DOMAIN t[d] /\ u[d][j] = t[d][j - 1]
          \/ d # c /\ j \in DOMAIN t[d] /\ u[d][j] = t[d][j]
      BY <1>3, <2>3
    <3> QED  BY <2>1, <3>1, <3>2 DEF ValueOnce
  <2> QED  BY <2>2, <2>3
<1>12. Stored(u) = Stored(t) \cup {o.value}
  <2>1. ASSUME NEW w \in Stored(u) PROVE w \in Stored(t) \cup {o.value}
    <3>1. PICK b \in Buckets : \E i \in DOMAIN u[b] : u[b][i].value = w
      BY <2>1 DEF Stored
    <3>2. PICK i \in DOMAIN u[b] : u[b][i].value = w
      BY <3>1
    <3> QED  BY <1>3, <1>8, <3>2 DEF Stored
  <2>2. o.value \in Stored(u)
    BY <1>2, <1>5 DEF Stored
  <2>3. ASSUME NEW w \in Stored(t) PROVE w \in Stored(u)
    <3>1. PICK b \in Buckets : \E i \in DOMAIN t[b] : t[b][i].value = w
      BY <2>3 DEF Stored
    <3> QED  BY <1>4, <2>3, <3>1 DEF Stored
  <2> QED  BY <2>1, <2>2, <2>3
<1>13. MapsTo(u, t, o.key, o.value)
  <2> SUFFICES ASSUME NEW j \in Keys, NEW w
               PROVE  Has(u, j, w) <=> IF j = o.key THEN w = o.value ELSE Has(t, j, w)
    BY DEF MapsTo
  <2>1. hashKey[j] \in Buckets
    BY HashIsBucket
  <2>2. CASE j = o.key
    BY <1>3, <1>5, <1>8, <2>1, <2>2 DEF Has
  <2>3. CASE j # o.key
    <3>1. Has(u, j, w) => Has(t, j, w)
      BY <1>3, <2>1, <2>3 DEF Has
    <3>2. Has(t, j, w) => Has(u, j, w)
      BY <1>4, <2>1 DEF Has
    <3> QED  BY <2>3, <3>1, <3>2
  <2> QED  BY <2>2, <2>3
<1> QED  BY <1>1, <1>6, <1>7, <1>10, <1>11, <1>12, <1>13 DEF Good

-----------------------------------------------------------------------------
(* The invariant *)

IInv ==
  /\ HashMapOK /\ OneObjectPerKey /\ OneOwner
  /\ held \subseteq Values
  /\ IsFiniteSet(MapValues) /\ SizeCounts

\* The invariant, of a table t and the sets of values al and he.
Owned(t, al, he) ==
  Good(t) /\ al = he \cup Stored(t) /\ he \cap Stored(t) = {} /\ he \subseteq Values

\* Table t has n objects.
Counted(t, n) == IsFiniteSet(Stored(t)) /\ n = Cardinality(Stored(t))

\* The invariant is about buckets and positions.
LEMMA IInvIsOwned ==
  IInv <=> /\ Owned(table, allocated, held) /\ Counted(table, size)
           /\ size \in Nat /\ lost \in Nat
  BY PlacesAreTable, OwnersAreTable DEF IInv, Owned, Good, Counted, SizeCounts

\* The same, after a step.
LEMMA IInvIsOwnedNext ==
  IInv' <=> /\ Owned(table', allocated', held') /\ Counted(table', size')
            /\ size' \in Nat /\ lost' \in Nat
<1>1. IInv' <=> (/\ Owned(table, allocated, held) /\ Counted(table, size)
                 /\ size \in Nat /\ lost \in Nat)'
  BY IInvIsOwned, PTL
<1> QED  BY <1>1

\* The answer of a get, from a table t.
GetFrom(t, k) ==
  LET F == {i \in DOMAIN t[hashKey[k]] : t[hashKey[k]][i].key = k}
  IN IF F = {} THEN NULL ELSE t[hashKey[k]][CHOOSE i \in F : \A j \in F : i <= j].value

\* A get finds the one object of its key, wherever it is in its chain.
LEMMA GetFinds ==
  ASSUME NEW t, Good(t), NEW k \in Keys
  PROVE  /\ \A w : Has(t, k, w) <=> GetFrom(t, k) = w /\ w # NULL
         /\ GetFrom(t, k) # NULL => GetFrom(t, k) \in Stored(t)
<1> DEFINE c == hashKey[k]
           F == {i \in DOMAIN t[c] : t[c][i].key = k}
           n == CHOOSE i \in F : \A j \in F : i <= j
<1>1. c \in Buckets
  BY HashIsBucket
<1>2. \A i \in DOMAIN t[c] : t[c][i].value \in Values /\ t[c][i].value # NULL
  BY <1>1, InTable, HashMapAssumption DEF Good
<1>3. \A i, j \in F : i = j
  BY <1>1 DEF Good, KeyOnce
<1>4. CASE F = {}
  <2>1. GetFrom(t, k) = NULL
    BY <1>4 DEF GetFrom
  <2>2. \A w : ~ Has(t, k, w)
    BY <1>4 DEF Has
  <2> QED  BY <2>1, <2>2
<1>5. CASE F # {}
  <2>1. PICK i \in F : TRUE
    BY <1>5
  <2>2. i <= i
    <3>1. i \in Nat
      BY <1>1, <2>1, InTable DEF Good
    <3> QED  BY <3>1
  <2>3. n = i
    BY <1>3, <2>1, <2>2
  <2>4. GetFrom(t, k) = t[c][i].value
    BY <1>5, <2>3 DEF GetFrom
  <2>5. \A w : Has(t, k, w) <=> t[c][i].value = w
    BY <1>3, <2>1 DEF Has
  <2>6. t[c][i].value \in Stored(t) /\ t[c][i].value # NULL
    BY <1>1, <1>2, <2>1 DEF Stored
  <2> QED  BY <2>4, <2>5, <2>6
<1> QED  BY <1>4, <1>5

\* The model's get is a get from its table.
LEMMA GetIsGetFrom ==
  \A k : getCoreconfHashMap(k) = GetFrom(table, k)
  BY DEF getCoreconfHashMap, GetFrom, Chain, Found

\* What a step that changes the map does to it: the caller's value v is under
\* k, in place of the value `old` that was there, if there was one.
Inserted(k, v) ==
  /\ v \in held /\ held' = held \ {v} /\ key' = k /\ answer' = 0
  /\ MapsTo(table', table, k, v)
  /\ Owned(table', allocated', held') /\ Counted(table', size')
  /\ size' \in Nat /\ lost' = lost

\* An insert that finds its key.
LEMMA ReplaceInserts ==
  ASSUME IInv, NEW k \in Keys, NEW v \in Values, Replace(k, v)
  PROVE  Inserted(k, v)
<1>1. /\ Owned(table, allocated, held) /\ Counted(table, size)
      /\ size \in Nat /\ v \notin Stored(table)
  BY IInvIsOwned DEF Owned, Replace
<1> DEFINE c == hashKey[k]
<1>2. c \in Buckets
  BY HashIsBucket
<1>3. PICK n \in DOMAIN table[c] :
        /\ table[c][n].key = k
        /\ table' = [table EXCEPT ![c][n].value = v]
        /\ allocated' = allocated \ {table[c][n].value}
  BY DEF Replace, Found, Chain
<1>4. table \in Tables /\ Good(table)
  BY <1>1 DEF Owned, Good
<1>5. Replaced(table', table, c, n, v)
  BY <1>2, <1>3, <1>4, ReplaceInTable
<1> HIDE DEF c
<1>6. /\ Good(table') /\ MapsTo(table', table, k, v)
      /\ Stored(table') = (Stored(table) \ {table[c][n].value}) \cup {v}
  <2>1. /\ Good(table') /\ MapsTo(table', table, table[c][n].key, v)
        /\ Stored(table') = (Stored(table) \ {table[c][n].value}) \cup {v}
    BY <1>1, <1>2, <1>4, <1>5, ReplaceIsGood
  <2> QED  BY <1>3, <2>1
<1>7. table[c][n].value \in Stored(table)
  BY <1>2, <1>4, InTable DEF Stored
<1>8. /\ v \in held /\ held' = held \ {v} /\ key' = k /\ answer' = 0
      /\ size' = size /\ lost' = lost
  BY DEF Replace
<1>9. Owned(table', allocated', held')
  BY <1>1, <1>3, <1>6, <1>7, <1>8 DEF Owned
<1>10. Counted(table', size')
  <2> DEFINE S == Stored(table) \ {table[c][n].value}
  <2>1. IsFiniteSet(S) /\ Cardinality(S) = size - 1
    BY <1>1, <1>7, FS_RemoveElement DEF Counted
  <2>2. v \notin S
    BY <1>1
  <2> HIDE DEF S
  <2>3. IsFiniteSet(S \cup {v}) /\ Cardinality(S \cup {v}) = (size - 1) + 1
    BY <2>1, <2>2, FS_AddElement
  <2>4. (size - 1) + 1 = size
    BY <1>1
  <2>5. Stored(table') = S \cup {v}
    BY <1>6 DEF S
  <2> QED  BY <1>8, <2>3, <2>4, <2>5 DEF Counted
<1> QED  BY <1>1, <1>6, <1>8, <1>9, <1>10 DEF Inserted

\* An insert of a new key.
LEMMA PrependInserts ==
  ASSUME IInv, NEW k \in Keys, NEW v \in Values, Prepend(k, v)
  PROVE  Inserted(k, v)
<1> DEFINE c == hashKey[k]
           o == [key |-> k, value |-> v]
<1>1. /\ Owned(table, allocated, held) /\ Counted(table, size)
      /\ size \in Nat /\ v \notin Stored(table)
  BY IInvIsOwned DEF Owned, Prepend
<1>2. c \in Buckets /\ o \in Objects /\ o.key = k /\ o.value = v
  BY HashIsBucket DEF Objects
<1>3. /\ \A i \in DOMAIN table[c] : table[c][i].key # k
      /\ Len(table[c]) <= Reach
      /\ table' = [table EXCEPT ![c] = <<o>> \o @]
  BY DEF Prepend, Found, Chain
<1>4. table \in Tables /\ Good(table)
  BY <1>1 DEF Owned, Good
<1> HIDE DEF o
<1>5. Prepended(table', table, c, o)
  BY <1>2, <1>3, <1>4, PrependInTable
<1>6. /\ Good(table') /\ MapsTo(table', table, o.key, o.value)
      /\ Stored(table') = Stored(table) \cup {o.value}
  BY <1>1, <1>2, <1>3, <1>4, <1>5, PrependIsGood
<1>7. /\ v \in held /\ held' = held \ {v} /\ key' = k /\ answer' = 0
      /\ size' = size + 1 /\ lost' = lost /\ allocated' = allocated
  BY DEF Prepend
<1>8. Owned(table', allocated', held')
  BY <1>1, <1>2, <1>6, <1>7 DEF Owned
<1>9. Counted(table', size')
  BY <1>1, <1>2, <1>6, <1>7, FS_AddElement DEF Counted
<1> QED  BY <1>1, <1>2, <1>6, <1>7, <1>8, <1>9 DEF Inserted

\* A new map owns nothing.
LEMMA FreeMapOwns ==
  ASSUME IInv, FreeMap
  PROVE  /\ Owned(table', allocated', held') /\ Counted(table', 0)
         /\ \A k \in Keys : \A w : ~ Has(table', k, w)
<1>1. Owned(table, allocated, held) /\ MapValues = Stored(table)
  BY IInvIsOwned, PlacesAreTable DEF Owned, Good
<1>2. Good(table') /\ Stored(table') = {} /\ \A k \in Keys : \A w : ~ Has(table', k, w)
  BY EmptyIsGood DEF FreeMap
<1> QED  BY <1>1, <1>2, FS_EmptySet DEF Owned, Counted, FreeMap

\* The inductive invariant: the properties, and that there are finitely many
\* values to count.
LEMMA Invariance == Spec => []IInv
<1>1. Init => IInv
  <2> SUFFICES ASSUME Init PROVE IInv
    OBVIOUS
  <2>1. Good(table) /\ Stored(table) = {}
    BY EmptyIsGood DEF Init
  <2> QED  BY <2>1, IInvIsOwned, FS_EmptySet DEF Init, Owned, Counted
<1>2. IInv /\ [Next]_vars => IInv'
  <2> SUFFICES ASSUME IInv, [Next]_vars PROVE IInv'
    OBVIOUS
  <2>1. /\ Owned(table, allocated, held) /\ Counted(table, size)
        /\ size \in Nat /\ lost \in Nat
    BY IInvIsOwned
  <2>2. ASSUME NEW v \in Values, Create(v) PROVE IInv'
    BY <2>1, <2>2, IInvIsOwnedNext DEF Create, Owned
  <2>3. ASSUME NEW v \in Values, Free(v) PROVE IInv'
    BY <2>1, <2>3, IInvIsOwnedNext DEF Free, Owned
  <2>4. ASSUME NEW k \in Keys, Get(k) PROVE IInv'
    BY <2>1, <2>4, IInvIsOwnedNext DEF Get
  <2>5. ASSUME NEW k \in Keys, NEW v \in Values, Replace(k, v) PROVE IInv'
    BY <2>1, <2>5, ReplaceInserts, IInvIsOwnedNext DEF Inserted
  <2>6. ASSUME NEW k \in Keys, NEW v \in Values, Prepend(k, v) PROVE IInv'
    BY <2>1, <2>6, PrependInserts, IInvIsOwnedNext DEF Inserted
  <2>7. ASSUME NEW k \in Keys, NEW v \in Values, GiveUp(k, v) PROVE IInv'
    BY <2>1, <2>7, IInvIsOwnedNext DEF GiveUp
  <2>8. ASSUME NEW k \in Keys, NEW v \in Values, OutOfMemory(k, v) PROVE IInv'
    BY <2>1, <2>8, IInvIsOwnedNext DEF OutOfMemory
  <2>9. ASSUME FreeMap PROVE IInv'
    <3>1. size' = 0 /\ lost' = lost
      BY <2>9 DEF FreeMap
    <3> QED  BY <2>1, <2>9, <3>1, FreeMapOwns, IInvIsOwnedNext
  <2>10. CASE UNCHANGED vars
    BY <2>1, <2>10, IInvIsOwnedNext DEF vars
  <2> QED
    BY <2>2, <2>3, <2>4, <2>5, <2>6, <2>7, <2>8, <2>9, <2>10
       DEF Next, insertCoreconfHashMap
<1> QED  BY <1>1, <1>2, PTL DEF Spec

\* Every object stays in the chain of its key, where a get looks for it, and
\* no chain grows past the limit by more than one object.
THEOREM ChainsAreInOrder == Spec => []HashMapOK
<1>1. IInv => HashMapOK
  BY DEF IInv
<1> QED  BY <1>1, Invariance, PTL

\* A key never has two objects, although an insert that gives up has not seen
\* the whole chain.
THEOREM KeysHaveOneObject == Spec => []OneObjectPerKey
<1>1. IInv => OneObjectPerKey
  BY DEF IInv
<1> QED  BY <1>1, Invariance, PTL

\* Every allocated value has one owner: the caller, or one object of the map.
THEOREM ValuesHaveOneOwner == Spec => []OneOwner
<1>1. IInv => OneOwner
  BY DEF IInv
<1> QED  BY <1>1, Invariance, PTL

\* The size a map is encoded with is the number of its objects.
THEOREM SizeIsRight == Spec => []SizeCounts
<1>1. IInv => SizeCounts
  BY DEF IInv
<1> QED  BY <1>1, Invariance, PTL

-----------------------------------------------------------------------------
(* The map as its callers see it *)

Map == [k \in {j \in Keys : getCoreconfHashMap(j) # NULL} |-> getCoreconfHashMap(k)]

\* The map has what its table has.
LEMMA MapHas ==
  IInv => /\ \A k \in Keys : k \in DOMAIN Map <=> \E w : Has(table, k, w)
          /\ \A k \in DOMAIN Map : Has(table, k, Map[k])
          /\ OM!Range \subseteq Stored(table)
<1> SUFFICES ASSUME IInv
             PROVE  /\ \A k \in Keys : k \in DOMAIN Map <=> \E w : Has(table, k, w)
                    /\ \A k \in DOMAIN Map : Has(table, k, Map[k])
                    /\ OM!Range \subseteq Stored(table)
  OBVIOUS
<1>1. \A k \in Keys : /\ \A w : Has(table, k, w) <=> getCoreconfHashMap(k) = w /\ w # NULL
                      /\ getCoreconfHashMap(k) # NULL => getCoreconfHashMap(k) \in Stored(table)
  BY IInvIsOwned, GetFinds, GetIsGetFrom DEF Owned
<1> QED  BY <1>1 DEF Map, OM!Range

\* The same, after a step.
LEMMA MapHasNext ==
  IInv' => /\ \A k \in Keys : k \in DOMAIN Map' <=> \E w : Has(table', k, w)
           /\ \A k \in DOMAIN Map' : Has(table', k, Map'[k])
<1>1. (IInv => /\ \A k \in Keys : k \in DOMAIN Map <=> \E w : Has(table, k, w)
               /\ \A k \in DOMAIN Map : Has(table, k, Map[k]))'
  BY MapHas, PTL
<1> QED  BY <1>1

\* What an insert does to the map.
LEMMA InsertedInserts ==
  ASSUME IInv, IInv', NEW k \in Keys, NEW v \in Values, Inserted(k, v)
  PROVE  OM!Insert(k, v)
<1>1. /\ \A j \in Keys : j \in DOMAIN Map <=> \E w : Has(table, j, w)
      /\ \A j \in DOMAIN Map : Has(table, j, Map[j])
  BY MapHas
<1>2. /\ \A j \in Keys : j \in DOMAIN Map' <=> \E w : Has(table', j, w)
      /\ \A j \in DOMAIN Map' : Has(table', j, Map'[j])
  BY MapHasNext
<1>3. \A j \in Keys : \A w : Has(table', j, w) <=> IF j = k THEN w = v ELSE Has(table, j, w)
  BY DEF Inserted, MapsTo
<1>4. /\ Map = [j \in DOMAIN Map |-> Map[j]] /\ DOMAIN Map \subseteq Keys
      /\ Map' = [j \in DOMAIN Map' |-> Map'[j]] /\ DOMAIN Map' \subseteq Keys
  BY DEF Map
<1>5. DOMAIN Map' = DOMAIN Map \cup {k}
  BY <1>1, <1>2, <1>3, <1>4
<1>6. \A j \in DOMAIN Map' : Map'[j] = IF j = k THEN v ELSE Map[j]
  <2> SUFFICES ASSUME NEW j \in DOMAIN Map' PROVE Map'[j] = IF j = k THEN v ELSE Map[j]
    OBVIOUS
  <2>1. CASE j = k
    BY <1>2, <1>3, <1>4, <2>1
  <2>2. CASE j # k
    <3>1. j \in DOMAIN Map /\ Has(table', j, Map[j]) /\ Has(table', j, Map'[j])
      BY <1>1, <1>2, <1>3, <1>4, <1>5, <2>2
    <3>2. Owned(table', allocated', held')
      BY DEF Inserted
    <3>3. \A w, x : Has(table', j, w) /\ Has(table', j, x) => w = x
      BY <1>4, <3>2, GetFinds DEF Owned
    <3> QED  BY <2>2, <3>1, <3>3
  <2> QED  BY <2>1, <2>2
<1>7. Map' = [j \in DOMAIN Map \cup {k} |-> IF j = k THEN v ELSE Map[j]]
  BY <1>4, <1>5, <1>6
<1> QED  BY <1>7 DEF OM!Insert, Inserted, Map

\* The chained map implements the map its callers are promised: an insert that
\* returns 0 replaces or adds the value, one that returns -1 changes nothing.
THEOREM ImplementsOwningMap == Spec => IsOwningMap
<1>1. Init => OM!Init
  <2> SUFFICES ASSUME Init PROVE OM!Init
    OBVIOUS
  <2>1. \A k \in Keys : getCoreconfHashMap(k) = NULL
    BY HashIsBucket DEF Init, getCoreconfHashMap, Found, Chain
  <2>2. Map = <<>>
    BY <2>1 DEF Map
  <2> QED  BY <2>2 DEF Init, OM!Init, Map
<1>2. IInv /\ IInv' /\ [Next]_vars => [OM!Next]_(OM!vars)
  <2> SUFFICES ASSUME IInv, IInv', [Next]_vars PROVE [OM!Next]_(OM!vars)
    OBVIOUS
  <2>1. ASSUME table' = table PROVE Map' = Map
    BY <2>1 DEF Map, getCoreconfHashMap, Found, Chain
  <2>2. ASSUME NEW v \in Values, Create(v) PROVE OM!Create(v)
    <3>1. v \notin held \cup OM!Range
      BY <2>2, IInvIsOwned, MapHas DEF Owned, Create
    <3> QED  BY <2>1, <2>2, <3>1 DEF Create, OM!Create, Map
  <2>3. ASSUME NEW v \in Values, Free(v) PROVE OM!Free(v)
    BY <2>1, <2>3 DEF Free, OM!Free, Map
  <2>4. ASSUME NEW k \in Keys, Get(k) PROVE OM!Get(k)
    <3>1. answer' = IF k \in DOMAIN Map THEN Map[k] ELSE NULL
      BY <2>4 DEF Get, Map
    <3> QED  BY <2>1, <2>4, <3>1 DEF Get, OM!Get, Map
  <2>5. ASSUME NEW k \in Keys, NEW v \in Values, Replace(k, v) \/ Prepend(k, v)
        PROVE  OM!Insert(k, v)
    BY <2>5, ReplaceInserts, PrependInserts, InsertedInserts
  <2>6. ASSUME NEW k \in Keys, NEW v \in Values, OutOfMemory(k, v) \/ GiveUp(k, v)
        PROVE  OM!InsertFails(k, v)
    BY <2>1, <2>6 DEF OutOfMemory, GiveUp, OM!InsertFails, Map
  <2>7. ASSUME FreeMap PROVE OM!FreeMap
    <3>1. \A k \in Keys : k \notin DOMAIN Map'
      BY <2>7, FreeMapOwns, MapHasNext
    <3>2. DOMAIN Map' \subseteq Keys /\ Map' = [k \in DOMAIN Map' |-> Map'[k]]
      BY DEF Map
    <3>3. Map' = <<>>
      BY <3>1, <3>2
    <3> QED  BY <2>7, <3>3 DEF FreeMap, OM!FreeMap, Map
  <2>8. CASE UNCHANGED vars
    BY <2>1, <2>8 DEF vars, OM!vars, Map
  <2> QED
    BY <2>2, <2>3, <2>4, <2>5, <2>6, <2>7, <2>8
       DEF Next, insertCoreconfHashMap, OM!Next
<1> QED  BY <1>1, <1>2, Invariance, PTL DEF Spec, IsOwningMap, OM!Spec
=============================================================================
