--------------------------- MODULE SerializationMC ---------------------------
(***************************************************************************)
(* Values at and beyond each limit, and malformed input.                   *)
(***************************************************************************)
EXTENDS Serialization, TLC

\* Widths of 2, 3, 4 and 5 bits.
SmallIntegers == 8 :> 1 @@ 16 :> 3 @@ 32 :> 7 @@ 64 :> 15

\* Every key in one bucket but one.
SmallBuckets == 0 :> 1 @@ 1 :> 0 @@ 2 :> 1 @@ 3 :> 1

-----------------------------------------------------------------------------
Leaf(type, width, val) == <<>> :> Cell(type, width, val)
Tree(cell, children) ==
  LET positions == UNION {{<<step>> \o p : p \in DOMAIN children[step]} : step \in DOMAIN children}
  IN [p \in positions \cup {<<>>} |-> IF p = <<>> THEN cell ELSE children[p[1]][Tail(p)]]
MapOf(children) ==
  Tree(Cell("MAP", 0, Cardinality(DOMAIN children)),
       [step \in {Key(k) : k \in DOMAIN children} |-> children[step[2]]])
ArrayOf(elements) ==
  Tree(Cell("ARRAY", 0, Len(elements)),
       [step \in {Elem(i) : i \in DOMAIN elements} |-> elements[step[2]]])
Tagged(number, v) == Tree(Cell("TAG", 0, number), Content :> v)

U(n) == Leaf("UINT", 64, n)
Text == Leaf("STRING", 0, 1)
Blob == Leaf("BYTES", 0, 2)

integers ==
  {Leaf("UINT", w, n) : w \in Widths, n \in {0, 3, 4, 15, 16, 31}}
  \cup {Leaf("INT", w, n) : w \in Widths, n \in {-16, -9, -8, -5, -4, -3, -2, -1, 0, 3, 7}}

fits(v) == LET c == v[<<>>] IN
  IF c.type = "UINT" THEN c.val <= 2 * SmallIntegers[c.width] + 1
  ELSE c.val \in -SmallIntegers[c.width] - 1 .. SmallIntegers[c.width]

leaves == {v \in integers : fits(v)}
  \cup {Text, Blob, Leaf("BYTES", 0, 0), Leaf("REAL", 0, 1), Leaf("TRUE", 0, 0),
        Leaf("FALSE", 0, 0), Leaf("NULL", 0, 0)}

trees ==
  {MapOf(<<>>), ArrayOf(<<>>), Tagged(15, U(3)), Tagged(16, Blob),
   MapOf(0 :> U(1) @@ 2 :> Text),
   MapOf(0 :> Blob @@ 1 :> ArrayOf(<<Text>>)),
   MapOf(0 :> U(0) @@ 1 :> U(1) @@ 2 :> U(2)),
   MapOf(0 :> U(0) @@ 2 :> U(1) @@ 3 :> ArrayOf(<<Text>>)),
   ArrayOf(<<Text, Leaf("INT", 8, -1), Blob>>),
   ArrayOf(<<MapOf(0 :> Text @@ 2 :> Blob), MapOf(1 :> Text)>>),
   MapOf(1 :> Tagged(3, Leaf("NULL", 0, 0))),
   MapOf(1 :> ArrayOf(<<MapOf(2 :> Text)>>)),
   Tagged(1, Tagged(2, Tagged(3, Text))),
   ArrayOf(<<Blob, ArrayOf(<<ArrayOf(<<Text>>)>>)>>)}

malformed ==
  {<<Item("ARRAY", 3), Item("STRING", 1), Item("UINT", 1)>>,
   <<Item("ARRAY", 2), Item("STRING", 1), Item("OTHER", 1)>>,
   <<Item("MAP", 2), Item("UINT", 1), Item("BYTES", 2), Item("STRING", 1), Item("UINT", 1)>>,
   <<Item("MAP", 2), Item("UINT", 1), Item("BYTES", 2), Item("UINT", 1), Item("STRING", 1)>>,
   <<Item("MAP", INDEFINITE), Item("UINT", 1), Item("UINT", 32), Break>>,
   <<Item("TAG", 3), Item("NINT", -17)>>,
   <<Item("MAP", 2), Item("UINT", 1), Item("BYTES", 2)>>,
   <<Item("ARRAY", 2), Item("ARRAY", INDEFINITE), Item("STRING", 1)>>,
   <<Item("TAG", 3)>>, <<Break>>, <<>>}

Payloads == leaves \cup trees

-----------------------------------------------------------------------------
\* Leaves whose type is a union, as RFC 9254 encodes them: an identityref in a
\* union has a tag (45; 15 here).
yangLeaves ==
  {[members |-> {"int8", "boolean"}, value |-> v] :
     v \in {Leaf("INT", 8, -1), Leaf("INT", 8, 0), Leaf("TRUE", 0, 0)}}
  \cup {[members |-> {"identityref", "uint8"}, value |-> v] : v \in {U(3), Tagged(15, U(3))}}

\* tools/generateStubs.py:485-487: "Returns a C condition on value->type that
\* accepts any member type of a union (or the single type of a binary leaf)".
\* A leaf decoded from CBOR passes the check that was generated for its type.
AcceptsAnyMember ==
  Returned /\ src # NULL /\ ret # NULL =>
    \A leaf \in yangLeaves :
      leaf.value = src => unionTypeCheck(leaf.members, ret[<<>>].cell)
=============================================================================
