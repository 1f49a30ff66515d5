----------------------------- MODULE YangSchema -----------------------------
(***************************************************************************)
(* The YANG model behind an instance: what the .sid files say, and the     *)
(* tables that tools/prepareModel.py and tools/generateStubs.py compute    *)
(* from them (key-mapping, parents, keys a node needs).                    *)
(*                                                                         *)
(* A schema node is named by its shape: the deltas from the root down to   *)
(* it, with 0 for the step from a list into its entries.  Every position   *)
(* of an instance has the shape of its schema node.                        *)
(***************************************************************************)
EXTENDS CoreconfTree

CONSTANTS
  Schema,    \* shape |-> [sid, kind, type]
  KeyMapping \* list SID |-> sequence of key SIDs (the .sid file's key-mapping)

Kinds == {"root", "container", "list", "entry", "leaf", "enum", "key"}

Shapes == DOMAIN Schema
Node(s) == Schema[s]
EntryOf(s) == Append(s, 0)

\* The shapes of the data nodes with a SID of their own.
DataShapes == {s \in Shapes : Node(s).kind \notin {"root", "entry"}}
SIDs == {Node(s).sid : s \in DataShapes}
ShapeOf(sid) == CHOOSE s \in DataShapes : Node(s).sid = sid

(***************************************************************************)
(* What pyang guarantees of a .sid file, and the delta encoding: a child   *)
(* is stored under (its SID - the SID of its parent), the entries of a     *)
(* list count as the list itself.                                          *)
(***************************************************************************)
ASSUME SchemaAssumption ==
  /\ <<>> \in Shapes /\ Schema[<<>>] = [sid |-> 0, kind |-> "root", type |-> "MAP"]
  /\ \A s \in Shapes : /\ s \in Seq(Int)
                       /\ Node(s).sid \in Nat
                       /\ Node(s).kind \in Kinds /\ (Node(s).kind = "root" <=> s = <<>>)
                       /\ Node(s).type \in Types
                       /\ (Node(s).type = "MAP") <=> (Node(s).kind \in {"root", "container", "entry"})
                       /\ (Node(s).type = "ARRAY") <=> (Node(s).kind = "list")
  /\ \A s \in Shapes \ {<<>>} :
       /\ Front(s) \in Shapes
       /\ Node(s).sid = Node(Front(s)).sid + Last(s)
       /\ (Node(s).kind = "entry") <=> (Node(Front(s)).kind = "list")
       /\ (Node(s).kind = "entry") <=> (Last(s) = 0)
       /\ Node(Front(s)).type \in {"MAP", "ARRAY"}
  /\ \A s \in Shapes : Node(s).kind = "list" => EntryOf(s) \in Shapes
  /\ \A s, u \in DataShapes : Node(s).sid = Node(u).sid => s = u
  /\ 0 \notin SIDs

ASSUME KeyMappingAssumption ==
  /\ DOMAIN KeyMapping \subseteq SIDs
  /\ \A sid \in SIDs : (sid \in DOMAIN KeyMapping) <=> (Node(ShapeOf(sid)).kind = "list")
  /\ \A sid \in DOMAIN KeyMapping :
       /\ KeyMapping[sid] \in Seq(Int) /\ KeyMapping[sid] # <<>>
       /\ \A k \in DOMAIN KeyMapping[sid] :
            /\ Append(EntryOf(ShapeOf(sid)), KeyMapping[sid][k] - sid) \in Shapes
            /\ Node(Append(EntryOf(ShapeOf(sid)), KeyMapping[sid][k] - sid)).kind = "key"

\* The keys of list `sid` as they are stored in its entries.
KeyDeltas(sid) == [k \in DOMAIN KeyMapping[sid] |-> KeyMapping[sid][k] - sid]

\* prepareModel.py: the closest ancestor that is a data node, 0 at the top.
schemaParents == [sid \in SIDs |-> Node(Front(ShapeOf(sid))).sid]

\* generateStubs.py: the number of keys of the lists that enclose a node,
\* which are the keys its write handler takes from ctx->keys.
findKeysForLeavesBySID(sid) ==
  LET s == ShapeOf(sid)
      entries == {n \in 1 .. Len(s) : s[n] = 0}
  IN MapThenSumSet(LAMBDA n : Len(KeyMapping[Node(SubSeq(s, 1, n)).sid]), entries)

-----------------------------------------------------------------------------
(* Instances of the schema *)

Shape(p) == [n \in 1 .. Len(p) |-> p[n][1]]

\* The cell at p of v, a value of schema node s, is one of the schema, under
\* a parent of the tree.
Placed(v, s, p) ==
  /\ p \in Positions
  /\ v[p] \in Cells
  /\ s \o Shape(p) \in Shapes
  /\ v[p].type = Node(s \o Shape(p)).type
  /\ v[p].type = "ARRAY" => v[p].val \in Nat
  /\ p # <<>> => /\ Front(p) \in DOMAIN v
                 /\ Last(p)[2] \in IF v[Front(p)].type = "ARRAY" THEN 1 .. v[Front(p)].val
                                                                  ELSE {0}

\* An array has exactly the elements its size says, a list entry its keys.
Complete(v, s, p) ==
  /\ v[p].type = "ARRAY" => \A i \in 1 .. v[p].val : Append(p, Elem(i)) \in DOMAIN v
  /\ Node(s \o Shape(p)).kind = "entry" =>
       HasKeys(v, p, KeyDeltas(Node(s \o Shape(p)).sid))

\* v is a value of the schema node s.
Conforms(v, s) ==
  /\ <<>> \in DOMAIN v
  /\ \A p \in DOMAIN v : Placed(v, s, p) /\ Complete(v, s, p)

\* No two entries of a list have the same keys.
UniqueKeys(v, s) ==
  \A a \in DOMAIN v : v[a].type = "ARRAY" =>
    \A i, j \in 1 .. v[a].val :
      SameKeys(v, Append(a, Elem(i)), v, Append(a, Elem(j)),
               KeyDeltas(Node(s \o Shape(a)).sid)) => i = j
=============================================================================
