------------------------- MODULE SerializationProofs -------------------------
(***************************************************************************)
(* Whatever is decoded, and whichever allocation fails: every block the    *)
(* decoder holds has one owner, and a call that returns has lost nothing,  *)
(* but in an append or an insert that runs out of memory.                  *)
(***************************************************************************)
EXTENDS Serialization, SeqLemmas, FiniteSetTheorems, TLAPS

-----------------------------------------------------------------------------
(* What the decoder builds *)

Steps == {"key", "elem", "tag"} \X Int
Nodes == [cell : Cells, id : Nat]

\* A tree, or NULL.  No two of its nodes were made of one item.
IsTree(t) ==
  /\ t # NULL => <<>> \in DOMAIN t
  /\ \A p, q \in DOMAIN t : t[p].id = t[q].id => p = q
Trees == {t \in UNION {[D -> Nodes] : D \in SUBSET Positions} : IsTree(t)}

Entries(t) == {p \in DOMAIN t : Len(p) = 1}

\* A call that waits for the value of a tag.
IsTag(f) == f.kind = "TAG" /\ f.tree = NULL /\ f.room = 0

\* The container that a frame fills was made of the frame's item.
IsContainer(f) ==
  /\ f.tree # NULL /\ f.tree[<<>>].id = f.id
  /\ f.tree[<<>>].cell.type = f.kind /\ f.tree[<<>>].cell.val \in Nat

\* The elements so far have the first places; a definite array has a slot for
\* each element it has or expects.
IsArray(f) ==
  /\ f.kind = "ARRAY" /\ IsContainer(f)
  /\ LET size == f.tree[<<>>].cell.val IN
     /\ \A p \in DOMAIN f.tree : p # <<>> => p[1][2] <= size
     /\ IF f.left = INDEFINITE THEN f.room = size ELSE f.left \in Nat /\ size + f.left = f.room

\* Each turn of the loop adds at most one entry.
IsMap(f) ==
  /\ f.kind = "MAP" /\ IsContainer(f) /\ f.room = 0
  /\ IsFiniteSet(Entries(f.tree)) /\ Cardinality(Entries(f.tree)) <= f.loopCount

Records ==
  [kind : {"TAG", "ARRAY", "MAP"}, tree : Trees, id : Nat, left : Int, room : Nat,
   loopCount : Nat, key : Int]
IsFrame(f) == IsTag(f) \/ IsArray(f) \/ IsMap(f)
Frames == {f \in Records : IsFrame(f)}

\* What the loop of a frame has checked before it reads a value.
Waiting(f) ==
  /\ f.kind = "ARRAY" => f.left # 0
  /\ f.kind = "MAP" => f.loopCount <= CORECONF_MAX_LOOP

\* A loop that has slots, and no element yet, has not come to the end of the input.
Reached(f, i) == f.room > 0 => f.tree[<<>>].cell.val > 0 \/ i <= Len(buf)

-----------------------------------------------------------------------------
(* Who owns what *)

TreeIds(t) == {t[p].id : p \in DOMAIN t}
FrameIds(f) == {f.id} \cup TreeIds(f.tree)
StackIds(s) == UNION {FrameIds(s[i]) : i \in DOMAIN s}
BlockIds(B) == {b[2] : b \in B}

StackBlocks(s) == UNION {FrameBlocks(s[i]) : i \in DOMAIN s}

\* No two frames hold nodes or blocks of one item.
Apart(s) == \A i, j \in DOMAIN s : i # j => FrameIds(s[i]) \cap FrameIds(s[j]) = {}

\* Frames s, a value t and dropped blocks d own the heap h; what they own comes
\* from the first n items, and no two of them have anything of the same item.
Owned(s, t, d, h, n) ==
  /\ Apart(s)
  /\ StackIds(s) \cap TreeIds(t) = {}
  /\ StackIds(s) \cap BlockIds(d) = {}
  /\ TreeIds(t) \cap BlockIds(d) = {}
  /\ StackIds(s) \cup TreeIds(t) \cup BlockIds(d) \subseteq 1 .. n
  /\ h = StackBlocks(s) \cup Blocks(t) \cup d

\* The value that was just returned.
Held == IF pc = "return" THEN ret ELSE NULL

-----------------------------------------------------------------------------
(* The inductive invariant *)

PCOK == pc \in {"idle", "encode", "peer", "encoded", "value", "loop", "return", "halted"}

EncoderOK ==
  /\ buf \in Seq(Items)
  /\ pc \in {"encode", "peer"} => src \in Values
  /\ pc = "encode" => todo \in Seq(DOMAIN src)
  /\ pc = "peer" => todo \in Seq(DOMAIN src \cup {Closing})

\* Nothing is left of an earlier call.
FreshOK ==
  pc \in {"idle", "encode", "peer", "encoded"} =>
    at = 1 /\ stack = <<>> /\ heap = {} /\ dropped = {}

DecoderOK ==
  /\ at \in 1 .. Len(buf) + 1
  /\ ret \in Trees
  /\ stack \in Seq(Frames) /\ Len(stack) <= CORECONF_MAX_DEPTH + 1
  /\ \A i \in DOMAIN stack : Waiting(stack[i]) \/ (pc = "loop" /\ i = Len(stack))
  /\ pc = "loop" => stack # <<>> /\ top.kind # "TAG" /\ Reached(top, at)

\* Every block has one owner, and only an allocation whose failure is ignored
\* makes the decoder drop one.
Accounted ==
  /\ Owned(stack, Held, dropped, heap, at - 1)
  /\ oom # "ignored" => dropped = {}

IInv == PCOK /\ EncoderOK /\ FreshOK /\ DecoderOK /\ Accounted

-----------------------------------------------------------------------------
(* Blocks of a node, and of a tree put under a step *)

\* How a node is held: by nobody yet, or by the kind of its last step.
HeldBy(p) == IF p = <<>> THEN "root" ELSE Last(p)[1]

NodeBlocks(n, by) ==
  (IF by # "elem" THEN {<<"value", n.id>>} ELSE {})
  \cup (IF by = "key" THEN {<<"object", n.id>>} ELSE {})
  \cup (IF n.cell.type \in {"MAP", "ARRAY", "STRING"} \/ (n.cell.type = "BYTES" /\ n.cell.val > 0)
          THEN {<<"content", n.id>>} ELSE {})
  \cup (IF n.cell.type = "ARRAY" /\ n.cell.val > 0 THEN {<<"elements", n.id>>} ELSE {})

\* The blocks at a position depend on its node and on how that is held.
LEMMA BlocksOfNode ==
  ASSUME NEW t, NEW p \in Positions
  PROVE  BlocksAt(t, p) = NodeBlocks(t[p], HeldBy(p))
<1>1. CASE p = <<>>
  BY <1>1 DEF BlocksAt, NodeBlocks, HeldBy
<1>2. CASE p # <<>>
  BY <1>2 DEF BlocksAt, NodeBlocks, HeldBy
<1> QED BY <1>1, <1>2

\* A block is named by the item of its node.
LEMMA BlockNames ==
  ASSUME NEW n, NEW by, NEW b \in NodeBlocks(n, by)
  PROVE  b[2] = n.id /\ b = <<b[1], n.id>>
BY DEF NodeBlocks

\* A node in a map has an object of its own, one in an array no struct.
LEMMA BlocksByHolder ==
  ASSUME NEW n
  PROVE  /\ NodeBlocks(n, "tag") = NodeBlocks(n, "root")
         /\ NodeBlocks(n, "key") = NodeBlocks(n, "root") \cup {<<"object", n.id>>}
         /\ NodeBlocks(n, "elem") = NodeBlocks(n, "root") \ {<<"value", n.id>>}
         /\ <<"value", n.id>> \in NodeBlocks(n, "root")
         /\ <<"value", n.id>> \notin NodeBlocks(n, "elem")
BY DEF NodeBlocks

\* What a tree's blocks are, from its nodes.
LEMMA BlocksOfTree ==
  ASSUME NEW t, DOMAIN t \subseteq Positions, NEW b
  PROVE  b \in Blocks(t) <=> \E p \in DOMAIN t : b \in NodeBlocks(t[p], HeldBy(p))
<1>1. b \in Blocks(t) <=> \E p \in DOMAIN t : b \in BlocksAt(t, p)
  BY DEF Blocks
<1>2. \A p \in DOMAIN t : BlocksAt(t, p) = NodeBlocks(t[p], HeldBy(p))
  BY BlocksOfNode
<1> QED BY <1>1, <1>2

\* A position below a step.
LEMMA StepConcat ==
  ASSUME NEW step \in Steps, NEW q \in Positions
  PROVE  /\ <<step>> \o q \in Positions /\ <<step>> \o q # <<>>
         /\ (<<step>> \o q)[1] = step
         /\ Tail(<<step>> \o q) = q
         /\ Len(<<step>> \o q) = Len(q) + 1
         /\ HeldBy(<<step>> \o q) = IF q = <<>> THEN step[1] ELSE HeldBy(q)
<1>1. Positions = Seq(Steps)
  BY DEF Positions, Steps
<1>2. <<step>> \in Seq(Steps) /\ Len(<<step>>) = 1
  OBVIOUS
<1> DEFINE x == <<step>> \o q
<1>3. x \in Seq(Steps) /\ Len(x) = Len(q) + 1 /\ x[1] = step /\ \A i \in 1 .. Len(q) : x[i + 1] = q[i]
  BY <1>1, <1>2
<1>4. Tail(x) \in Seq(Steps) /\ Len(Tail(x)) = Len(q) /\ \A i \in 1 .. Len(q) : Tail(x)[i] = x[i + 1]
  BY <1>3, <1>1
<1>5. Tail(x) = q
  <2> DEFINE y == Tail(x)
  <2>1. y \in Seq(Steps) /\ Len(y) = Len(q) /\ \A i \in 1 .. Len(q) : y[i] = q[i]
    BY <1>3, <1>4
  <2>2. q \in Seq(Steps)
    BY <1>1
  <2> HIDE DEF y
  <2>3. y = q
    BY <2>1, <2>2
  <2> QED BY <2>3 DEF y
<1>6. x # <<>>
  BY <1>3, <1>1
<1>7. HeldBy(x) = IF q = <<>> THEN step[1] ELSE HeldBy(q)
  <2>1. Len(q) \in Nat /\ (q = <<>> <=> Len(q) = 0)
    BY <1>1
  <2> HIDE DEF x
  <2>2. HeldBy(x) = x[Len(x)][1]
    BY <1>6 DEF HeldBy, Last
  <2>3. CASE q = <<>>
    BY <2>1, <2>2, <2>3, <1>3
  <2>4. CASE q # <<>>
    <3>1. x[Len(q) + 1] = q[Len(q)]
      BY <2>1, <2>4, <1>3
    <3> QED BY <2>1, <2>2, <2>4, <3>1, <1>3 DEF HeldBy, Last
  <2> QED BY <2>3, <2>4
<1> HIDE DEF x
<1> QED BY <1>1, <1>3, <1>5, <1>6, <1>7 DEF x

\* The tree under a step.
LEMMA UnderShape ==
  ASSUME NEW step \in Steps, NEW t, DOMAIN t \subseteq Positions
  PROVE  LET u == Under(step, t) IN
         /\ DOMAIN u \subseteq Positions /\ <<>> \notin DOMAIN u
         /\ \A q \in DOMAIN t : <<step>> \o q \in DOMAIN u /\ u[<<step>> \o q] = t[q]
         /\ \A p \in DOMAIN u : p[1] = step /\ Tail(p) \in DOMAIN t /\ u[p] = t[Tail(p)]
                                /\ p = <<step>> \o Tail(p)
<1> DEFINE D == {<<step>> \o q : q \in DOMAIN t}
           u == Under(step, t)
<1>1. DOMAIN u = D /\ \A p \in D : u[p] = t[Tail(p)]
  BY DEF Under
<1>2. \A q \in DOMAIN t :
        /\ <<step>> \o q \in Positions /\ <<step>> \o q # <<>>
        /\ (<<step>> \o q)[1] = step /\ Tail(<<step>> \o q) = q
  BY StepConcat
<1>3. \A p \in D : \E q \in DOMAIN t : p = <<step>> \o q
  OBVIOUS
<1>4. \A q \in DOMAIN t : <<step>> \o q \in D
  OBVIOUS
<1> DEFINE c(q) == <<step>> \o q
<1>5. /\ \A q \in DOMAIN t : c(q) \in Positions /\ c(q) # <<>> /\ c(q)[1] = step /\ Tail(c(q)) = q
      /\ \A p \in D : \E q \in DOMAIN t : p = c(q)
      /\ \A q \in DOMAIN t : c(q) \in D
  BY <1>2, <1>3, <1>4
<1> HIDE DEF u, c, D
<1>6. DOMAIN u \subseteq Positions /\ <<>> \notin DOMAIN u
  BY <1>1, <1>5
<1>7. \A q \in DOMAIN t : c(q) \in DOMAIN u /\ u[c(q)] = t[q]
  BY <1>1, <1>5
<1>8. \A p \in DOMAIN u : p[1] = step /\ Tail(p) \in DOMAIN t /\ u[p] = t[Tail(p)] /\ p = c(Tail(p))
  BY <1>1, <1>5
<1> QED BY <1>6, <1>7, <1>8 DEF u, c

-----------------------------------------------------------------------------
(* Trees *)

\* What it is to be a tree.
LEMMA TreeFacts ==
  ASSUME NEW t \in Trees
  PROVE  /\ DOMAIN t \subseteq Positions /\ t \in [DOMAIN t -> Nodes] /\ IsTree(t)
         /\ \A p \in DOMAIN t : t[p] \in Nodes /\ t[p].id \in Nat /\ t[p].cell \in Cells
<1>1. PICK D \in SUBSET Positions : t \in [D -> Nodes]
  BY DEF Trees
<1>2. IsTree(t)
  BY DEF Trees
<1> QED BY <1>1, <1>2 DEF Nodes

\* What makes a tree.
LEMMA TreeIntro ==
  ASSUME NEW t, DOMAIN t \subseteq Positions, t \in [DOMAIN t -> Nodes], IsTree(t)
  PROVE  t \in Trees
<1> DEFINE D == DOMAIN t
<1>1. D \in SUBSET Positions /\ t \in [D -> Nodes]
  OBVIOUS
<1> HIDE DEF D
<1> QED BY <1>1 DEF Trees

\* NULL owns nothing.
LEMMA NULLFacts ==
  /\ NULL \in Trees /\ DOMAIN NULL = {} /\ Blocks(NULL) = {} /\ TreeIds(NULL) = {}
<1>1. DOMAIN NULL = {}
  BY DEF NULL
<1>2. NULL \in [DOMAIN NULL -> Nodes]
  BY <1>1 DEF NULL
<1>3. IsTree(NULL)
  BY <1>1 DEF IsTree
<1>4. NULL \in Trees
  BY <1>1, <1>2, <1>3, TreeIntro
<1> QED BY <1>1, <1>4 DEF Blocks, TreeIds

\* A tree's blocks are named by its nodes' items.
LEMMA BlocksInIds ==
  ASSUME NEW t, DOMAIN t \subseteq Positions, NEW b \in Blocks(t)
  PROVE  b[2] \in TreeIds(t) /\ b = <<b[1], b[2]>>
<1>1. PICK p \in DOMAIN t : b \in NodeBlocks(t[p], HeldBy(p))
  BY BlocksOfTree
<1>2. b[2] = t[p].id /\ b = <<b[1], t[p].id>>
  BY <1>1, BlockNames
<1> QED BY <1>2 DEF TreeIds

\* The nodes and blocks of a tree put under a step: in a map it gets an object,
\* in an array it loses its struct.
LEMMA UnderBlocks ==
  ASSUME NEW step \in Steps, NEW t \in Trees, t # NULL
  PROVE  LET u == Under(step, t)
             r == t[<<>>].id
         IN /\ TreeIds(u) = TreeIds(t)
            /\ \A p \in DOMAIN u : u[p] \in Nodes
            /\ \A p, q \in DOMAIN u : u[p].id = u[q].id => p = q
            /\ <<"value", r>> \in Blocks(t) /\ r \in TreeIds(t)
            /\ step[1] = "tag" => Blocks(u) = Blocks(t)
            /\ step[1] = "key" => Blocks(u) = Blocks(t) \cup {<<"object", r>>}
            /\ step[1] = "elem" => Blocks(u) = Blocks(t) \ {<<"value", r>>}
<1> DEFINE u == Under(step, t)
           r == t[<<>>].id
           c(q) == <<step>> \o q
<1>1. /\ DOMAIN t \subseteq Positions /\ IsTree(t) /\ <<>> \in DOMAIN t
      /\ \A p \in DOMAIN t : t[p] \in Nodes
  BY TreeFacts DEF IsTree
<1>2. /\ DOMAIN u \subseteq Positions
      /\ \A q \in DOMAIN t : c(q) \in DOMAIN u /\ u[c(q)] = t[q]
      /\ \A p \in DOMAIN u : Tail(p) \in DOMAIN t /\ u[p] = t[Tail(p)] /\ p = c(Tail(p))
  BY <1>1, UnderShape
<1>3. \A q \in DOMAIN t : HeldBy(c(q)) = IF q = <<>> THEN step[1] ELSE HeldBy(q)
  BY <1>1, StepConcat
<1>4. \A p, q \in DOMAIN t : t[p].id = t[q].id => p = q
  BY <1>1 DEF IsTree
<1>5. \A b : b \in Blocks(t) <=> \E p \in DOMAIN t : b \in NodeBlocks(t[p], HeldBy(p))
  BY <1>1, BlocksOfTree
<1>6. \A b : b \in Blocks(u) <=> \E p \in DOMAIN u : b \in NodeBlocks(u[p], HeldBy(p))
  BY <1>2, BlocksOfTree
<1> HIDE DEF u, c
<1>7. \A b : b \in Blocks(u) <=>
        \E q \in DOMAIN t : b \in NodeBlocks(t[q], IF q = <<>> THEN step[1] ELSE HeldBy(q))
  BY <1>2, <1>3, <1>6
<1>8. TreeIds(u) = TreeIds(t)
  BY <1>2 DEF TreeIds
<1>9. \A p \in DOMAIN u : u[p] \in Nodes
  BY <1>1, <1>2
<1>10. \A p, q \in DOMAIN u : u[p].id = u[q].id => p = q
  BY <1>2, <1>4
<1>11. HeldBy(<<>>) = "root"
  BY DEF HeldBy
<1> DEFINE N == t[<<>>]
<1>12. /\ NodeBlocks(N, "tag") = NodeBlocks(N, "root")
       /\ NodeBlocks(N, "key") = NodeBlocks(N, "root") \cup {<<"object", r>>}
       /\ NodeBlocks(N, "elem") = NodeBlocks(N, "root") \ {<<"value", r>>}
       /\ <<"value", r>> \in NodeBlocks(N, "root")
  BY BlocksByHolder
<1>13. <<"value", r>> \in Blocks(t) /\ r \in TreeIds(t)
  BY <1>1, <1>5, <1>11, <1>12 DEF TreeIds
<1>14. ASSUME NEW q \in DOMAIN t, q # <<>>
       PROVE  <<"value", r>> \notin NodeBlocks(t[q], HeldBy(q))
  <2>1. \A b \in NodeBlocks(t[q], HeldBy(q)) : b[2] = t[q].id
    BY BlockNames
  <2>2. t[q].id # r
    BY <1>1, <1>4, <1>14
  <2>3. <<"value", r>>[2] = r
    OBVIOUS
  <2> QED BY <2>1, <2>2, <2>3
<1> HIDE DEF r, N
<1>15. ASSUME step[1] = "tag" PROVE Blocks(u) = Blocks(t)
  BY <1>5, <1>7, <1>11, <1>12, <1>15 DEF N
<1>16. ASSUME step[1] = "key" PROVE Blocks(u) = Blocks(t) \cup {<<"object", r>>}
  BY <1>1, <1>5, <1>7, <1>11, <1>12, <1>16 DEF N
<1>17. ASSUME step[1] = "elem" PROVE Blocks(u) = Blocks(t) \ {<<"value", r>>}
  BY <1>1, <1>5, <1>7, <1>11, <1>12, <1>14, <1>17 DEF N
<1> QED BY <1>8, <1>9, <1>10, <1>13, <1>15, <1>16, <1>17 DEF u, r

\* A tree put together of a root, some nodes of another tree and a tree under
\* a step.
IsGraft(g, t, K, root, u) ==
  /\ DOMAIN t \subseteq Positions /\ DOMAIN u \subseteq Positions
  /\ \A p \in DOMAIN t : t[p] \in Nodes
  /\ \A p \in DOMAIN u : u[p] \in Nodes
  /\ root \in Nodes
  /\ \A p, q \in DOMAIN t : t[p].id = t[q].id => p = q
  /\ \A p, q \in DOMAIN u : u[p].id = u[q].id => p = q
  /\ \A p \in K : t[p].id # root.id
  /\ \A p \in DOMAIN u : u[p].id # root.id /\ u[p].id \notin TreeIds(t)
  /\ K \subseteq DOMAIN t /\ <<>> \notin K /\ <<>> \notin DOMAIN u /\ K \cap DOMAIN u = {}
  /\ g = [p \in {<<>>} \cup K \cup DOMAIN u |->
            IF p = <<>> THEN root ELSE IF p \in K THEN t[p] ELSE u[p]]

KeptIds(t, K) == {t[p].id : p \in K}
KeptBlocks(t, K) == UNION {NodeBlocks(t[p], HeldBy(p)) : p \in K}

\* It is a tree, and each node's blocks stay what they were.
GraftOwns(g, t, K, root, u) ==
  /\ g \in Trees /\ g # NULL /\ DOMAIN g = {<<>>} \cup K \cup DOMAIN u
  /\ g[<<>>] = root
  /\ \A p \in K : g[p] = t[p]
  /\ \A p \in DOMAIN u : g[p] = u[p]
  /\ TreeIds(g) = {root.id} \cup KeptIds(t, K) \cup TreeIds(u)
  /\ Blocks(g) = NodeBlocks(root, "root") \cup KeptBlocks(t, K) \cup Blocks(u)

\* A graft has the nodes and blocks of its parts.
LEMMA Grafted ==
  ASSUME NEW g, NEW t, NEW K, NEW root, NEW u, IsGraft(g, t, K, root, u)
  PROVE  GraftOwns(g, t, K, root, u)
<1>0. /\ DOMAIN t \subseteq Positions /\ DOMAIN u \subseteq Positions
      /\ \A p \in DOMAIN t : t[p] \in Nodes
      /\ \A p \in DOMAIN u : u[p] \in Nodes
      /\ root \in Nodes
      /\ \A p, q \in DOMAIN t : t[p].id = t[q].id => p = q
      /\ \A p, q \in DOMAIN u : u[p].id = u[q].id => p = q
      /\ \A p \in K : t[p].id # root.id
      /\ \A p \in DOMAIN u : u[p].id # root.id /\ u[p].id \notin TreeIds(t)
      /\ K \subseteq DOMAIN t /\ <<>> \notin K /\ <<>> \notin DOMAIN u /\ K \cap DOMAIN u = {}
  BY DEF IsGraft
<1>00. g = [p \in {<<>>} \cup K \cup DOMAIN u |->
              IF p = <<>> THEN root ELSE IF p \in K THEN t[p] ELSE u[p]]
  BY DEF IsGraft
<1>1. /\ DOMAIN g = {<<>>} \cup K \cup DOMAIN u /\ g[<<>>] = root
      /\ \A p \in K : g[p] = t[p] /\ p # <<>>
      /\ \A p \in DOMAIN u : g[p] = u[p] /\ p # <<>>
  BY <1>0, <1>00
<1>2. <<>> \in Positions
  BY DEF Positions
<1>3. DOMAIN g \subseteq Positions
  BY <1>0, <1>1, <1>2
<1>4. \A p \in DOMAIN g : g[p] \in Nodes
  BY <1>0, <1>1
<1>5. g \in [DOMAIN g -> Nodes]
  BY <1>00, <1>1, <1>4
<1>6. <<>> \in DOMAIN g
  BY <1>1
<1>7. g # NULL
  BY <1>6, NULLFacts
<1>8. \A p \in K : t[p].id \in TreeIds(t)
  BY <1>0 DEF TreeIds
<1>9. ASSUME NEW p \in DOMAIN g, NEW q \in DOMAIN g, g[p].id = g[q].id
      PROVE  p = q
  BY <1>0, <1>1, <1>8, <1>9
<1>10. g \in Trees
  <2>1. IsTree(g)
    BY <1>6, <1>9 DEF IsTree
  <2> QED BY <1>3, <1>5, <2>1, TreeIntro
<1>11. TreeIds(g) = {root.id} \cup KeptIds(t, K) \cup TreeIds(u)
  <2>1. TreeIds(g) = {g[p].id : p \in {<<>>} \cup K \cup DOMAIN u}
    BY <1>1 DEF TreeIds
  <2>2. TreeIds(u) = {u[p].id : p \in DOMAIN u} /\ KeptIds(t, K) = {t[p].id : p \in K}
    BY DEF TreeIds, KeptIds
  <2>3. ASSUME NEW x PROVE x \in TreeIds(g) <=> x \in {root.id} \cup KeptIds(t, K) \cup TreeIds(u)
    <3>1. x \in TreeIds(g) <=> \/ x = g[<<>>].id
                               \/ \E p \in K : x = g[p].id
                               \/ \E p \in DOMAIN u : x = g[p].id
      BY <2>1
    <3> QED BY <3>1, <2>2, <1>1
  <2> QED BY <2>3
<1>12. \A b : b \in Blocks(g) <=> \E p \in DOMAIN g : b \in NodeBlocks(g[p], HeldBy(p))
  BY <1>3, BlocksOfTree
<1>13. \A b : b \in Blocks(u) <=> \E p \in DOMAIN u : b \in NodeBlocks(u[p], HeldBy(p))
  BY <1>0, BlocksOfTree
<1>14. HeldBy(<<>>) = "root"
  BY DEF HeldBy
<1>15. Blocks(g) = NodeBlocks(root, "root") \cup KeptBlocks(t, K) \cup Blocks(u)
  <2>1. ASSUME NEW b
        PROVE  b \in Blocks(g) <=> \/ b \in NodeBlocks(root, "root")
                                   \/ \E p \in K : b \in NodeBlocks(t[p], HeldBy(p))
                                   \/ b \in Blocks(u)
    <3>1. b \in Blocks(g) <=> \/ b \in NodeBlocks(g[<<>>], HeldBy(<<>>))
                              \/ \E p \in K : b \in NodeBlocks(g[p], HeldBy(p))
                              \/ \E p \in DOMAIN u : b \in NodeBlocks(g[p], HeldBy(p))
      BY <1>1, <1>12
    <3> QED BY <3>1, <1>1, <1>13, <1>14
  <2>2. \A b : b \in KeptBlocks(t, K) <=> \E p \in K : b \in NodeBlocks(t[p], HeldBy(p))
    BY DEF KeptBlocks
  <2> QED BY <2>1, <2>2
<1> QED BY <1>1, <1>7, <1>10, <1>11, <1>15 DEF GraftOwns

-----------------------------------------------------------------------------
(* Frames and the stack *)

\* The fields of a frame.
LEMMA FrameFacts ==
  ASSUME NEW f \in Frames
  PROVE  /\ f \in Records /\ IsFrame(f) /\ f.tree \in Trees
         /\ f.kind \in {"TAG", "ARRAY", "MAP"} /\ f.id \in Nat /\ f.left \in Int /\ f.room \in Nat
         /\ f.loopCount \in Nat /\ f.key \in Int
BY DEF Frames, Records

\* A frame's blocks are named by its own item and those of its tree.
LEMMA FrameBlocksInIds ==
  ASSUME NEW f \in Frames, NEW b \in FrameBlocks(f)
  PROVE  b[2] \in FrameIds(f)
<1>1. DOMAIN f.tree \subseteq Positions
  BY FrameFacts, TreeFacts
<1>2. CASE b \in Blocks(f.tree)
  BY <1>1, <1>2, BlocksInIds DEF FrameIds
<1>3. CASE b = <<"elements", f.id>>
  BY <1>3 DEF FrameIds
<1>4. b \in Blocks(f.tree) \/ b = <<"elements", f.id>>
  BY DEF FrameBlocks
<1> QED BY <1>2, <1>3, <1>4

\* What a stack has with one more frame.
LEMMA StackAppend ==
  ASSUME NEW s \in Seq(Frames), NEW f \in Frames
  PROVE  /\ Append(s, f) \in Seq(Frames) /\ Append(s, f) # <<>> /\ Len(Append(s, f)) = Len(s) + 1
         /\ Front(Append(s, f)) = s /\ Last(Append(s, f)) = f
         /\ DOMAIN Append(s, f) = DOMAIN s \cup {Len(s) + 1} /\ Len(s) + 1 \notin DOMAIN s
         /\ \A i \in DOMAIN s : Append(s, f)[i] = s[i]
         /\ Append(s, f)[Len(s) + 1] = f
         /\ StackIds(Append(s, f)) = StackIds(s) \cup FrameIds(f)
         /\ StackBlocks(Append(s, f)) = StackBlocks(s) \cup FrameBlocks(f)
         /\ Apart(Append(s, f)) <=> Apart(s) /\ FrameIds(f) \cap StackIds(s) = {}
<1> DEFINE a == Append(s, f)
           n == Len(s) + 1
<1>1. /\ a \in Seq(Frames) /\ Len(a) = n /\ n \in Nat
      /\ DOMAIN a = DOMAIN s \cup {n} /\ n \notin DOMAIN s
      /\ \A i \in DOMAIN s : a[i] = s[i]
      /\ a[n] = f
  OBVIOUS
<1>2. Front(a) = s /\ Last(a) = f /\ a # <<>>
  BY FrontLastAppend
<1> HIDE DEF a, n
<1>3. StackIds(a) = StackIds(s) \cup FrameIds(f)
  BY <1>1 DEF StackIds
<1>4. StackBlocks(a) = StackBlocks(s) \cup FrameBlocks(f)
  BY <1>1 DEF StackBlocks
<1>5. ASSUME Apart(s), FrameIds(f) \cap StackIds(s) = {}
      PROVE  Apart(a)
  <2>1. \A i \in DOMAIN s : FrameIds(s[i]) \subseteq StackIds(s)
    BY DEF StackIds
  <2> QED BY <1>1, <1>5, <2>1 DEF Apart
<1>6. ASSUME Apart(a)
      PROVE  Apart(s) /\ FrameIds(f) \cap StackIds(s) = {}
  <2>1. Apart(s)
    BY <1>1, <1>6 DEF Apart
  <2>2. \A i \in DOMAIN s : FrameIds(s[i]) \cap FrameIds(f) = {}
    BY <1>1, <1>6 DEF Apart
  <2> QED BY <2>1, <2>2 DEF StackIds
<1> QED BY <1>1, <1>2, <1>3, <1>4, <1>5, <1>6 DEF a, n

\* A stack that is not empty, as its last frame on the others.
LEMMA StackTop ==
  ASSUME NEW s \in Seq(Frames), s # <<>>
  PROVE  /\ Front(s) \in Seq(Frames) /\ Last(s) \in Frames
         /\ s = Append(Front(s), Last(s)) /\ Len(s) = Len(Front(s)) + 1 /\ Len(Front(s)) \in Nat
         /\ Len(s) \in DOMAIN s /\ s[Len(s)] = Last(s)
         /\ \A g : [s EXCEPT ![Len(s)] = g] = Append(Front(s), g)
<1> DEFINE b == Front(s)
           l == Last(s)
<1>1. b \in Seq(Frames) /\ l \in Frames /\ s = Append(b, l) /\ Len(b) = Len(s) - 1
  BY FrontLast
<1>2. Len(b) \in Nat /\ Len(s) = Len(b) + 1
  BY <1>1
<1>3. ASSUME NEW g
      PROVE  [s EXCEPT ![Len(s)] = g] = Append(b, g)
  <2> HIDE DEF b, l
  <2> DEFINE x == Append(b, l)
             y == Append(b, g)
             S == Frames \cup {g}
  <2>1. b \in Seq(S) /\ l \in S /\ g \in S
    BY <1>1
  <2> HIDE DEF S
  <2>2. x \in Seq(S) /\ Len(x) = Len(b) + 1 /\ \A i \in 1 .. Len(b) : x[i] = b[i]
    BY <2>1
  <2>3. y \in Seq(S) /\ Len(y) = Len(b) + 1 /\ \A i \in 1 .. Len(b) : y[i] = b[i]
    BY <2>1
  <2>4. y[Len(b) + 1] = g
    BY <2>1
  <2> HIDE DEF x, y
  <2> DEFINE z == [x EXCEPT ![Len(b) + 1] = g]
  <2>5. z \in Seq(S) /\ Len(z) = Len(b) + 1
    BY <2>1, <2>2
  <2>6. \A i \in 1 .. Len(b) + 1 : z[i] = y[i]
    BY <1>2, <2>2, <2>3, <2>4
  <2> HIDE DEF z
  <2>7. z = y
    BY <2>3, <2>5, <2>6
  <2>8. s = x
    BY <1>1 DEF x
  <2> QED BY <2>7, <2>8, <1>2 DEF z, y
<1>4. s[Len(s)] = Last(s) /\ Len(s) \in DOMAIN s
  BY <1>2 DEF Last
<1> QED BY <1>1, <1>2, <1>3, <1>4

-----------------------------------------------------------------------------
(* What each change makes of the accounts *)

\* Blocks named by items that have nothing in common are different.
LEMMA BlocksApart ==
  ASSUME NEW s \in Seq(Frames), NEW t \in Trees, NEW d, NEW h, NEW n, Owned(s, t, d, h, n)
  PROVE  /\ StackBlocks(s) \cap Blocks(t) = {}
         /\ StackBlocks(s) \cap d = {}
         /\ Blocks(t) \cap d = {}
         /\ BlockIds(StackBlocks(s)) \subseteq StackIds(s)
         /\ BlockIds(Blocks(t)) \subseteq TreeIds(t)
<1>1. \A b \in StackBlocks(s) : b[2] \in StackIds(s)
  <2> SUFFICES ASSUME NEW i \in DOMAIN s, NEW b \in FrameBlocks(s[i]) PROVE b[2] \in StackIds(s)
    BY DEF StackBlocks
  <2>1. s[i] \in Frames
    OBVIOUS
  <2>2. b[2] \in FrameIds(s[i])
    BY <2>1, FrameBlocksInIds
  <2> QED BY <2>2 DEF StackIds
<1>2. \A b \in Blocks(t) : b[2] \in TreeIds(t)
  BY TreeFacts, BlocksInIds
<1>3. \A b \in d : b[2] \in BlockIds(d)
  BY DEF BlockIds
<1>4. /\ StackIds(s) \cap TreeIds(t) = {} /\ StackIds(s) \cap BlockIds(d) = {}
      /\ TreeIds(t) \cap BlockIds(d) = {}
  BY DEF Owned
<1>5. BlockIds(StackBlocks(s)) \subseteq StackIds(s) /\ BlockIds(Blocks(t)) \subseteq TreeIds(t)
  BY <1>1, <1>2 DEF BlockIds
<1>6. StackBlocks(s) \cap Blocks(t) = {} /\ StackBlocks(s) \cap d = {} /\ Blocks(t) \cap d = {}
  BY <1>1, <1>2, <1>3, <1>4
<1> QED BY <1>5, <1>6

\* The same with the last frame apart.
LEMMA OwnedTop ==
  ASSUME NEW s \in Seq(Frames), NEW f \in Frames, NEW t \in Trees, NEW d, NEW h, NEW n,
         Owned(Append(s, f), t, d, h, n)
  PROVE  /\ Apart(s) /\ h = StackBlocks(s) \cup FrameBlocks(f) \cup Blocks(t) \cup d
         /\ FrameIds(f) \cap StackIds(s) = {} /\ FrameIds(f) \cap TreeIds(t) = {}
         /\ FrameIds(f) \cap BlockIds(d) = {} /\ StackIds(s) \cap TreeIds(t) = {}
         /\ StackIds(s) \cap BlockIds(d) = {} /\ TreeIds(t) \cap BlockIds(d) = {}
         /\ StackIds(s) \cup FrameIds(f) \cup TreeIds(t) \cup BlockIds(d) \subseteq 1 .. n
         /\ FrameBlocks(f) \cap StackBlocks(s) = {} /\ FrameBlocks(f) \cap Blocks(t) = {}
         /\ FrameBlocks(f) \cap d = {} /\ StackBlocks(s) \cap Blocks(t) = {}
         /\ StackBlocks(s) \cap d = {} /\ Blocks(t) \cap d = {}
         /\ BlockIds(StackBlocks(s)) \subseteq StackIds(s) /\ BlockIds(Blocks(t)) \subseteq TreeIds(t)
         /\ BlockIds(FrameBlocks(f)) \subseteq FrameIds(f)
<1> DEFINE a == Append(s, f)
<1>1. /\ a \in Seq(Frames)
      /\ StackIds(a) = StackIds(s) \cup FrameIds(f)
      /\ StackBlocks(a) = StackBlocks(s) \cup FrameBlocks(f)
      /\ Apart(a) <=> Apart(s) /\ FrameIds(f) \cap StackIds(s) = {}
  BY StackAppend
<1> HIDE DEF a
<1>2. Owned(a, t, d, h, n)
  BY DEF a
<1>3. /\ StackBlocks(a) \cap Blocks(t) = {} /\ StackBlocks(a) \cap d = {} /\ Blocks(t) \cap d = {}
      /\ BlockIds(Blocks(t)) \subseteq TreeIds(t)
  BY <1>1, <1>2, BlocksApart
<1>4. /\ Apart(s) /\ h = StackBlocks(s) \cup FrameBlocks(f) \cup Blocks(t) \cup d
      /\ FrameIds(f) \cap StackIds(s) = {} /\ FrameIds(f) \cap TreeIds(t) = {}
      /\ FrameIds(f) \cap BlockIds(d) = {} /\ StackIds(s) \cap TreeIds(t) = {}
      /\ StackIds(s) \cap BlockIds(d) = {} /\ TreeIds(t) \cap BlockIds(d) = {}
      /\ StackIds(s) \cup FrameIds(f) \cup TreeIds(t) \cup BlockIds(d) \subseteq 1 .. n
  BY <1>1, <1>2 DEF Owned
<1>5. \A b \in FrameBlocks(f) : b[2] \in FrameIds(f)
  BY FrameBlocksInIds
<1>6. \A b \in StackBlocks(s) : b[2] \in StackIds(s)
  <2> SUFFICES ASSUME NEW i \in DOMAIN s, NEW b \in FrameBlocks(s[i]) PROVE b[2] \in StackIds(s)
    BY DEF StackBlocks
  <2>1. s[i] \in Frames
    OBVIOUS
  <2>2. b[2] \in FrameIds(s[i])
    BY <2>1, FrameBlocksInIds
  <2> QED BY <2>2 DEF StackIds
<1>7. FrameBlocks(f) \cap StackBlocks(s) = {}
  BY <1>4, <1>5, <1>6
<1>8. BlockIds(StackBlocks(s)) \subseteq StackIds(s) /\ BlockIds(FrameBlocks(f)) \subseteq FrameIds(f)
  BY <1>5, <1>6 DEF BlockIds
<1> QED BY <1>1, <1>3, <1>4, <1>7, <1>8

\* A call begins: its frame has blocks of the item that was just read.
LEMMA Push ==
  ASSUME NEW s \in Seq(Frames), NEW f \in Frames, NEW d, NEW h, NEW n \in Nat,
         Owned(s, NULL, d, h, n), FrameIds(f) = {n + 1}
  PROVE  Owned(Append(s, f), NULL, d, h \cup FrameBlocks(f), n + 1)
<1> DEFINE a == Append(s, f)
<1>1. /\ StackIds(a) = StackIds(s) \cup FrameIds(f)
      /\ StackBlocks(a) = StackBlocks(s) \cup FrameBlocks(f)
      /\ Apart(a) <=> Apart(s) /\ FrameIds(f) \cap StackIds(s) = {}
  BY StackAppend
<1> HIDE DEF a
<1>2. /\ Apart(s) /\ StackIds(s) \cap BlockIds(d) = {}
      /\ StackIds(s) \cup BlockIds(d) \subseteq 1 .. n
      /\ h = StackBlocks(s) \cup d
  BY NULLFacts DEF Owned
<1>3. n + 1 \notin 1 .. n /\ 1 .. n \subseteq 1 .. n + 1 /\ n + 1 \in 1 .. n + 1
  OBVIOUS
<1>4. Owned(a, NULL, d, h \cup FrameBlocks(f), n + 1)
  BY <1>1, <1>2, <1>3, NULLFacts DEF Owned
<1> QED BY <1>4 DEF a

\* A leaf is made of the item that was just read.
LEMMA Make ==
  ASSUME NEW s \in Seq(Frames), NEW t \in Trees, NEW d, NEW h, NEW n \in Nat,
         Owned(s, NULL, d, h, n), TreeIds(t) = {n + 1}
  PROVE  Owned(s, t, d, h \cup Blocks(t), n + 1)
<1>1. /\ Apart(s) /\ StackIds(s) \cap BlockIds(d) = {}
      /\ StackIds(s) \cup BlockIds(d) \subseteq 1 .. n
      /\ h = StackBlocks(s) \cup d
  BY NULLFacts DEF Owned
<1>2. n + 1 \notin 1 .. n /\ 1 .. n \subseteq 1 .. n + 1 /\ n + 1 \in 1 .. n + 1
  OBVIOUS
<1> QED BY <1>1, <1>2 DEF Owned

\* An item is read, and nothing made of it.
LEMMA Advance ==
  ASSUME NEW s, NEW t, NEW d, NEW h, NEW n \in Nat, Owned(s, t, d, h, n)
  PROVE  Owned(s, t, d, h, n + 1)
<1>1. 1 .. n \subseteq 1 .. n + 1
  OBVIOUS
<1> QED BY <1>1 DEF Owned

\* A call fails and frees what its frame holds.
LEMMA PopFreed ==
  ASSUME NEW s \in Seq(Frames), NEW f \in Frames, NEW d, NEW h, NEW n,
         Owned(Append(s, f), NULL, d, h, n)
  PROVE  Owned(s, NULL, d, h \ FrameBlocks(f), n)
<1>1. NULL \in Trees /\ TreeIds(NULL) = {} /\ Blocks(NULL) = {}
  BY NULLFacts
<1>2. /\ Apart(s) /\ h = StackBlocks(s) \cup FrameBlocks(f) \cup d
      /\ StackIds(s) \cap BlockIds(d) = {}
      /\ StackIds(s) \cup BlockIds(d) \subseteq 1 .. n
      /\ FrameBlocks(f) \cap StackBlocks(s) = {} /\ FrameBlocks(f) \cap d = {}
  BY <1>1, OwnedTop
<1> QED BY <1>1, <1>2 DEF Owned

\* A call fails that had only been given a value, which is freed.
LEMMA PopFreesValue ==
  ASSUME NEW s \in Seq(Frames), NEW f \in Frames, NEW t \in Trees, NEW d, NEW h, NEW n,
         Owned(Append(s, f), t, d, h, n), FrameBlocks(f) = {}
  PROVE  Owned(s, NULL, d, h \ Blocks(t), n)
<1>1. NULL \in Trees /\ TreeIds(NULL) = {} /\ Blocks(NULL) = {}
  BY NULLFacts
<1>2. /\ Apart(s) /\ h = StackBlocks(s) \cup Blocks(t) \cup d
      /\ StackIds(s) \cap BlockIds(d) = {}
      /\ StackIds(s) \cup BlockIds(d) \subseteq 1 .. n
      /\ StackBlocks(s) \cap Blocks(t) = {} /\ Blocks(t) \cap d = {}
  BY OwnedTop
<1> QED BY <1>1, <1>2 DEF Owned

\* A call returns a value made of what its frame and the value it was given
\* hold, and of new blocks of their items.
LEMMA PopReturns ==
  ASSUME NEW s \in Seq(Frames), NEW f \in Frames, NEW t \in Trees, NEW d, NEW h, NEW n,
         Owned(Append(s, f), t, d, h, n),
         NEW r \in Trees, TreeIds(r) \subseteq FrameIds(f) \cup TreeIds(t),
         NEW new, Blocks(r) = FrameBlocks(f) \cup Blocks(t) \cup new
  PROVE  Owned(s, r, d, h \cup new, n)
<1>1. /\ Apart(s) /\ h = StackBlocks(s) \cup FrameBlocks(f) \cup Blocks(t) \cup d
      /\ FrameIds(f) \cap StackIds(s) = {}
      /\ FrameIds(f) \cap BlockIds(d) = {} /\ StackIds(s) \cap TreeIds(t) = {}
      /\ StackIds(s) \cap BlockIds(d) = {} /\ TreeIds(t) \cap BlockIds(d) = {}
      /\ StackIds(s) \cup FrameIds(f) \cup TreeIds(t) \cup BlockIds(d) \subseteq 1 .. n
  BY OwnedTop
<1>2. /\ StackIds(s) \cap TreeIds(r) = {} /\ TreeIds(r) \cap BlockIds(d) = {}
      /\ StackIds(s) \cup TreeIds(r) \cup BlockIds(d) \subseteq 1 .. n
  BY <1>1
<1>3. h \cup new = StackBlocks(s) \cup Blocks(r) \cup d
  BY <1>1
<1> QED BY <1>1, <1>2, <1>3 DEF Owned

\* A frame takes a value in: g holds what f and t held, but some blocks that
\* are freed, and new blocks of their items; others of t's are dropped.
LEMMA TakeIn ==
  ASSUME NEW s \in Seq(Frames), NEW f \in Frames, NEW t \in Trees, NEW d, NEW h, NEW n,
         Owned(Append(s, f), t, d, h, n),
         NEW g \in Frames, FrameIds(g) \subseteq FrameIds(f) \cup TreeIds(t),
         NEW e, BlockIds(e) \subseteq TreeIds(t), BlockIds(e) \cap FrameIds(g) = {},
         NEW k, k = StackBlocks(s) \cup FrameBlocks(g) \cup d \cup e
  PROVE  Owned(Append(s, g), NULL, d \cup e, k, n)
<1>1. /\ Apart(s) /\ FrameIds(f) \cap StackIds(s) = {}
      /\ FrameIds(f) \cap BlockIds(d) = {} /\ StackIds(s) \cap TreeIds(t) = {}
      /\ StackIds(s) \cap BlockIds(d) = {} /\ TreeIds(t) \cap BlockIds(d) = {}
      /\ StackIds(s) \cup FrameIds(f) \cup TreeIds(t) \cup BlockIds(d) \subseteq 1 .. n
  BY OwnedTop
<1> DEFINE a == Append(s, g)
<1>2. /\ StackIds(a) = StackIds(s) \cup FrameIds(g)
      /\ StackBlocks(a) = StackBlocks(s) \cup FrameBlocks(g)
      /\ Apart(a) <=> Apart(s) /\ FrameIds(g) \cap StackIds(s) = {}
  BY StackAppend
<1> HIDE DEF a
<1>3. BlockIds(d \cup e) = BlockIds(d) \cup BlockIds(e)
  BY DEF BlockIds
<1>4. TreeIds(NULL) = {} /\ Blocks(NULL) = {}
  BY NULLFacts
<1>5. /\ Apart(a) /\ StackIds(a) \cap BlockIds(d \cup e) = {}
      /\ StackIds(a) \cup BlockIds(d \cup e) \subseteq 1 .. n
  BY <1>1, <1>2, <1>3
<1>6. Owned(a, NULL, d \cup e, k, n)
  BY <1>2, <1>4, <1>5 DEF Owned
<1> QED BY <1>6 DEF a

-----------------------------------------------------------------------------
(* What each step builds *)

\* A single decoded cell.
LEMMA SingleTree ==
  ASSUME NEW c \in Cells, at \in Nat
  PROVE  /\ Single(c) \in Trees /\ Single(c) # NULL /\ DOMAIN Single(c) = {<<>>}
         /\ Single(c)[<<>>] = Decoded(c) /\ Decoded(c).cell = c /\ Decoded(c).id = at
         /\ TreeIds(Single(c)) = {at}
         /\ Blocks(Single(c)) = NodeBlocks(Decoded(c), "root")
<1> DEFINE t == Single(c)
<1>1. DOMAIN t = {<<>>} /\ t[<<>>] = Decoded(c)
  BY DEF Single
<1>2. Decoded(c) \in Nodes /\ Decoded(c).cell = c /\ Decoded(c).id = at
  BY DEF Decoded, Nodes
<1>3. <<>> \in Positions
  BY DEF Positions
<1>4. t \in [DOMAIN t -> Nodes]
  BY <1>2 DEF Single
<1>5. t # NULL
  BY <1>1, NULLFacts
<1>6. IsTree(t)
  BY <1>1 DEF IsTree
<1>7. t \in Trees
  BY <1>1, <1>3, <1>4, <1>6, TreeIntro
<1>8. TreeIds(t) = {at}
  BY <1>1, <1>2 DEF TreeIds
<1>9. HeldBy(<<>>) = "root"
  BY DEF HeldBy
<1>10. Blocks(t) = BlocksAt(t, <<>>)
  BY <1>1 DEF Blocks
<1>11. BlocksAt(t, <<>>) = NodeBlocks(t[<<>>], "root")
  BY <1>3, <1>9, BlocksOfNode
<1> QED BY <1>1, <1>2, <1>5, <1>7, <1>8, <1>10, <1>11

\* A tag made of an item, with its value.
Tagged(id, c, r) ==
  [p \in {<<>>} \cup DOMAIN Under(Content, r) |->
     IF p = <<>> THEN [cell |-> c, id |-> id] ELSE Under(Content, r)[p]]

\* A tag holds the value it was given.
LEMMA TagTree ==
  ASSUME NEW id \in Nat, NEW c \in Cells, NEW r \in Trees, r # NULL, id \notin TreeIds(r),
         NEW t, t = Tagged(id, c, r)
  PROVE  /\ t \in Trees /\ TreeIds(t) \subseteq {id} \cup TreeIds(r)
         /\ Blocks(t) = Blocks(r) \cup BlocksAt(t, <<>>)
<1> DEFINE u == Under(Content, r)
           root == [cell |-> c, id |-> id]
           K == {}
<1>1. Content \in Steps /\ Content[1] = "tag"
  BY DEF Content, Steps
<1>2. /\ TreeIds(u) = TreeIds(r) /\ Blocks(u) = Blocks(r)
      /\ \A p \in DOMAIN u : u[p] \in Nodes
      /\ \A p, q \in DOMAIN u : u[p].id = u[q].id => p = q
  BY <1>1, UnderBlocks
<1>3. DOMAIN u \subseteq Positions /\ <<>> \notin DOMAIN u
  BY <1>1, UnderShape, TreeFacts
<1>4. root \in Nodes /\ root.id = id
  BY DEF Nodes
<1>5. \A p \in DOMAIN u : u[p].id \in TreeIds(u)
  BY DEF TreeIds
<1>6. /\ DOMAIN NULL = {} /\ TreeIds(NULL) = {}
  BY NULLFacts
<1>7. t = [p \in {<<>>} \cup K \cup DOMAIN u |->
             IF p = <<>> THEN root ELSE IF p \in K THEN NULL[p] ELSE u[p]]
  BY DEF Tagged
<1>8. <<>> \in Positions
  BY DEF Positions
<1> HIDE DEF u, root
<1>9. IsGraft(t, NULL, K, root, u)
  BY <1>2, <1>3, <1>4, <1>5, <1>6, <1>7 DEF IsGraft
<1>10. /\ t \in Trees /\ t[<<>>] = root
       /\ TreeIds(t) = {root.id} \cup KeptIds(NULL, K) \cup TreeIds(u)
       /\ Blocks(t) = NodeBlocks(root, "root") \cup KeptBlocks(NULL, K) \cup Blocks(u)
  <2>1. GraftOwns(t, NULL, K, root, u)
    BY <1>9, Grafted
  <2> QED BY <2>1 DEF GraftOwns
<1>11. KeptIds(NULL, K) = {} /\ KeptBlocks(NULL, K) = {}
  BY DEF KeptIds, KeptBlocks
<1>12. HeldBy(<<>>) = "root"
  BY DEF HeldBy
<1>13. BlocksAt(t, <<>>) = NodeBlocks(root, "root")
  BY <1>8, <1>10, <1>12, BlocksOfNode
<1> QED BY <1>2, <1>4, <1>10, <1>11, <1>13

\* An array of one element more.
Grown(t, r) ==
  LET size == t[<<>>].cell.val + 1
      element == Under(Elem(size), r)
  IN [p \in DOMAIN t \cup DOMAIN element |->
        IF p = <<>> THEN [t[p] EXCEPT !.cell.val = size]
        ELSE IF p \in DOMAIN element THEN element[p] ELSE t[p]]

\* It has the nodes and blocks of both, but for the struct of the element.
LEMMA GrownTree ==
  ASSUME NEW t \in Trees, t # NULL, t[<<>>].cell.type = "ARRAY", t[<<>>].cell.val \in Nat,
         \A p \in DOMAIN t : p # <<>> => p[1][2] <= t[<<>>].cell.val,
         NEW r \in Trees, r # NULL, TreeIds(t) \cap TreeIds(r) = {},
         NEW g, g = Grown(t, r)
  PROVE  LET v == <<"value", r[<<>>].id>>
             l == <<"elements", t[<<>>].id>>
         IN /\ g \in Trees /\ g # NULL
            /\ g[<<>>].id = t[<<>>].id /\ g[<<>>].cell.type = "ARRAY"
            /\ g[<<>>].cell.val = t[<<>>].cell.val + 1
            /\ \A p \in DOMAIN g : p # <<>> => p[1][2] <= t[<<>>].cell.val + 1
            /\ TreeIds(g) \subseteq TreeIds(t) \cup TreeIds(r)
            /\ Blocks(g) = Blocks(t) \cup (Blocks(r) \ {v}) \cup {l}
            /\ v \notin Blocks(g)
<1> DEFINE size == t[<<>>].cell.val + 1
           u == Under(Elem(size), r)
           N == t[<<>>]
           root == [N EXCEPT !.cell.val = size]
           K == DOMAIN t \ {<<>>}
           v == <<"value", r[<<>>].id>>
           l == <<"elements", N.id>>
<1>1. Elem(size) \in Steps /\ Elem(size)[1] = "elem" /\ Elem(size)[2] = size /\ size \in Nat
  BY DEF Elem, Steps
<1>2. /\ TreeIds(u) = TreeIds(r) /\ Blocks(u) = Blocks(r) \ {v}
      /\ \A p \in DOMAIN u : u[p] \in Nodes
      /\ \A p, q \in DOMAIN u : u[p].id = u[q].id => p = q
      /\ r[<<>>].id \in TreeIds(r)
  BY <1>1, UnderBlocks
<1>3. /\ DOMAIN u \subseteq Positions /\ <<>> \notin DOMAIN u
      /\ \A p \in DOMAIN u : p[1] = Elem(size)
  <2> DEFINE e == Elem(size)
  <2>1. DOMAIN r \subseteq Positions /\ e \in Steps
    BY <1>1, TreeFacts
  <2> HIDE DEF e
  <2>2. DOMAIN Under(e, r) \subseteq Positions /\ <<>> \notin DOMAIN Under(e, r)
    BY <2>1, UnderShape
  <2>3. \A p \in DOMAIN Under(e, r) : p[1] = e
    BY <2>1, UnderShape
  <2> QED BY <2>2, <2>3 DEF e
<1>4. /\ DOMAIN t \subseteq Positions /\ \A p \in DOMAIN t : t[p] \in Nodes
      /\ \A p, q \in DOMAIN t : t[p].id = t[q].id => p = q
      /\ <<>> \in DOMAIN t
  BY TreeFacts DEF IsTree
<1>5. /\ root \in Nodes /\ root.id = N.id /\ root.cell.type = "ARRAY" /\ root.cell.val = size
  <2>1. N \in Nodes /\ N.cell \in Cells
    BY <1>4 DEF Nodes
  <2> HIDE DEF N, size
  <2>2. size \in Int
    BY <1>1
  <2>3. N = [cell |-> N.cell, id |-> N.id]
        /\ N.cell = [type |-> N.cell.type, width |-> N.cell.width, val |-> N.cell.val]
    BY <2>1 DEF Nodes, Cells
  <2>4. root = [cell |-> [type |-> N.cell.type, width |-> N.cell.width, val |-> size], id |-> N.id]
    BY <2>3
  <2>5. N.cell.type = "ARRAY"
    BY DEF N
  <2> QED BY <2>1, <2>2, <2>4, <2>5 DEF Nodes, Cells
<1>6. \A p \in DOMAIN u : u[p].id \in TreeIds(u)
  BY DEF TreeIds
<1>7. \A p \in DOMAIN t : t[p].id \in TreeIds(t)
  BY DEF TreeIds
<1>8. K \cap DOMAIN u = {}
  <2> SUFFICES ASSUME NEW p \in K, p \in DOMAIN u PROVE FALSE
    OBVIOUS
  <2>1. p[1][2] = size
    BY <1>1, <1>3
  <2>2. p[1][2] <= t[<<>>].cell.val
    OBVIOUS
  <2> QED BY <2>1, <2>2
<1>9. g = [p \in {<<>>} \cup K \cup DOMAIN u |->
             IF p = <<>> THEN root ELSE IF p \in K THEN t[p] ELSE u[p]]
  <2>1. DOMAIN t \cup DOMAIN u = {<<>>} \cup K \cup DOMAIN u
    BY <1>4
  <2>2. g = [p \in DOMAIN t \cup DOMAIN u |->
               IF p = <<>> THEN [t[p] EXCEPT !.cell.val = size]
               ELSE IF p \in DOMAIN u THEN u[p] ELSE t[p]]
    BY DEF Grown
  <2> HIDE DEF size, u
  <2>3. \A p \in {<<>>} \cup K \cup DOMAIN u :
          (IF p = <<>> THEN [t[p] EXCEPT !.cell.val = size]
           ELSE IF p \in DOMAIN u THEN u[p] ELSE t[p])
          = IF p = <<>> THEN root ELSE IF p \in K THEN t[p] ELSE u[p]
    BY <1>8
  <2> QED BY <2>1, <2>2, <2>3
<1>10. \A p \in K : t[p].id # root.id
  BY <1>4, <1>5
<1>11. \A p \in DOMAIN u : u[p].id # root.id /\ u[p].id \notin TreeIds(t)
  BY <1>2, <1>4, <1>5, <1>6, <1>7
<1>12. K \subseteq DOMAIN t /\ <<>> \notin K
  OBVIOUS
<1> HIDE DEF u, root, K
<1>13. IsGraft(g, t, K, root, u)
  BY <1>2, <1>3, <1>4, <1>5, <1>8, <1>9, <1>10, <1>11, <1>12 DEF IsGraft
<1>14. /\ g \in Trees /\ g # NULL /\ DOMAIN g = {<<>>} \cup K \cup DOMAIN u /\ g[<<>>] = root
       /\ TreeIds(g) = {root.id} \cup KeptIds(t, K) \cup TreeIds(u)
       /\ Blocks(g) = NodeBlocks(root, "root") \cup KeptBlocks(t, K) \cup Blocks(u)
  <2>1. GraftOwns(g, t, K, root, u)
    BY <1>13, Grafted
  <2> QED BY <2>1 DEF GraftOwns
<1>20. TreeIds(g) \subseteq TreeIds(t) \cup TreeIds(r)
  <2>1. KeptIds(t, K) \subseteq TreeIds(t)
    BY <1>7, <1>12 DEF KeptIds
  <2>2. root.id \in TreeIds(t)
    BY <1>4, <1>5, <1>7
  <2> QED BY <1>2, <1>14, <2>1, <2>2
<1>15. \A p \in DOMAIN g : p # <<>> => p[1][2] <= size
  <2>1. \A p \in K : p[1][2] <= size
    <3> SUFFICES ASSUME NEW p \in K PROVE p[1][2] <= size
      OBVIOUS
    <3>1. p \in DOMAIN t /\ p # <<>> /\ p \in Positions
      BY <1>4, <1>12
    <3>2. p[1] \in Steps /\ p[1][2] \in Int
      <4>1. Positions = Seq(Steps)
        BY DEF Positions, Steps
      <4>2. p[1] \in Steps
        BY <3>1, <4>1
      <4> QED BY <4>2 DEF Steps
    <3>3. p[1][2] <= t[<<>>].cell.val
      BY <3>1
    <3> QED BY <3>2, <3>3
  <2> QED BY <1>1, <1>3, <1>14, <2>1
<1>16. \A b : b \in Blocks(t) <=> \/ b \in NodeBlocks(N, "root")
                                  \/ \E p \in K : b \in NodeBlocks(t[p], HeldBy(p))
  <2>1. \A b : b \in Blocks(t) <=> \E p \in DOMAIN t : b \in NodeBlocks(t[p], HeldBy(p))
    BY <1>4, BlocksOfTree
  <2>2. HeldBy(<<>>) = "root"
    BY DEF HeldBy
  <2> QED BY <1>4, <2>1, <2>2 DEF K
<1>17. NodeBlocks(root, "root") = NodeBlocks(N, "root") \cup {l}
  <2>1. root.id = N.id /\ root.cell.type = "ARRAY" /\ root.cell.val > 0 /\ N.cell.type = "ARRAY"
    BY <1>5, <1>1
  <2> HIDE DEF N
  <2> QED BY <2>1 DEF NodeBlocks
<1>18. Blocks(g) = Blocks(t) \cup (Blocks(r) \ {v}) \cup {l}
  <2> HIDE DEF v, l, N
  <2>1. \A b : b \in KeptBlocks(t, K) <=> \E p \in K : b \in NodeBlocks(t[p], HeldBy(p))
    BY DEF KeptBlocks
  <2>2. Blocks(t) = NodeBlocks(N, "root") \cup KeptBlocks(t, K)
    BY <1>16, <2>1
  <2> QED BY <1>2, <1>14, <1>17, <2>2
<1>19. v \notin Blocks(g)
  <2>1. v[2] \in TreeIds(r) /\ v # l
    BY <1>2, <1>7
  <2>2. v \notin Blocks(t)
    <3>1. \A b \in Blocks(t) : b[2] \in TreeIds(t)
      BY <1>4, BlocksInIds
    <3> HIDE DEF v
    <3> QED BY <2>1, <3>1
  <2> HIDE DEF v, l
  <2> QED BY <1>18, <2>1, <2>2
<1> QED BY <1>1, <1>5, <1>14, <1>15, <1>18, <1>19, <1>20

\* A map with one entry replaced or added.
WithEntry(t, k, r) ==
  LET entry == Under(Key(k), r)
      kept == {p \in DOMAIN t : p = <<>> \/ p[1] # Key(k)}
      size == Cardinality({p \in kept : Len(p) = 1}) + 1
  IN [p \in kept \cup DOMAIN entry |->
        IF p = <<>> THEN [t[p] EXCEPT !.cell.val = size]
        ELSE IF p \in kept THEN t[p] ELSE entry[p]]

\* It has one entry more at most, and all blocks of the new one.
LEMMA MapTree ==
  ASSUME NEW t \in Trees, t # NULL, t[<<>>].cell.type = "MAP",
         IsFiniteSet(Entries(t)),
         NEW k \in Int, NEW r \in Trees, r # NULL, TreeIds(t) \cap TreeIds(r) = {},
         NEW g, g = WithEntry(t, k, r)
  PROVE  /\ g \in Trees /\ g # NULL
         /\ g[<<>>].id = t[<<>>].id /\ g[<<>>].cell.type = "MAP" /\ g[<<>>].cell.val \in Nat
         /\ IsFiniteSet(Entries(g)) /\ Cardinality(Entries(g)) <= Cardinality(Entries(t)) + 1
         /\ TreeIds(g) \subseteq TreeIds(t) \cup TreeIds(r)
         /\ Blocks(r) \subseteq Blocks(g)
<1> DEFINE u == Under(Key(k), r)
           kept == {p \in DOMAIN t : p = <<>> \/ p[1] # Key(k)}
           E == {p \in kept : Len(p) = 1}
           size == Cardinality(E) + 1
           N == t[<<>>]
           root == [N EXCEPT !.cell.val = size]
           K == kept \ {<<>>}
<1>1. Key(k) \in Steps /\ Key(k)[1] = "key"
  BY DEF Key, Steps
<1>2. /\ TreeIds(u) = TreeIds(r) /\ Blocks(r) \subseteq Blocks(u)
      /\ \A p \in DOMAIN u : u[p] \in Nodes
      /\ \A p, q \in DOMAIN u : u[p].id = u[q].id => p = q
  BY <1>1, UnderBlocks
<1>3. /\ DOMAIN u \subseteq Positions /\ <<>> \notin DOMAIN u
      /\ \A p \in DOMAIN u : p[1] = Key(k) /\ Tail(p) \in DOMAIN r /\ p = <<Key(k)>> \o Tail(p)
  <2>1. DOMAIN r \subseteq Positions
    BY TreeFacts
  <2>2. DOMAIN Under(Key(k), r) \subseteq Positions /\ <<>> \notin DOMAIN Under(Key(k), r)
    BY <1>1, <2>1, UnderShape
  <2>3. \A p \in DOMAIN Under(Key(k), r) :
          p[1] = Key(k) /\ Tail(p) \in DOMAIN r /\ p = <<Key(k)>> \o Tail(p)
    BY <1>1, <2>1, UnderShape
  <2> QED BY <2>2, <2>3
<1>4. /\ DOMAIN t \subseteq Positions /\ \A p \in DOMAIN t : t[p] \in Nodes
      /\ \A p, q \in DOMAIN t : t[p].id = t[q].id => p = q
      /\ <<>> \in DOMAIN t
  BY TreeFacts DEF IsTree
<1>5. E \subseteq Entries(t) /\ IsFiniteSet(E) /\ Cardinality(E) \in Nat
      /\ Cardinality(Entries(t)) \in Nat /\ Cardinality(E) <= Cardinality(Entries(t))
  <2>1. E \subseteq Entries(t)
    BY DEF Entries
  <2> HIDE DEF E
  <2> QED BY <2>1, FS_Subset, FS_CardinalityType
<1>6. /\ root \in Nodes /\ root.id = N.id /\ root.cell.type = "MAP" /\ root.cell.val = size
      /\ size \in Nat
  <2>0. size \in Nat
    BY <1>5
  <2>1. N \in Nodes /\ N.cell \in Cells
    BY <1>4 DEF Nodes
  <2> HIDE DEF N, size
  <2>3. N = [cell |-> N.cell, id |-> N.id]
        /\ N.cell = [type |-> N.cell.type, width |-> N.cell.width, val |-> N.cell.val]
    BY <2>1 DEF Nodes, Cells
  <2>4. root = [cell |-> [type |-> N.cell.type, width |-> N.cell.width, val |-> size], id |-> N.id]
    BY <2>3
  <2>5. N.cell.type = "MAP"
    BY DEF N
  <2> QED BY <2>0, <2>1, <2>4, <2>5 DEF Nodes, Cells
<1>7. \A p \in DOMAIN u : u[p].id \in TreeIds(u)
  BY DEF TreeIds
<1>8. \A p \in DOMAIN t : t[p].id \in TreeIds(t)
  BY DEF TreeIds
<1>9. K \cap DOMAIN u = {} /\ K \subseteq DOMAIN t /\ <<>> \notin K
  BY <1>3
<1>10. g = [p \in {<<>>} \cup K \cup DOMAIN u |->
              IF p = <<>> THEN root ELSE IF p \in K THEN t[p] ELSE u[p]]
  <2>1. kept \cup DOMAIN u = {<<>>} \cup K \cup DOMAIN u
    BY <1>4
  <2>2. g = [p \in kept \cup DOMAIN u |->
               IF p = <<>> THEN [t[p] EXCEPT !.cell.val = size]
               ELSE IF p \in kept THEN t[p] ELSE u[p]]
    BY DEF WithEntry
  <2> HIDE DEF size, u, kept
  <2>3. \A p \in {<<>>} \cup K \cup DOMAIN u :
          (IF p = <<>> THEN [t[p] EXCEPT !.cell.val = size]
           ELSE IF p \in kept THEN t[p] ELSE u[p])
          = IF p = <<>> THEN root ELSE IF p \in K THEN t[p] ELSE u[p]
    BY <1>9
  <2> QED BY <2>1, <2>2, <2>3
<1>11. \A p \in K : t[p].id # root.id
  BY <1>4, <1>6
<1>12. \A p \in DOMAIN u : u[p].id # root.id /\ u[p].id \notin TreeIds(t)
  BY <1>2, <1>4, <1>6, <1>7, <1>8
<1>13. \A p \in K : Len(p) = 1 => p \in E
  OBVIOUS
<1> HIDE DEF u, root, K
<1>14. IsGraft(g, t, K, root, u)
  BY <1>2, <1>3, <1>4, <1>6, <1>9, <1>10, <1>11, <1>12 DEF IsGraft
<1>15. /\ g \in Trees /\ g # NULL /\ DOMAIN g = {<<>>} \cup K \cup DOMAIN u /\ g[<<>>] = root
       /\ TreeIds(g) = {root.id} \cup KeptIds(t, K) \cup TreeIds(u)
       /\ Blocks(g) = NodeBlocks(root, "root") \cup KeptBlocks(t, K) \cup Blocks(u)
  <2>1. GraftOwns(g, t, K, root, u)
    BY <1>14, Grafted
  <2> QED BY <2>1 DEF GraftOwns
<1>16. TreeIds(g) \subseteq TreeIds(t) \cup TreeIds(r)
  <2>1. KeptIds(t, K) \subseteq TreeIds(t)
    BY <1>8, <1>9 DEF KeptIds
  <2>2. root.id \in TreeIds(t)
    BY <1>4, <1>6, <1>8
  <2> QED BY <1>2, <1>15, <2>1, <2>2
<1>17. Entries(g) \subseteq E \cup {<<Key(k)>>}
  <2> SUFFICES ASSUME NEW p \in DOMAIN g, Len(p) = 1 PROVE p \in E \cup {<<Key(k)>>}
    BY DEF Entries
  <2>1. p # <<>>
    OBVIOUS
  <2>2. CASE p \in K
    BY <1>13, <2>2
  <2>3. CASE p \in DOMAIN u
    <3>1. p \in Positions /\ p[1] = Key(k)
      BY <1>3, <2>3
    <3>2. p \in Seq(Steps)
      BY <3>1 DEF Positions, Steps
    <3>3. p = <<p[1]>>
      BY <3>2
    <3> QED BY <3>1, <3>3
  <2> QED BY <1>15, <2>1, <2>2, <2>3
<1>18. IsFiniteSet(Entries(g)) /\ Cardinality(Entries(g)) <= Cardinality(Entries(t)) + 1
  <2> DEFINE x == <<Key(k)>>
             M == E \cup {x}
  <2>1. Entries(g) \subseteq M
    BY <1>17
  <2> HIDE DEF E
  <2>2. IsFiniteSet(M) /\ Cardinality(M) \in Nat /\ Cardinality(M) <= Cardinality(E) + 1
    <3> HIDE DEF x
    <3>1. IsFiniteSet(E)
      BY <1>5
    <3>2. /\ IsFiniteSet(E \cup {x})
          /\ Cardinality(E \cup {x}) = IF x \in E THEN Cardinality(E) ELSE Cardinality(E) + 1
      BY <3>1, FS_AddElement
    <3> QED BY <1>5, <3>2
  <2> HIDE DEF M
  <2>3. /\ IsFiniteSet(Entries(g)) /\ Cardinality(Entries(g)) <= Cardinality(M)
        /\ Cardinality(Entries(g)) \in Nat
    BY <2>1, <2>2, FS_Subset, FS_CardinalityType
  <2> QED BY <1>5, <2>2, <2>3
<1>19. Blocks(r) \subseteq Blocks(g)
  BY <1>2, <1>15
<1> QED BY <1>6, <1>15, <1>16, <1>18, <1>19

-----------------------------------------------------------------------------
(* What each step makes of a frame *)

\* One value less to read.
Counted(f) == [f EXCEPT !.left = IF @ = INDEFINITE THEN @ ELSE @ - 1]

Updated(f, t, m, c) == Counted([f EXCEPT !.tree = t, !.room = m, !.loopCount = c])

\* The fields of a frame with a new tree.
LEMMA FrameUpdate ==
  ASSUME NEW f \in Frames, NEW t \in Trees, NEW m \in Nat, NEW c \in Nat,
         NEW g, g = Updated(f, t, m, c)
  PROVE  /\ g \in Records /\ g.kind = f.kind /\ g.tree = t /\ g.id = f.id /\ g.room = m
         /\ g.loopCount = c
         /\ g.left = IF f.left = INDEFINITE THEN INDEFINITE ELSE f.left - 1
<1>1. f \in Records
  BY FrameFacts
<1>2. f = [kind |-> f.kind, tree |-> f.tree, id |-> f.id, left |-> f.left, room |-> f.room,
           loopCount |-> f.loopCount, key |-> f.key]
  BY <1>1 DEF Records
<1>3. g = [kind |-> f.kind, tree |-> t, id |-> f.id,
           left |-> IF f.left = INDEFINITE THEN f.left ELSE f.left - 1, room |-> m,
           loopCount |-> c, key |-> f.key]
  BY <1>2 DEF Updated, Counted
<1>4. (IF f.left = INDEFINITE THEN f.left ELSE f.left - 1) \in Int
  BY <1>1 DEF Records
<1> QED BY <1>1, <1>3, <1>4 DEF Records

\* An array takes a value in: it loses its struct.
LEMMA ArrayFrame ==
  ASSUME NEW f \in Frames, f.kind = "ARRAY", Waiting(f),
         NEW r \in Trees, r # NULL, FrameIds(f) \cap TreeIds(r) = {},
         NEW t, t = Grown(f.tree, r),
         NEW m, m = IF f.tree[<<>>].cell.val + 1 > f.room THEN f.tree[<<>>].cell.val + 1 ELSE f.room,
         NEW g, g = Updated(f, t, m, f.loopCount)
  PROVE  LET v == <<"value", r[<<>>].id>>
             l == <<"elements", f.id>>
         IN /\ g \in Frames /\ g.kind = "ARRAY" /\ g.tree = t /\ g.room = m /\ g.id = f.id
            /\ FrameIds(g) \subseteq FrameIds(f) \cup TreeIds(r)
            /\ FrameBlocks(g) = FrameBlocks(f) \cup (Blocks(r) \ {v}) \cup {l}
            /\ v \notin FrameBlocks(g) /\ t[<<>>].cell.val > 0
<1> DEFINE n == f.tree[<<>>].cell.val
           v == <<"value", r[<<>>].id>>
           l == <<"elements", f.id>>
<1>1. IsArray(f)
  BY FrameFacts DEF IsFrame, IsTag, IsMap
<1>2. /\ f.tree \in Trees /\ f.tree # NULL /\ f.tree[<<>>].id = f.id
      /\ f.tree[<<>>].cell.type = "ARRAY" /\ n \in Nat
      /\ \A p \in DOMAIN f.tree : p # <<>> => p[1][2] <= n
      /\ IF f.left = INDEFINITE THEN f.room = n ELSE f.left \in Nat /\ n + f.left = f.room
      /\ f.room \in Nat /\ f.loopCount \in Nat /\ f.left \in Int /\ f.left # 0
  BY <1>1, FrameFacts DEF IsArray, IsContainer, Waiting
<1>3. TreeIds(f.tree) \cap TreeIds(r) = {} /\ f.id \notin TreeIds(r)
  BY DEF FrameIds
<1> DEFINE F == f.tree
<1>4. /\ t \in Trees /\ t # NULL /\ t[<<>>].id = f.id /\ t[<<>>].cell.type = "ARRAY"
      /\ t[<<>>].cell.val = n + 1
      /\ \A p \in DOMAIN t : p # <<>> => p[1][2] <= n + 1
      /\ TreeIds(t) \subseteq TreeIds(F) \cup TreeIds(r)
      /\ Blocks(t) = Blocks(F) \cup (Blocks(r) \ {v}) \cup {l}
      /\ v \notin Blocks(t)
  <2>1. /\ F \in Trees /\ F # NULL /\ F[<<>>].cell.type = "ARRAY" /\ F[<<>>].cell.val \in Nat
        /\ \A p \in DOMAIN F : p # <<>> => p[1][2] <= F[<<>>].cell.val
        /\ TreeIds(F) \cap TreeIds(r) = {}
    BY <1>2, <1>3
  <2>2. t = Grown(F, r)
    OBVIOUS
  <2>3. F[<<>>].id = f.id /\ F[<<>>].cell.val = n
    BY <1>2
  <2> HIDE DEF F
  <2>4. LET w == <<"value", r[<<>>].id>>
            k == <<"elements", F[<<>>].id>>
        IN /\ t \in Trees /\ t # NULL
           /\ t[<<>>].id = F[<<>>].id /\ t[<<>>].cell.type = "ARRAY"
           /\ t[<<>>].cell.val = F[<<>>].cell.val + 1
           /\ \A p \in DOMAIN t : p # <<>> => p[1][2] <= F[<<>>].cell.val + 1
           /\ TreeIds(t) \subseteq TreeIds(F) \cup TreeIds(r)
           /\ Blocks(t) = Blocks(F) \cup (Blocks(r) \ {w}) \cup {k}
           /\ w \notin Blocks(t)
    BY <2>1, <2>2, GrownTree
  <2> QED BY <2>3, <2>4
<1>5. m \in Nat /\ m > 0 /\ (IF f.left = INDEFINITE THEN m = n + 1 ELSE m = f.room)
  BY <1>2 DEF INDEFINITE
<1>6. /\ g \in Records /\ g.kind = "ARRAY" /\ g.tree = t /\ g.id = f.id /\ g.room = m
      /\ g.left = IF f.left = INDEFINITE THEN INDEFINITE ELSE f.left - 1
  <2> DEFINE c == f.loopCount
  <2>1. c \in Nat /\ t \in Trees /\ m \in Nat /\ g = Updated(f, t, m, c)
    BY <1>2, <1>4, <1>5
  <2> HIDE DEF c
  <2> QED BY <2>1, FrameUpdate
<1>7. IF g.left = INDEFINITE THEN g.room = n + 1 ELSE g.left \in Nat /\ n + 1 + g.left = g.room
  <2> HIDE DEF n
  <2> QED BY <1>2, <1>5, <1>6 DEF INDEFINITE
<1>8. IsArray(g)
  <2>1. IsContainer(g)
    <3>1. n + 1 \in Nat
      BY <1>2
    <3> HIDE DEF n
    <3> QED BY <1>4, <1>6, <3>1 DEF IsContainer
  <2> QED BY <1>4, <1>6, <1>7, <2>1 DEF IsArray
<1>9. g \in Frames
  BY <1>6, <1>8 DEF Frames, IsFrame
<1>10. FrameIds(g) \subseteq FrameIds(f) \cup TreeIds(r)
  BY <1>4, <1>6 DEF FrameIds
<1>11. FrameBlocks(g) = Blocks(t) \cup {l}
  BY <1>5, <1>6 DEF FrameBlocks
<1>12. FrameBlocks(f) \cup {l} = Blocks(F) \cup {l}
  BY DEF FrameBlocks
<1>13. v # l
  OBVIOUS
<1>14. t[<<>>].cell.val > 0
  <2> HIDE DEF n
  <2> QED BY <1>2, <1>4
<1> HIDE DEF v, l, F
<1>15. FrameBlocks(g) = FrameBlocks(f) \cup (Blocks(r) \ {v}) \cup {l} /\ v \notin FrameBlocks(g)
  BY <1>4, <1>11, <1>12, <1>13
<1> QED BY <1>6, <1>9, <1>10, <1>14, <1>15 DEF v, l

\* An array drops a value: only one of indefinite length can.
LEMMA ArrayKeeps ==
  ASSUME NEW f \in Frames, f.kind = "ARRAY", Waiting(f), f.tree[<<>>].cell.val + 1 > f.room
  PROVE  Counted(f) \in Frames /\ Counted(f).kind = "ARRAY"
         /\ FrameIds(Counted(f)) = FrameIds(f) /\ FrameBlocks(Counted(f)) = FrameBlocks(f)
         /\ Reached(Counted(f), at)
<1>1. IsArray(f) /\ f \in Records
  BY FrameFacts DEF IsFrame, IsTag, IsMap
<1>2. f.left = INDEFINITE
  BY <1>1 DEF IsArray, IsContainer, Waiting, Records, INDEFINITE
<1>3. Counted(f) = f
  <2>1. f = [kind |-> f.kind, tree |-> f.tree, id |-> f.id, left |-> f.left, room |-> f.room,
             loopCount |-> f.loopCount, key |-> f.key]
    BY <1>1 DEF Records
  <2>2. Counted(f) = [kind |-> f.kind, tree |-> f.tree, id |-> f.id, left |-> f.left,
                      room |-> f.room, loopCount |-> f.loopCount, key |-> f.key]
    BY <1>2, <2>1 DEF Counted
  <2> QED BY <2>1, <2>2
<1>4. Reached(f, at)
  BY <1>1, <1>2 DEF IsArray, Reached
<1> QED BY <1>3, <1>4

\* A map has no slots.
LEMMA MapReached ==
  ASSUME NEW g \in Frames, g.kind = "MAP"
  PROVE  Reached(g, at)
  BY DEF Frames, IsFrame, IsTag, IsArray, IsMap, Reached

\* A map takes a value in.
LEMMA MapFrame ==
  ASSUME NEW f \in Frames, f.kind = "MAP", Waiting(f),
         NEW r \in Trees, r # NULL, FrameIds(f) \cap TreeIds(r) = {},
         NEW t, t = WithEntry(f.tree, f.key, r),
         NEW g, g = Updated(f, t, f.room, f.loopCount + 1)
  PROVE  /\ g \in Frames /\ g.kind = "MAP" /\ g.tree = t
         /\ FrameIds(g) \subseteq FrameIds(f) \cup TreeIds(r)
         /\ FrameBlocks(f) = Blocks(f.tree) /\ FrameBlocks(g) = Blocks(t)
         /\ Blocks(r) \subseteq Blocks(t)
<1>1. IsMap(f)
  BY FrameFacts DEF IsFrame, IsTag, IsArray
<1>2. /\ f.tree \in Trees /\ f.tree # NULL /\ f.tree[<<>>].id = f.id
      /\ f.tree[<<>>].cell.type = "MAP" /\ f.room = 0
      /\ IsFiniteSet(Entries(f.tree)) /\ Cardinality(Entries(f.tree)) <= f.loopCount
      /\ f.loopCount \in Nat /\ f.key \in Int
  BY <1>1, FrameFacts DEF IsMap, IsContainer
<1>3. TreeIds(f.tree) \cap TreeIds(r) = {}
  BY DEF FrameIds
<1> DEFINE F == f.tree
           k == f.key
<1>4. /\ t \in Trees /\ t # NULL
      /\ t[<<>>].id = F[<<>>].id /\ t[<<>>].cell.type = "MAP" /\ t[<<>>].cell.val \in Nat
      /\ IsFiniteSet(Entries(t)) /\ Cardinality(Entries(t)) <= Cardinality(Entries(F)) + 1
      /\ TreeIds(t) \subseteq TreeIds(F) \cup TreeIds(r)
      /\ Blocks(r) \subseteq Blocks(t)
  <2>1. /\ F \in Trees /\ F # NULL /\ F[<<>>].cell.type = "MAP" /\ IsFiniteSet(Entries(F))
        /\ k \in Int /\ TreeIds(F) \cap TreeIds(r) = {}
    BY <1>2, <1>3
  <2>2. t = WithEntry(F, k, r)
    OBVIOUS
  <2> HIDE DEF F, k
  <2> QED BY <2>1, <2>2, MapTree
<1>5. /\ g \in Records /\ g.kind = "MAP" /\ g.tree = t /\ g.id = f.id /\ g.room = 0
      /\ g.loopCount = f.loopCount + 1
  BY <1>2, <1>4, FrameUpdate
<1>6. Cardinality(Entries(t)) <= g.loopCount
  <2>1. Cardinality(Entries(t)) \in Nat /\ Cardinality(Entries(F)) \in Nat
    BY <1>2, <1>4, FS_CardinalityType
  <2>2. Cardinality(Entries(F)) <= f.loopCount
    BY <1>2
  <2> HIDE DEF F
  <2> QED BY <1>2, <1>4, <1>5, <2>1, <2>2
<1>7. IsMap(g)
  <2>1. IsContainer(g)
    BY <1>2, <1>4, <1>5 DEF IsContainer
  <2> QED BY <1>4, <1>5, <1>6, <2>1 DEF IsMap
<1>8. g \in Frames
  BY <1>5, <1>7 DEF Frames, IsFrame
<1>9. FrameIds(g) \subseteq FrameIds(f) \cup TreeIds(r)
  BY <1>4, <1>5 DEF FrameIds
<1>10. FrameBlocks(f) = Blocks(f.tree) /\ FrameBlocks(g) = Blocks(t)
  BY <1>2, <1>5 DEF FrameBlocks
<1> QED BY <1>4, <1>5, <1>8, <1>9, <1>10

\* A map that drops a value goes on to its next turn.
LEMMA MapKeeps ==
  ASSUME NEW f \in Frames, f.kind = "MAP",
         NEW g, g = Updated(f, f.tree, f.room, f.loopCount + 1)
  PROVE  /\ g \in Frames /\ g.kind = "MAP"
         /\ FrameIds(g) = FrameIds(f) /\ FrameBlocks(g) = FrameBlocks(f)
<1>1. IsMap(f)
  BY FrameFacts DEF IsFrame, IsTag, IsArray
<1>2. /\ f.tree \in Trees /\ f.room \in Nat /\ f.loopCount \in Nat
      /\ IsFiniteSet(Entries(f.tree)) /\ Cardinality(Entries(f.tree)) <= f.loopCount
      /\ Cardinality(Entries(f.tree)) \in Nat
  BY <1>1, FrameFacts, FS_CardinalityType DEF IsMap
<1>3. /\ g \in Records /\ g.kind = "MAP" /\ g.tree = f.tree /\ g.id = f.id /\ g.room = f.room
      /\ g.loopCount = f.loopCount + 1
  BY <1>2, FrameUpdate
<1>4. IsMap(g)
  BY <1>1, <1>2, <1>3 DEF IsMap, IsContainer
<1> QED BY <1>3, <1>4 DEF Frames, IsFrame, FrameIds, FrameBlocks

\* A frame that gets a key.
LEMMA FrameKey ==
  ASSUME NEW f \in Frames, f.kind = "MAP", NEW k \in Int
  PROVE  LET g == [f EXCEPT !.key = k] IN
         /\ g \in Frames /\ g.kind = "MAP" /\ g.loopCount = f.loopCount
         /\ FrameIds(g) = FrameIds(f) /\ FrameBlocks(g) = FrameBlocks(f)
<1> DEFINE g == [f EXCEPT !.key = k]
<1>1. IsMap(f) /\ f \in Records
  BY FrameFacts DEF IsFrame, IsTag, IsArray
<1>2. f = [kind |-> f.kind, tree |-> f.tree, id |-> f.id, left |-> f.left, room |-> f.room,
           loopCount |-> f.loopCount, key |-> f.key]
  BY <1>1 DEF Records
<1>3. g = [kind |-> f.kind, tree |-> f.tree, id |-> f.id, left |-> f.left, room |-> f.room,
           loopCount |-> f.loopCount, key |-> k]
  BY <1>2
<1>4. /\ g \in Records /\ g.kind = f.kind /\ g.tree = f.tree /\ g.id = f.id /\ g.room = f.room
      /\ g.loopCount = f.loopCount
  BY <1>1, <1>3 DEF Records
<1> HIDE DEF g
<1>5. IsMap(g)
  BY <1>1, <1>4 DEF IsMap, IsContainer
<1>6. g \in Frames /\ g.kind = "MAP" /\ g.loopCount = f.loopCount
      /\ FrameIds(g) = FrameIds(f) /\ FrameBlocks(g) = FrameBlocks(f)
  BY <1>4, <1>5 DEF Frames, IsFrame, FrameIds, FrameBlocks
<1> QED BY <1>6 DEF g

-----------------------------------------------------------------------------
(* The encoders *)

\* What is encoded is what the constructors build.
LEMMA ValueFacts ==
  ASSUME NEW v \in Values
  PROVE  /\ IsFiniteSet(DOMAIN v) /\ <<>> \in DOMAIN v /\ DOMAIN v \subseteq Positions
         /\ \A p \in DOMAIN v : /\ v[p] \in Cells
                                /\ v[p].type \in {"ARRAY", "MAP"} => v[p].val >= 0
                                /\ v[p].type = "ARRAY" =>
                                     \A i \in 1 .. v[p].val : Append(p, Elem(i)) \in DOMAIN v
<1>1. IsValue(v)
  BY SerializationAssumption
<1>2. /\ IsFiniteSet(DOMAIN v) /\ <<>> \in DOMAIN v /\ DOMAIN v \subseteq Positions
      /\ \A p \in DOMAIN v : v[p] \in Cells
  BY <1>1 DEF IsValue
<1>3. ASSUME NEW p \in DOMAIN v, v[p].type = "ARRAY"
      PROVE  v[p].val >= 0 /\ \A i \in 1 .. v[p].val : Append(p, Elem(i)) \in DOMAIN v
  <2>1. v[p].val >= 0 /\ Children(v, p) = {Append(p, Elem(i)) : i \in 1 .. v[p].val}
    BY <1>1, <1>3 DEF IsValue
  <2>2. Children(v, p) \subseteq DOMAIN v
    BY DEF Children
  <2> QED BY <2>1, <2>2
<1>4. ASSUME NEW p \in DOMAIN v, v[p].type = "MAP"
      PROVE  v[p].val >= 0
  <2>1. v[p].val = Cardinality(Children(v, p))
    BY <1>1, <1>4 DEF IsValue
  <2>2. Cardinality(Children(v, p)) \in Nat
    <3>1. Children(v, p) \subseteq DOMAIN v
      BY DEF Children
    <3> QED BY <1>2, <3>1, FS_Subset, FS_CardinalityType
  <2> QED BY <2>1, <2>2
<1> QED BY <1>2, <1>3, <1>4

\* The items of a position.
LEMMA ItemTypes ==
  ASSUME src \in Values, NEW p \in DOMAIN src
  PROVE  /\ KeyItem(p) \in Seq(Items) /\ HeadItem(src[p]) \in Items /\ Break \in Items
         /\ src[p].type \in {"ARRAY", "MAP"} => Item(src[p].type, INDEFINITE) \in Items
<1>1. src[p] \in Cells /\ (src[p].type \in {"ARRAY", "MAP"} => src[p].val >= 0)
  BY ValueFacts
<1>2. /\ src[p].type \in Types /\ src[p].val \in Int
  BY <1>1 DEF Cells
<1>3. HeadItem(src[p]) \in Items
  <2>1. CASE src[p].type \in {"UINT", "INT"}
    <3>1. HeadItem(src[p]) = [major |-> IF src[p].val >= 0 THEN "UINT" ELSE "NINT", arg |-> src[p].val]
      BY <2>1 DEF HeadItem, Item
    <3> QED BY <1>2, <3>1 DEF Items, Types
  <2>2. CASE src[p].type \notin {"UINT", "INT"}
    <3>1. HeadItem(src[p]) = [major |-> src[p].type, arg |-> src[p].val]
      BY <2>2 DEF HeadItem, Item
    <3> QED BY <1>1, <1>2, <3>1 DEF Items, INDEFINITE
  <2> QED BY <2>1, <2>2
<1>4. Break \in Items
  BY DEF Break, Item, Items
<1>5. src[p].type \in {"ARRAY", "MAP"} => Item(src[p].type, INDEFINITE) \in Items
  BY <1>2 DEF Item, Items, INDEFINITE
<1>6. KeyItem(p) \in Seq(Items)
  <2>1. CASE p # <<>> /\ Last(p)[1] = "key"
    <3>1. p \in Seq(Steps)
      BY ValueFacts DEF Positions, Steps
    <3>2. Last(p) \in Steps
      BY <2>1, <3>1, FrontLast
    <3>3. Last(p)[2] \in Int
      BY <3>2 DEF Steps
    <3>4. Item("UINT", Last(p)[2]) \in Items
      BY <3>3 DEF Item, Items, Types
    <3>5. KeyItem(p) = <<Item("UINT", Last(p)[2])>>
      BY <2>1 DEF KeyItem
    <3> QED BY <3>4, <3>5
  <2>2. CASE ~(p # <<>> /\ Last(p)[1] = "key")
    <3>1. KeyItem(p) = <<>>
      BY <2>2 DEF KeyItem
    <3> QED BY <3>1
  <2> QED BY <2>1, <2>2
<1> QED BY <1>3, <1>4, <1>5, <1>6

\* A position's children are positions of the value.
LEMMA ChildOrdersType ==
  ASSUME src \in Values, NEW p \in DOMAIN src, NEW order \in ChildOrders(p)
  PROVE  order \in Seq(DOMAIN src)
<1> DEFINE D == DOMAIN src
<1>1. CASE src[p].type = "ARRAY"
  <2>1. order = [i \in 1 .. src[p].val |-> Append(p, Elem(i))]
    BY <1>1 DEF ChildOrders
  <2>2. src[p].val \in Nat /\ \A i \in 1 .. src[p].val : Append(p, Elem(i)) \in D
    BY <1>1, ValueFacts DEF Cells
  <2> HIDE DEF D
  <2> DEFINE n == src[p].val
             c(i) == Append(p, Elem(i))
  <2>3. order = [i \in 1 .. n |-> c(i)] /\ n \in Nat /\ \A i \in 1 .. n : c(i) \in D
    BY <2>1, <2>2
  <2> HIDE DEF n, c
  <2>4. order \in [1 .. n -> D]
    BY <2>3
  <2>5. order \in Seq(D)
    BY <2>3, <2>4
  <2> QED BY <2>5 DEF D
<1>2. CASE src[p].type # "ARRAY"
  <2> DEFINE S == ChildrenOf(p)
             n == Cardinality(S)
  <2>1. order \in SetToSeqs(S)
    BY <1>2 DEF ChildOrders
  <2>2. S \subseteq D
    BY DEF ChildrenOf, Children
  <2>3. IsFiniteSet(D)
    BY ValueFacts
  <2> HIDE DEF S, D
  <2>4. n \in Nat
    BY <2>2, <2>3, FS_Subset, FS_CardinalityType
  <2>5. order \in [1 .. n -> S]
    BY <2>1 DEF SetToSeqs
  <2> HIDE DEF n
  <2>6. order \in [1 .. n -> D]
    BY <2>2, <2>5
  <2>7. order \in Seq(D)
    BY <2>4, <2>6
  <2> QED BY <2>7 DEF D
<1> QED BY <1>1, <1>2

\* No step of an encoder touches the decoder.
LEMMA EncoderStep ==
  ASSUME IInv, pc \in {"idle", "encode", "peer"}, pc' \in {"idle", "encode", "peer", "encoded"},
         UNCHANGED <<at, stack, ret, heap, dropped, oom>>, EncoderOK'
  PROVE  IInv'
<1>1. at = 1 /\ stack = <<>> /\ heap = {} /\ dropped = {}
  BY DEF IInv, FreshOK
<1>2. PCOK' /\ FreshOK'
  BY <1>1 DEF PCOK, FreshOK
<1>3. Held = NULL /\ Held' = NULL
  BY DEF Held
<1>4. Accounted'
  BY <1>3 DEF IInv, Accounted
<1>5. DecoderOK'
  <2>1. at' \in 1 .. Len(buf') + 1
    <3>1. Len(buf') \in Nat
      BY DEF EncoderOK
    <3> QED BY <1>1, <3>1
  <2>2. /\ ret' \in Trees /\ stack' \in Seq(Frames) /\ Len(stack') <= CORECONF_MAX_DEPTH + 1
        /\ \A i \in DOMAIN stack' : FALSE
    BY <1>1 DEF IInv, DecoderOK
  <2> QED BY <2>1, <2>2 DEF DecoderOK
<1> QED BY <1>2, <1>4, <1>5 DEF IInv

\* Encoding begins.
LEMMA BeginPreserves ==
  ASSUME IInv, NEW v \in Values, Encode(v) \/ PeerEncodes(v)
  PROVE  IInv'
<1>1. /\ pc = "idle" /\ pc' \in {"encode", "peer"} /\ src' = v /\ todo' = <<<<>>>> /\ buf' = <<>>
      /\ UNCHANGED <<at, stack, ret, heap, dropped, oom>>
  BY DEF Encode, PeerEncodes, StartEncoding
<1>2. <<>> \in DOMAIN v
  BY ValueFacts
<1> DEFINE D == DOMAIN v
           e == <<>>
<1>3. e \in D
  BY <1>2
<1> HIDE DEF D, e
<1>4. <<e>> \in Seq(D) /\ <<e>> \in Seq(D \cup {Closing})
  BY <1>3
<1>5. todo' \in Seq(DOMAIN src') /\ todo' \in Seq(DOMAIN src' \cup {Closing})
  BY <1>1, <1>4 DEF D, e
<1>6. EncoderOK'
  BY <1>1, <1>5 DEF EncoderOK
<1> QED BY <1>1, <1>6, EncoderStep

\* Malformed input arrives.
LEMMA ReceivePreserves ==
  ASSUME IInv, NEW items \in Malformed, Receive(items)
  PROVE  IInv'
<1>1. items \in Seq(Items)
  BY SerializationAssumption
<1>2. EncoderOK'
  BY <1>1 DEF Receive, EncoderOK
<1> QED BY <1>2, EncoderStep DEF Receive

\* One position is encoded.
LEMMA EncodeStepPreserves ==
  ASSUME IInv, EncodeStep
  PROVE  IInv'
<1>1. /\ pc = "encode" /\ todo # <<>> /\ src \in Values /\ todo \in Seq(DOMAIN src) /\ buf \in Seq(Items)
  BY DEF IInv, EncoderOK, EncodeStep
<1> DEFINE D == DOMAIN src
<1>2. Head(todo) \in D /\ Tail(todo) \in Seq(D)
  BY <1>1
<1>3. KeyItem(Head(todo)) \in Seq(Items) /\ HeadItem(src[Head(todo)]) \in Items
  BY <1>1, <1>2, ItemTypes
<1>4. buf' \in Seq(Items)
  <2> DEFINE k == KeyItem(Head(todo))
             x == HeadItem(src[Head(todo)])
  <2>1. buf' = buf \o Append(k, x)
    BY DEF EncodeStep
  <2>2. k \in Seq(Items) /\ x \in Items
    BY <1>3
  <2> HIDE DEF k, x
  <2>3. Append(k, x) \in Seq(Items)
    BY <2>2
  <2> QED BY <1>1, <2>1, <2>3
<1>5. todo' \in Seq(DOMAIN src)
  <2>1. PICK order \in ChildOrders(Head(todo)) : todo' = order \o Tail(todo)
    BY DEF EncodeStep
  <2>2. order \in Seq(D)
    BY <1>1, <1>2, <2>1, ChildOrdersType
  <2> HIDE DEF D
  <2> QED BY <1>2, <2>1, <2>2 DEF D
<1>6. EncoderOK' /\ UNCHANGED <<pc, at, stack, ret, heap, dropped, oom>>
  BY <1>1, <1>4, <1>5 DEF EncoderOK, EncodeStep
<1> QED BY <1>1, <1>6, EncoderStep

\* A peer encodes one position, or closes a container.
LEMMA PeerStepPreserves ==
  ASSUME IInv, PeerStep
  PROVE  IInv'
<1> DEFINE D == DOMAIN src \cup {Closing}
           p == Head(todo)
           k == KeyItem(p)
<1>1. /\ pc = "peer" /\ todo # <<>> /\ src \in Values /\ todo \in Seq(D) /\ buf \in Seq(Items)
      /\ UNCHANGED <<pc, src, at, stack, ret, heap, dropped, oom>>
  BY DEF IInv, EncoderOK, PeerStep
<1>2. p \in D /\ Tail(todo) \in Seq(D)
  BY <1>1
<1>3. ASSUME p # Closing
      PROVE  /\ k \in Seq(Items) /\ HeadItem(src[p]) \in Items
             /\ src[p].type \in {"ARRAY", "MAP"} => Item(src[p].type, INDEFINITE) \in Items
             /\ \A order \in ChildOrders(p) : order \in Seq(D)
  <2>1. p \in DOMAIN src
    BY <1>2, <1>3
  <2>2. \A order \in ChildOrders(p) : order \in Seq(DOMAIN src)
    BY <1>1, <2>1, ChildOrdersType
  <2>3. \A order \in Seq(DOMAIN src) : order \in Seq(D)
    OBVIOUS
  <2> QED BY <1>1, <2>1, <2>2, <2>3, ItemTypes
<1>4. Break \in Items
  BY DEF Break, Item, Items
<1>5. /\ \A x \in Items : Append(buf, x) \in Seq(Items)
      /\ p # Closing => \A x \in Items : Append(buf \o k, x) \in Seq(Items)
  <2>1. p # Closing => k \in Seq(Items)
    BY <1>3
  <2> HIDE DEF k, p
  <2> QED BY <1>1, <2>1
<1>6. \A order \in Seq(D) : order \o Tail(todo) \in Seq(D)
                            /\ order \o <<Closing>> \o Tail(todo) \in Seq(D)
  <2>1. Closing \in D
    OBVIOUS
  <2> HIDE DEF D
  <2> QED BY <1>2, <2>1
<1>7. CASE p = Closing /\ buf' = Append(buf, Break) /\ todo' = Tail(todo)
  <2>1. EncoderOK'
    BY <1>1, <1>2, <1>4, <1>5, <1>7 DEF EncoderOK
  <2> QED BY <1>1, <2>1, EncoderStep
<1>8. CASE /\ p # Closing /\ buf' = Append(buf \o k, HeadItem(src[p]))
           /\ \E order \in ChildOrders(p) : todo' = order \o Tail(todo)
  <2>1. buf' \in Seq(Items) /\ todo' \in Seq(D)
    BY <1>3, <1>5, <1>6, <1>8
  <2>2. EncoderOK'
    BY <1>1, <2>1 DEF EncoderOK
  <2> QED BY <1>1, <2>2, EncoderStep
<1>9. CASE /\ p # Closing /\ src[p].type \in {"ARRAY", "MAP"}
           /\ buf' = Append(buf \o k, Item(src[p].type, INDEFINITE))
           /\ \E order \in ChildOrders(p) : todo' = order \o <<Closing>> \o Tail(todo)
  <2>1. buf' \in Seq(Items) /\ todo' \in Seq(D)
    BY <1>3, <1>5, <1>6, <1>9
  <2>2. EncoderOK'
    BY <1>1, <2>1 DEF EncoderOK
  <2> QED BY <1>1, <2>2, EncoderStep
<1> QED BY <1>7, <1>8, <1>9 DEF PeerStep

\* The buffer is full, or an encoder returns.
LEMMA EncoderEnds ==
  ASSUME IInv, EncodeFails \/ EncodeReturns \/ PeerReturns
  PROVE  IInv'
<1>1. EncoderOK' /\ pc \in {"encode", "peer"} /\ pc' \in {"idle", "encoded"}
      /\ UNCHANGED <<at, stack, ret, heap, dropped, oom>>
  <2>1. CASE EncodeFails
    <3>1. buf' \in Seq(Items)
      BY <2>1 DEF EncodeFails
    <3> QED BY <2>1, <3>1 DEF EncodeFails, EncoderOK
  <2>2. CASE EncodeReturns
    BY <2>2 DEF IInv, EncoderOK, EncodeReturns
  <2>3. CASE PeerReturns
    BY <2>3 DEF IInv, EncoderOK, PeerReturns
  <2> QED BY <2>1, <2>2, <2>3
<1> QED BY <1>1, EncoderStep

-----------------------------------------------------------------------------
(* The decoder *)

\* A step of the decoder leaves the input alone.
LEMMA DecoderStep ==
  ASSUME IInv, pc' \in {"value", "loop", "return", "halted"}, buf' = buf, DecoderOK', Accounted'
  PROVE  IInv'
<1>1. PCOK' /\ FreshOK'
  BY DEF PCOK, FreshOK
<1>2. EncoderOK'
  BY DEF IInv, EncoderOK
<1> QED BY <1>1, <1>2 DEF IInv

\* The item to decode.
LEMMA NextItem ==
  ASSUME IInv
  PROVE  /\ at \in Nat \ {0} /\ Len(buf) \in Nat
         /\ next.major # "END" => at <= Len(buf) /\ next \in Items /\ at + 1 \in 1 .. Len(buf) + 1
<1>1. at \in 1 .. Len(buf) + 1 /\ buf \in Seq(Items)
  BY DEF IInv, DecoderOK, EncoderOK
<1>2. Len(buf) \in Nat
  BY <1>1
<1>3. CASE at <= Len(buf)
  <2>1. next = buf[at]
    BY <1>3 DEF next
  <2> QED BY <1>1, <1>2, <1>3, <2>1
<1>4. CASE at > Len(buf)
  <2>1. next.major = "END"
    BY <1>1, <1>2, <1>4 DEF next, Item
  <2> QED BY <1>1, <1>2, <2>1
<1> QED BY <1>1, <1>2, <1>3, <1>4

\* The stack, with its last frame apart.
LEMMA TopFacts ==
  ASSUME IInv, stack # <<>>
  PROVE  /\ Front(stack) \in Seq(Frames) /\ top \in Frames
         /\ stack = Append(Front(stack), top)
         /\ Len(Front(stack)) \in Nat /\ indent = Len(Front(stack)) + 1
         /\ Len(Front(stack)) <= CORECONF_MAX_DEPTH
         /\ \A i \in DOMAIN Front(stack) : Waiting(Front(stack)[i])
         /\ pc # "loop" => Waiting(top)
         /\ \A g : [stack EXCEPT ![indent] = g] = Append(Front(stack), g)
<1>1. /\ stack \in Seq(Frames) /\ Len(stack) <= CORECONF_MAX_DEPTH + 1
      /\ \A i \in DOMAIN stack : Waiting(stack[i]) \/ (pc = "loop" /\ i = Len(stack))
  BY DEF IInv, DecoderOK
<1>2. CORECONF_MAX_DEPTH \in Nat
  BY SerializationAssumption
<1> DEFINE b == Front(stack)
           l == Last(stack)
<1>3. /\ b \in Seq(Frames) /\ l \in Frames /\ stack = Append(b, l) /\ Len(stack) = Len(b) + 1
      /\ Len(b) \in Nat /\ Len(stack) \in DOMAIN stack /\ stack[Len(stack)] = l
      /\ \A g : [stack EXCEPT ![Len(stack)] = g] = Append(b, g)
  BY <1>1, StackTop
<1> HIDE DEF b, l
<1>4. \A i \in DOMAIN b : i \in DOMAIN stack /\ i # Len(stack) /\ stack[i] = b[i]
  <2>1. \A i \in DOMAIN b : Append(b, l)[i] = b[i]
    BY <1>3, StackAppend
  <2>2. DOMAIN b = 1 .. Len(b) /\ DOMAIN stack = 1 .. Len(stack)
    BY <1>1, <1>3
  <2>3. \A i \in 1 .. Len(b) : i \in 1 .. Len(stack) /\ i # Len(stack)
    BY <1>3
  <2> QED BY <1>3, <2>1, <2>2, <2>3
<1>5. \A i \in DOMAIN b : Waiting(b[i])
  BY <1>1, <1>4
<1>6. pc # "loop" => Waiting(l)
  BY <1>1, <1>3
<1>7. Len(b) <= CORECONF_MAX_DEPTH
  BY <1>1, <1>2, <1>3
<1> QED BY <1>3, <1>5, <1>6, <1>7 DEF b, l, top, indent

\* A call returns what it decoded, or NULL: the decoder's variables are as they
\* should be.
LEMMA ReturnOK ==
  ASSUME IInv, pc' = "return", ret' \in Trees, buf' = buf, at' \in 1 .. Len(buf) + 1,
         stack' \in Seq(Frames), Len(stack') <= CORECONF_MAX_DEPTH + 1,
         \A i \in DOMAIN stack' : Waiting(stack'[i])
  PROVE  DecoderOK' /\ Held' = ret'
<1>1. Held' = ret'
  BY DEF Held
<1>2. DecoderOK'
  BY DEF DecoderOK, Waiting
<1> QED BY <1>1, <1>2

\* A call is about to return NULL without having begun anything.
LEMMA ReturnsNULL ==
  ASSUME IInv, pc = "value", ReturnNULL, oom' \in {oom, Noticed}
  PROVE  IInv'
<1>1. /\ pc' = "return" /\ ret' = NULL /\ buf' = buf /\ UNCHANGED <<at, stack, heap, dropped>>
  BY DEF ReturnNULL, Return
<1>2. /\ at \in 1 .. Len(buf) + 1 /\ stack \in Seq(Frames) /\ Len(stack) <= CORECONF_MAX_DEPTH + 1
      /\ \A i \in DOMAIN stack : Waiting(stack[i])
  BY DEF IInv, DecoderOK
<1>3. DecoderOK' /\ Held' = NULL /\ Held = NULL
  <2>1. Held = NULL
    BY DEF Held
  <2> QED BY <1>1, <1>2, <2>1, NULLFacts, ReturnOK
<1>4. Accounted'
  BY <1>1, <1>3 DEF IInv, Accounted, Noticed
<1> QED BY <1>1, <1>3, <1>4, DecoderStep

\* What a leaf is read as is a cell.
LEMMA LeafCell ==
  ASSUME NEW item \in Items, IsLeaf(item)
  PROVE  LeafOf(item) \in Cells
<1>1. item.major \in Types \cup {"NINT", "BREAK", "OTHER"} /\ item.arg \in Int
  BY DEF Items
<1>2. \A w \in Widths : Largest[w] \in Nat
  BY SerializationAssumption
<1>3. ASSUME NEW S \in SUBSET Widths, 64 \in S
      PROVE  Min(S) \in Widths
  <2>1. \E x \in S : \A y \in S : x <= y
    <3>1. S \subseteq Nat /\ S # {}
      BY <1>3 DEF Widths
    <3> QED BY <3>1, LeastOf
  <2>2. Min(S) \in S
    BY <2>1 DEF Min
  <2> QED BY <2>2
<1>4. CASE item.major = "UINT"
  <2>1. item.arg <= 2 * Largest[64] + 1
    BY <1>4 DEF IsLeaf
  <2> DEFINE S == {w \in Widths : item.arg <= 2 * Largest[w] + 1}
  <2>2. 64 \in S /\ S \subseteq Widths
    BY <2>1 DEF Widths
  <2> HIDE DEF S
  <2>3. Min(S) \in Widths
    BY <1>3, <2>2
  <2>4. UintWidth(item.arg) \in Widths
    BY <2>3 DEF UintWidth, S
  <2>5. LeafOf(item) = [type |-> "UINT", width |-> UintWidth(item.arg), val |-> item.arg]
    BY <1>4 DEF LeafOf, Cell
  <2> QED BY <1>1, <2>4, <2>5 DEF Cells, Types
<1>5. CASE item.major = "NINT"
  <2>1. -item.arg - 1 <= Largest[64]
    BY <1>5 DEF IsLeaf
  <2> DEFINE S == {w \in Widths : -item.arg - 1 <= Largest[w]}
  <2>2. 64 \in S /\ S \subseteq Widths
    BY <2>1 DEF Widths
  <2> HIDE DEF S
  <2>3. Min(S) \in Widths
    BY <1>3, <2>2
  <2>4. IntWidth(item.arg) \in Widths
    BY <2>3 DEF IntWidth, S
  <2>5. LeafOf(item) = [type |-> "INT", width |-> IntWidth(item.arg), val |-> item.arg]
    BY <1>5 DEF LeafOf, Cell
  <2> QED BY <1>1, <2>4, <2>5 DEF Cells, Types
<1>6. CASE item.major \notin {"UINT", "NINT"}
  <2>1. LeafOf(item) = [type |-> item.major, width |-> 0, val |-> item.arg]
    BY <1>6 DEF LeafOf, Cell
  <2>2. item.major \in Types
    BY <1>6 DEF IsLeaf, Types
  <2> QED BY <1>1, <2>1, <2>2 DEF Cells
<1> QED BY <1>4, <1>5, <1>6

\* A leaf is decoded.
LEMMA DecodeLeafPreserves ==
  ASSUME IInv, DecodeLeaf
  PROVE  IInv'
<1> DEFINE c == LeafOf(next)
           t == Single(c)
<1>1. /\ pc = "value" /\ IsLeaf(next) /\ pc' = "return" /\ ret' = t /\ at' = at + 1
      /\ heap' = heap \cup Blocks(t) /\ UNCHANGED <<src, todo, buf, dropped, stack, oom>>
  BY DEF DecodeLeaf, Return
<1>2. next.major # "END"
  BY <1>1 DEF IsLeaf
<1>3. at \in Nat /\ next \in Items /\ at + 1 \in 1 .. Len(buf) + 1
  BY <1>2, NextItem
<1>4. c \in Cells
  BY <1>1, <1>3, LeafCell
<1> HIDE DEF c
<1>5. t \in Trees /\ TreeIds(t) = {at}
  BY <1>3, <1>4, SingleTree
<1> HIDE DEF t
<1>6. /\ stack \in Seq(Frames) /\ Len(stack) <= CORECONF_MAX_DEPTH + 1
      /\ \A i \in DOMAIN stack : Waiting(stack[i])
  BY <1>1 DEF IInv, DecoderOK
<1>7. DecoderOK' /\ Held' = t
  BY <1>1, <1>3, <1>5, <1>6, ReturnOK
<1>8. Owned(stack, NULL, dropped, heap, at - 1)
  BY <1>1 DEF IInv, Accounted, Held
<1>9. Owned(stack, t, dropped, heap \cup Blocks(t), at)
  <2> DEFINE n == at - 1
  <2>1. n \in Nat /\ n + 1 = at
    BY NextItem
  <2>2. TreeIds(t) = {n + 1} /\ Owned(stack, NULL, dropped, heap, n)
    BY <1>5, <1>8, <2>1
  <2> HIDE DEF n
  <2>3. Owned(stack, t, dropped, heap \cup Blocks(t), n + 1)
    BY <1>5, <1>6, <2>1, <2>2, Make
  <2> QED BY <2>1, <2>3
<1>10. at' - 1 = at
  BY <1>1, <1>3
<1>11. Accounted'
  BY <1>1, <1>7, <1>9, <1>10 DEF IInv, Accounted
<1> QED BY <1>1, <1>7, <1>11, DecoderStep

\* A call begins whose frame is made of the item at `at`.
LEMMA BeginCall ==
  ASSUME IInv, pc = "value", indent <= CORECONF_MAX_DEPTH, pc' \in {"value", "loop"},
         NEW f \in Frames, FrameIds(f) = {at},
         pc' = "value" => Waiting(f), pc' = "loop" => f.kind # "TAG" /\ Reached(f, at + 1),
         stack' = Append(stack, f), heap' = heap \cup FrameBlocks(f), at' = at + 1,
         next.major # "END", UNCHANGED <<buf, ret, dropped, oom>>
  PROVE  IInv'
<1>1. at \in Nat \ {0} /\ at + 1 \in 1 .. Len(buf) + 1
  BY NextItem
<1>2. /\ stack \in Seq(Frames) /\ \A i \in DOMAIN stack : Waiting(stack[i])
      /\ ret \in Trees
  BY DEF IInv, DecoderOK
<1> DEFINE a == Append(stack, f)
<1>3. /\ a \in Seq(Frames) /\ a # <<>> /\ Len(a) = Len(stack) + 1 /\ Last(a) = f
      /\ DOMAIN a = DOMAIN stack \cup {Len(stack) + 1}
      /\ \A i \in DOMAIN stack : a[i] = stack[i]
      /\ a[Len(stack) + 1] = f
  BY <1>2, StackAppend
<1>4. stack' = a
  OBVIOUS
<1> HIDE DEF a
<1>5. Len(a) <= CORECONF_MAX_DEPTH + 1
  <2>1. Len(stack) \in Nat /\ CORECONF_MAX_DEPTH \in Nat /\ Len(stack) <= CORECONF_MAX_DEPTH
    BY <1>2, SerializationAssumption DEF indent
  <2> QED BY <1>3, <2>1
<1>6. \A i \in DOMAIN a : Waiting(a[i]) \/ (pc' = "loop" /\ i = Len(a))
  BY <1>2, <1>3
<1>7. DecoderOK'
  BY <1>1, <1>2, <1>3, <1>4, <1>5, <1>6 DEF DecoderOK, Waiting, Reached, top
<1>8. Held = NULL /\ Held' = NULL
  BY DEF Held
<1>9. Owned(stack, NULL, dropped, heap, at - 1)
  BY <1>8 DEF IInv, Accounted
<1>10. Owned(a, NULL, dropped, heap \cup FrameBlocks(f), at)
  <2> DEFINE n == at - 1
  <2>1. n \in Nat /\ n + 1 = at
    BY <1>1
  <2>2. FrameIds(f) = {n + 1} /\ Owned(stack, NULL, dropped, heap, n)
    BY <1>9, <2>1
  <2> HIDE DEF n
  <2>3. Owned(Append(stack, f), NULL, dropped, heap \cup FrameBlocks(f), n + 1)
    BY <1>2, <2>1, <2>2, Push
  <2> QED BY <2>1, <2>3 DEF a
<1>11. at' - 1 = at
  BY <1>1
<1>12. Accounted'
  BY <1>4, <1>8, <1>10, <1>11 DEF IInv, Accounted
<1> QED BY <1>7, <1>12, DecoderStep

\* A tag's call waits for its value.
LEMMA EnterTagPreserves ==
  ASSUME IInv, EnterTag
  PROVE  IInv'
<1> DEFINE f == Frame("TAG", NULL, 1, 0)
<1>1. /\ pc = "value" /\ pc' = pc /\ indent <= CORECONF_MAX_DEPTH /\ next.major = "TAG"
      /\ stack' = Append(stack, f) /\ at' = at + 1 /\ UNCHANGED <<buf, ret, dropped, oom, heap>>
  BY DEF EnterTag
<1>2. at \in Nat
  BY NextItem
<1>3. f = [kind |-> "TAG", tree |-> NULL, id |-> at, left |-> 1, room |-> 0, loopCount |-> 0,
           key |-> 0]
  BY DEF Frame
<1> HIDE DEF f
<1>4. /\ f \in Records /\ f.kind = "TAG" /\ f.tree = NULL /\ f.room = 0 /\ f.id = at
  BY <1>2, <1>3, NULLFacts DEF Records
<1>5. f \in Frames
  BY <1>4 DEF Frames, IsFrame, IsTag
<1>6. FrameIds(f) = {at} /\ FrameBlocks(f) = {}
  BY <1>4, NULLFacts DEF FrameIds, FrameBlocks
<1>7. Waiting(f)
  BY <1>4 DEF Waiting
<1>8. next.major # "END" /\ heap' = heap \cup FrameBlocks(f)
  BY <1>1, <1>6
<1> QED BY <1>1, <1>5, <1>6, <1>7, <1>8, BeginCall

\* A container is begun; a definite array has its slots at once.
LEMMA EnterPreserves ==
  ASSUME IInv, Enter
  PROVE  IInv'
<1> DEFINE c == Cell(next.major, 0, 0)
           t == Single(c)
           f == Frame(next.major, t, next.arg, Room)
<1>1. /\ pc = "value" /\ indent <= CORECONF_MAX_DEPTH /\ next.major \in {"ARRAY", "MAP"}
      /\ ~TooLong
      /\ stack' = Append(stack, f) /\ heap' = heap \cup FrameBlocks(f)
      /\ pc' = "loop" /\ at' = at + 1 /\ UNCHANGED <<buf, ret, dropped, oom>>
  BY DEF Enter
<1>2. at \in Nat /\ next \in Items
  BY <1>1, NextItem
<1>3. next.arg \in Int /\ next.arg >= INDEFINITE
  BY <1>1, <1>2 DEF Items
<1>4. c \in Cells /\ c.type = next.major /\ c.val = 0
  BY <1>1 DEF Cell, Cells, Types
<1>5. Room \in Nat /\ (next.major = "MAP" => Room = 0)
      /\ (next.major = "ARRAY" => IF next.arg = INDEFINITE THEN Room = 0
                                  ELSE next.arg \in Nat /\ Room = next.arg)
  BY <1>1, <1>3 DEF Room, INDEFINITE
<1> HIDE DEF c
<1>6. /\ t \in Trees /\ t # NULL /\ DOMAIN t = {<<>>} /\ TreeIds(t) = {at}
      /\ t[<<>>].id = at /\ t[<<>>].cell = c
  BY <1>2, <1>4, SingleTree
<1> HIDE DEF t
<1>7. f = [kind |-> next.major, tree |-> t, id |-> at, left |-> next.arg, room |-> Room,
           loopCount |-> 0, key |-> 0]
  BY DEF Frame
<1> HIDE DEF f
<1>8. /\ f \in Records /\ f.kind = next.major /\ f.tree = t /\ f.room = Room /\ f.id = at
      /\ f.left = next.arg /\ f.loopCount = 0
  BY <1>1, <1>2, <1>3, <1>5, <1>6, <1>7 DEF Records
<1>9. IsContainer(f)
  BY <1>4, <1>6, <1>8 DEF IsContainer
<1>0. Reached(f, at + 1)
  <2>1. ASSUME Room > 0 PROVE at + 1 <= Len(buf)
    <3>1. next.major = "ARRAY" /\ next.arg > 0 /\ Room = next.arg
      BY <2>1 DEF Room
    <3>2. ~(next.arg > Len(buf) - at)
      BY <1>1, <3>1 DEF TooLong
    <3>3. Len(buf) \in Nat
      BY NextItem
    <3> QED BY <1>2, <1>3, <3>1, <3>2, <3>3
  <2> QED BY <1>8, <2>1 DEF Reached
<1>10. CASE next.major = "ARRAY"
  <2>1. t[<<>>].cell.val = 0
    BY <1>4, <1>6
  <2>2. IF f.left = INDEFINITE THEN f.room = 0 ELSE f.left \in Nat /\ 0 + f.left = f.room
    BY <1>5, <1>8, <1>10
  <2>3. \A p \in DOMAIN t : p = <<>>
    BY <1>6
  <2>4. IsArray(f)
    BY <1>8, <1>9, <1>10, <2>1, <2>2, <2>3 DEF IsArray
  <2>5. f \in Frames
    BY <1>8, <2>4 DEF Frames, IsFrame
  <2>6. FrameIds(f) = {at}
    BY <1>6, <1>8 DEF FrameIds
  <2> QED BY <1>0, <1>1, <1>8, <1>10, <2>5, <2>6, BeginCall
<1>11. CASE next.major = "MAP"
  <2>1. Entries(t) = {}
    <3>1. Len(<<>>) # 1
      OBVIOUS
    <3> QED BY <1>6, <3>1 DEF Entries
  <2>2. IsFiniteSet(Entries(t)) /\ Cardinality(Entries(t)) = 0
    BY <2>1, FS_EmptySet
  <2>3. IsMap(f)
    BY <1>5, <1>8, <1>9, <1>11, <2>2 DEF IsMap
  <2>5. f \in Frames
    BY <1>8, <2>3 DEF Frames, IsFrame
  <2>6. FrameIds(f) = {at}
    BY <1>6, <1>8 DEF FrameIds
  <2> QED BY <1>0, <1>1, <1>8, <1>11, <2>5, <2>6, BeginCall
<1> QED BY <1>1, <1>10, <1>11

\* A call that waits returns, and its frame goes: the accounts are the rest.
LEMMA PopPreserves ==
  ASSUME IInv, stack # <<>>, pc' = "return", buf' = buf, stack' = Front(stack),
         at' \in {at, at + 1}, at' \in 1 .. Len(buf) + 1, ret' \in Trees,
         Owned(Front(stack), ret', dropped', heap', at - 1),
         oom' # "ignored" => dropped' = {}
  PROVE  IInv'
<1> DEFINE b == Front(stack)
<1>1. /\ b \in Seq(Frames) /\ Len(b) \in Nat /\ Len(b) <= CORECONF_MAX_DEPTH
      /\ \A i \in DOMAIN b : Waiting(b[i])
  BY TopFacts
<1>2. stack' = b /\ Owned(b, ret', dropped', heap', at - 1)
  OBVIOUS
<1> HIDE DEF b
<1>3. DecoderOK' /\ Held' = ret'
  <2>1. Len(b) <= CORECONF_MAX_DEPTH + 1
    BY <1>1, SerializationAssumption
  <2> QED BY <1>1, <1>2, <2>1, ReturnOK
<1>4. Owned(b, ret', dropped', heap', at' - 1)
  <2> DEFINE n == at - 1
  <2>1. n \in Nat /\ (at' - 1 = n \/ at' - 1 = n + 1)
    <3>1. at \in Nat /\ at # 0
      BY NextItem
    <3>2. n \in Nat /\ n + 1 = at
      BY <3>1
    <3>3. at' = at \/ at' = at + 1
      OBVIOUS
    <3> HIDE DEF n
    <3>4. CASE at' = at
      BY <3>2, <3>4
    <3>5. CASE at' = at + 1
      BY <3>2, <3>5
    <3> QED BY <3>2, <3>3, <3>4, <3>5
  <2>0. Owned(b, ret', dropped', heap', n)
    BY <1>2
  <2> HIDE DEF n
  <2>2. Owned(b, ret', dropped', heap', n + 1)
    BY <1>1, <2>0, <2>1, Advance
  <2> QED BY <2>0, <2>1, <2>2
<1>5. Accounted'
  BY <1>2, <1>3, <1>4 DEF Accounted
<1> QED BY <1>3, <1>5, DecoderStep

\* What the stack, its last frame apart, and a returned value own.
LEMMA TopOwned ==
  ASSUME IInv, stack # <<>>
  PROVE  /\ Owned(Append(Front(stack), top), Held, dropped, heap, at - 1)
         /\ ret \in Trees /\ at \in 1 .. Len(buf) + 1
         /\ pc = "return" => Held = ret
         /\ pc # "return" => Held = NULL
<1>1. stack = Append(Front(stack), top)
  BY TopFacts
<1>2. Owned(stack, Held, dropped, heap, at - 1)
  BY DEF IInv, Accounted
<1> QED BY <1>1, <1>2 DEF Held, IInv, DecoderOK

\* A tag's call has nothing but its number.
LEMMA TagOwnsNothing ==
  ASSUME NEW f \in Frames, f.kind = "TAG"
  PROVE  f.tree = NULL /\ FrameBlocks(f) = {} /\ FrameIds(f) = {f.id}
<1>1. f.tree = NULL /\ f.room = 0
  BY DEF Frames, IsFrame, IsTag, IsArray, IsMap
<1> QED BY <1>1, NULLFacts DEF FrameBlocks, FrameIds

\* A tag's call returns the tag with its value.
LEMMA TagReturnsPreserves ==
  ASSUME IInv, TagReturns
  PROVE  IInv'
<1> DEFINE b == Front(stack)
           f == top
           c == Cell("TAG", 0, buf[f.id].arg)
           tag == [cell |-> c, id |-> f.id]
           t == [p \in {<<>>} \cup DOMAIN Under(Content, ret) |->
                   IF p = <<>> THEN tag ELSE Under(Content, ret)[p]]
<1>1. /\ pc = "return" /\ stack # <<>> /\ f.kind = "TAG" /\ ret # NULL
      /\ pc' = "return" /\ ret' = t /\ buf' = buf /\ dropped' = dropped
      /\ heap' = heap \cup BlocksAt(t, <<>>) /\ stack' = b /\ at' = at /\ oom' = oom
  BY DEF TagReturns, Return
<1>2. /\ b \in Seq(Frames) /\ f \in Frames /\ ret \in Trees /\ at \in 1 .. Len(buf) + 1
      /\ Owned(Append(b, f), ret, dropped, heap, at - 1)
  BY <1>1, TopFacts, TopOwned
<1> HIDE DEF b, f
<1>3. FrameBlocks(f) = {} /\ FrameIds(f) = {f.id} /\ f.id \in Nat
  BY <1>1, <1>2, TagOwnsNothing, FrameFacts
<1>4. f.id \notin TreeIds(ret) /\ f.id \in 1 .. at - 1
  <2> DEFINE n == at - 1
  <2>1. Owned(Append(b, f), ret, dropped, heap, n)
    BY <1>2
  <2> HIDE DEF n
  <2>2. FrameIds(f) \cap TreeIds(ret) = {} /\ FrameIds(f) \subseteq 1 .. n
    BY <1>2, <2>1, OwnedTop
  <2> QED BY <1>3, <2>2 DEF n
<1>5. c \in Cells
  <2>1. buf \in Seq(Items)
    BY DEF IInv, EncoderOK
  <2>2. f.id \in 1 .. Len(buf)
    <3>1. Len(buf) \in Nat
      BY <2>1
    <3> QED BY <1>2, <1>4, <3>1
  <2>3. buf[f.id] \in Items
    BY <2>1, <2>2
  <2>4. buf[f.id].arg \in Int
    BY <2>3 DEF Items
  <2> QED BY <2>4 DEF Cell, Cells, Types
<1> HIDE DEF c
<1>10. t = Tagged(f.id, c, ret)
  BY DEF Tagged
<1> HIDE DEF t
<1>6. /\ t \in Trees /\ TreeIds(t) \subseteq {f.id} \cup TreeIds(ret)
      /\ Blocks(t) = Blocks(ret) \cup BlocksAt(t, <<>>)
  BY <1>1, <1>2, <1>3, <1>4, <1>5, <1>10, TagTree
<1>7. Owned(b, t, dropped, heap \cup BlocksAt(t, <<>>), at - 1)
  <2> DEFINE n == at - 1
             new == BlocksAt(t, <<>>)
  <2>1. /\ Owned(Append(b, f), ret, dropped, heap, n)
        /\ TreeIds(t) \subseteq FrameIds(f) \cup TreeIds(ret)
        /\ Blocks(t) = FrameBlocks(f) \cup Blocks(ret) \cup new
    BY <1>2, <1>3, <1>6
  <2> HIDE DEF n, new
  <2>2. Owned(b, t, dropped, heap \cup new, n)
    BY <1>2, <1>6, <2>1, PopReturns
  <2> QED BY <2>2 DEF n, new
<1>8. oom' # "ignored" => dropped' = {}
  BY <1>1 DEF IInv, Accounted
<1>9. /\ at' \in {at, at + 1} /\ at' \in 1 .. Len(buf) + 1 /\ ret' \in Trees
      /\ stack' = Front(stack) /\ Owned(Front(stack), ret', dropped', heap', at - 1)
  BY <1>1, <1>2, <1>6, <1>7 DEF b
<1> QED BY <1>1, <1>8, <1>9, PopPreserves

\* A frame's call returns NULL and what it had is freed.
LEMMA PopsNULL ==
  ASSUME IInv, stack # <<>>, pc' = "return", ret' = NULL, oom' \in {oom, Noticed},
         stack' = Front(stack), UNCHANGED <<buf, at, dropped>>,
         Owned(Front(stack), NULL, dropped, heap', at - 1)
  PROVE  IInv'
<1>1. at \in 1 .. Len(buf) + 1
  BY TopOwned
<1>2. at' \in {at, at + 1} /\ at' \in 1 .. Len(buf) + 1 /\ ret' \in Trees
  BY <1>1, NULLFacts
<1>3. oom' # "ignored" => dropped' = {}
  BY DEF IInv, Accounted, Noticed
<1> QED BY <1>2, <1>3, PopPreserves

\* No memory for a tag: its value is freed.
LEMMA TagOutOfMemoryPreserves ==
  ASSUME IInv, TagOutOfMemory
  PROVE  IInv'
<1> DEFINE b == Front(stack)
           f == top
           n == at - 1
<1>1. /\ pc = "return" /\ stack # <<>> /\ f.kind = "TAG" /\ oom' = Noticed
      /\ pc' = "return" /\ ret' = NULL /\ heap' = heap \ Blocks(ret) /\ stack' = b
      /\ UNCHANGED <<buf, at, dropped>>
  BY DEF TagOutOfMemory, Return
<1>2. /\ b \in Seq(Frames) /\ f \in Frames /\ ret \in Trees
      /\ Owned(Append(b, f), ret, dropped, heap, n)
  BY <1>1, TopFacts, TopOwned
<1> HIDE DEF b, f, n
<1>3. FrameBlocks(f) = {}
  BY <1>1, <1>2, TagOwnsNothing
<1>4. Owned(b, NULL, dropped, heap \ Blocks(ret), n)
  BY <1>2, <1>3, PopFreesValue
<1>5. stack' = Front(stack) /\ Owned(Front(stack), NULL, dropped, heap', at - 1)
  BY <1>1, <1>4 DEF b, n
<1> QED BY <1>1, <1>5, PopsNULL

\* A call fails: all it holds is freed.
LEMMA FailPreserves ==
  ASSUME IInv, stack # <<>>, Held = NULL, Fail
  PROVE  IInv'
<1> DEFINE b == Front(stack)
           f == top
           n == at - 1
<1>1. /\ pc' = "return" /\ ret' = NULL /\ stack' = b /\ UNCHANGED <<buf, at, dropped, oom>>
      /\ heap' = IF f.kind = "TAG" THEN heap ELSE heap \ FrameBlocks(f)
  BY DEF Fail, Return
<1>2. /\ b \in Seq(Frames) /\ f \in Frames /\ Owned(Append(b, f), NULL, dropped, heap, n)
  BY TopFacts, TopOwned
<1> HIDE DEF b, f, n
<1>3. heap' = heap \ FrameBlocks(f)
  BY <1>1, <1>2, TagOwnsNothing
<1>4. Owned(b, NULL, dropped, heap \ FrameBlocks(f), n)
  BY <1>2, PopFreed
<1>5. stack' = Front(stack) /\ Owned(Front(stack), NULL, dropped, heap', at - 1)
  BY <1>1, <1>3, <1>4 DEF b, n
<1> QED BY <1>1, <1>5, PopsNULL

\* A map with too many entries or a key that is none; a NULL inside.
LEMMA FailsPreserve ==
  ASSUME IInv, MapFails \/ NULLInside
  PROVE  IInv'
<1>1. CASE MapFails
  <2>1. stack # <<>> /\ Held = NULL /\ Fail
    BY <1>1 DEF MapFails, Held, IInv, DecoderOK
  <2> QED BY <2>1, FailPreserves
<1>2. CASE NULLInside
  <2>1. stack # <<>> /\ Held = NULL /\ Fail
    BY <1>2 DEF NULLInside, Held
  <2> QED BY <2>1, FailPreserves
<1> QED BY <1>1, <1>2

\* A container is complete: its blocks are those of its frame.
LEMMA LeavePreserves ==
  ASSUME IInv, Leave
  PROVE  IInv'
<1> DEFINE b == Front(stack)
           f == top
           n == at - 1
<1>1. /\ pc = "loop" /\ pc' = "return" /\ AtEnd /\ ret' = f.tree /\ stack' = b
      /\ at' = (IF at <= Len(buf) /\ f.left = INDEFINITE THEN at + 1 ELSE at)
      /\ UNCHANGED <<buf, dropped, heap, oom>>
  BY DEF Leave, Return
<1>2. stack # <<>> /\ f.kind # "TAG" /\ Held = NULL /\ Reached(f, at)
  BY <1>1 DEF IInv, DecoderOK, Held
<1>3. /\ b \in Seq(Frames) /\ f \in Frames /\ Owned(Append(b, f), NULL, dropped, heap, n)
      /\ at \in 1 .. Len(buf) + 1
  BY <1>2, TopFacts, TopOwned
<1>4. at' \in {at, at + 1} /\ at' \in 1 .. Len(buf) + 1
  <2>1. Len(buf) \in Nat
    BY NextItem
  <2> QED BY <1>1, <1>3, <2>1
<1>5. at <= Len(buf) => (f.left # INDEFINITE => f.left = 0)
  <2>1. Len(buf) \in Nat
    BY NextItem
  <2> QED BY <1>1, <1>3, <2>1 DEF AtEnd
<1> HIDE DEF b, f, n
<1>6. FrameBlocks(f) = Blocks(f.tree)
  <2> DEFINE l == <<"elements", f.id>>
  <2>1. f.room \in Nat
    BY <1>3, FrameFacts
  <2>2. CASE f.room = 0
    BY <2>2 DEF FrameBlocks
  <2>3. CASE f.room # 0
    <3>1. IsArray(f)
      BY <1>2, <1>3, <2>3 DEF Frames, IsFrame, IsMap, IsTag
    <3>2. /\ f.tree # NULL /\ f.tree[<<>>].id = f.id /\ f.tree[<<>>].cell.type = "ARRAY"
          /\ f.tree[<<>>].cell.val > 0
      <4> DEFINE size == f.tree[<<>>].cell.val
      <4>1. /\ f.kind = "ARRAY" /\ IsContainer(f)
            /\ IF f.left = INDEFINITE THEN f.room = size ELSE size + f.left = f.room
        BY <3>1 DEF IsArray
      <4>2. size \in Nat
        BY <4>1 DEF IsContainer
      <4> HIDE DEF size
      <4>3. size > 0 \/ at <= Len(buf)
        BY <1>2, <2>1, <2>3 DEF Reached, size
      <4>4. size > 0
        BY <1>5, <2>1, <2>3, <4>1, <4>2, <4>3
      <4> QED BY <4>1, <4>4 DEF IsContainer, size
    <3>3. f.tree \in Trees
      BY <1>3, FrameFacts
    <3>4. <<>> \in DOMAIN f.tree /\ DOMAIN f.tree \subseteq Positions
      BY <3>2, <3>3, TreeFacts DEF IsTree
    <3>5. l \in NodeBlocks(f.tree[<<>>], HeldBy(<<>>))
      BY <2>1, <2>3, <3>2 DEF NodeBlocks
    <3>6. l \in Blocks(f.tree)
      BY <3>4, <3>5, BlocksOfTree
    <3> QED BY <3>6 DEF FrameBlocks
  <2> QED BY <2>2, <2>3
<1>7. f.tree \in Trees /\ TreeIds(f.tree) \subseteq FrameIds(f)
  BY <1>3, FrameFacts DEF FrameIds
<1>8. Owned(b, f.tree, dropped, heap, n)
  <2>1. TreeIds(f.tree) \subseteq FrameIds(f) \cup TreeIds(NULL)
    BY <1>7
  <2>2. Blocks(f.tree) = FrameBlocks(f) \cup Blocks(NULL) \cup {}
    BY <1>6, NULLFacts
  <2> DEFINE t == f.tree
  <2>3. t \in Trees /\ TreeIds(t) \subseteq FrameIds(f) \cup TreeIds(NULL)
        /\ Blocks(t) = FrameBlocks(f) \cup Blocks(NULL) \cup {}
    BY <1>7, <2>1, <2>2
  <2> HIDE DEF t
  <2>4. Owned(b, t, dropped, heap \cup {}, n)
    BY <1>3, <2>3, NULLFacts, PopReturns
  <2> QED BY <2>4 DEF t
<1>9. oom' # "ignored" => dropped' = {}
  BY <1>1 DEF IInv, Accounted
<1>10. /\ ret' \in Trees /\ stack' = Front(stack)
       /\ Owned(Front(stack), ret', dropped', heap', at - 1)
  BY <1>1, <1>7, <1>8 DEF b, n
<1> QED BY <1>1, <1>2, <1>4, <1>9, <1>10, PopPreserves

\* A container goes on with its last frame changed.
LEMMA LoopPreserves ==
  ASSUME IInv, stack # <<>>, NEW g \in Frames, pc' \in {"loop", "value"},
         stack' = [stack EXCEPT ![indent] = g], pc' = "loop" => g.kind # "TAG" /\ Reached(g, at'),
         pc' = "value" => Waiting(g),
         UNCHANGED <<buf, ret>>, at' \in {at, at + 1}, at' \in 1 .. Len(buf) + 1,
         Owned(Append(Front(stack), g), NULL, dropped', heap', at - 1),
         oom' # "ignored" => dropped' = {}
  PROVE  IInv'
<1> DEFINE b == Front(stack)
           a == Append(b, g)
<1>1. /\ b \in Seq(Frames) /\ Len(b) \in Nat /\ Len(b) <= CORECONF_MAX_DEPTH
      /\ \A i \in DOMAIN b : Waiting(b[i])
  BY TopFacts
<1>2. stack' = a
  BY TopFacts
<1>3. Owned(a, NULL, dropped', heap', at - 1)
  OBVIOUS
<1> HIDE DEF b
<1>4. /\ a \in Seq(Frames) /\ a # <<>> /\ Len(a) = Len(b) + 1 /\ Last(a) = g
      /\ DOMAIN a = DOMAIN b \cup {Len(b) + 1}
      /\ \A i \in DOMAIN b : a[i] = b[i]
      /\ a[Len(b) + 1] = g
  BY <1>1, StackAppend
<1> HIDE DEF a
<1>5. Len(a) <= CORECONF_MAX_DEPTH + 1
  BY <1>1, <1>4, SerializationAssumption
<1>6. \A i \in DOMAIN a : Waiting(a[i]) \/ (pc' = "loop" /\ i = Len(a))
  BY <1>1, <1>4
<1>7. ret \in Trees
  BY DEF IInv, DecoderOK
<1>8. DecoderOK'
  BY <1>2, <1>4, <1>5, <1>6, <1>7 DEF DecoderOK, Waiting, Reached, top
<1>9. Held' = NULL
  BY DEF Held
<1>10. Owned(a, NULL, dropped', heap', at' - 1)
  <2> DEFINE n == at - 1
  <2>1. n \in Nat /\ n + 1 = at
    BY NextItem
  <2>2. Owned(a, NULL, dropped', heap', n)
    BY <1>3
  <2> HIDE DEF n
  <2>3. Owned(a, NULL, dropped', heap', n + 1)
    BY <2>1, <2>2, Advance
  <2>4. at' = at \/ at' = at + 1
    OBVIOUS
  <2>5. CASE at' = at
    <3>1. at' - 1 = n
      BY <2>1, <2>5
    <3> QED BY <2>2, <3>1
  <2>6. CASE at' = at + 1
    <3>1. at' - 1 = n + 1
      BY <2>1, <2>6
    <3> QED BY <2>3, <3>1
  <2> QED BY <2>4, <2>5, <2>6
<1>11. Accounted'
  BY <1>2, <1>9, <1>10 DEF Accounted
<1> QED BY <1>8, <1>11, DecoderStep

\* An array or a map reads its next value.
LEMMA NextPreserves ==
  ASSUME IInv, NextElement \/ NextEntry
  PROVE  IInv'
<1>1. /\ pc = "loop" /\ pc' = "value" /\ ~AtEnd /\ UNCHANGED <<buf, ret, heap, dropped, oom>>
  BY DEF NextElement, NextEntry
<1>2. stack # <<>> /\ Held = NULL
  BY <1>1 DEF IInv, DecoderOK, Held
<1> DEFINE b == Front(stack)
           f == top
           n == at - 1
<1>3. /\ b \in Seq(Frames) /\ f \in Frames /\ Owned(Append(b, f), NULL, dropped, heap, n)
      /\ at \in 1 .. Len(buf) + 1 /\ stack = Append(b, f)
      /\ \A g : [stack EXCEPT ![indent] = g] = Append(b, g)
  BY <1>2, TopFacts, TopOwned
<1>4. oom' # "ignored" => dropped' = {}
  BY <1>1 DEF IInv, Accounted
<1>5. CASE NextElement
  <2>1. f.kind = "ARRAY" /\ stack' = stack /\ at' = at
    BY <1>5 DEF NextElement
  <2>2. f.left # 0
    BY <1>1 DEF AtEnd, INDEFINITE
  <2>3. Waiting(f)
    BY <2>1, <2>2 DEF Waiting
  <2>4. stack' = [stack EXCEPT ![indent] = f]
    BY <1>3, <2>1
  <2>5. Owned(Append(b, f), NULL, dropped', heap', n)
    BY <1>1, <1>3
  <2> QED BY <1>1, <1>2, <1>3, <1>4, <2>1, <2>3, <2>4, <2>5, LoopPreserves
<1>6. CASE NextEntry
  <2> DEFINE g == [f EXCEPT !.key = next.arg]
  <2>1. /\ f.kind = "MAP" /\ ~MapIsFull /\ next.major = "UINT" /\ at' = at + 1
        /\ stack' = [stack EXCEPT ![indent].key = next.arg]
    BY <1>6 DEF NextEntry
  <2>2. next.arg \in Int /\ at + 1 \in 1 .. Len(buf) + 1
    BY <2>1, NextItem DEF Items
  <2>3. stack' = [stack EXCEPT ![indent] = g]
    <3>1. stack[indent] = f
      BY <1>2 DEF top, indent, Last
    <3> QED BY <2>1, <3>1
  <2>4. f.loopCount \in Nat /\ CORECONF_MAX_LOOP \in Nat /\ f.loopCount <= CORECONF_MAX_LOOP
    BY <1>3, <2>1, FrameFacts, SerializationAssumption DEF MapIsFull
  <2> DEFINE k == next.arg
  <2> HIDE DEF f, k
  <2>5. /\ g \in Frames /\ g.kind = "MAP" /\ g.loopCount = f.loopCount
        /\ FrameIds(g) = FrameIds(f) /\ FrameBlocks(g) = FrameBlocks(f)
    BY <1>3, <2>1, <2>2, FrameKey DEF k
  <2> HIDE DEF b, g, n
  <2>6. Waiting(g)
    BY <2>4, <2>5 DEF Waiting
  <2>7. Owned(Append(b, g), NULL, dropped, heap, n)
    <3>1. StackBlocks(b) \cup FrameBlocks(f) \cup Blocks(NULL) \cup dropped = heap
      BY <1>3, NULLFacts, OwnedTop
    <3>2. heap = StackBlocks(b) \cup FrameBlocks(g) \cup dropped \cup {}
      BY <2>5, <3>1, NULLFacts
    <3>3. FrameIds(g) \subseteq FrameIds(f) \cup TreeIds(NULL)
      BY <2>5
    <3>4. BlockIds({}) \subseteq TreeIds(NULL) /\ BlockIds({}) \cap FrameIds(g) = {}
      BY DEF BlockIds
    <3>5. Owned(Append(b, g), NULL, dropped \cup {}, heap, n)
      BY <1>3, <2>5, <3>2, <3>3, <3>4, NULLFacts, TakeIn
    <3> QED BY <3>5
  <2>8. Owned(Append(Front(stack), g), NULL, dropped', heap', at - 1)
    BY <1>1, <2>7 DEF b, n
  <2> QED BY <1>1, <1>2, <1>4, <2>1, <2>2, <2>3, <2>5, <2>6, <2>8, LoopPreserves
<1> QED BY <1>5, <1>6

\* A value has a struct.
LEMMA ValueBlock ==
  ASSUME NEW r \in Trees, r # NULL
  PROVE  <<"value", r[<<>>].id>> \in Blocks(r) /\ BlockIds(Blocks(r)) \subseteq TreeIds(r)
<1>1. Content \in Steps
  BY DEF Content, Steps
<1>2. <<"value", r[<<>>].id>> \in Blocks(r)
  BY <1>1, UnderBlocks
<1>3. \A b \in Blocks(r) : b[2] \in TreeIds(r)
  BY TreeFacts, BlocksInIds
<1> QED BY <1>2, <1>3 DEF BlockIds

\* An array or a map takes the value that was returned, or loses a part e of it,
\* and goes on.
LEMMA ContinuePreserves ==
  ASSUME IInv, pc = "return", stack # <<>>, NEW g \in Frames, g.kind # "TAG", Reached(g, at),
         FrameIds(g) \subseteq FrameIds(top) \cup TreeIds(ret),
         pc' = "loop", stack' = [stack EXCEPT ![indent] = g], UNCHANGED <<buf, at, ret>>,
         NEW e, BlockIds(e) \subseteq TreeIds(ret), BlockIds(e) \cap FrameIds(g) = {},
         heap' = StackBlocks(Front(stack)) \cup FrameBlocks(g) \cup dropped \cup e,
         dropped' = dropped \cup e, oom' # "ignored" => dropped' = {}
  PROVE  IInv'
<1> DEFINE b == Front(stack)
           f == top
           n == at - 1
<1>1. /\ b \in Seq(Frames) /\ f \in Frames /\ ret \in Trees /\ at \in 1 .. Len(buf) + 1
      /\ Owned(Append(b, f), ret, dropped, heap, n)
  BY TopFacts, TopOwned
<1>2. /\ heap' = StackBlocks(b) \cup FrameBlocks(g) \cup dropped \cup e
      /\ FrameIds(g) \subseteq FrameIds(f) \cup TreeIds(ret)
  OBVIOUS
<1> HIDE DEF b, f, n
<1>3. Owned(Append(b, g), NULL, dropped \cup e, heap', n)
  BY <1>1, <1>2, TakeIn
<1>4. Owned(Append(Front(stack), g), NULL, dropped', heap', at - 1)
  BY <1>3 DEF b, n
<1> QED BY <1>1, <1>4, LoopPreserves

\* What is known when an array or a map gets the value it waited for.
LEMMA ReturnFacts ==
  ASSUME IInv, pc = "return", stack # <<>>, ret # NULL
  PROVE  /\ top \in Frames /\ ret \in Trees /\ Waiting(top)
         /\ FrameIds(top) \cap TreeIds(ret) = {}
         /\ heap = StackBlocks(Front(stack)) \cup FrameBlocks(top) \cup Blocks(ret) \cup dropped
         /\ FrameBlocks(top) \cap (StackBlocks(Front(stack)) \cup Blocks(ret) \cup dropped) = {}
         /\ Blocks(ret) \cap (StackBlocks(Front(stack)) \cup dropped) = {}
         /\ BlockIds(Blocks(ret)) \subseteq TreeIds(ret)
         /\ <<"value", ret[<<>>].id>> \in Blocks(ret)
<1> DEFINE b == Front(stack)
           f == top
           n == at - 1
<1>1. /\ b \in Seq(Frames) /\ f \in Frames /\ ret \in Trees /\ Waiting(f)
      /\ Owned(Append(b, f), ret, dropped, heap, n)
  BY TopFacts, TopOwned
<1>2. <<"value", ret[<<>>].id>> \in Blocks(ret) /\ BlockIds(Blocks(ret)) \subseteq TreeIds(ret)
  BY <1>1, ValueBlock
<1> HIDE DEF b, f, n
<1>3. /\ FrameIds(f) \cap TreeIds(ret) = {}
      /\ heap = StackBlocks(b) \cup FrameBlocks(f) \cup Blocks(ret) \cup dropped
      /\ FrameBlocks(f) \cap StackBlocks(b) = {} /\ FrameBlocks(f) \cap Blocks(ret) = {}
      /\ FrameBlocks(f) \cap dropped = {} /\ StackBlocks(b) \cap Blocks(ret) = {}
      /\ Blocks(ret) \cap dropped = {}
  BY <1>1, OwnedTop
<1>4. /\ FrameBlocks(f) \cap (StackBlocks(b) \cup Blocks(ret) \cup dropped) = {}
      /\ Blocks(ret) \cap (StackBlocks(b) \cup dropped) = {}
  BY <1>3
<1> QED BY <1>1, <1>2, <1>3, <1>4 DEF b, f

\* Which fields of a frame are replaced, and which keep their value.
LEMMA SameUpdate ==
  ASSUME NEW f \in Records, NEW t \in Trees, NEW m \in Nat, NEW c \in Nat
  PROVE  /\ [f EXCEPT !.tree = t, !.room = m, !.loopCount = f.loopCount] = [f EXCEPT !.tree = t, !.room = m]
         /\ [f EXCEPT !.tree = t, !.room = f.room, !.loopCount = c] = [f EXCEPT !.tree = t, !.loopCount = c]
         /\ [f EXCEPT !.tree = f.tree, !.room = f.room, !.loopCount = c] = [f EXCEPT !.loopCount = c]
<1>1. f = [kind |-> f.kind, tree |-> f.tree, id |-> f.id, left |-> f.left, room |-> f.room,
           loopCount |-> f.loopCount, key |-> f.key]
  BY DEF Records
<1>2. /\ f.loopCount \in Nat /\ f.tree \in Trees /\ f.room \in Nat
  BY DEF Records
<1> QED BY <1>1, <1>2

\* An array copies the value's struct and frees it.
LEMMA AddElementPreserves ==
  ASSUME IInv, AddElement
  PROVE  IInv'
<1> DEFINE f == top
           t == Grown(f.tree, ret)
           size == f.tree[<<>>].cell.val + 1
           m == IF size > f.room THEN size ELSE f.room
           u == [f EXCEPT !.tree = t, !.room = m]
           g == Updated(f, t, m, f.loopCount)
           v == <<"value", ret[<<>>].id>>
           SB == StackBlocks(Front(stack))
<1>1. pc = "return" /\ stack # <<>> /\ f.kind = "ARRAY" /\ ret # NULL
  BY DEF AddElement
<1>2. /\ stack' = [stack EXCEPT ![indent] = Counted(u)] /\ heap' = (heap \cup FrameBlocks(u)) \ {v}
      /\ pc' = "loop" /\ UNCHANGED <<buf, at, ret, dropped, oom>>
  BY DEF AddElement, Continue, Grown, Counted
<1>3. /\ f \in Frames /\ ret \in Trees /\ Waiting(f) /\ FrameIds(f) \cap TreeIds(ret) = {}
      /\ heap = SB \cup FrameBlocks(f) \cup Blocks(ret) \cup dropped
      /\ Blocks(ret) \cap (SB \cup dropped) = {} /\ v \in Blocks(ret)
  BY <1>1, ReturnFacts
<1> HIDE DEF f, SB
<1>4. /\ t = Grown(f.tree, ret) /\ g = Updated(f, t, m, f.loopCount)
      /\ m = IF f.tree[<<>>].cell.val + 1 > f.room THEN f.tree[<<>>].cell.val + 1 ELSE f.room
  OBVIOUS
<1> HIDE DEF g, u, t, m
<1>5. /\ g \in Frames /\ g.kind = "ARRAY" /\ g.tree = t /\ g.room = m /\ g.id = f.id
      /\ FrameIds(g) \subseteq FrameIds(f) \cup TreeIds(ret)
      /\ FrameBlocks(g) = FrameBlocks(f) \cup (Blocks(ret) \ {v}) \cup {<<"elements", f.id>>}
      /\ v \notin FrameBlocks(g) /\ t[<<>>].cell.val > 0
  <2>1. f.kind = "ARRAY" /\ ret # NULL
    BY <1>1
  <2> HIDE DEF v
  <2>2. /\ g \in Frames /\ g.kind = "ARRAY" /\ g.tree = t /\ g.room = m /\ g.id = f.id
        /\ FrameIds(g) \subseteq FrameIds(f) \cup TreeIds(ret)
        /\ FrameBlocks(g) = FrameBlocks(f) \cup (Blocks(ret) \ {<<"value", ret[<<>>].id>>})
                            \cup {<<"elements", f.id>>}
        /\ <<"value", ret[<<>>].id>> \notin FrameBlocks(g) /\ t[<<>>].cell.val > 0
    BY <1>3, <1>4, <2>1, ArrayFrame
  <2> QED BY <2>2 DEF v
<1>6. Counted(u) = g /\ u.tree = t /\ u.room = m /\ u.id = f.id
  <2>1. f \in Records /\ t \in Trees /\ m \in Nat /\ f.loopCount \in Nat
    BY <1>3, <1>5, FrameFacts
  <2>2. [f EXCEPT !.tree = t, !.room = m, !.loopCount = f.loopCount] = u
    BY <2>1, SameUpdate DEF u
  <2>3. u.tree = t /\ u.room = m /\ u.id = f.id
    <3>1. f = [kind |-> f.kind, tree |-> f.tree, id |-> f.id, left |-> f.left, room |-> f.room,
               loopCount |-> f.loopCount, key |-> f.key]
      BY <2>1 DEF Records
    <3> QED BY <2>1, <3>1 DEF u
  <2> QED BY <2>2, <2>3 DEF Updated, g
<1>7. FrameBlocks(u) = FrameBlocks(g)
  BY <1>5, <1>6 DEF FrameBlocks
<1>12. Reached(g, at)
  BY <1>5 DEF Reached
<1> DEFINE e == {}
<1>8. heap' = SB \cup FrameBlocks(g) \cup dropped \cup e
  <2> DEFINE l == <<"elements", f.id>>
  <2> HIDE DEF v, l
  <2>1. FrameBlocks(g) = FrameBlocks(f) \cup (Blocks(ret) \ {v}) \cup {l}
    BY <1>5 DEF v, l
  <2>2. v \notin SB /\ v \notin dropped /\ v \notin FrameBlocks(g)
    BY <1>3, <1>5 DEF v
  <2>3. heap' = (heap \cup FrameBlocks(g)) \ {v}
    BY <1>2, <1>7 DEF v
  <2> QED BY <1>3, <2>1, <2>2, <2>3
<1>9. BlockIds(e) \subseteq TreeIds(ret) /\ BlockIds(e) \cap FrameIds(g) = {} /\ dropped' = dropped \cup e
  BY <1>2 DEF BlockIds
<1>10. oom' # "ignored" => dropped' = {}
  BY <1>2 DEF IInv, Accounted
<1>11. g.kind # "TAG" /\ stack' = [stack EXCEPT ![indent] = g]
  BY <1>2, <1>5, <1>6
<1> HIDE DEF e
<1> QED BY <1>1, <1>2, <1>5, <1>8, <1>9, <1>10, <1>11, <1>12, ContinuePreserves DEF f, SB

\* An array has no room: all the value has, but its struct, is dropped.
LEMMA ElementDroppedPreserves ==
  ASSUME IInv, ElementDropped
  PROVE  IInv'
<1> DEFINE f == top
           g == Counted(f)
           v == <<"value", ret[<<>>].id>>
           e == Blocks(ret) \ {v}
           SB == StackBlocks(Front(stack))
<1>1. /\ pc = "return" /\ stack # <<>> /\ f.kind = "ARRAY" /\ ret # NULL
      /\ f.tree[<<>>].cell.val + 1 > f.room
  BY DEF ElementDropped
<1>2. /\ stack' = [stack EXCEPT ![indent] = g] /\ heap' = heap \ {v}
      /\ pc' = "loop" /\ UNCHANGED <<buf, at, ret>>
      /\ dropped' = dropped \cup e /\ oom' = "ignored"
  BY DEF ElementDropped, Continue, Counted
<1>3. /\ f \in Frames /\ ret \in Trees /\ Waiting(f) /\ FrameIds(f) \cap TreeIds(ret) = {}
      /\ heap = SB \cup FrameBlocks(f) \cup Blocks(ret) \cup dropped
      /\ FrameBlocks(f) \cap (SB \cup Blocks(ret) \cup dropped) = {}
      /\ Blocks(ret) \cap (SB \cup dropped) = {} /\ v \in Blocks(ret)
      /\ BlockIds(Blocks(ret)) \subseteq TreeIds(ret)
  BY <1>1, ReturnFacts
<1> HIDE DEF f, SB
<1>4. /\ g \in Frames /\ g.kind = "ARRAY" /\ Reached(g, at)
      /\ FrameIds(g) = FrameIds(f) /\ FrameBlocks(g) = FrameBlocks(f)
  BY <1>1, <1>3, ArrayKeeps
<1> HIDE DEF g
<1>5. heap' = SB \cup FrameBlocks(g) \cup dropped \cup e
  <2> HIDE DEF v
  <2> QED BY <1>2, <1>3, <1>4 DEF e
<1>6. BlockIds(e) \subseteq TreeIds(ret) /\ BlockIds(e) \cap FrameIds(g) = {}
  <2>1. BlockIds(e) \subseteq BlockIds(Blocks(ret))
    BY DEF BlockIds
  <2> QED BY <1>3, <1>4, <2>1
<1>7. g.kind # "TAG" /\ FrameIds(g) \subseteq FrameIds(f) \cup TreeIds(ret)
  BY <1>4
<1> HIDE DEF e
<1> QED BY <1>1, <1>2, <1>4, <1>5, <1>6, <1>7, ContinuePreserves DEF f, SB

\* A map takes an entry, and frees the one with its key.
LEMMA AddEntryPreserves ==
  ASSUME IInv, AddEntry
  PROVE  IInv'
<1> DEFINE f == top
           t == WithEntry(f.tree, f.key, ret)
           g == Updated(f, t, f.room, f.loopCount + 1)
           SB == StackBlocks(Front(stack))
<1>1. /\ pc = "return" /\ stack # <<>> /\ f.kind = "MAP" /\ ret # NULL
      /\ pc' = "loop" /\ UNCHANGED <<buf, at, ret, dropped, oom>>
      /\ heap' = (heap \ Blocks(f.tree)) \cup Blocks(t)
  BY DEF AddEntry, Continue, WithEntry
<1> DEFINE u == [f EXCEPT !.tree = t, !.loopCount = @ + 1]
<1>2. stack' = [stack EXCEPT ![indent] = Counted(u)]
  BY DEF AddEntry, Continue, WithEntry, Counted
<1>3. /\ f \in Frames /\ ret \in Trees /\ Waiting(f) /\ FrameIds(f) \cap TreeIds(ret) = {}
      /\ heap = SB \cup FrameBlocks(f) \cup Blocks(ret) \cup dropped
      /\ FrameBlocks(f) \cap (SB \cup Blocks(ret) \cup dropped) = {}
  BY <1>1, ReturnFacts
<1> HIDE DEF f, SB
<1>4. g = Updated(f, t, f.room, f.loopCount + 1) /\ t = WithEntry(f.tree, f.key, ret)
  OBVIOUS
<1> HIDE DEF u, g, t
<1>5. /\ g \in Frames /\ g.kind = "MAP" /\ FrameIds(g) \subseteq FrameIds(f) \cup TreeIds(ret)
      /\ FrameBlocks(f) = Blocks(f.tree) /\ FrameBlocks(g) = Blocks(t) /\ g.tree = t
      /\ Blocks(ret) \subseteq Blocks(t)
  BY <1>1, <1>3, <1>4, MapFrame
<1>6. Counted(u) = g
  <2> DEFINE c == f.loopCount + 1
  <2>1. f \in Records /\ t \in Trees /\ f.room \in Nat /\ f.loopCount \in Nat
    BY <1>3, <1>5, FrameFacts
  <2>2. c \in Nat /\ u = [f EXCEPT !.tree = t, !.loopCount = c]
    BY <2>1 DEF u
  <2>3. g = Updated(f, t, f.room, c)
    BY <1>4
  <2> HIDE DEF c
  <2>4. [f EXCEPT !.tree = t, !.room = f.room, !.loopCount = c] = u
    BY <2>1, <2>2, SameUpdate
  <2> QED BY <2>3, <2>4 DEF Updated
<1> DEFINE e == {}
<1>7. heap' = SB \cup FrameBlocks(g) \cup dropped \cup e
  BY <1>1, <1>3, <1>5
<1>8. BlockIds(e) \subseteq TreeIds(ret) /\ BlockIds(e) \cap FrameIds(g) = {} /\ dropped' = dropped \cup e
  BY <1>1 DEF BlockIds
<1>9. oom' # "ignored" => dropped' = {}
  BY <1>1 DEF IInv, Accounted
<1>10. g.kind # "TAG" /\ Reached(g, at) /\ stack' = [stack EXCEPT ![indent] = g]
  BY <1>2, <1>5, <1>6, MapReached
<1> HIDE DEF e
<1> QED BY <1>1, <1>5, <1>7, <1>8, <1>9, <1>10, ContinuePreserves DEF f, SB

\* insertCoreconfHashMap never gives up on a bucket: parseMap stops before a map
\* has that many entries.
LEMMA NeverGivesUp ==
  ASSUME NEW f \in Frames, f.kind = "MAP", Waiting(f), f = top
  PROVE  ~(OthersInBucket + (IF Replaces THEN 1 ELSE 0) > CORECONF_MAX_LOOP + 1)
<1> DEFINE E == Entries(f.tree)
           O == {p \in DOMAIN top.tree : Len(p) = 1 /\ p # <<Key(top.key)>>
                                         /\ Bucket[p[1][2]] = Bucket[top.key]}
           x == IF Replaces THEN 1 ELSE 0
<1>1. /\ IsFiniteSet(E) /\ Cardinality(E) <= f.loopCount /\ f.loopCount <= CORECONF_MAX_LOOP
      /\ f.loopCount \in Nat /\ CORECONF_MAX_LOOP \in Nat
  BY SerializationAssumption DEF Frames, IsFrame, IsTag, IsArray, IsMap, Waiting, Records
<1>2. O \subseteq E
  BY DEF Entries
<1> HIDE DEF E, O, x
<1>3. /\ Cardinality(O) \in Nat /\ Cardinality(E) \in Nat /\ Cardinality(O) <= Cardinality(E)
  BY <1>1, <1>2, FS_Subset, FS_CardinalityType
<1>4. x \in {0, 1}
  BY DEF x
<1>5. ~(Cardinality(O) + x > CORECONF_MAX_LOOP + 1)
  BY <1>1, <1>3, <1>4
<1> QED BY <1>5 DEF OthersInBucket, O, x

\* No memory for the object of an entry: its value is dropped.
LEMMA EntryDroppedPreserves ==
  ASSUME IInv, EntryDropped
  PROVE  IInv'
<1> DEFINE f == top
           g == Updated(f, f.tree, f.room, f.loopCount + 1)
           e == Blocks(ret)
           SB == StackBlocks(Front(stack))
<1>1. pc = "return" /\ stack # <<>> /\ f.kind = "MAP" /\ ret # NULL
  BY DEF EntryDropped
<1> DEFINE u == [f EXCEPT !.loopCount = @ + 1]
<1>2. /\ stack' = [stack EXCEPT ![indent] = Counted(u)]
      /\ pc' = "loop" /\ UNCHANGED <<buf, at, ret>>
  BY DEF EntryDropped, Continue, Counted
<1>3. /\ f \in Frames /\ ret \in Trees /\ Waiting(f) /\ FrameIds(f) \cap TreeIds(ret) = {}
      /\ heap = SB \cup FrameBlocks(f) \cup Blocks(ret) \cup dropped
      /\ BlockIds(Blocks(ret)) \subseteq TreeIds(ret)
  BY <1>1, ReturnFacts
<1>4. ~(OthersInBucket + (IF Replaces THEN 1 ELSE 0) > CORECONF_MAX_LOOP + 1)
  BY <1>1, <1>3, NeverGivesUp
<1>5. oom' = "ignored" /\ dropped' = dropped \cup e /\ heap' = heap
  <2> DEFINE givesUp == OthersInBucket + (IF Replaces THEN 1 ELSE 0) > CORECONF_MAX_LOOP + 1
             object == {<<"object", ret[<<>>].id>>}
  <2>1. /\ oom' \in IF givesUp THEN {oom, "ignored"} ELSE {"ignored"}
        /\ dropped' = dropped \cup Blocks(ret) \cup IF givesUp THEN object ELSE {}
        /\ heap' = heap \cup IF givesUp THEN object ELSE {}
    BY DEF EntryDropped
  <2>2. ~givesUp
    BY <1>4
  <2> HIDE DEF givesUp, object
  <2> QED BY <2>1, <2>2
<1> HIDE DEF f, SB
<1>6. Counted(u) = g
  <2> DEFINE c == f.loopCount + 1
  <2>1. f \in Records /\ f.tree \in Trees /\ f.room \in Nat /\ f.loopCount \in Nat
    BY <1>3, FrameFacts
  <2>2. c \in Nat /\ u = [f EXCEPT !.loopCount = c] /\ g = Updated(f, f.tree, f.room, c)
    BY <2>1
  <2> HIDE DEF c, u, g
  <2>3. [f EXCEPT !.tree = f.tree, !.room = f.room, !.loopCount = c] = u
    BY <2>1, <2>2, SameUpdate
  <2> QED BY <2>2, <2>3 DEF Updated
<1>7. g = Updated(f, f.tree, f.room, f.loopCount + 1)
  OBVIOUS
<1> HIDE DEF u, g
<1>8. g \in Frames /\ g.kind = "MAP" /\ FrameIds(g) = FrameIds(f) /\ FrameBlocks(g) = FrameBlocks(f)
  BY <1>1, <1>3, <1>7, MapKeeps
<1>9. heap' = SB \cup FrameBlocks(g) \cup dropped \cup e
  BY <1>3, <1>5, <1>8
<1>10. BlockIds(e) \subseteq TreeIds(ret) /\ BlockIds(e) \cap FrameIds(g) = {}
  BY <1>3, <1>8
<1>11. /\ g.kind # "TAG" /\ Reached(g, at) /\ FrameIds(g) \subseteq FrameIds(f) \cup TreeIds(ret)
       /\ stack' = [stack EXCEPT ![indent] = g]
  BY <1>2, <1>6, <1>8, MapReached
<1> HIDE DEF e
<1> QED BY <1>1, <1>2, <1>5, <1>8, <1>9, <1>10, <1>11, ContinuePreserves DEF f, SB

\* Decoding begins.
LEMMA StartDecodingPreserves ==
  ASSUME IInv, StartDecoding
  PROVE  IInv'
<1>1. /\ pc = "encoded" /\ pc' = "value" /\ at' = 1 /\ UNCHANGED <<buf, stack, ret, heap, dropped, oom>>
  BY DEF StartDecoding
<1>2. at = 1 /\ stack = <<>> /\ at' = at
  BY <1>1 DEF IInv, FreshOK
<1>3. Held = NULL /\ Held' = NULL
  BY <1>1 DEF Held
<1>4. Accounted'
  BY <1>1, <1>2, <1>3 DEF IInv, Accounted
<1>5. DecoderOK'
  <2>1. \A i \in DOMAIN stack' : FALSE
    BY <1>1, <1>2
  <2> QED BY <1>1, <1>2, <2>1 DEF IInv, DecoderOK
<1> QED BY <1>1, <1>4, <1>5, DecoderStep

\* A call returns NULL at once.
LEMMA RefusesPreserve ==
  ASSUME IInv, TooDeep \/ LeafOutOfMemory \/ Unsupported \/ EnterFails
  PROVE  IInv'
<1>1. pc = "value" /\ ReturnNULL /\ oom' \in {oom, Noticed}
  BY DEF TooDeep, LeafOutOfMemory, Unsupported, EnterFails
<1> QED BY <1>1, ReturnsNULL

\* The program stops where it is.
LEMMA HaltPreserves ==
  ASSUME IInv, Halt
  PROVE  IInv'
<1>1. /\ pc = "value" /\ pc' = "halted" /\ oom' = Noticed
      /\ UNCHANGED <<buf, at, stack, ret, heap, dropped>>
  BY DEF Halt
<1>2. Held = NULL /\ Held' = NULL
  BY <1>1 DEF Held
<1>3. Accounted'
  BY <1>1, <1>2 DEF IInv, Accounted, Noticed
<1>4. DecoderOK'
  <2>1. \A i \in DOMAIN stack : Waiting(stack[i])
    BY <1>1 DEF IInv, DecoderOK
  <2>2. \A i \in DOMAIN stack' : Waiting(stack'[i])
    BY <1>1, <2>1 DEF Waiting
  <2> QED BY <1>1, <2>2 DEF IInv, DecoderOK
<1> QED BY <1>1, <1>3, <1>4, DecoderStep

\* Before the first call, and after each one, nothing is owned.
LEMMA NothingOwned ==
  \A n \in Int : Owned(<<>>, NULL, {}, {}, n)
<1>1. DOMAIN <<>> = {}
  OBVIOUS
<1>2. /\ Apart(<<>>) /\ StackIds(<<>>) = {} /\ StackBlocks(<<>>) = {} /\ BlockIds({}) = {}
  BY <1>1 DEF Apart, StackIds, StackBlocks, BlockIds
<1> QED BY <1>2, NULLFacts DEF Owned

\* Nothing has been decoded yet.
LEMMA InitIInv == Init => IInv
<1> SUFFICES ASSUME Init PROVE IInv
  OBVIOUS
<1>1. /\ pc = "idle" /\ buf = <<>> /\ at = 1 /\ stack = <<>> /\ ret = NULL /\ heap = {} /\ dropped = {}
  BY DEF Init
<1>2. PCOK /\ EncoderOK /\ FreshOK
  BY <1>1 DEF PCOK, EncoderOK, FreshOK
<1>3. DecoderOK
  <2>1. at \in 1 .. Len(buf) + 1 /\ stack \in Seq(Frames) /\ Len(stack) <= CORECONF_MAX_DEPTH + 1
    BY <1>1, SerializationAssumption
  <2>2. \A i \in DOMAIN stack : FALSE
    BY <1>1
  <2> QED BY <1>1, <2>1, <2>2, NULLFacts DEF DecoderOK
<1>4. Accounted
  <2>1. Held = NULL /\ at - 1 \in Int
    BY <1>1 DEF Held
  <2> QED BY <1>1, <2>1, NothingOwned DEF Accounted
<1> QED BY <1>2, <1>3, <1>4 DEF IInv

\* The caller frees the value, or the program starts again.
LEMMA DonePreserves ==
  ASSUME IInv, Done
  PROVE  IInv'
<1>1. /\ pc' = "idle" /\ buf' = <<>> /\ at' = 1 /\ stack' = <<>> /\ ret' = NULL
      /\ heap' = {} /\ dropped' = {} /\ oom' = "no"
  BY DEF Done
<1>2. PCOK' /\ EncoderOK' /\ FreshOK'
  BY <1>1 DEF PCOK, EncoderOK, FreshOK
<1>3. DecoderOK'
  <2>1. at' \in 1 .. Len(buf') + 1 /\ stack' \in Seq(Frames) /\ Len(stack') <= CORECONF_MAX_DEPTH + 1
    BY <1>1, SerializationAssumption
  <2>2. \A i \in DOMAIN stack' : FALSE
    BY <1>1
  <2> QED BY <1>1, <2>1, <2>2, NULLFacts DEF DecoderOK
<1>4. Accounted'
  <2>1. Held' = NULL /\ at' - 1 \in Int
    BY <1>1 DEF Held
  <2> QED BY <1>1, <2>1, NothingOwned DEF Accounted
<1> QED BY <1>2, <1>3, <1>4 DEF IInv

\* A step of neither the caller nor the library.
LEMMA StutterPreserves ==
  ASSUME IInv, UNCHANGED vars
  PROVE  IInv'
<1>1. Held' = Held
  BY DEF vars, Held
<1>2. DecoderOK'
  BY DEF IInv, DecoderOK, Waiting, Reached, top, vars
<1>3. Accounted'
  BY <1>1 DEF IInv, Accounted, vars
<1> QED BY <1>2, <1>3 DEF IInv, PCOK, EncoderOK, FreshOK, vars

\* Every step keeps the invariant.
LEMMA StepPreserves ==
  IInv /\ [Client \/ Step]_vars => IInv'
<1> SUFFICES ASSUME IInv, [Client \/ Step]_vars PROVE IInv'
  OBVIOUS
<1>1. CASE Client
  BY <1>1, BeginPreserves, ReceivePreserves, StartDecodingPreserves, DonePreserves DEF Client
<1>2. CASE EncodeStep \/ EncodeFails \/ EncodeReturns \/ PeerStep \/ PeerReturns
  BY <1>2, EncodeStepPreserves, PeerStepPreserves, EncoderEnds
<1>3. CASE TooDeep \/ DecodeLeaf \/ LeafOutOfMemory \/ Unsupported
  BY <1>3, DecodeLeafPreserves, RefusesPreserve
<1>4. CASE EnterTag \/ TagReturns \/ TagOutOfMemory \/ Enter \/ EnterFails \/ Halt
  BY <1>4, EnterTagPreserves, TagReturnsPreserves, TagOutOfMemoryPreserves, EnterPreserves,
     RefusesPreserve, HaltPreserves
<1>5. CASE Leave \/ NextElement \/ NextEntry \/ MapFails \/ NULLInside
  BY <1>5, LeavePreserves, NextPreserves, FailsPreserve
<1>6. CASE AddElement \/ ElementDropped \/ AddEntry \/ EntryDropped
  BY <1>6, AddElementPreserves, ElementDroppedPreserves, AddEntryPreserves, EntryDroppedPreserves
<1>7. CASE UNCHANGED vars
  BY <1>7, StutterPreserves
<1> QED BY <1>1, <1>2, <1>3, <1>4, <1>5, <1>6, <1>7 DEF Step

\* The inductive invariant of the encoder and the decoder: whatever is decoded,
\* whichever allocation fails, every block has one owner.
THEOREM Invariance == Spec => []IInv
BY InitIInv, StepPreserves, PTL DEF Spec

-----------------------------------------------------------------------------
(* What the runs check *)

OwnersInARow == <<Blocks(Held), dropped>> \o [i \in DOMAIN stack |-> FrameBlocks(stack[i])]

\* The owners of TypeOK are those of Owned.
LEMMA Owners ==
  ASSUME IInv, NEW owners, owners = OwnersInARow
  PROVE  /\ heap = UNION {owners[i] : i \in DOMAIN owners}
         /\ \A i, j \in DOMAIN owners : i # j => owners[i] \cap owners[j] = {}
<1> DEFINE F == [i \in DOMAIN stack |-> FrameBlocks(stack[i])]
           A == Blocks(Held)
           n == at - 1
           m == Len(stack)
<1>1. stack \in Seq(Frames) /\ Held \in Trees /\ Owned(stack, Held, dropped, heap, n)
  BY NULLFacts DEF IInv, DecoderOK, Accounted, Held
<1>2. m \in Nat /\ DOMAIN stack = 1 .. m /\ \A i \in 1 .. m : stack[i] \in Frames
  BY <1>1
<1>3. /\ DOMAIN owners = 1 .. m + 2 /\ owners[1] = A /\ owners[2] = dropped
      /\ \A i \in 1 .. m : owners[i + 2] = FrameBlocks(stack[i])
  <2> DEFINE S == {FrameBlocks(stack[i]) : i \in 1 .. m} \cup {A, dropped}
             two == <<A, dropped>>
  <2>1. /\ F \in [1 .. m -> S] /\ \A i \in 1 .. m : F[i] = FrameBlocks(stack[i])
    BY <1>2
  <2>2. two \in Seq(S) /\ Len(two) = 2 /\ two[1] = A /\ two[2] = dropped
    OBVIOUS
  <2>3. owners = two \o F
    BY DEF OwnersInARow
  <2> HIDE DEF S, two, F, m, A
  <2>4. F \in Seq(S) /\ Len(F) = m
    BY <1>2, <2>1
  <2> DEFINE o == two \o F
  <2>5. /\ o \in Seq(S) /\ Len(o) = Len(two) + Len(F)
        /\ \A i \in 1 .. Len(two) : o[i] = two[i]
        /\ \A i \in 1 .. Len(F) : o[Len(two) + i] = F[i]
    <3>1. two \in Seq(S) /\ F \in Seq(S)
      BY <2>2, <2>4
    <3> QED BY ONLY <3>1
  <2>6. o = owners
    BY <2>3
  <2> HIDE DEF o
  <2>7. /\ DOMAIN o = 1 .. m + 2 /\ o[1] = two[1] /\ o[2] = two[2]
        /\ \A i \in 1 .. m : 2 + i = i + 2 /\ o[2 + i] = F[i]
    BY <1>2, <2>2, <2>4, <2>5
  <2> QED BY <2>1, <2>2, <2>6, <2>7
<1> HIDE DEF F, A, n, m
<1>4. /\ StackBlocks(stack) \cap A = {} /\ StackBlocks(stack) \cap dropped = {} /\ A \cap dropped = {}
  BY <1>1, BlocksApart DEF A
<1>5. \A i, j \in 1 .. m : i # j => FrameBlocks(stack[i]) \cap FrameBlocks(stack[j]) = {}
  <2>1. \A i, j \in 1 .. m : i # j => FrameIds(stack[i]) \cap FrameIds(stack[j]) = {}
    BY <1>1, <1>2 DEF Owned, Apart
  <2>2. \A i \in 1 .. m : \A b \in FrameBlocks(stack[i]) : b[2] \in FrameIds(stack[i])
    BY <1>2, FrameBlocksInIds
  <2>3. ASSUME NEW i \in 1 .. m, NEW j \in 1 .. m, i # j,
               NEW b, b \in FrameBlocks(stack[i]), b \in FrameBlocks(stack[j])
        PROVE  FALSE
    <3>1. b[2] \in FrameIds(stack[i]) /\ b[2] \in FrameIds(stack[j])
      BY <2>2, <2>3
    <3> QED BY <2>1, <2>3, <3>1
  <2> QED BY <2>3
<1>6. \A i \in 1 .. m : FrameBlocks(stack[i]) \subseteq StackBlocks(stack)
  BY <1>2 DEF StackBlocks
<1>7. \A x \in 1 .. m + 2 : x = 1 \/ x = 2 \/ (x - 2 \in 1 .. m /\ owners[x] = FrameBlocks(stack[x - 2]))
  <2> TAKE x \in 1 .. m + 2
  <2> DEFINE y == x - 2
  <2>1. x = 1 \/ x = 2 \/ (y \in 1 .. m /\ y + 2 = x)
    BY <1>2
  <2> HIDE DEF y
  <2>2. y \in 1 .. m /\ y + 2 = x => owners[x] = FrameBlocks(stack[y])
    BY <1>3
  <2> QED BY <2>1, <2>2 DEF y
<1>8. ASSUME NEW i \in DOMAIN owners, NEW j \in DOMAIN owners, i # j
      PROVE  owners[i] \cap owners[j] = {}
  <2>1. i \in 1 .. m + 2 /\ j \in 1 .. m + 2
    BY <1>3
  <2> DEFINE y == i - 2
             z == j - 2
  <2>2. /\ i = 1 \/ i = 2 \/ (y \in 1 .. m /\ owners[i] = FrameBlocks(stack[y]))
        /\ j = 1 \/ j = 2 \/ (z \in 1 .. m /\ owners[j] = FrameBlocks(stack[z]))
        /\ y # z
    BY <1>7, <1>8, <2>1
  <2> HIDE DEF y, z
  <2>3. owners[i] \cap owners[j] = {} <=> owners[j] \cap owners[i] = {}
    OBVIOUS
  <2>4. ASSUME NEW x \in 1 .. m
        PROVE  FrameBlocks(stack[x]) \cap A = {} /\ FrameBlocks(stack[x]) \cap dropped = {}
    BY <1>4, <1>6
  <2>5. CASE i = 1 \/ i = 2
    <3>1. CASE j = 1 \/ j = 2
      BY <1>3, <1>4, <1>8, <2>3, <2>5, <3>1
    <3>2. CASE z \in 1 .. m /\ owners[j] = FrameBlocks(stack[z])
      BY <1>3, <2>3, <2>4, <2>5, <3>2
    <3> QED BY <2>2, <3>1, <3>2
  <2>6. CASE y \in 1 .. m /\ owners[i] = FrameBlocks(stack[y])
    <3>1. CASE j = 1 \/ j = 2
      BY <1>3, <2>4, <2>6, <3>1
    <3>2. CASE z \in 1 .. m /\ owners[j] = FrameBlocks(stack[z])
      BY <1>5, <2>2, <2>6, <3>2
    <3> QED BY <2>2, <3>1, <3>2
  <2> QED BY <2>2, <2>5, <2>6
<1>9. heap = UNION {owners[i] : i \in DOMAIN owners}
  <2>1. heap = StackBlocks(stack) \cup A \cup dropped
    BY <1>1 DEF Owned, A
  <2>2. ASSUME NEW b \in heap PROVE \E i \in DOMAIN owners : b \in owners[i]
    <3>1. CASE b \in A \cup dropped
      <4>1. 1 \in DOMAIN owners /\ 2 \in DOMAIN owners
        BY <1>2, <1>3
      <4> QED BY <1>3, <3>1, <4>1
    <3>2. CASE b \in StackBlocks(stack)
      <4>1. PICK i \in 1 .. m : b \in FrameBlocks(stack[i])
        BY <1>2, <3>2 DEF StackBlocks
      <4>2. i + 2 \in DOMAIN owners
        BY <1>2, <1>3
      <4> QED BY <1>3, <4>1, <4>2
    <3> QED BY <2>1, <2>2, <3>1, <3>2
  <2>3. ASSUME NEW i \in DOMAIN owners PROVE owners[i] \subseteq heap
    <3>1. i \in 1 .. m + 2
      BY <1>3
    <3> QED BY <1>3, <1>6, <1>7, <2>1, <3>1
  <2> QED BY <2>2, <2>3
<1> QED BY <1>8, <1>9

\* All memory has one owner: the value that was returned, a container that is
\* being filled or a value that was dropped.
THEOREM TypeCorrect == Spec => []TypeOK
<1>1. IInv => TypeOK
  <2> SUFFICES ASSUME IInv PROVE TypeOK
    OBVIOUS
  <2>1. at \in 1 .. Len(buf) + 1 /\ indent <= CORECONF_MAX_DEPTH + 1 /\ ret \in Trees
    BY DEF IInv, DecoderOK, indent
  <2>2. \A p \in DOMAIN ret : ret[p].cell \in Cells
    BY <2>1, TreeFacts
  <2>3. LET owners == OwnersInARow
        IN /\ heap = UNION {owners[i] : i \in DOMAIN owners}
           /\ \A i, j \in DOMAIN owners : i # j => owners[i] \cap owners[j] = {}
    BY Owners
  <2> QED BY <2>1, <2>2, <2>3, Zenon DEF TypeOK, Held, OwnersInARow
<1> QED BY <1>1, Invariance, PTL

\* A call that returns, with whatever result, holds nothing but that, unless an
\* append or an insert ran out of memory.
THEOREM NothingIsLost == Spec => []NothingLost
<1>1. IInv => NothingLost
  <2> SUFFICES ASSUME IInv, Returned, oom # "ignored" PROVE heap = Blocks(ret)
    BY DEF NothingLost
  <2>1. stack = <<>> /\ Held = ret /\ dropped = {}
    BY DEF Returned, Held, IInv, Accounted
  <2>2. heap = StackBlocks(stack) \cup Blocks(ret) \cup dropped
    BY <2>1 DEF IInv, Accounted, Owned
  <2>3. StackBlocks(stack) = {}
    <3>1. DOMAIN stack = {}
      BY <2>1
    <3> QED BY <3>1 DEF StackBlocks
  <2> QED BY <2>1, <2>2, <2>3
<1> QED BY <1>1, Invariance, PTL
=============================================================================
