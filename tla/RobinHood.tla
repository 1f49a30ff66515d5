------------------------------ MODULE RobinHood ------------------------------
(***************************************************************************)
(* hashmap.c: open addressing with Robin Hood probing.  An item sits in    *)
(* the bucket of its hash or after it; dib is its distance from there plus *)
(* one, 0 in an empty bucket.  A call is a sequence of steps, one per      *)
(* iteration of its loops.                                                 *)
(***************************************************************************)
EXTENDS Integers, FiniteSets

CONSTANTS
  Items, NULL, \* items have a key and a val; compare looks at the key
  hash,        \* the clipped hash of each key
  MinCap,      \* the least number of buckets, 16
  GrowPower,   \* map->growpower
  GROW_AT, SHRINK_AT \* in percent

\* hashmap_set_grow_by_power clips the power.  The limits are 60 and 10: as a
\* map grows when its count equals the limit, a map that grew, shrank or was
\* cleared must not be past its limit already.
ASSUME RobinHoodAssumption ==
  /\ MinCap \in Nat \ {0, 1} /\ GrowPower \in 1 .. 16
  /\ GROW_AT \in 50 .. 99 /\ SHRINK_AT \in Nat /\ 2 * SHRINK_AT <= GROW_AT
  /\ \A x \in Items : hash[x.key] \in Nat
  /\ NULL \notin Items

VARIABLES
  buckets, nbuckets, count, cap, growat, shrinkat, oom, \* fields of the map
  pc,       \* the loop that runs: "set", "find", "shift", "resize" or "move"; or "idle"
  op,       \* the call that runs
  item,     \* its argument; of a get or delete only the key matters
  entry,    \* map->edata, or the entry a resize moves
  i,        \* the bucket the loop is at
  buckets2, \* the buckets of the map that resize0 builds
  j,        \* the bucket of that map the move is at
  spare,    \* map->spare of a delete
  answer    \* what the last call returned

sizes == <<nbuckets, cap, growat, shrinkat>>
\* The fields every loop but the one that ends a call leaves alone.
fields == <<sizes, count, oom, op, item, spare, answer>>
locals == <<op, item, entry, i, buckets2, j, spare>>
vars == <<buckets, sizes, count, oom, pc, locals, answer>>

Empty == [dib |-> 0, item |-> NULL]
EmptyBuckets(n) == [b \in 0 .. n - 1 |-> Empty]
EntryOf(x) == [dib |-> 1, item |-> x]

Home(x, n) == hash[x.key] % n
Following(b, n) == (b + 1) % n

\* Mutant: leaves it at the hash.
SameHash(x, y) == hash[x.key] = hash[y.key]

SameKey(x, y) == x.key = y.key

Holds(b, x) == buckets[b].dib > 0 /\ SameKey(buckets[b].item, x)
Passes(b, x) == buckets[b].dib > 0 /\ ~SameKey(buckets[b].item, x)

GrowAt(n) == (GROW_AT * n) \div 100
ShrinkAt(n) == (SHRINK_AT * n) \div 100

\* Mutant: a cleared map may fill up.
ClearGrowsWhenFull(n) == n

\* A cleared map grows later.
ClearGrowAt(n) == (75 * n) \div 100

\* Mutant: grows one item later.
MustGrowLate == count > growat

MustGrow == count = growat

MustShrink == nbuckets > cap /\ count - 1 <= shrinkat \* before the deletion is counted

\* The number of buckets of the map that resize0 builds.
NewSize == IF op = "set" THEN nbuckets * 2 ^ GrowPower ELSE nbuckets \div 2

NoCall ==
  /\ pc = "idle" /\ op = "none" /\ item = NULL /\ entry = Empty
  /\ i = 0 /\ buckets2 = <<>> /\ j = 0 /\ spare = NULL

Return(x) ==
  /\ answer' = x
  /\ pc' = "idle" /\ op' = "none" /\ item' = NULL /\ entry' = Empty
  /\ i' = 0 /\ buckets2' = <<>> /\ j' = 0 /\ spare' = NULL

-----------------------------------------------------------------------------
(* Calls *)

\* hashmap_new with a capacity of 0.
Init ==
  /\ buckets = EmptyBuckets(MinCap) /\ nbuckets = MinCap /\ cap = MinCap
  /\ growat = GrowAt(MinCap) /\ shrinkat = ShrinkAt(MinCap)
  /\ count = 0 /\ oom = FALSE /\ answer = NULL
  /\ NoCall

StartSet(x, n) == pc' = "set" /\ entry' = EntryOf(x) /\ i' = Home(x, n)
StartResize(n) == pc' = "resize" /\ buckets2' = EmptyBuckets(n) /\ i' = 0

\* hashmap_set grows a map that is full, whether or not it has the key.
Set(x) ==
  /\ pc = "idle"
  /\ op' = "set" /\ item' = x /\ oom' = FALSE
  /\ \/ MustGrow /\ StartResize(nbuckets * 2 ^ GrowPower) /\ UNCHANGED entry
     \/ ~MustGrow /\ StartSet(x, nbuckets) /\ UNCHANGED buckets2
  /\ UNCHANGED <<buckets, sizes, count, j, spare, answer>>

SetOutOfMemory ==
  /\ pc = "idle" /\ MustGrow
  /\ oom' = TRUE /\ answer' = NULL
  /\ UNCHANGED <<buckets, sizes, count, pc, locals>>

StartFind(x) ==
  /\ pc = "idle" /\ pc' = "find"
  /\ item' = x /\ i' = Home(x, nbuckets)
  /\ UNCHANGED <<buckets, sizes, count, entry, buckets2, j, spare, answer>>

Get(x) == StartFind(x) /\ op' = "get" /\ UNCHANGED oom
Delete(x) == StartFind(x) /\ op' = "delete" /\ oom' = FALSE

\* Mutant: does not reset the count.
ClearKeepsCount(n) ==
  /\ pc = "idle"
  /\ buckets' = EmptyBuckets(n) /\ nbuckets' = n /\ cap' = n
  /\ growat' = ClearGrowAt(n) /\ shrinkat' = ShrinkAt(n)
  /\ UNCHANGED <<count, oom, pc, locals, answer>>

\* hashmap_clear to n buckets: those it has (update_cap), or as many as its
\* capacity.  Without memory for these it uses a part of those it has.
Clear(n) ==
  /\ pc = "idle"
  /\ buckets' = EmptyBuckets(n) /\ nbuckets' = n /\ cap' = n /\ count' = 0
  /\ growat' = ClearGrowAt(n) /\ shrinkat' = ShrinkAt(n)
  /\ UNCHANGED <<oom, pc, locals, answer>>

-----------------------------------------------------------------------------
(* The loop of hashmap_set.  The entry takes the place of the first item    *)
(* that is closer to its home than the entry is, which is carried on.       *)

SetPlaces ==
  /\ pc = "set" /\ buckets[i].dib = 0
  /\ buckets' = [buckets EXCEPT ![i] = entry]
  /\ count' = count + 1
  /\ Return(NULL)
  /\ UNCHANGED <<sizes, oom>>

SetReplaces ==
  /\ pc = "set" /\ Holds(i, entry.item)
  /\ buckets' = [buckets EXCEPT ![i].item = entry.item]
  /\ Return(buckets[i].item)
  /\ UNCHANGED <<sizes, count, oom>>

\* What is left in a bucket that an entry passes, and what is carried on.
Stays(bucket) == IF bucket.dib < entry.dib THEN entry ELSE bucket
Carried(bucket) ==
  LET x == IF bucket.dib < entry.dib THEN bucket ELSE entry IN [x EXCEPT !.dib = @ + 1]

\* Mutant: probes without taking a place.
SetOnlyPasses ==
  /\ pc = "set" /\ Passes(i, entry.item)
  /\ entry' = [entry EXCEPT !.dib = @ + 1]
  /\ i' = Following(i, nbuckets)
  /\ UNCHANGED <<buckets, fields, pc, buckets2, j>>

SetPasses ==
  /\ pc = "set" /\ Passes(i, entry.item)
  /\ buckets' = [buckets EXCEPT ![i] = Stays(@)]
  /\ entry' = Carried(buckets[i])
  /\ i' = Following(i, nbuckets)
  /\ UNCHANGED <<fields, pc, buckets2, j>>

-----------------------------------------------------------------------------
(* The loops of hashmap_get and hashmap_delete *)

FindPasses ==
  /\ pc = "find" /\ Passes(i, item)
  /\ i' = Following(i, nbuckets)
  /\ UNCHANGED <<buckets, fields, pc, entry, buckets2, j>>

FindFails ==
  /\ pc = "find" /\ buckets[i].dib = 0
  /\ Return(NULL)
  /\ UNCHANGED <<buckets, sizes, count, oom>>

GetReturns ==
  /\ pc = "find" /\ op = "get" /\ Holds(i, item)
  /\ Return(buckets[i].item)
  /\ UNCHANGED <<buckets, sizes, count, oom>>

DeleteFinds ==
  /\ pc = "find" /\ op = "delete" /\ Holds(i, item)
  /\ spare' = buckets[i].item
  /\ buckets' = [buckets EXCEPT ![i] = Empty]
  /\ pc' = "shift"
  /\ UNCHANGED <<sizes, count, oom, op, item, entry, i, buckets2, j, answer>>

NextBucket == buckets[Following(i, nbuckets)]

\* The items after the deleted one move up, each one bucket closer to home.
Shift ==
  /\ pc = "shift" /\ NextBucket.dib > 1
  /\ buckets' = [buckets EXCEPT ![i] = [NextBucket EXCEPT !.dib = @ - 1]]
  /\ i' = Following(i, nbuckets)
  /\ UNCHANGED <<fields, pc, entry, buckets2, j>>

\* Until one is at home or a bucket is empty.  A map that got small shrinks,
\* or stays as it is without memory for that.
ShiftEnds ==
  /\ pc = "shift" /\ NextBucket.dib <= 1
  /\ buckets' = [buckets EXCEPT ![i] = Empty]
  /\ count' = count - 1
  /\ \/ MustShrink /\ StartResize(NewSize) /\ UNCHANGED <<op, item, entry, j, spare, answer>>
     \/ Return(spare)
  /\ UNCHANGED <<sizes, oom>>

-----------------------------------------------------------------------------
(* resize0: every item moves to a new array, as in a set but without        *)
(* comparing keys.                                                          *)

ResizeSkips ==
  /\ pc = "resize" /\ i < nbuckets /\ buckets[i].dib = 0
  /\ i' = i + 1
  /\ UNCHANGED <<buckets, fields, pc, entry, buckets2, j>>

\* Mutant: the entry keeps its distance in the old array.
ResizeKeepsDib ==
  /\ pc = "resize" /\ i < nbuckets /\ buckets[i].dib > 0
  /\ entry' = buckets[i] /\ j' = Home(buckets[i].item, NewSize)
  /\ pc' = "move"
  /\ UNCHANGED <<buckets, fields, i, buckets2>>

ResizeMoves ==
  /\ pc = "resize" /\ i < nbuckets /\ buckets[i].dib > 0
  /\ entry' = EntryOf(buckets[i].item) /\ j' = Home(buckets[i].item, NewSize)
  /\ pc' = "move"
  /\ UNCHANGED <<buckets, fields, i, buckets2>>

MovePlaces ==
  /\ pc = "move" /\ buckets2[j].dib = 0
  /\ buckets2' = [buckets2 EXCEPT ![j] = entry]
  /\ pc' = "resize" /\ i' = i + 1
  /\ UNCHANGED <<buckets, fields, entry, j>>

MovePasses ==
  /\ pc = "move" /\ buckets2[j].dib > 0
  /\ buckets2' = [buckets2 EXCEPT ![j] = Stays(@)]
  /\ entry' = Carried(buckets2[j])
  /\ j' = Following(j, NewSize)
  /\ UNCHANGED <<buckets, fields, pc, i>>

\* The map takes over the new array, and a set goes on with its own loop.
ResizeEnds ==
  /\ pc = "resize" /\ i = nbuckets
  /\ buckets' = buckets2 /\ nbuckets' = NewSize
  /\ growat' = GrowAt(NewSize) /\ shrinkat' = ShrinkAt(NewSize)
  /\ \/ /\ op = "set" /\ StartSet(item, NewSize)
        /\ buckets2' = <<>> /\ j' = 0
        /\ UNCHANGED <<op, item, spare, answer>>
     \/ op = "delete" /\ Return(spare)
  /\ UNCHANGED <<count, cap, oom>>

-----------------------------------------------------------------------------
Call ==
  \/ \E x \in Items : Set(x) \/ Get(x) \/ Delete(x)
  \/ SetOutOfMemory
  \/ \E n \in {nbuckets, cap} : Clear(n)

Step ==
  \/ SetPlaces \/ SetReplaces \/ SetPasses
  \/ FindPasses \/ FindFails \/ GetReturns
  \/ DeleteFinds \/ Shift \/ ShiftEnds
  \/ ResizeSkips \/ ResizeMoves \/ MovePlaces \/ MovePasses \/ ResizeEnds

Next == Call \/ Step

\* A client need not call; a call that runs is sequential code and goes on.
Spec == Init /\ [][Next]_vars /\ WF_vars(Step)

-----------------------------------------------------------------------------
(* Properties *)

\* The bucket that holds nothing but looks as it does before a shift: its item
\* is deleted, or has moved up already.
Hole == IF pc = "shift" THEN {i} ELSE {}

Full(bs) == {b \in DOMAIN bs : bs[b].dib > 0}
ItemsIn(bs, places) == {bs[b].item : b \in places \cap Full(bs)}

\* bs are n buckets and every item is dib - 1 buckets after its home.
BucketsOK(bs, n) ==
  /\ DOMAIN bs = 0 .. n - 1
  /\ \A b \in Full(bs) :
       bs[b].item \in Items /\ (Home(bs[b].item, n) + bs[b].dib - 1) % n = b

\* Every item, also one that is carried, knows how far it is from home, and a
\* map never has fewer buckets than the capacity it is cleared to.
TypeOK ==
  /\ cap \in Nat \ {0} /\ cap <= nbuckets
  /\ BucketsOK(buckets, nbuckets)
  /\ pc \in {"idle", "set", "find", "shift", "resize", "move"}
  /\ pc = "set" => (Home(entry.item, nbuckets) + entry.dib - 1) % nbuckets = i
  /\ pc = "move" => (Home(entry.item, NewSize) + entry.dib - 1) % NewSize = j
  /\ pc \in {"resize", "move"} => BucketsOK(buckets2, NewSize)

Ordered(bs, n, hole) ==
  \A b \in (0 .. n - 1) \ hole : bs[Following(b, n)].dib <= bs[b].dib + 1

\* Items lie in the order of their homes, without a gap between an item and
\* its home: a set that displaced items has seen every place of its key, and a
\* shift that stops at an item at home has moved all it must.
RobinHoodOrder ==
  /\ Ordered(buckets, nbuckets, Hole)
  /\ pc \in {"resize", "move"} => Ordered(buckets2, NewSize, {})

\* Every loop ends at an empty bucket, so no sequence of calls, failed
\* allocations and clears included, fills the array it looks at.
AlwaysAnEmptyBucket ==
  /\ Full(buckets) # DOMAIN buckets
  /\ pc = "move" => Full(buckets2) # DOMAIN buckets2

\* The items of the map while a call runs: it neither has what a set carries
\* in nor lacks what a delete carries out before the call returns.
Current ==
  CASE pc \in {"idle", "find"} -> ItemsIn(buckets, DOMAIN buckets)
    [] pc = "set" ->
         IF SameKey(entry.item, item) THEN ItemsIn(buckets, DOMAIN buckets)
         ELSE (ItemsIn(buckets, DOMAIN buckets) \ {item}) \cup {entry.item}
    [] pc = "shift" -> ItemsIn(buckets, DOMAIN buckets \ Hole) \cup {spare}
    [] pc = "resize" ->
         ItemsIn(buckets, i .. nbuckets - 1) \cup ItemsIn(buckets2, DOMAIN buckets2)
           \cup ({spare} \ {NULL})
    [] pc = "move" ->
         ItemsIn(buckets, i + 1 .. nbuckets - 1) \cup ItemsIn(buckets2, DOMAIN buckets2)
           \cup {entry.item} \cup ({spare} \ {NULL})

\* hashmap_count counts the items of the map.
CountsItems == pc = "idle" => count = Cardinality(Current)

\* To its callers the map is a set of items, one for a key, whatever moves, and a
\* call is answered for the item it was called with.
IM == INSTANCE ItemMap WITH map <- Current
IsItemMap == IM!Spec

\* Every call returns.
CallReturns == (pc # "idle") ~> (pc = "idle")
=============================================================================
