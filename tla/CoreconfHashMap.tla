--------------------------- MODULE CoreconfHashMap ---------------------------
(***************************************************************************)
(* CoreconfHashMapT (src/coreconfTypes.c): a fixed table of chains of      *)
(* CoreconfObjectT, the newest object first.  A map owns its values: it    *)
(* frees them when they are replaced and when it is freed itself.  There   *)
(* are no threads, so a call is one step.                                  *)
(***************************************************************************)
EXTENDS Integers, SequencesExt

CONSTANTS
  Keys, Values, \* deltas, and the addresses a value can be allocated at
  NULL,         \* the null pointer
  hashKey,      \* the bucket of each key
  MAX_LOOP,     \* CORECONF_MAX_LOOP
  MaxLost       \* bound: a client gives up after so many lost objects

ASSUME HashMapAssumption ==
  /\ MAX_LOOP \in Nat /\ MaxLost \in Nat
  /\ NULL \notin Values
  /\ DOMAIN hashKey = Keys

Buckets == {hashKey[k] : k \in Keys}
Objects == [key : Keys, value : Values]

VARIABLES
  table,     \* bucket |-> its chain of objects
  size,      \* the map's size field
  allocated, \* the values that are allocated
  held,      \* the values the caller owns
  lost,      \* how many objects are allocated that nothing points to
  key,       \* history: the key the last insert or get was called with
  answer     \* what the last call returned

vars == <<table, size, allocated, held, lost, key, answer>>

\* The map's objects, by place: position i of the chain of bucket b.
Places == UNION {{<<b, i>> : i \in DOMAIN table[b]} : b \in Buckets}
ObjectAt(p) == table[p[1]][p[2]]
MapValues == {ObjectAt(p).value : p \in Places}

-----------------------------------------------------------------------------
(* Looking for a key *)

Chain(k) == table[hashKey[k]]

\* Where the chain of k has an object for k.
Found(k) == {i \in DOMAIN Chain(k) : Chain(k)[i].key = k}

\* Mutant: gives up where insertCoreconfHashMap does.
GetGivesUp(k) ==
  IF \E i \in Found(k) : i <= MAX_LOOP + 1
  THEN Chain(k)[CHOOSE i \in Found(k) : \A j \in Found(k) : i <= j].value
  ELSE NULL

getCoreconfHashMap(k) ==
  IF Found(k) = {} THEN NULL
  ELSE Chain(k)[CHOOSE i \in Found(k) : \A j \in Found(k) : i <= j].value

\* An insert looks at no more objects than this.
Reach == MAX_LOOP + 1

-----------------------------------------------------------------------------
(* Calls *)

Init ==
  /\ table = [b \in Buckets |-> <<>>] /\ size = 0
  /\ allocated = {} /\ held = {} /\ lost = 0
  /\ key = NULL /\ answer = NULL

\* One of the createCoreconf functions.
Create(v) ==
  /\ v \notin allocated
  /\ allocated' = allocated \cup {v} /\ held' = held \cup {v}
  /\ UNCHANGED <<table, size, lost, key, answer>>

\* Mutant: the old value is not freed.
ReplaceLeaks(k, v) ==
  /\ v \in held
  /\ \E i \in Found(k) :
       /\ i <= Reach
       /\ table' = [table EXCEPT ![hashKey[k]][i].value = v]
  /\ held' = held \ {v} /\ key' = k /\ answer' = 0
  /\ UNCHANGED <<size, allocated, lost>>

\* Mutant: counts an object that was there.
ReplaceCounts(k, v) ==
  /\ v \in held
  /\ \E i \in Found(k) :
       /\ i <= Reach
       /\ table' = [table EXCEPT ![hashKey[k]][i].value = v]
       /\ allocated' = allocated \ {Chain(k)[i].value}
  /\ held' = held \ {v} /\ key' = k /\ answer' = 0 /\ size' = size + 1
  /\ UNCHANGED lost

\* insertCoreconfHashMap finds the key: the old value is freed.
Replace(k, v) ==
  /\ v \in held
  /\ \E i \in Found(k) :
       /\ i <= Reach
       /\ table' = [table EXCEPT ![hashKey[k]][i].value = v]
       /\ allocated' = allocated \ {Chain(k)[i].value}
  /\ held' = held \ {v} /\ key' = k /\ answer' = 0
  /\ UNCHANGED <<size, lost>>

\* Mutant: stops looking at the limit, and inserts.
PrependAtLimit(k, v) ==
  /\ v \in held
  /\ \A i \in Found(k) : i > Reach
  /\ table' = [table EXCEPT ![hashKey[k]] = <<[key |-> k, value |-> v]>> \o @]
  /\ size' = size + 1
  /\ held' = held \ {v} /\ key' = k /\ answer' = 0
  /\ UNCHANGED <<allocated, lost>>

\* Mutant: looks at one object more before it gives up.
PrependBeyond(k, v) ==
  /\ v \in held
  /\ Found(k) = {} /\ Len(Chain(k)) <= Reach + 1
  /\ table' = [table EXCEPT ![hashKey[k]] = <<[key |-> k, value |-> v]>> \o @]
  /\ size' = size + 1
  /\ held' = held \ {v} /\ key' = k /\ answer' = 0
  /\ UNCHANGED <<allocated, lost>>

\* It does not, and has looked at the whole chain.
Prepend(k, v) ==
  /\ v \in held
  /\ Found(k) = {} /\ Len(Chain(k)) <= Reach
  /\ table' = [table EXCEPT ![hashKey[k]] = <<[key |-> k, value |-> v]>> \o @]
  /\ size' = size + 1
  /\ held' = held \ {v} /\ key' = k /\ answer' = 0
  /\ UNCHANGED <<allocated, lost>>

\* It gives up on a longer chain and returns without the object it allocated,
\* whether or not the key is further down.
GiveUp(k, v) ==
  /\ v \in held /\ lost < MaxLost
  /\ Len(Chain(k)) > Reach /\ \A i \in Found(k) : i > Reach
  /\ lost' = lost + 1 /\ key' = k /\ answer' = -1
  /\ UNCHANGED <<table, size, allocated, held>>

\* It has no memory for an object, even to replace a value.
OutOfMemory(k, v) ==
  /\ v \in held
  /\ key' = k /\ answer' = -1
  /\ UNCHANGED <<table, size, allocated, held, lost>>

insertCoreconfHashMap(k, v) ==
  Replace(k, v) \/ Prepend(k, v) \/ GiveUp(k, v) \/ OutOfMemory(k, v)

Get(k) ==
  /\ key' = k /\ answer' = getCoreconfHashMap(k)
  /\ UNCHANGED <<table, size, allocated, held, lost>>

\* freeCoreconf by the caller, of a value the map did not take.
Free(v) ==
  /\ v \in held
  /\ allocated' = allocated \ {v} /\ held' = held \ {v}
  /\ UNCHANGED <<table, size, lost, key, answer>>

\* freeCoreconfHashMap, and createCoreconfHashmap again.
FreeMap ==
  /\ allocated' = allocated \ MapValues
  /\ table' = [b \in Buckets |-> <<>>] /\ size' = 0
  /\ key' = NULL /\ answer' = NULL
  /\ UNCHANGED <<held, lost>>

Next ==
  \/ \E v \in Values : Create(v) \/ Free(v)
  \/ \E k \in Keys : Get(k) \/ \E v \in Values : insertCoreconfHashMap(k, v)
  \/ FreeMap

Spec == Init /\ [][Next]_vars

-----------------------------------------------------------------------------
(* Properties *)

\* Every object is in the bucket of its key, where get looks for it, and no
\* insert makes a chain longer than one object more than it looks at.
HashMapOK ==
  /\ table \in [Buckets -> Seq(Objects)]
  /\ \A p \in Places : hashKey[ObjectAt(p).key] = p[1]
  /\ \A b \in Buckets : Len(table[b]) <= Reach + 1
  /\ size \in Nat /\ lost \in Nat

\* A key has one object, however long the chain that insert searched, so that
\* get does not answer with a value that was replaced long ago.
OneObjectPerKey ==
  \A p, q \in Places : ObjectAt(p).key = ObjectAt(q).key => p = q

\* What is allocated has one owner, the caller or one object of the map:
\* nothing is freed twice and nothing is left behind.
OneOwner ==
  /\ allocated = held \cup MapValues
  /\ held \cap MapValues = {}
  /\ \A p, q \in Places : ObjectAt(p).value = ObjectAt(q).value => p = q

\* The size counts the objects: a map is written to CBOR as a map of `size`
\* pairs followed by the objects.  Objects differ in their values (OneOwner).
SizeCounts == size = Cardinality(MapValues)

\* The map as its callers see it.
OM == INSTANCE OwningMap WITH
  map <- [k \in {j \in Keys : getCoreconfHashMap(j) # NULL} |-> getCoreconfHashMap(k)]

\* Chains, the limit on their length and running out of memory are invisible
\* but for a -1: the map is the last value inserted under each key, and each call
\* is answered for the key it was called with.
IsOwningMap == OM!Spec

\* src/coreconfTypes.c:210: "Insert `value` under `key`, or replace (and free)
\* the value already there".  So the value under a key can be replaced.
CanBeReplaced ==
  \A k \in Keys, v \in held : getCoreconfHashMap(k) # NULL => ENABLED Replace(k, v)
=============================================================================
