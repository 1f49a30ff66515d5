---------------------------- MODULE CoreconfTree ----------------------------
(***************************************************************************)
(* CoreconfValueT (include/coreconfTypes.h, src/coreconfTypes.c): YANG     *)
(* data as a tree of maps, arrays and leaves.  A map is indexed by the     *)
(* delta between the SID of a child and its own SID, an array by position. *)
(*                                                                         *)
(* A tree is a function from positions to cells: the root is at <<>>, the  *)
(* child with delta d of the map at p is at Append(p, Key(d)), element i   *)
(* of the array at p at Append(p, Elem(i)).  A position stands for the     *)
(* pointer to a node, and a value that is not yet in the model is a tree   *)
(* of its own.  Replacing a node frees and drops everything under it.      *)
(***************************************************************************)
EXTENDS Integers, SequencesExt

CONSTANTS
  NULL,      \* the null pointer
  UINT64,    \* the number of values of a uint64_t: 2^64 in the code
  StrToUmax  \* strings (named by numbers) to what strtoumax reads in them

ASSUME TreeAssumption == /\ UINT64 \in Nat \ {0}
                         /\ \A s \in DOMAIN StrToUmax : StrToUmax[s] \in Nat
                         /\ NULL \notin Seq(Int \X Nat)

Key(delta) == <<delta, 0>>
Elem(i) == <<0, i>>
Positions == Seq(Int \X Nat)

\* coreconf_type, the integer widths merged: what the code tells apart is the
\* signedness.  val is the payload of a leaf (a real in tenths, a string or
\* bytes by a number; a tag carries an unsigned integer), the size of an
\* array, 0 for a map.
LeafTypes == {"UINT", "INT", "REAL", "STRING", "BOOL", "BYTES", "EMPTY", "TAG"}
Types == LeafTypes \cup {"MAP", "ARRAY"}
Cells == [type : Types, val : Int]

-----------------------------------------------------------------------------
(* Reading a tree *)

getCoreconfHashMap(t, p, key) ==
  IF Append(p, Key(key)) \in DOMAIN t THEN Append(p, Key(key)) ELSE NULL

\* What a key leaf compares as.  A tag reads as its content; a real without
\* its fraction, a negative one as 0; a string as the number it starts with;
\* every other leaf as 0.
getCoreconfValueAsUint64(cell) ==
  CASE cell.type \in {"UINT", "INT", "TAG"} -> cell.val % UINT64
    [] cell.type = "REAL" -> IF cell.val >= 0 THEN (cell.val \div 10) % UINT64 ELSE 0
    [] cell.type = "STRING" -> StrToUmax[cell.val] % UINT64
    [] OTHER -> 0

First(indices) == CHOOSE i \in indices : \A j \in indices : i <= j

-----------------------------------------------------------------------------
(* Writing a tree *)

\* v in place of whatever is at q: the old value is freed, nothing is merged.
Put(t, q, v) ==
  LET kept == {r \in DOMAIN t : ~IsPrefix(q, r)}
  IN [r \in kept \cup {q \o s : s \in DOMAIN v} |->
        IF r \in kept THEN t[r] ELSE v[SubSeq(r, Len(q) + 1, Len(r))]]

\* Mutant: overwrites the first object of the bucket, whatever its key.
InsertAtFirstObject(t, p, key, v) ==
  LET siblings == {q \in DOMAIN t : q # <<>> /\ Front(q) = p}
  IN Put(t, IF siblings = {} THEN Append(p, Key(key)) ELSE CHOOSE q \in siblings : TRUE, v)

insertCoreconfHashMap(t, p, key, v) == Put(t, Append(p, Key(key)), v)

\* All keys of the entry at e of t equal those of the entry at f of u.
SameKeys(t, e, u, f, keyDeltas) ==
  \A k \in DOMAIN keyDeltas :
    LET p == Append(e, Key(keyDeltas[k]))
        q == Append(f, Key(keyDeltas[k]))
    IN /\ p \in DOMAIN t
       /\ q \in DOMAIN u
       /\ getCoreconfValueAsUint64(t[p]) = getCoreconfValueAsUint64(u[q])

HasKeys(v, e, keyDeltas) ==
  \A k \in DOMAIN keyDeltas : Append(e, Key(keyDeltas[k])) \in DOMAIN v

\* Mutant: stops one entry early.
ReplaceableButLast(t, a, keyDeltas, v) ==
  {i \in 1 .. t[a].val - 1 : SameKeys(t, Append(a, Elem(i)), v, <<>>, keyDeltas)}

\* The entries of the array at a that the new entry v would replace.
Replaceable(t, a, keyDeltas, v) ==
  {i \in 1 .. t[a].val : /\ t[Append(a, Elem(i))].type = "MAP"
                         /\ SameKeys(t, Append(a, Elem(i)), v, <<>>, keyDeltas)}

\* The first entry whose keys equal those of v is replaced; with none, v is
\* appended.
EntryIndex(t, a, keyDeltas, v) ==
  LET same == Replaceable(t, a, keyDeltas, v)
  IN IF same = {} THEN t[a].val + 1 ELSE First(same)

updateCoreconfArrayByKeys(t, a, keyDeltas, v) ==
  LET i == EntryIndex(t, a, keyDeltas, v)
      size == IF i > t[a].val THEN i ELSE t[a].val
  IN Put([t EXCEPT ![a].val = size], Append(a, Elem(i)), v)
=============================================================================
