------------------------------ MODULE OwningMap ------------------------------
(***************************************************************************)
(* What a map of ccoreconf promises (README.md, "Who frees what"; the      *)
(* comments of include/coreconfTypes.h): an insert that succeeds gives the *)
(* value to the map, in place of the one under the key; one that fails     *)
(* leaves the map alone and the value with the caller.                     *)
(***************************************************************************)
EXTENDS Integers

CONSTANTS Keys, Values, NULL

VARIABLES
  map,     \* the value under each key that has one
  held,    \* the values the caller has to free
  key,     \* the key the last call had
  answer   \* what the last call returned

vars == <<map, held, key, answer>>

Range == {map[k] : k \in DOMAIN map}

Init == map = <<>> /\ held = {} /\ key = NULL /\ answer = NULL

Create(v) ==
  /\ v \notin held \cup Range
  /\ held' = held \cup {v}
  /\ UNCHANGED <<map, key, answer>>

Insert(k, v) ==
  /\ v \in held
  /\ map' = [j \in DOMAIN map \cup {k} |-> IF j = k THEN v ELSE map[j]]
  /\ held' = held \ {v}
  /\ key' = k /\ answer' = 0

InsertFails(k, v) ==
  /\ v \in held
  /\ key' = k /\ answer' = -1
  /\ UNCHANGED <<map, held>>

Get(k) ==
  /\ key' = k /\ answer' = IF k \in DOMAIN map THEN map[k] ELSE NULL
  /\ UNCHANGED <<map, held>>

Free(v) ==
  /\ v \in held
  /\ held' = held \ {v}
  /\ UNCHANGED <<map, key, answer>>

\* Every value of the map is freed with it.
FreeMap ==
  /\ map' = <<>> /\ key' = NULL /\ answer' = NULL
  /\ UNCHANGED held

Next ==
  \/ \E v \in Values : Create(v) \/ Free(v)
  \/ \E k \in Keys : Get(k) \/ \E v \in Values : Insert(k, v) \/ InsertFails(k, v)
  \/ FreeMap

Spec == Init /\ [][Next]_vars
=============================================================================
