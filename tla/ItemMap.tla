------------------------------- MODULE ItemMap -------------------------------
(***************************************************************************)
(* What hashmap.c promises (the comments above its functions): a set that  *)
(* replaces an item returns it, one that runs out of memory changes        *)
(* nothing and says so, a delete returns the item it removed.  A call      *)
(* begins and returns; the map changes once in between.                    *)
(***************************************************************************)
CONSTANTS Items, NULL \* an item has a key and a value

VARIABLES
  map,     \* the items of the map, one for a key
  op,      \* the call that runs, or "none"
  item,    \* its argument
  answer,  \* the item the last call returned, or NULL
  oom      \* what hashmap_oom answers

vars == <<map, op, item, answer, oom>>

WithKey(k) == {y \in map : y.key = k}

Init == map = {} /\ op = "none" /\ item = NULL /\ answer = NULL /\ oom = FALSE

Begin(call, x) ==
  /\ op = "none" /\ op' = call /\ item' = x
  /\ UNCHANGED <<map, answer>>

Set(x) == Begin("set", x) /\ oom' = FALSE
Get(x) == Begin("get", x) /\ UNCHANGED oom
Delete(x) == Begin("delete", x) /\ oom' = FALSE

\* A call is answered with the item that has the key it was called with.
Return(call) ==
  /\ op = call /\ op' = "none" /\ item' = NULL
  /\ answer' = IF WithKey(item.key) = {} THEN NULL ELSE CHOOSE y \in WithKey(item.key) : TRUE
  /\ UNCHANGED oom

SetReturns == Return("set") /\ map' = (map \ WithKey(item.key)) \cup {item}
GetReturns == Return("get") /\ UNCHANGED map
DeleteReturns == Return("delete") /\ map' = map \ WithKey(item.key)

SetOutOfMemory == op = "none" /\ answer' = NULL /\ oom' = TRUE /\ UNCHANGED <<map, op, item>>

Clear == op = "none" /\ map' = {} /\ UNCHANGED <<op, item, answer, oom>>

Next ==
  \/ \E x \in Items : Set(x) \/ Get(x) \/ Delete(x)
  \/ SetReturns \/ GetReturns \/ DeleteReturns
  \/ SetOutOfMemory \/ Clear

Spec == Init /\ [][Next]_vars
=============================================================================
