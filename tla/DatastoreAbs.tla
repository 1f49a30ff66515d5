---------------------------- MODULE DatastoreAbs ----------------------------
(***************************************************************************)
(* What ccoreconf promises of a datastore (README.md, "Nodes inside YANG   *)
(* lists: keys" and "Writes replace"): a node is addressed by its SID and  *)
(* the keys of every enclosing list, outermost first; a read returns what  *)
(* is under its address and nothing else, a write that succeeds makes what *)
(* is under its address exactly the written value, and changes no other    *)
(* node.  Trees, arrays, deltas and paths do not appear here.              *)
(***************************************************************************)
EXTENDS SequencesExt

CONSTANTS
  Above,     \* the pairs of SIDs <<a, b>> with a an ancestor of b, or b
  NotFound   \* the answer of a read that finds nothing

VARIABLES
  data,      \* the nodes there are: a set of [sid, keys, type, val]
  answer     \* what the last call answered, op "none" while one runs

\* Node b is the one at the address [sid, keys] of a, or below it.
Under(a, b) == <<a.sid, b.sid>> \in Above /\ IsPrefix(a.keys, b.keys)
At(a, b) == a.sid = b.sid /\ a.keys = b.keys

\* An address is unique but for an array, which no call returns.
Lookup(nodes, a) ==
  IF \E n \in nodes : At(a, n) /\ n.type # "ARRAY"
  THEN {n \in nodes : Under(a, n)}
  ELSE NotFound

Replace(nodes, a, value) == {n \in nodes : ~Under(a, n)} \cup value

Read(now, after, new) ==
  /\ new.op = "read"
  /\ new.value = Lookup(now, new.at)
  /\ after = now

\* The value is a node at the address and what is below it.
Write(now, after, new) ==
  /\ new.op = "write"
  /\ \E n \in new.value : At(new.at, n)
  /\ \A n \in new.value : Under(new.at, n)
  /\ after = Replace(now, new.at, new.value)

\* A call that fails, or has not answered, changes nothing.
NoEffect(now, after, new) == new.op \notin {"read", "write"} /\ after = now

Init == answer.op = "none"
Next ==
  \E now \in {data}, after \in {data'}, new \in {answer'} :
    Read(now, after, new) \/ Write(now, after, new) \/ NoEffect(now, after, new)
Spec == Init /\ [][Next]_<<data, answer>>
=============================================================================
