----------------------------- MODULE RobinHoodMC -----------------------------
(***************************************************************************)
(* Five keys: three share a bucket of the least array and two of these a   *)
(* bucket of every array; the probe wraps around.  One key has two values. *)
(***************************************************************************)
EXTENDS RobinHood

MCItems ==
  {[key |-> k, val |-> 1] : k \in {"a", "b", "c", "d", "e"}} \cup {[key |-> "b", val |-> 2]}

MChash == [a |-> 3, b |-> 3, c |-> 7, d |-> 0, e |-> 4]
=============================================================================
