-------------------------- MODULE TreeConstructors --------------------------
(***************************************************************************)
(* Trees and schema nodes written out by hand, for the modules that give   *)
(* the constants their values.                                             *)
(***************************************************************************)
EXTENDS CoreconfTree

\* Trees: a leaf, a map from deltas to trees, an array of trees.
Leaf(type, val) == [p \in {<<>>} |-> [type |-> type, val |-> val]]
Uint(val) == Leaf("UINT", val)
Grow(cell, steps, child(_)) ==
  LET under(step) == {<<step>> \o q : q \in DOMAIN child(step)}
  IN [p \in {<<>>} \cup UNION {under(step) : step \in steps} |->
        IF p = <<>> THEN cell ELSE child(Head(p))[Tail(p)]]
MapOf(f) ==
  Grow([type |-> "MAP", val |-> 0], {Key(d) : d \in DOMAIN f}, LAMBDA step : f[step[1]])
ArrayOf(s) ==
  Grow([type |-> "ARRAY", val |-> Len(s)], {Elem(i) : i \in DOMAIN s}, LAMBDA step : s[step[2]])

\* A schema node.
D(sid, kind, type) == [sid |-> sid, kind |-> kind, type |-> type]
=============================================================================
