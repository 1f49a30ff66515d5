----------------------------- MODULE SchcModel -----------------------------
(***************************************************************************)
(* What examples/multi_sid knows of ietf-schc: the tables and the instance *)
(* that tools/prepareModel.py wrote (include_model/test-schc.c), and the   *)
(* queries main.c makes of them.                                           *)
(***************************************************************************)
EXTENDS TreeConstructors

-----------------------------------------------------------------------------
(* SIDTable: the data nodes, placed by the paths of their identifiers. *)

Below(shape, sid, children, kind, type) ==
  [s \in {Append(shape, child - sid) : child \in children} |-> D(sid + Last(s), kind, type)]
ListBelow(shape, parentSID, sid) ==
  LET list == Append(shape, sid - parentSID)
  IN (list :> D(sid, "list", "ARRAY")) @@ (Append(list, 0) :> D(sid, "entry", "MAP"))

rulePath == <<60095, 1, 0>>
entryPath == rulePath \o <<4, 0>>

\* The lists under an entry: an index, the key, and a value.
IndexedValues(sid) ==
  LET place == entryPath \o <<sid - 60100, 0>>
  IN ListBelow(entryPath, 60100, sid) @@ Below(place, sid, {sid + 1}, "key", "UINT")
       @@ Below(place, sid, {sid + 2}, "leaf", "BYTES")

SIDTable ==
     <<>> :> D(0, "root", "MAP")
  @@ Below(<<>>, 0, {60095}, "container", "MAP")
  @@ ListBelow(<<60095>>, 60095, 60096)
  @@ Below(rulePath, 60096, {60129, 60130}, "key", "UINT")
  @@ Below(rulePath, 60096, {60097, 60098, 60099, 60116, 60117} \cup 60121 .. 60125
                              \cup 60131 .. 60135 \cup {2000010}, "leaf", "UINT")
  @@ Below(rulePath, 60096, {60118, 60126}, "container", "MAP")
  @@ Below(Append(rulePath, 60118 - 60096), 60118, {60119, 60120}, "leaf", "UINT")
  @@ Below(Append(rulePath, 60126 - 60096), 60126, {60127, 60128}, "leaf", "UINT")
  @@ ListBelow(rulePath, 60096, 60100)
  @@ Below(entryPath, 60100, {60105, 60106, 60108}, "key", "UINT")
  @@ Below(entryPath, 60100, {60101, 60107, 60109}, "leaf", "UINT")
  @@ IndexedValues(60102) @@ IndexedValues(60110) @@ IndexedValues(60113)

keymapTable ==
     60096 :> <<60130, 60129>> @@ 60100 :> <<60106, 60108, 60105>>
  @@ 60102 :> <<60103>> @@ 60110 :> <<60111>> @@ 60113 :> <<60114>>

clookupTable ==
     60095 :> 0 @@ 60096 :> 60095
  @@ [sid \in 60097 .. 60100 \cup 60116 .. 60118 \cup 60121 .. 60126
                \cup 60129 .. 60135 \cup {2000010} |-> 60096]
  @@ [sid \in {60101, 60102} \cup 60105 .. 60110 \cup {60113} |-> 60100]
  @@ [sid \in {60103, 60104} |-> 60102] @@ [sid \in {60111, 60112} |-> 60110]
  @@ [sid \in {60114, 60115} |-> 60113]
  @@ [sid \in {60119, 60120} |-> 60118] @@ [sid \in {60127, 60128} |-> 60126]

-----------------------------------------------------------------------------
(* instanceCBOR, the rules (5, 3) and (1, 3): of the 26 entries of the     *)
(* first, those that main.c asks for, all keyed <<field-id, 1, 60018>>.    *)

TargetValues(bytes) ==
  ArrayOf([i \in DOMAIN bytes |-> MapOf(1 :> Uint(i - 1) @@ 2 :> Leaf("BYTES", bytes[i]))])
Entry(fieldId, action, length, operator, bytes) ==
  MapOf(1 :> Uint(action) @@ 5 :> Uint(60018) @@ 6 :> Uint(fieldId) @@ 7 :> Uint(length)
          @@ 8 :> Uint(1) @@ 9 :> Uint(operator) @@ 13 :> TargetValues(bytes))

\* Bytes 1, 2, 3 and 4: h'06', h'fe80000000000000', h'023456', all the others.
rule5 ==
  MapOf(4 :> ArrayOf(<<Entry(60068, 60015, 4, 60083, <<1>>),
                       Entry(60061, 60015, 20, 60084, <<3>>),
                       Entry(60060, 60014, 64, 60085, <<4, 2, 4>>),
                       Entry(60055, 60015, 2, 60083, <<4>>)>>)
          @@ 33 :> Uint(3) @@ 34 :> Uint(5) @@ 35 :> Uint(60088))
rule1 ==
  MapOf(2 :> Uint(60019) @@ 3 :> Uint(2) @@ 20 :> Uint(3) @@ 21 :> Uint(60079)
          @@ 29 :> Uint(60092) @@ 33 :> Uint(3) @@ 34 :> Uint(1) @@ 35 :> Uint(60089)
          @@ 38 :> Uint(7))

instanceCBOR == MapOf(60095 :> MapOf(1 :> ArrayOf(<<rule5, rule1>>)))

-----------------------------------------------------------------------------
(* The deep queries of main.c, keys last to first. *)

Q(fieldId, index) == <<index, 60018, 1, fieldId, 3, 5>>
E(fieldId) == Tail(Q(fieldId, 0))

\* query |-> the leaf it finds, NULL for an unsatisfiable one.
deepCases ==
     <<60115, Q(60061, 0)>> :> [type |-> "BYTES", val |-> 3]
  @@ <<60115, Q(60068, 0)>> :> [type |-> "BYTES", val |-> 1]
  @@ <<60114, Q(60055, 0)>> :> [type |-> "UINT", val |-> 0]
  @@ <<60114, Q(60068, 0)>> :> [type |-> "UINT", val |-> 0]
  @@ <<60115, Q(60060, 1)>> :> [type |-> "BYTES", val |-> 2]
  @@ <<60115, Q(60060, 9)>> :> NULL
  @@ <<60115, <<9, 60018, 1, 60068, 3, 9>>>> :> NULL
  @@ <<60120, <<3, 5>>>> :> NULL
=============================================================================
