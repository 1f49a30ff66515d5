------------------------------- MODULE SchcMC -------------------------------
(***************************************************************************)
(* examples/multi_sid: a client of the model of ietf-schc that reads and   *)
(* writes through its handlers, makes the deep queries of main.c, and      *)
(* writes at every depth of the lists.                                     *)
(***************************************************************************)
EXTENDS GeneratedHandlers, SchcModel, SchcHandlers

\* prepareModel.py wrote the parents the identifiers imply: the table a loaded
\* model starts with is Datastore's.
ASSUME GeneratedTable == clookupTable = schemaParents

-----------------------------------------------------------------------------
(* Requests *)

writeCases ==
  {<<60096, <<>>>>, <<60099, <<3, 1>>>>, <<60100, <<3, 5>>>>, <<60100, E(60060)>>,
   <<60101, E(60055)>>, <<60107, E(60061)>>, <<60109, <<2>> \o E(60055)>>, <<60113, E(60068)>>,
   <<60115, Q(60055, 0)>>, <<60118, <<3, 1>>>>, <<60900, <<>>>>}

\* Every handler is asked for a node of a rule that is not there, with as many
\* keys as its functions take and with one less.
missCases ==
  LET handlers == testSchcRegisterHandlers
      taken(sid) == {Len(handlers[sid].read), Len(handlers[sid].write)}
  IN UNION {{<<sid, SubSeq(<<9, 9, 9, 9, 9, 9>>, 1, n)>> :
               n \in {n \in 1 .. 6 : n \in taken(sid) \/ n + 1 \in taken(sid)}} :
              sid \in DOMAIN handlers}

requests ==
  LET cases == DOMAIN deepCases \cup writeCases \cup missCases
  IN [sid \in {c[1] : c \in cases} |-> {c[2] : c \in {c \in cases : c[1] = sid}}]

\* What changes the instance: a new rule, another entry for a field, one more
\* target value, a timer.  The other values are there already, of the wrong
\* type, or lack a key; a leaf of another SID finds no rule to be written to.
writes ==
     60096 :> {MapOf(33 :> Uint(3) @@ 34 :> Uint(8) @@ 35 :> Uint(60090))}
  @@ 60099 :> {Uint(2), Leaf("BYTES", 4)}
  @@ 60100 :> {Entry(60061, 60015, 20, 60083, <<4>>), MapOf(5 :> Uint(60018) @@ 6 :> Uint(60061))}
  @@ 60101 :> {Uint(60015)}
  @@ 60107 :> {Uint(20), Leaf("TAG", 60077)}
  @@ 60109 :> {Uint(60083)}
  @@ 60113 :> {MapOf(1 :> Uint(1) @@ 2 :> Leaf("BYTES", 4))}
  @@ 60115 :> {Leaf("BYTES", 4)}
  @@ [sid \in {60118, 60126} |-> {MapOf(1 :> Uint(20))}]
  @@ [sid \in {60102, 60110} |-> {MapOf(1 :> Uint(0)), MapOf(2 :> Leaf("BYTES", 4))}]
  @@ [sid \in {60095} |-> {Uint(1)}]
  @@ [sid \in {SIDTable[s].sid : s \in {s \in DOMAIN SIDTable : SIDTable[s].kind = "leaf"}} |->
        {Leaf("UINT", 1), Leaf("BYTES", 1)}]
  @@ [sid \in {SIDTable[s].sid : s \in DOMAIN SIDTable \ {<<>>}} |-> {}]

SchcStrToUmax == <<>>

\* What the .cfg gives the constants (TLC keeps the value of a definition that
\* is named, not of one it substitutes).
SchcSchema == SIDTable
SchcKeyMapping == keymapTable
SchcInstance == instanceCBOR
SchcKeyLists == requests
SchcValues == writes
SchcHandlerTable == testSchcRegisterHandlers

-----------------------------------------------------------------------------
\* examples/multi_sid/main.c:75-121: on the instance as it was loaded, each
\* deep query is answered with the leaf schc.json holds there, and none of the
\* unsatisfiable ones with some other entry's.
DeepQueries ==
  [][pc = "examine" /\ pc' = "idle" /\ root = Instance
     /\ <<result'.sid, result'.keys>> \in DOMAIN deepCases =>
       deepCases[<<result'.sid, result'.keys>>]
         = IF result'.node = NULL THEN NULL ELSE root[result'.node]]_hvars
=============================================================================
