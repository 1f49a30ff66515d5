---------------------------- MODULE DatastoreMC ----------------------------
(***************************************************************************)
(* A schema shaped like SCHC's rule/entry/target-value: a container with a *)
(* list with two keys, in whose entries there is another list with a leaf  *)
(* whose SID is below its parent's, beside a container with an enumeration.*)
(***************************************************************************)
EXTENDS DatastoreMap, TreeConstructors

MCStrToUmax == [s \in {1, 2} |-> 0]

MCSchema ==
     <<>>                   :> D(0, "root", "MAP")
  @@ <<10>>                 :> D(10, "container", "MAP")
  @@ <<10, 2>>              :> D(12, "list", "ARRAY")
  @@ <<10, 2, 0>>           :> D(12, "entry", "MAP")
  @@ <<10, 2, 0, 1>>        :> D(13, "key", "UINT")
  @@ <<10, 2, 0, 3>>        :> D(15, "key", "UINT")
  @@ <<10, 2, 0, 2>>        :> D(14, "leaf", "UINT")
  @@ <<10, 2, 0, 4>>        :> D(16, "list", "ARRAY")
  @@ <<10, 2, 0, 4, 0>>     :> D(16, "entry", "MAP")
  @@ <<10, 2, 0, 4, 0, 1>>  :> D(17, "key", "UINT")
  @@ <<10, 2, 0, 4, 0, -5>> :> D(11, "leaf", "UINT")
  @@ <<20>>                 :> D(20, "container", "MAP")
  @@ <<20, 1>>              :> D(21, "enum", "INT")

MCKeyMapping == (12 :> <<13, 15>>) @@ (16 :> <<17>>)

\* An entry of list 16, and of list 12 with or without one.
Inner(key, y) == MapOf((1 :> Uint(key)) @@ (-5 :> Uint(y)))
Outer(k1, k2, x) == MapOf((1 :> Uint(k1)) @@ (3 :> Uint(k2)) @@ (2 :> Uint(x)))
OuterWith(k1, k2, x, inner) ==
  MapOf((1 :> Uint(k1)) @@ (3 :> Uint(k2)) @@ (2 :> Uint(x)) @@ (4 :> ArrayOf(inner)))

MCInstance ==
  MapOf((10 :> MapOf(2 :> ArrayOf(<<OuterWith(1, 2, 5, <<Inner(1, 7)>>)>>)))
     @@ (20 :> MapOf(1 :> Leaf("INT", 1))))

\* The keys are in the order a client adds them: the innermost list's first.
\* Right ones, too few, too many, of the other entry, of no entry.
MCKeyLists ==
     10 :> {<<>>}
  @@ 12 :> {<<>>, <<2, 1>>, <<1, 1>>}
  @@ 14 :> {<<2, 1>>, <<2, 2, 1>>, <<1>>}
  @@ 16 :> {<<2, 1>>, <<1, 2, 1>>, <<2, 1, 2>>}
  @@ 11 :> {<<1, 2, 1>>, <<1, 1, 2>>, <<1, 2>>}
  @@ 21 :> {<<>>}
  @@ 30 :> {<<>>}

\* Values with the wrong type or without a key are refused; a container
\* written without its list leaves the list nowhere to put an entry.
MCValues ==
     10 :> {MapOf(2 :> ArrayOf(<<>>)), MapOf(<<>>), Leaf("BOOL", 1)}
  @@ 12 :> {Outer(1, 2, 6), OuterWith(2, 1, 5, <<Inner(1, 7)>>), MapOf(1 :> Uint(1))}
  @@ 14 :> {Uint(6), Leaf("STRING", 1)}
  @@ 16 :> {Inner(2, 7)}
  @@ 11 :> {Uint(8)}
  @@ 21 :> {Leaf("INT", 2)}
  @@ [sid \in {13, 15, 17, 20} |-> {}]
=============================================================================
