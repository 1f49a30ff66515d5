----------------------------- MODULE FindingsMC -----------------------------
(***************************************************************************)
(* What the repository's texts say and the code does not do.  Each         *)
(* property states the text; the run that checks it ends in a behaviour of *)
(* the code that contradicts it.                                           *)
(*                                                                         *)
(* A container with three lists: one keyed by a number, one by a string,   *)
(* and one that the instance does not have.                                *)
(***************************************************************************)
EXTENDS DatastoreMC

FSchema ==
     <<>>            :> D(0, "root", "MAP")
  @@ <<10>>          :> D(10, "container", "MAP")
  @@ <<10, 1>>       :> D(11, "list", "ARRAY")
  @@ <<10, 1, 0>>    :> D(11, "entry", "MAP")
  @@ <<10, 1, 0, 1>> :> D(12, "key", "UINT")
  @@ <<10, 1, 0, 2>> :> D(13, "leaf", "UINT")
  @@ <<10, 4>>       :> D(14, "list", "ARRAY")
  @@ <<10, 4, 0>>    :> D(14, "entry", "MAP")
  @@ <<10, 4, 0, 1>> :> D(15, "key", "STRING")
  @@ <<10, 6>>       :> D(16, "list", "ARRAY")
  @@ <<10, 6, 0>>    :> D(16, "entry", "MAP")
  @@ <<10, 6, 0, 1>> :> D(17, "key", "UINT")

FKeyMapping == (11 :> <<12>>) @@ (14 :> <<15>>) @@ (16 :> <<17>>)

\* Strings 1 and 2 start with no digit: strtoumax reads 0 in both.
Name(s) == MapOf(1 :> Leaf("STRING", s))

FInstance ==
  MapOf(10 :> MapOf((1 :> ArrayOf(<<MapOf((1 :> Uint(1)) @@ (2 :> Uint(5)))>>))
                 @@ (4 :> ArrayOf(<<Name(1)>>))))

FKeyLists == (13 :> {<<1>>, <<2>>}) @@ (14 :> {<<>>}) @@ (16 :> {<<>>})

FValues ==
     13 :> {Uint(6)}
  @@ 14 :> {Name(2)}
  @@ 16 :> {MapOf(1 :> Uint(1))}
  @@ [sid \in {10, 11, 12, 15, 17} |-> {}]

\* README.md:257-258: a write handler "checks the value's type, calls your
\* write_* function, and updates the model if your function returns 0".  So
\* once the function has returned 0, navigating to the parent cannot fail.
UpdatesIfFunctionReturns0 == pc = "navigate" => ~ENABLED NavigateFails

\* README.md:244-245: "A list-entry write replaces the entry whose keys all
\* match, or adds a new entry".  So a write that has reached the container of
\* the list can do one or the other.
ReplacesOrAdds == ParentFound /\ Kind(ctx.sid) = "list" => ENABLED UpdateListEntry

\* src/coreconfTypes.c:477: "Replace the entry of `arr` whose keys ALL equal
\* those of `newEntry`".  So the entry that is replaced has the same keys.
ReplacedHasTheKeys ==
  [][result'.op = "write" /\ result'.ret = 0 /\ result'.node \in DOMAIN root
     /\ Kind(result'.sid) = "list" =>
       \A k \in DOMAIN KeyDeltas(result'.sid) :
         LET p == Append(result'.node, Key(KeyDeltas(result'.sid)[k]))
         IN root'[p] = root[p]]_vars

\* examples/multi_sid/main.c:109-111: "When a YANG list's keys select no
\* element, examineCoreconfValue() keeps the whole ARRAY in `subTree`".
KeepsTheArray ==
  [][pc = "examine" /\ path # <<>> /\ Head(path).SIDKeys # <<>>
     /\ root[subTree].type = "MAP" /\ NextNode(ctx.keys) = NULL
     /\ getCoreconfHashMap(root, subTree, Head(path).parentSID - previousSID) # NULL =>
       subTree' = getCoreconfHashMap(root, subTree, Head(path).parentSID - previousSID)]_vars
=============================================================================
