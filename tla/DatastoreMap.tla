---------------------------- MODULE DatastoreMap ----------------------------
(***************************************************************************)
(* Datastore implements DatastoreAbs: the address of a position, the data  *)
(* a tree holds, and the answer of a call.                                 *)
(***************************************************************************)
EXTENDS Datastore

\* The values of the keys in the entry at e.
EntryKeys(t, e, sid) ==
  [k \in DOMAIN KeyMapping[sid] |->
     getCoreconfValueAsUint64(t[Append(e, Key(KeyDeltas(sid)[k]))])]

\* t is a value of schema node s inside the list entries whose keys are
\* outer.  The keys of a position: outer, and those of the entries on it.
KeysAt(t, s, outer, p) ==
  LET isEntry(n) == IF n = 0 THEN Node(s).kind = "entry" ELSE p[n][2] > 0
      own(n) == LET e == SubSeq(p, 1, n) IN EntryKeys(t, e, Node(s \o Shape(e)).sid)
      upTo[n \in 0 .. Len(p)] ==
        (IF n = 0 THEN outer ELSE upTo[n - 1]) \o (IF isEntry(n) THEN own(n) ELSE <<>>)
  IN upTo[Len(p)]

\* A node of a tree; how many entries an array has shows in theirs.
NodeAt(t, s, outer, p) ==
  [sid  |-> Node(s \o Shape(p)).sid,
   keys |-> KeysAt(t, s, outer, p),
   type |-> t[p].type,
   val  |-> IF t[p].type = "ARRAY" THEN 0 ELSE t[p].val]

DataOf(t, s, outer) == {NodeAt(t, s, outer, p) : p \in DOMAIN t}

-----------------------------------------------------------------------------

\* A client's keys are in reverse, the outermost list's at the end.
AskedKeys ==
  LET n == Len(result.keys)
  IN <<>> \o [i \in 1 .. n |-> result.keys[n - i + 1] % UINT64]

\* The list entry a value is: its own keys complete the address.
WrittenAt ==
  IF Kind(result.sid) = "list"
  THEN [sid |-> result.sid,
        keys |-> AskedKeys \o EntryKeys(result.value, <<>>, result.sid)]
  ELSE [sid |-> result.sid, keys |-> AskedKeys]

\* A read answers with the node it found, as it is in the model.
ReadAnswer ==
  [op |-> "read", at |-> [sid |-> result.sid, keys |-> AskedKeys],
   value |-> IF result.node = NULL THEN NULL
             ELSE {NodeAt(root, <<>>, <<>>, p) : p \in {p \in DOMAIN root : IsPrefix(result.node, p)}}]

AnswerOf ==
  CASE result.op = "read" -> ReadAnswer
    [] result.op = "write" /\ result.ret = 0 ->
         [op |-> "write", at |-> WrittenAt,
          value |-> DataOf(result.value, WrittenShape(result.sid), AskedKeys)]
    [] OTHER -> [op |-> "none"]

AboveSIDs ==
  UNION {{<<Node(SubSeq(s, 1, n)).sid, Node(s).sid>> : n \in 1 .. Len(s)} : s \in DataShapes}

Abs == INSTANCE DatastoreAbs WITH
  Above <- AboveSIDs,
  NotFound <- NULL,
  data <- DataOf(root, <<>>, <<>>),
  answer <- AnswerOf

\* Every read returns exactly the node its SID and keys address, or nothing if
\* there is no such node; every successful write replaces exactly that node;
\* a rejected or failed call leaves the data as they were.
Refines == Abs!Spec
=============================================================================
