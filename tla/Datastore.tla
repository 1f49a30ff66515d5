------------------------------ MODULE Datastore ------------------------------
(***************************************************************************)
(* A loaded CoreconfModelT and the client that reads and writes it:        *)
(* src/coreconfManipulation.c, the query wrappers of src/coreconfModel.c   *)
(* and the handlers that tools/generateStubs.py writes from                *)
(* tools/templates/.  A call is a sequence of steps, one per iteration of  *)
(* its loop; the library has no threads, so one call runs at a time.       *)
(***************************************************************************)
EXTENDS YangSchema

CONSTANTS
  Instance,     \* the instance the model is loaded with
  KeyLists,     \* KeyLists[sid]: the request keys a client asks for sid with
  Values,       \* Values[sid]: the values a client writes to sid
  MaxRecursion, \* MAX_CORECONF_RECURSION_DEPTH
  MaxEntries    \* bound: a client stops writing to a list of this size

\* What is loaded is an instance of the schema.
ASSUME InstanceAssumption ==
  /\ Conforms(Instance, <<>>)
  /\ UniqueKeys(Instance, <<>>)
  /\ MaxRecursion \in Nat /\ MaxEntries \in Nat

\* The schema node a value written to `sid` is one of: to a list, an entry.
WrittenShape(sid) ==
  IF Node(ShapeOf(sid)).kind = "list" THEN EntryOf(ShapeOf(sid)) ELSE ShapeOf(sid)

\* A client writes well-formed values, except for what the write handlers
\* check themselves: the type of the value and the keys of an entry.  It
\* addresses no key leaf: the entry they identify is written as a whole.
ASSUME ClientAssumption ==
  /\ DOMAIN KeyLists \subseteq Nat \ {0}
  /\ \A sid \in DOMAIN KeyLists : KeyLists[sid] \subseteq Seq(Int)
  /\ DOMAIN Values = SIDs
  /\ \A sid \in SIDs : \A v \in Values[sid] :
       /\ Node(ShapeOf(sid)).kind # "key"
       /\ Node(ShapeOf(sid)).kind = "enum" => v[<<>>].type = Node(ShapeOf(sid)).type
       /\ /\ v[<<>>].type = Node(WrittenShape(sid)).type
          /\ Node(ShapeOf(sid)).kind = "list" => HasKeys(v, <<>>, KeyDeltas(sid))
          => Conforms(v, WrittenShape(sid)) /\ UniqueKeys(v, WrittenShape(sid))

VARIABLES
  root,         \* model->root
  clookup,      \* model->clookupHashmap: SID |-> sequence of parent SIDs
  ctx,          \* SIDHandlerContextT: the SID, keys and pathNode of a request
  pc,           \* the loop that runs, or "idle"
  currentSID,   \* of findRequirementForSID
  path,         \* the path built, or what is left of it to walk
  subTree,      \* of examine, `current` of navigate: a node of root
  previousSID,
  keys,         \* navigate's copy of the request keys
  value,        \* the value a write handler was given
  frontier,     \* the calls of buildCLookupHashmapFromCoreconf still to make
  asked,        \* history: the keys the client gave ctx, less those its reads took
  result        \* history: what the last call answered

locals == <<currentSID, path, subTree, previousSID, keys, value, frontier>>
vars == <<root, clookup, ctx, asked, pc, locals, result>>

-----------------------------------------------------------------------------
(* DynamicLongListT and PathNodeT *)

peekLong(list) == IF list = <<>> THEN 0 ELSE Last(list)
addUniqueLong(list, long) == IF long \in ToSet(list) THEN list ELSE Append(list, long)

PathNodes == [parentSID : Int, SIDKeys : Seq(Int)]
PathNode(sid) ==
  [parentSID |-> sid, SIDKeys |-> IF sid \in DOMAIN KeyMapping THEN KeyMapping[sid] ELSE <<>>]

-----------------------------------------------------------------------------
(* Calls and returns *)

\* What a call answered: what it was asked for, the node it found, and what
\* the user function and the write handler returned (0 or -1).
Answer(op, node, user, ret) ==
  [op |-> op, sid |-> ctx.sid, keys |-> asked, node |-> node, user |-> user, ret |-> ret,
   value |-> value]
None == [op |-> "none", sid |-> 0, keys |-> <<>>, node |-> NULL, user |-> 0, ret |-> 0,
         value |-> NULL]

\* The locals of the call that ends are gone.
Return(answer) ==
  /\ pc' = "idle"
  /\ result' = answer
  /\ currentSID' = 0 /\ path' = <<>> /\ subTree' = <<>> /\ previousSID' = 0
  /\ keys' = <<>> /\ value' = NULL /\ frontier' = {}

-----------------------------------------------------------------------------
(* findRequirementForSID: from a node up to the root.  The client fills the *)
(* SID and the keys of its context first, and frees both when it is done.   *)

NoContext == [sid |-> 0, keys |-> <<>>, pathNode |-> NULL]

FreeContext ==
  /\ pc = "idle" /\ ctx # NoContext
  /\ ctx' = NoContext /\ asked' = <<>>
  /\ Return(None)
  /\ UNCHANGED <<root, clookup>>

FindRequirementForSID(sid, requestKeys) ==
  /\ pc = "idle" /\ ctx = NoContext
  /\ ctx' = [sid |-> sid, keys |-> requestKeys, pathNode |-> NULL]
  /\ asked' = requestKeys
  /\ path' = <<PathNode(sid)>>
  /\ currentSID' = sid
  /\ pc' = "find"
  /\ result' = None
  /\ UNCHANGED <<root, clookup, subTree, previousSID, keys, value, frontier>>

\* Mutant: stays on a node at the top instead of moving on to 0.
FindParentLoops ==
  /\ pc = "find" /\ currentSID # 0 /\ currentSID \in DOMAIN clookup
  /\ LET parentSID == peekLong(clookup[currentSID])
     IN IF parentSID = 0 THEN UNCHANGED <<path, currentSID>>
        ELSE path' = <<PathNode(parentSID)>> \o path /\ currentSID' = parentSID
  /\ UNCHANGED <<root, clookup, ctx, pc, subTree, previousSID, keys, value, frontier,
                 asked, result>>

FindParent ==
  /\ pc = "find" /\ currentSID # 0 /\ currentSID \in DOMAIN clookup
  /\ LET parentSID == peekLong(clookup[currentSID])
     IN /\ path' = IF parentSID = 0 THEN path ELSE <<PathNode(parentSID)>> \o path
        /\ currentSID' = parentSID
  /\ UNCHANGED <<root, clookup, ctx, pc, subTree, previousSID, keys, value, frontier,
                 asked, result>>

\* The SID, or one of its ancestors, is not in the table: the path is NULL.
FindFails ==
  /\ pc = "find" /\ currentSID # 0 /\ currentSID \notin DOMAIN clookup
  /\ Return(Answer("find", NULL, 0, 0))
  /\ UNCHANGED <<root, clookup, ctx, asked>>

FindReturns ==
  /\ pc = "find" /\ currentSID = 0
  /\ ctx' = [ctx EXCEPT !.pathNode = path]
  /\ Return(None)
  /\ UNCHANGED <<root, clookup, asked>>

-----------------------------------------------------------------------------
(* Walking down a path: the loop body examineCoreconfValue and             *)
(* navigateToParentContainer share.                                        *)

\* Mutant: takes the request keys from the front.
EntryMatchesFromFront(e, SIDKeys, listSID, requestKeys) ==
  \A k \in DOMAIN SIDKeys :
    LET elementKey == getCoreconfHashMap(root, e, SIDKeys[k] - listSID)
    IN elementKey # NULL /\ getCoreconfValueAsUint64(root[elementKey]) = requestKeys[k] % UINT64

\* Entry e of list listSID holds the keys that requestKeys ends with, the
\* k-th key of the list against the k-th request key from the end.
EntryMatches(e, SIDKeys, listSID, requestKeys) ==
  /\ root[e].type = "MAP"
  /\ \A k \in DOMAIN SIDKeys :
       LET elementKey == getCoreconfHashMap(root, e, SIDKeys[k] - listSID)
       IN /\ elementKey # NULL
          /\ getCoreconfValueAsUint64(root[elementKey])
               = requestKeys[Len(requestKeys) - k + 1] % UINT64

selectListEntry(array, SIDKeys, listSID, requestKeys) ==
  LET matching == {i \in 1 .. root[array].val :
                     EntryMatches(Append(array, Elem(i)), SIDKeys, listSID, requestKeys)}
  IN IF Len(requestKeys) < Len(SIDKeys) \/ matching = {}
     THEN NULL
     ELSE Append(array, Elem(First(matching)))

\* The node that the next node of the path leads to, NULL if there is none.
NextNode(requestKeys) ==
  LET node == Head(path)
      child == getCoreconfHashMap(root, subTree, node.parentSID - previousSID)
  IN CASE root[subTree].type # "MAP" -> NULL
       [] root[subTree].type = "MAP" /\ child = NULL -> NULL
       [] root[subTree].type = "MAP" /\ child # NULL /\ node.SIDKeys = <<>> -> child
       [] OTHER -> IF root[child].type # "ARRAY" THEN NULL
                   ELSE selectListEntry(child, node.SIDKeys, node.parentSID, requestKeys)

\* A matching entry pops its keys off the request.
KeysAfter(requestKeys) ==
  SubSeq(requestKeys, 1, Len(requestKeys) - Len(Head(path).SIDKeys))

\* Mutant: forgets the SID of a list when it enters the list.
DescendWithoutListSID(requestKeys) ==
  /\ subTree' = NextNode(requestKeys)
  /\ previousSID' = IF Head(path).SIDKeys = <<>> THEN Head(path).parentSID ELSE previousSID
  /\ path' = Tail(path)

Descend(requestKeys) ==
  /\ subTree' = NextNode(requestKeys)
  /\ previousSID' = Head(path).parentSID
  /\ path' = Tail(path)

-----------------------------------------------------------------------------
(* ccoreconfModelExamineCoreconfValue, also what a container's read handler *)
(* ends in.  It consumes the keys of the context itself, so that what it    *)
(* leaves is what the context asks for next.                                *)

ExamineCoreconfValue ==
  /\ pc = "idle" /\ ctx.pathNode # NULL
  /\ pc' = "examine"
  /\ path' = ctx.pathNode
  /\ result' = None
  /\ UNCHANGED <<root, clookup, ctx, asked, currentSID, subTree, previousSID, keys, value,
                 frontier>>

ExamineStep ==
  /\ pc = "examine" /\ path # <<>> /\ NextNode(ctx.keys) # NULL
  /\ Descend(ctx.keys)
  /\ ctx' = [ctx EXCEPT !.keys = KeysAfter(ctx.keys)]
  /\ UNCHANGED <<root, clookup, pc, currentSID, keys, value, frontier, asked, result>>

ExamineFails ==
  /\ pc = "examine" /\ path # <<>> /\ NextNode(ctx.keys) = NULL
  /\ Return(Answer("read", NULL, 0, 0))
  /\ asked' = ctx.keys
  /\ UNCHANGED <<root, clookup, ctx>>

\* Keys left over address nothing.
ExamineReturns ==
  /\ pc = "examine" /\ path = <<>>
  /\ Return(Answer("read", IF ctx.keys = <<>> THEN subTree ELSE NULL, 0, 0))
  /\ asked' = ctx.keys
  /\ UNCHANGED <<root, clookup, ctx>>

-----------------------------------------------------------------------------
(* The generated write handlers: check the value, take the keys, call the  *)
(* user function, then update the model at the parent container.           *)

Kind(sid) == Node(ShapeOf(sid)).kind

\* The checks before the user function runs.
Accepts(sid, v) ==
  /\ v[<<>>].type = Node(WrittenShape(sid)).type
  /\ Len(ctx.keys) >= findKeysForLeavesBySID(sid)
  /\ Kind(sid) = "list" => HasKeys(v, <<>>, KeyDeltas(sid))

HandlerRejects(v) ==
  /\ Kind(ctx.sid) # "enum" /\ ~Accepts(ctx.sid, v)
  /\ Return([Answer("write", NULL, 0, -1) EXCEPT !.value = v])
  /\ UNCHANGED <<root, clookup, ctx, asked>>

UserFunctionFails(v) ==
  /\ Kind(ctx.sid) # "enum" /\ Accepts(ctx.sid, v)
  /\ Return([Answer("write", NULL, -1, -1) EXCEPT !.value = v])
  /\ UNCHANGED <<root, clookup, ctx, asked>>

BeginNavigate(v) ==
  /\ pc' = "navigate"
  /\ path' = ctx.pathNode /\ keys' = ctx.keys /\ value' = v
  /\ result' = None
  /\ UNCHANGED <<root, clookup, ctx, asked, currentSID, subTree, previousSID, frontier>>

UserFunctionSucceeds(v) ==
  /\ Kind(ctx.sid) # "enum" /\ Accepts(ctx.sid, v)
  /\ BeginNavigate(v)

\* An enumeration has no handler: the program navigates and inserts itself,
\* as updateValueBySID of examples/temperature_sensor/main.c does.
UpdateValueBySID(v) ==
  /\ Kind(ctx.sid) = "enum"
  /\ BeginNavigate(v)

Write ==
  /\ pc = "idle" /\ ctx.pathNode # NULL
  /\ \E v \in Values[ctx.sid] : \/ HandlerRejects(v) \/ UserFunctionFails(v)
                               \/ UserFunctionSucceeds(v) \/ UpdateValueBySID(v)

AtTarget == path = <<>> \/ Head(path).parentSID = ctx.sid

\* Mutant: the "copy" of the request keys is the context's own list.
NavigateConsumesContext ==
  /\ pc = "navigate" /\ ~AtTarget /\ NextNode(keys) # NULL
  /\ Descend(keys)
  /\ keys' = KeysAfter(keys) /\ ctx' = [ctx EXCEPT !.keys = KeysAfter(keys)]
  /\ UNCHANGED <<root, clookup, asked, pc, currentSID, value, frontier, result>>

NavigateStep ==
  /\ pc = "navigate" /\ ~AtTarget /\ NextNode(keys) # NULL
  /\ Descend(keys)
  /\ keys' = KeysAfter(keys)
  /\ UNCHANGED <<root, clookup, ctx, pc, currentSID, value, frontier, asked, result>>

\* navigateToParentContainer returns the container.
ParentFound ==
  pc = "navigate" /\ AtTarget /\ path # <<>> /\ root[subTree].type = "MAP" /\ keys = <<>>

\* navigateToParentContainer returns NULL.
NavigateFails ==
  /\ pc = "navigate" /\ ~ParentFound /\ (AtTarget \/ NextNode(keys) = NULL)
  /\ Return(Answer("write", NULL, 0, -1))
  /\ UNCHANGED <<root, clookup, ctx, asked>>

finalDeltaSID == ctx.sid - previousSID
arrayValue == getCoreconfHashMap(root, subTree, finalDeltaSID)

\* A leaf or a container: the value replaces what is there.
InsertValue ==
  /\ ParentFound /\ Kind(ctx.sid) # "list"
  /\ root' = insertCoreconfHashMap(root, subTree, finalDeltaSID, value)
  /\ Return(Answer("write", Append(subTree, Key(finalDeltaSID)), 0, 0))
  /\ UNCHANGED <<clookup, ctx, asked>>

\* A list entry: it goes into the list's array, which must be there.
NoArray == IF arrayValue = NULL THEN TRUE ELSE root[arrayValue].type # "ARRAY"
WrittenIndex == EntryIndex(root, arrayValue, KeyDeltas(ctx.sid), value)

UpdateListEntry ==
  /\ ParentFound /\ Kind(ctx.sid) = "list" /\ ~NoArray
  /\ WrittenIndex <= MaxEntries
  /\ root' = updateCoreconfArrayByKeys(root, arrayValue, KeyDeltas(ctx.sid), value)
  /\ Return(Answer("write", Append(arrayValue, Elem(WrittenIndex)), 0, 0))
  /\ UNCHANGED <<clookup, ctx, asked>>

\* No list to update, or no memory: insertCoreconfHashMap allocates before it
\* looks (and gives up on a long chain), an append reallocates the array; to
\* replace an entry takes no memory.
StoreFails ==
  /\ ParentFound
  /\ Kind(ctx.sid) = "list" =>
       IF NoArray THEN TRUE ELSE WrittenIndex = root[arrayValue].val + 1
  /\ Return(Answer("write", NULL, 0, -1))
  /\ UNCHANGED <<root, clookup, ctx, asked>>

-----------------------------------------------------------------------------
(* ccoreconfModelBuildCLookupHashmap: clear the table and walk the tree.   *)
(* frontier holds the recursive calls still to make; their order matters   *)
(* only to a SID with several parents.                                     *)

BuildCLookupHashmap ==
  /\ pc = "idle" /\ ctx = NoContext
  /\ clookup' = <<>>
  /\ frontier' = {[node |-> <<>>, parentSID |-> 0, depth |-> 0]}
  /\ pc' = "walk"
  /\ result' = None
  /\ UNCHANGED <<root, ctx, currentSID, path, subTree, previousSID, keys, value, asked>>

\* Mutant: misses the first entry of every array.
ChildrenFromSecond(p) == {q \in DOMAIN root : q # <<>> /\ Front(q) = p /\ Last(q)[2] # 1}

Children(p) == {q \in DOMAIN root : q # <<>> /\ Front(q) = p}

\* Mutant: takes the delta for the SID.
ChildSIDWithoutParent(call, q) == Last(q)[1]

\* The SID of the child at q of a call's node; an entry counts as its list.
ChildSID(call, q) == call.parentSID + Last(q)[1]

\* One call: a map gives each child its parent, a leaf has no children, and
\* the entries of an array are walked as if they were the array.
WalkNode ==
  /\ pc = "walk" /\ frontier # {}
  /\ LET call == CHOOSE c \in frontier : TRUE
         children == IF call.depth > MaxRecursion THEN {} ELSE Children(call.node)
         sids == IF root[call.node].type = "MAP"
                 THEN {ChildSID(call, q) : q \in children} ELSE {}
         parents(sid) == IF sid \in DOMAIN clookup THEN clookup[sid] ELSE <<>>
     IN /\ clookup' = [sid \in DOMAIN clookup \cup sids |->
                         IF sid \in sids THEN addUniqueLong(parents(sid), call.parentSID)
                                         ELSE parents(sid)]
        /\ frontier' = (frontier \ {call}) \cup
             {[node |-> q, parentSID |-> ChildSID(call, q), depth |-> call.depth + 1] :
                q \in children}
  /\ UNCHANGED <<root, ctx, pc, currentSID, path, subTree, previousSID, keys, value, asked,
                 result>>

WalkReturns ==
  /\ pc = "walk" /\ frontier = {}
  /\ Return([None EXCEPT !.op = "build"])
  /\ UNCHANGED <<root, clookup, ctx, asked>>

-----------------------------------------------------------------------------
\* The static table of a generated model, or none: the instance is walked.
Init ==
  /\ root = Instance
  /\ \/ clookup = [sid \in SIDs |-> <<schemaParents[sid]>>] /\ pc = "idle" /\ frontier = {}
     \/ clookup = <<>> /\ pc = "walk"
        /\ frontier = {[node |-> <<>>, parentSID |-> 0, depth |-> 0]}
  /\ ctx = NoContext
  /\ currentSID = 0 /\ path = <<>> /\ subTree = <<>> /\ previousSID = 0
  /\ keys = <<>> /\ value = NULL /\ asked = <<>> /\ result = None

\* The client starts a call.
Call ==
  \/ \E sid \in DOMAIN KeyLists : \E ks \in KeyLists[sid] : FindRequirementForSID(sid, ks)
  \/ ExamineCoreconfValue \/ FreeContext
  \/ Write
  \/ BuildCLookupHashmap

\* The call that runs takes its next step.
Step ==
  \/ FindParent \/ FindFails \/ FindReturns
  \/ ExamineStep \/ ExamineFails \/ ExamineReturns
  \/ NavigateStep \/ NavigateFails
  \/ InsertValue \/ UpdateListEntry \/ StoreFails
  \/ WalkNode \/ WalkReturns

Next == Call \/ Step

\* A client need not call; a call that runs is sequential code and goes on.
Spec == Init /\ [][Next]_vars /\ WF_vars(Step)

-----------------------------------------------------------------------------
(* Properties *)

\* The chain of nodes from below the node `above` down to `target`.
IsPathFrom(above, p, target) ==
  /\ p \in Seq(PathNodes)
  /\ \A i \in DOMAIN p :
       /\ p[i].parentSID \in SIDs /\ p[i] = PathNode(p[i].parentSID)
       /\ schemaParents[p[i].parentSID] = IF i = 1 THEN above ELSE p[i - 1].parentSID
  /\ target = IF p = <<>> THEN above ELSE Last(p).parentSID

\* The path found leads from the top of the schema to the SID asked for.
ContextOK ==
  /\ ctx \in [sid : Nat, keys : Seq(Int), pathNode : Seq(PathNodes) \cup {NULL}]
  /\ ctx.pathNode # NULL => /\ ctx.sid \in SIDs /\ ctx.pathNode # <<>>
                            /\ IsPathFrom(0, ctx.pathNode, ctx.sid)

\* On the way up, the path leads from currentSID to the SID asked for.
FindOK ==
  /\ ctx.sid # 0 /\ path # <<>>
  /\ \/ path = <<PathNode(ctx.sid)>> /\ currentSID = ctx.sid
     \/ /\ Head(path).parentSID \in SIDs
        /\ IsPathFrom(schemaParents[Head(path).parentSID], path, ctx.sid)
        /\ \/ currentSID = Head(path).parentSID
           \/ currentSID = 0 /\ schemaParents[Head(path).parentSID] = 0

\* On the way down, the node reached has the SID previousSID, and the path
\* leads from there to the SID asked for.
DescentOK ==
  /\ ctx.pathNode # NULL
  /\ subTree \in DOMAIN root
  /\ Node(Shape(subTree)).sid = previousSID
  /\ IsPathFrom(previousSID, path, ctx.sid)
  /\ keys \in Seq(Int)

\* A value under way to the model is one of the SID asked for.
ValueOK ==
  /\ value \in Values[ctx.sid]
  /\ Conforms(value, WrittenShape(ctx.sid)) /\ UniqueKeys(value, WrittenShape(ctx.sid))

\* The instance stays an instance of its schema, and the locals of the call
\* that runs fit together.
TypeOK ==
  /\ Conforms(root, <<>>)
  /\ pc \in {"idle", "find", "examine", "navigate", "walk"}
  /\ ContextOK
  /\ pc = "find" => FindOK
  /\ pc \in {"examine", "navigate"} => DescentOK
  /\ pc = "navigate" => ValueOK
  /\ pc = "walk" =>
       \A call \in frontier : /\ call.node \in DOMAIN root
                             /\ call.parentSID = Node(Shape(call.node)).sid

\* The table of parents says what the schema says of every SID it has,
\* whether it came from prepareModel.py or from a walk of the instance.
TablesAgree ==
  \A sid \in DOMAIN clookup : sid \in SIDs /\ clookup[sid] = <<schemaParents[sid]>>

\* A list never holds two entries with the same keys: whatever the writes,
\* the keys of a request select at most one entry.
UniqueEntries == UniqueKeys(root, <<>>)

\* A step that changes the instance is the last one of a write that succeeds,
\* and outside the node written nothing changes but the size of its list.
OnlyTargetChanges ==
  [][root' # root =>
       /\ result'.op = "write" /\ result'.ret = 0
       /\ \A p \in DOMAIN root \cup DOMAIN root' :
            \/ IsPrefix(result'.node, p)
            \/ /\ p \in DOMAIN root /\ p \in DOMAIN root'
               /\ root'[p].type = root[p].type
               /\ p = Front(result'.node) \/ root'[p] = root[p]]_vars

\* When a walk of the instance ends, every node of it can be found.
WalkIsComplete ==
  [][pc = "walk" /\ pc' = "idle" =>
       \A p \in DOMAIN root : Shape(p) # <<>> => Node(Shape(p)).sid \in DOMAIN clookup]_vars

\* Every call returns: no path, no writes to the instance and no table walked
\* from it make a loop endless.  This is about instances of the schema
\* (InstanceAssumption): a decoded map with a child under delta 0 makes a SID
\* its own parent when it is walked, and then findRequirementForSID goes on
\* for ever (coreconfManipulation.c:170).
CallReturns == pc # "idle" ~> pc = "idle"
=============================================================================
