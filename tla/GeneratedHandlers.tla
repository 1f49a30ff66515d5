-------------------------- MODULE GeneratedHandlers --------------------------
(***************************************************************************)
(* A client that reads and writes through the handlers generated for one   *)
(* YANG model.  Datastore has the handlers as their templates say; here    *)
(* each SID's handler does what its own text fixes, and the arguments it   *)
(* gives the user's function are recorded.                                 *)
(***************************************************************************)
EXTENDS Datastore

\* sid |-> [value, read, write, own, model]: see SchcHandlers.
CONSTANT Handlers

ASSUME HandlersAssumption ==
  /\ DOMAIN Handlers \subseteq SIDs
  /\ \A sid \in DOMAIN Handlers :
       /\ \A k \in DOMAIN Handlers[sid].own : schemaParents[Handlers[sid].own[k]] = sid
       /\ Handlers[sid].value \in Types /\ Handlers[sid].model \in BOOLEAN

VARIABLE called \* history: the key arguments the last handler of this request gave
                \* the user's function, NULL if it did not run

hvars == <<vars, called>>
handler == Handlers[ctx.sid]

\* (uint64_t)ctx->keys->longList[ctx->keys->size - i], for the i-th parameter.
KeyArguments(params) ==
  [i \in DOMAIN params |-> <<params[i], ctx.keys[Len(ctx.keys) - i + 1] % UINT64>>]

ownDeltas == [k \in DOMAIN handler.own |-> handler.own[k] - ctx.sid]
OwnArguments(v) ==
  [k \in DOMAIN handler.own |->
     <<handler.own[k], getCoreconfValueAsUint64(v[<<Key(ownDeltas[k])>>])>>]

HasHandler == pc = "idle" /\ ctx.pathNode # NULL /\ ctx.sid \in DOMAIN Handlers

-----------------------------------------------------------------------------
(* handler_read *)

\* Too few keys, and the answer is NULL.
ReadLacksKeys ==
  /\ HasHandler /\ Len(ctx.keys) < Len(handler.read)
  /\ called' = NULL
  /\ UNCHANGED vars

\* What the user's function returned is the answer; the model is not read.
ReadFromUser ==
  /\ HasHandler /\ Len(ctx.keys) >= Len(handler.read)
  /\ called' = KeyArguments(handler.read)
  /\ UNCHANGED vars

\* It returned NULL: the answer is the model's.
ReadFromModel ==
  /\ HasHandler /\ Len(ctx.keys) >= Len(handler.read) /\ handler.model
  /\ called' = KeyArguments(handler.read)
  /\ ExamineCoreconfValue

-----------------------------------------------------------------------------
(* handler_write *)

Passes(v) ==
  /\ v[<<>>].type = handler.value
  /\ Len(ctx.keys) >= Len(handler.write)
  /\ HasKeys(v, <<>>, ownDeltas)

WriteRejected(v) ==
  /\ ~Passes(v)
  /\ called' = NULL
  /\ Return([Answer("write", NULL, 0, -1) EXCEPT !.value = v])
  /\ UNCHANGED <<root, clookup, ctx, asked>>

UserRefuses(v) ==
  /\ Passes(v)
  /\ called' = KeyArguments(handler.write) \o OwnArguments(v)
  /\ Return([Answer("write", NULL, -1, -1) EXCEPT !.value = v])
  /\ UNCHANGED <<root, clookup, ctx, asked>>

UserAgrees(v) ==
  /\ Passes(v)
  /\ called' = KeyArguments(handler.write) \o OwnArguments(v)
  /\ BeginNavigate(v)

HandlerWrite ==
  /\ HasHandler
  /\ \E v \in Values[ctx.sid] : WriteRejected(v) \/ UserRefuses(v) \/ UserAgrees(v)

\* The parent is found: the value goes into its map, or, as a list entry, into
\* the array of the list.
InsertHandled ==
  /\ ParentFound /\ handler.own = <<>>
  /\ root' = insertCoreconfHashMap(root, subTree, finalDeltaSID, value)
  /\ Return(Answer("write", Append(subTree, Key(finalDeltaSID)), 0, 0))
  /\ UNCHANGED <<clookup, ctx, asked, called>>

UpdateHandled ==
  /\ ParentFound /\ handler.own # <<>> /\ ~NoArray
  /\ EntryIndex(root, arrayValue, ownDeltas, value) <= MaxEntries
  /\ root' = updateCoreconfArrayByKeys(root, arrayValue, ownDeltas, value)
  /\ Return(Answer("write", Append(arrayValue, Elem(EntryIndex(root, arrayValue, ownDeltas,
                                                               value))), 0, 0))
  /\ UNCHANGED <<clookup, ctx, asked, called>>

-----------------------------------------------------------------------------
HInit == Init /\ called = NULL

\* A client may also read the model without a handler.
HCall ==
  \/ \E sid \in DOMAIN KeyLists : \E ks \in KeyLists[sid] :
       FindRequirementForSID(sid, ks) /\ called' = NULL
  \/ FreeContext /\ called' = NULL
  \/ ReadLacksKeys \/ ReadFromUser \/ ReadFromModel
  \/ ExamineCoreconfValue /\ called' = NULL
  \/ HandlerWrite

HStep ==
  \/ (FindParent \/ FindFails \/ FindReturns) /\ UNCHANGED called
  \/ (ExamineStep \/ ExamineFails \/ ExamineReturns) /\ UNCHANGED called
  \/ (NavigateStep \/ NavigateFails \/ StoreFails) /\ UNCHANGED called
  \/ InsertHandled \/ UpdateHandled
  \/ (WalkNode \/ WalkReturns) /\ UNCHANGED called

HSpec == HInit /\ [][HCall \/ HStep]_hvars

-----------------------------------------------------------------------------
(* Properties *)

\* What was generated for the SIDs of this YANG model, each handler with its
\* own checks, counts and deltas, does what the templates do given the schema:
\* every step of a handler is one of Datastore.  (The other calls are.)
ImplementsTemplates ==
  [][IF pc = "idle" THEN ctx.pathNode # NULL => FreeContext \/ ExamineCoreconfValue \/ Write
                    ELSE Step]_vars

\* The keys of the entries that enclose the node at p of t (or are the node),
\* the outermost list's first, each list's in the order of its key-mapping.
KeysOnPath(t, p) ==
  LET entries == SelectSeq([n \in 1 .. Len(p) |-> n], LAMBDA n : p[n][1] = 0)
      list(n) == Node(Shape(SubSeq(p, 1, n))).sid
      keysAt(n) == [k \in DOMAIN KeyMapping[list(n)] |->
                      <<KeyMapping[list(n)][k],
                        getCoreconfValueAsUint64(
                          t[Append(SubSeq(p, 1, n), Key(KeyDeltas(list(n))[k]))])>>]
  IN FlattenSeq([i \in DOMAIN entries |-> keysAt(entries[i])])

\* The SIDs of the keys of the lists that enclose `sid`, or are it.
KeySIDs(sid) ==
  LET shape == WrittenShape(sid)
      entries == SelectSeq([n \in 1 .. Len(shape) |-> Node(SubSeq(shape, 1, n))],
                           LAMBDA node : node.kind = "entry")
  IN FlattenSeq([i \in DOMAIN entries |-> KeyMapping[entries[i].sid]])

\* README.md:259: "Your functions receive the keys of every enclosing list,
\* outermost first."  Whenever a user's function runs, to read or to write,
\* it is given one argument for each of them, and under their names.  And
\* whatever node the call ends up reading or writing, the function was given
\* that node's keys: it never acts on one entry while the model answers with,
\* or changes, another.
KeysTold ==
  [][/\ pc = "idle" /\ called' # NULL =>
          [i \in DOMAIN called' |-> called'[i][1]] = KeySIDs(ctx.sid)
     /\ called # NULL /\ pc \in {"examine", "navigate"} /\ pc' = "idle" /\ result'.node # NULL =>
          called = KeysOnPath(root', result'.node)]_hvars
=============================================================================
