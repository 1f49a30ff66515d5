---------------------------- MODULE SchcHandlers ----------------------------
(***************************************************************************)
(* The handlers tools/generateStubs.py wrote for ietf-schc:                *)
(* examples/multi_sid/stubs/test-schc-handlers.c.  A handler is what its   *)
(* text fixes beyond its template: the type of value it takes, the request *)
(* keys its read and its write function get (the SIDs its parameters are   *)
(* named after, the first one taken from the end of ctx->keys), the keys   *)
(* it takes from the value of a list entry, and whether its read falls     *)
(* back on the model when the user's function returns NULL.                *)
(***************************************************************************)
EXTENDS Integers, SequencesExt, TLC

RuleKeys == <<60130, 60129>>
FieldKeys == RuleKeys \o <<60106, 60108, 60105>>

\* Mutant: names the parameters innermost list first.
ReversedLeafHandler(type, keys) ==
  [value |-> type, read |-> Reverse(keys), write |-> Reverse(keys), own |-> <<>>,
   model |-> FALSE]

\* A leaf's read answers with the user's value and has nothing to fall back on.
LeafHandler(type, keys) ==
  [value |-> type, read |-> keys, write |-> keys, own |-> <<>>, model |-> FALSE]

\* A container, a union or a binary is written as a CoreconfValueT.
ValueHandler(type, keys) == [LeafHandler(type, keys) EXCEPT !.model = TRUE]

\* An entry of a list: its own keys are in the value.
ListHandler(enclosing, own) ==
  [value |-> "MAP", read |-> enclosing \o own, write |-> enclosing, own |-> own,
   model |-> TRUE]

schc == 60095 :> ValueHandler("MAP", <<>>)
rule == 60096 :> ListHandler(<<>>, RuleKeys) @@ 60097 :> LeafHandler("UINT", RuleKeys)
direction_dtagSize == [sid \in {60098, 60099} |-> LeafHandler("UINT", RuleKeys)]
entry == 60100 :> ListHandler(RuleKeys, <<60106, 60108, 60105>>)

\* Mutant: checks for the keys of the rule and takes those of the entry.
compDecompAction2Keys ==
  60101 :> [LeafHandler("UINT", FieldKeys) EXCEPT !.write = RuleKeys]
compDecompAction == 60101 :> LeafHandler("UINT", FieldKeys)
compDecompActionValue == 60102 :> ListHandler(FieldKeys, <<60103>>)
compDecompActionValue_value == 60104 :> ValueHandler("BYTES", FieldKeys \o <<60103>>)
fieldLength_matchingOperator ==
  60107 :> ValueHandler("UINT", FieldKeys) @@ 60109 :> LeafHandler("UINT", FieldKeys)
matchingOperatorValue == 60110 :> ListHandler(FieldKeys, <<60111>>)
matchingOperatorValue_value == 60112 :> ValueHandler("BYTES", FieldKeys \o <<60111>>)
targetValue == 60113 :> ListHandler(FieldKeys, <<60114>>)
targetValue_value == 60115 :> ValueHandler("BYTES", FieldKeys \o <<60114>>)
fcnSize_fragmentationMode == [sid \in {60116, 60117} |-> LeafHandler("UINT", RuleKeys)]
inactivityTimer ==
  60118 :> ValueHandler("MAP", RuleKeys) @@ 60119 :> LeafHandler("UINT", RuleKeys)
ticksNumbers_l2WordSize == [sid \in {60120, 60121} |-> LeafHandler("UINT", RuleKeys)]
maxAckRequests_maxInterleavedFrames ==
  [sid \in {60122, 60123} |-> LeafHandler("UINT", RuleKeys)]
maximumPacketSize_rcsAlgorithm == [sid \in {60124, 60125} |-> LeafHandler("UINT", RuleKeys)]
retransmissionTimer ==
  60126 :> ValueHandler("MAP", RuleKeys) @@ 60127 :> LeafHandler("UINT", RuleKeys)
ticksNumbers_ruleNature == [sid \in {60128, 60131} |-> LeafHandler("UINT", RuleKeys)]
tileInAll1_tileSize == [sid \in {60132, 60133} |-> LeafHandler("UINT", RuleKeys)]
wSize_windowSize == [sid \in {60134, 60135} |-> LeafHandler("UINT", RuleKeys)]
proxyBehavior == 2000010 :> LeafHandler("UINT", RuleKeys)

testSchcRegisterHandlers ==
  schc @@ rule @@ direction_dtagSize @@ entry @@ compDecompAction @@ compDecompActionValue
    @@ compDecompActionValue_value @@ fieldLength_matchingOperator @@ matchingOperatorValue
    @@ matchingOperatorValue_value @@ targetValue @@ targetValue_value
    @@ fcnSize_fragmentationMode @@ inactivityTimer @@ ticksNumbers_l2WordSize
    @@ maxAckRequests_maxInterleavedFrames @@ maximumPacketSize_rcsAlgorithm
    @@ retransmissionTimer @@ ticksNumbers_ruleNature @@ tileInAll1_tileSize
    @@ wSize_windowSize @@ proxyBehavior
=============================================================================
