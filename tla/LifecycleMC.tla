----------------------------- MODULE LifecycleMC -----------------------------
(***************************************************************************)
(* Descriptors of one small model: with static tables, with CBOR only, and *)
(* with data that does not decode.                                         *)
(***************************************************************************)
EXTENDS ModelLifecycle, TLC

Entry(sid, longs) == [sid |-> sid, longs |-> longs]

\* Two lists, the one inside the other.
keyMapping == <<Entry(11, <<12, 13>>), Entry(14, <<15>>)>>
parents == <<Entry(11, <<0>>), Entry(12, <<11>>), Entry(14, <<11, 0, 11>>)>>

\* A grouping used in two places has two parents; the second walk is of an
\* instance with an entry more, where some SIDs are met again.
walkOnce == <<Entry(11, <<0>>), Entry(14, <<11>>)>>
walkAgain == walkOnce \o <<Entry(11, <<0>>), Entry(14, <<0>>), Entry(14, <<11>>)>>

names == {[identifier |-> "list", sid |-> 11], [identifier |-> "key", sid |-> 12],
          [identifier |-> NULL, sid |-> 13]}

Static == [instance |-> TRUE, keymap |-> [how |-> "static", entries |-> keyMapping],
           clookup |-> [how |-> "static", entries |-> parents], walks |-> {walkOnce},
           SIDTable |-> {}]
FromCBOR == [instance |-> TRUE, keymap |-> [how |-> "cbor", entries |-> keyMapping],
             clookup |-> [how |-> "walk", entries |-> <<>>], walks |-> {walkOnce, walkAgain},
             SIDTable |-> {}]
keymapsOf(d, kms) == {[d EXCEPT !.keymap = [how |-> "cbor", entries |-> km]] : km \in kms}

descs ==
  {Static, FromCBOR,
   [Static EXCEPT !.keymap.entries = <<>>, !.clookup = FromCBOR.clookup, !.SIDTable = names],
   [FromCBOR EXCEPT !.instance = FALSE]}
  \cup keymapsOf(FromCBOR,
         {<<>>,
          \* as large as can be, one key and one list too large
          keyMapping \o <<Entry(16, <<17, 18>>)>>,
          keyMapping \o <<Entry(16, <<17, 18, 19>>)>>,
          keyMapping \o <<Entry(16, <<17, 18>>), Entry(20, <<21>>)>>,
          \* a key twice, and what is not an array
          keyMapping \o <<Entry(11, <<12>>)>>,
          <<Entry(11, <<12>>), Entry(14, NULL)>>})
=============================================================================
