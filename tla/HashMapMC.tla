----------------------------- MODULE HashMapMC -----------------------------
(***************************************************************************)
(* Four keys of one bucket, one more than a chain takes when MAX_LOOP is 1,*)
(* and a key of a bucket of its own.                                       *)
(***************************************************************************)
EXTENDS CoreconfHashMap

MCHashKey == [k \in 1 .. 5 |-> IF k = 5 THEN 2 ELSE 1]
=============================================================================
