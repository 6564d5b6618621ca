----------------------------- MODULE MCLoadGen -----------------------------
(***************************************************************************)
(* An instance of LoadGen for TLC.  The flags are chosen in Init: batches   *)
(* that fit into the bucket, one that does not, and no limit at all.  Five  *)
(* batches do not fit into the channel of two workers.                      *)
(***************************************************************************)
EXTENDS LoadGen

SomeRefills == {0, 1, 2}
SomeBatches == {2, 3}
=============================================================================
