--------------------------- MODULE MCKvIteration ---------------------------
(***************************************************************************)
(* Instances of KvIteration for TLC, with the lengths of MCKvdb.           *)
(***************************************************************************)
EXTENDS MCKvdb, KvIteration
=============================================================================
