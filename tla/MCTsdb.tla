------------------------------- MODULE MCTsdb -------------------------------
(***************************************************************************)
(* Instances of the time-series database for TLC.  A sector of 128 bytes   *)
(* has 96 bytes for records: three of 16 bytes, which fill it to the last  *)
(* byte, or two if one has 20.                                             *)
(***************************************************************************)
EXTENDS TsdbProps
=============================================================================
