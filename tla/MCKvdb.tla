------------------------------- MODULE MCKvdb -------------------------------
(***************************************************************************)
(* Instances of Kvdb for TLC.  Nodes are small or big.  A sector of 256    *)
(* bytes has room for two small nodes (60 bytes each) or one big one (140  *)
(* bytes), for alloc_kv wants 88 bytes more than the node; a sector of 512 *)
(* bytes has room for three small ones (113 bytes) or for one small and    *)
(* one big one (265 bytes).                                                *)
(***************************************************************************)
EXTENDS KvdbMapInv

CONSTANTS k1, k2, k3, k64, k65, small1, small2, big

MCKeyLen == [k \in Keys |-> CASE k = k64 -> 64 [] k = k65 -> 65 [] OTHER -> 2]
MCValueLen == [v \in Values |-> IF SecSize = 256 THEN IF v = big THEN 114 ELSE 34
                                                 ELSE IF v = big THEN 239 ELSE 87]

AllUpdates == Keys \X Values
\* One key is updated to another value, one only to its own.
SomeUpdates == {<<k1, small1>>, <<k1, small2>>, <<k2, small1>>}

NoDefaults == <<>>
OneDefault == <<[key |-> k2, val |-> small1]>>
TwoDefaults == <<[key |-> k1, val |-> small1], [key |-> k2, val |-> small1]>>
=============================================================================
