---------------------------- MODULE MCHashTable ----------------------------
(* Small instances of HashTable for TLC.                                  *)
EXTENDS HashTable, TLC

CONSTANTS k1, k2, k3, k4

(* k1, k2 and k4 collide in every capacity and their probes wrap around    *)
(* from the last slot; k3 lands in the middle of their run.                *)
MCKeys == {k1, k2, k3, k4}
MCHash == (k1 :> 7) @@ (k2 :> 7) @@ (k3 :> 0) @@ (k4 :> 15)
=============================================================================
