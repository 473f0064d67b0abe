---------------------------- MODULE MCHashTable ----------------------------
(***************************************************************************)
(* HashTable for TLC: two keys that collide and one on either side of      *)
(* them, so that together they can fill every slot of the four the table   *)
(* starts with; it is rehashed when three slots are in use.                *)
(***************************************************************************)
EXTENDS HashTable

CONSTANTS k1, k2, k3, k4

MCHash == [k \in Keys |-> IF k = k3 THEN 4 ELSE IF k = k4 THEN 2 ELSE 3]
=============================================================================
