---------------------------- MODULE MCHashTable ----------------------------
(***************************************************************************)
(* Module HashTable with capacities 2 and 3 from the list, 5 and 7 from    *)
(* the search and no larger prime: hashTableNextPrime looks in the list,   *)
(* searches from num + 1 and finds no prime left.  Its search from twice   *)
(* num would start here beyond the last prime and does not run.            *)
(* The hashes make names collide at every capacity.  With Modulus 8 the    *)
(* sum in the probe overflows at capacity 5 and not below, as it does at   *)
(* 98317 in 32 bits, and k1, k2 and k3 share two slots of a table of 7: an *)
(* item then finds no slot in the grown table and the growth is undone.    *)
(***************************************************************************)
EXTENDS HashTable, TLC

CONSTANTS k1, k2, k3, k4, k5, v1, v2

MCKey == {k1, k2, k3, k4, k5}
MCHash1 == k1 :> 0 @@ k2 :> 4 @@ k3 :> 7 @@ k4 :> 1 @@ k5 :> 1
MCHash2 == k1 :> 9 @@ k2 :> 9 @@ k3 :> 21 @@ k4 :> 0 @@ k5 :> 0
MCCapacities == <<2, 3>>
MCSymmetry == Permutations({k4, k5}) \cup Permutations({v1, v2})
=============================================================================
