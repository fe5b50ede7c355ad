------------------------------- MODULE CaRows -------------------------------
(***************************************************************************)
(* The rows that a receiver keeps for the paths of its peer, and the queue *)
(* in which they take turns to be reported: ca_alloc, ca_free and ca_next, *)
(* which CLOVEProcessor and HermesProcessor have in the same form.         *)
(* ca_map is a function on the keys of the rows present, each with the age *)
(* of the row, ca_queue a sequence of keys.                                *)
(***************************************************************************)
EXTENDS Integers, Sequences

CONSTANT T_VP_EXPIRE

ASSUME VpExpireAssumption == T_VP_EXPIRE \in Nat

(* ca_get, or ca_alloc: the queue after a packet on path k.                *)
Queued(ca_map, ca_queue, k) ==
  IF k \in DOMAIN ca_map THEN ca_queue ELSE Append(ca_queue, k)

(* ca_next passes over keys without a row and rows past their time.        *)
Live(ca_map, k) == k \in DOMAIN ca_map /\ ca_map[k].age <= T_VP_EXPIRE

LivePlaces(ca_map, ca_queue) == {i \in DOMAIN ca_queue : Live(ca_map, ca_queue[i])}

First(S) == CHOOSE i \in S : \A j \in S : i <= j

(* The place of the row that ca_next returns, or one past the end.         *)
Place(ca_map, ca_queue) ==
  IF LivePlaces(ca_map, ca_queue) = {} THEN Len(ca_queue) + 1
  ELSE First(LivePlaces(ca_map, ca_queue))

(* The key of the row it returns, if any, and of those it frees.           *)
Reported(ca_map, ca_queue) ==
  {ca_queue[i] : i \in DOMAIN ca_queue \cap {Place(ca_map, ca_queue)}}

Freed(ca_map, ca_queue) ==
  {ca_queue[i] : i \in 1 .. Place(ca_map, ca_queue) - 1}

(* Mutant: the row keeps its place at the head.                            *)
Rotated_Stay(ca_map, ca_queue) ==
  SubSeq(ca_queue, Place(ca_map, ca_queue), Len(ca_queue))

(* The queue after ca_next: the row it returns is at the end.              *)
Rotated(ca_map, ca_queue) ==
  LET n == Place(ca_map, ca_queue)
  IN  IF n > Len(ca_queue) THEN << >>
      ELSE Append(SubSeq(ca_queue, n + 1, Len(ca_queue)), ca_queue[n])
=============================================================================
