---------------------------- MODULE MCPageAllocator ----------------------------
(***************************************************************************)
(* Small memory maps for TLC: one with the conventional memory in the      *)
(* middle and page numbers beyond the map that the bitmap still has bits   *)
(* for; one with a hole, whose last page the bitmap cannot mark; one with  *)
(* two conventional segments of which the second holds the bitmap, larger  *)
(* than the reserve loop can get to; and one with a segment so large that  *)
(* the release loop wraps and comes back below its start.                  *)
(***************************************************************************)
EXTENDS PageAllocator

Desc(type, start, pages) == [type |-> type, start |-> start, pages |-> pages]

MCMaps ==
  { <<Desc(2, 0, 1), Desc(7, 1, 3), Desc(4, 4, 1)>>,
    <<Desc(7, 0, 2), Desc(7, 4, 2), Desc(6, 9, 1)>>,
    <<Desc(7, 1, 2), Desc(0, 0, 1), Desc(7, 3, 3), Desc(3, 6, 1)>>,
    <<Desc(3, 0, 1), Desc(7, 6, 7)>> }

\* Reach is what the loops compute: i * 4096 in 32 bits, added to an address.
Offset(i) ==
  LET k == i % (2 * IntPages) IN IF k < IntPages THEN k ELSE k - 2 * IntPages

ASSUME ReachAssumption ==
  \A start \in 0 .. PhysPages, count \in 0 .. 3 * IntPages :
    Reach(start, count) = {start + Offset(i) : i \in 0 .. count - 1} \cap Nat
===============================================================================
