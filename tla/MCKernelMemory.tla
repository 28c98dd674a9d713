---------------------------- MODULE MCKernelMemory ----------------------------
(***************************************************************************)
(* A small machine for TLC: pages of four bytes, tables of eight entries,  *)
(* 64 pages of memory and a directory of twelve.  The memory has holes, so *)
(* that pages behind the 64th are in use, the directory's among them.      *)
(***************************************************************************)
EXTENDS KernelMemory

Desc(type, start, pages) == [type |-> type, start |-> start, pages |-> pages]

\* The largest segment, which the bitmap is put into, below the hole in front
\* of the directory, and around the directory.
MCMaps ==
  { <<Desc(2, 0, 3), Desc(7, 3, 2), Desc(4, 5, 2), Desc(2, 7, 1), Desc(7, 8, 40), Desc(7, 72, 16)>>,
    <<Desc(2, 0, 3), Desc(7, 3, 2), Desc(4, 5, 2), Desc(2, 7, 1), Desc(7, 8, 8), Desc(2, 32, 24),
      Desc(7, 69, 24)>> }

\* The pools start in the hole at page 66, and reach the directory; the stack
\* is behind the directory, or in low memory, and then the framebuffer is where
\* the pools start.  With the last framebuffer, which is larger, they start
\* behind all that is in use.
MCLayouts ==
  { [kernel |-> 0, kernelSize |-> 7, stack |-> 86, stackSize |-> 7,
     fb |-> 120, fbSize |-> 8, things |-> <<6, 5, 7, 7, 7>>],
    [kernel |-> 0, kernelSize |-> 8, stack |-> 44, stackSize |-> 7,
     fb |-> 66, fbSize |-> 8, things |-> <<6, 5, 7, 7, 7>>],
    [kernel |-> 0, kernelSize |-> 7, stack |-> 13, stackSize |-> 7,
     fb |-> 48, fbSize |-> 80, things |-> <<6, 5, 7, 7, 7>>] }

\* What the theorems suppose holds here.
ASSUME RoomHere == RoomForAll
===============================================================================
