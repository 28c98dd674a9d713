------------------------------ MODULE AddressSpace ------------------------------
(***************************************************************************)
(* What pTableMan::map of src/kernel/src/memory/paging.cpp promises: after *)
(* map(v, p) the virtual page v is backed by the frame p, and every other  *)
(* virtual page is backed by what it was backed by before.                 *)
(***************************************************************************)
EXTENDS Integers

CONSTANTS Virt, Phys, Unmapped

VARIABLE space

SpaceInit == space = [v \in Virt |-> Unmapped]

SpaceMap(v, p) == space' = [space EXCEPT ![v] = p]

SpaceNext == \E v \in Virt, p \in Phys : SpaceMap(v, p)

SpaceSpec == SpaceInit /\ [][SpaceNext]_space
===============================================================================
