--------------------------------- MODULE MCBoot ---------------------------------
(***************************************************************************)
(* Ten pages for TLC, of four bytes, and tables of eight entries: a        *)
(* kernel of two segments, a stack of two pages of which one is allocated, *)
(* a directory of four pages.  The firmware may use pages at the end, in   *)
(* the middle, or one that the kernel is loaded to.                        *)
(***************************************************************************)
EXTENDS Boot

MCSegments == <<[first |-> 0, pages |-> 1], [first |-> 1, pages |-> 1]>>
MCFirmwareUses == {{9}, {3, 9}, {1, 6}}
===============================================================================
