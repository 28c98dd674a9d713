-------------------------------- MODULE PageTable --------------------------------
(***************************************************************************)
(* The page tables while pages are mapped: calls of map of                 *)
(* src/kernel/src/memory/paging.cpp in any order, from memory that nobody  *)
(* has cleared.                                                            *)
(***************************************************************************)
EXTENDS PageWalk

CONSTANTS
  Virt,       \* the virtual pages that callers map
  Phys        \* the frames that callers map them to

ASSUME CallersAssumption == Pageable(Virt) /\ Phys \subseteq 0 .. FrameMod - 1

VARIABLES
  mem,    \* the tables in memory
  pdi,    \* PDI: the last page of the directory given to a table
  wild    \* a walk followed an entry that map never wrote

vars == <<mem, pdi, wild>>

-------------------------------------------------------------------------------

\* Nobody clears the root table before it is used, nor the pages that become
\* tables: their content is left over from the firmware.
Init ==
  /\ \E garbage \in SUBSET (0 .. Fan - 1), dirt \in {Absent, Junk} :
       mem = LeftOver(garbage, dirt)
  /\ pdi = 0
  /\ wild = FALSE

\* map(v, p) through a root entry that is absent or was written by map.
Map(v, p) ==
  LET tables == MapPage([pdi |-> pdi, mem |-> mem], v, p)
  IN  /\ ~wild
      /\ mem[DirBase][PDP_i(v)] # Junk
      /\ mem' = tables.mem
      /\ pdi' = tables.pdi
      /\ UNCHANGED wild

\* map(v, p) through a root entry that happens to have its present bit set:
\* it writes to memory that is no table, and what follows is anybody's guess.
MapAstray(v) ==
  /\ ~wild
  /\ mem[DirBase][PDP_i(v)] = Junk
  /\ wild' = TRUE
  /\ UNCHANGED <<mem, pdi>>

Next == \E v \in Virt : MapAstray(v) \/ \E p \in Phys : Map(v, p)

Spec == Init /\ [][Next]_vars

-------------------------------------------------------------------------------
(* What the processor makes of the tables, and what makes them correct.    *)

TypeOK ==
  /\ mem \in [Frames -> [0 .. Fan - 1 -> (0 .. FrameMod - 1) \cup {Absent}]]
  /\ pdi \in 0 .. TablesFor(Virt)
  /\ wild \in BOOLEAN

Entry(f, i) == EntryIn(mem, f, i)
Translate(v) == TranslateIn(mem, v)

Children(F) == {Entry(f, i) : f \in F, i \in 0 .. Fan - 1} \ {Absent, Junk}

Level1 == {DirBase}
Level2 == Children(Level1)
Level3 == Children(Level2)
Level4 == Children(Level3)

Links == {l \in (Level1 \cup Level2 \cup Level3) \X (0 .. Fan - 1) :
            Entry(l[1], l[2]) \notin {Absent, Junk}}

\* The tables form a tree: no table hangs below two entries, or on two levels,
\* or below itself, and every page given out is in the tree.
TreeInv ==
  /\ Cardinality(Links) = pdi
  /\ Level2 \cup Level3 \cup Level4 = DirBase + 1 .. DirBase + pdi
  /\ Level2 \cap (Level3 \cup Level4) = {} /\ Level3 \cap Level4 = {}

Mapped == {v \in Virt : Translate(v) # Absent}

\* A table is allocated only when the first page below it is mapped: PDI is
\* the number of different prefixes of the mapped pages.  It is what the size
\* of the directory must be reckoned from.
TableCount == pdi = TablesFor(Mapped)

Space == INSTANCE AddressSpace
           WITH Unmapped <- Absent,
                space <- [v \in Virt |-> Translate(v)]

\* The tables implement the address space: a map changes the translation of its
\* own page and of no other, whatever tables it has to allocate on the way.
ImplementsSpace == Space!SpaceSpec

\* "page directory full": a table is in the directory or not allocated at all.
TablesInDirectory ==
  Level2 \cup Level3 \cup Level4 \subseteq DirBase .. DirBase + DirSize - 1
===============================================================================
