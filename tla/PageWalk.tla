-------------------------------- MODULE PageWalk ---------------------------------
(***************************************************************************)
(* The four-level page tables of src/kernel/src/memory/paging.cpp: how map *)
(* goes down the tables, allocating those that are missing, and what the   *)
(* processor makes of the result.                                          *)
(*                                                                         *)
(* Memory is a function from frames to tables; an entry is Absent when its *)
(* present bit is clear and the frame it points to otherwise.  The present *)
(* and the writable bit are always set together and no other flag ever is. *)
(***************************************************************************)
EXTENDS Integers, FiniteSets

CONSTANTS
  Fan,        \* entries of a table: 512
  DirBase,    \* the frame of the page directory's first page, the root table
  DirSize,    \* the pages of the directory
  MaxFrame,   \* bound: the last frame that is modelled
  FrameMod    \* addresses are cut to 40 bits: 2^28 frames

ASSUME TablesAssumption ==
  /\ Fan \in Nat \ {0} /\ DirBase \in Nat \ {0} /\ DirSize \in Nat \ {0}
  /\ MaxFrame \in Nat /\ FrameMod \in Nat
  /\ DirBase <= MaxFrame /\ MaxFrame + 1 < FrameMod

Absent == -1
Junk == MaxFrame + 1   \* a frame number that memory held by chance
Null == 0

Frames == 0 .. MaxFrame
PageNumbers == 0 .. Fan * Fan * Fan * Fan - 1

EmptyTable == [i \in 0 .. Fan - 1 |-> Absent]

-------------------------------------------------------------------------------
(* pMapIndexer.                                                            *)

\* virtAddr >>= 9: from the number of a page to that of its table, and from the
\* number of a table to that of the table above.
Shift(n) == n \div Fan

\* Mutant of PT_i: the address has not been shifted.
PT_iUnshifted(v) == v % Fan

P_i(v)   == v % Fan
PT_i(v)  == Shift(v) % Fan
PD_i(v)  == Shift(Shift(v)) % Fan
PDP_i(v) == Shift(Shift(Shift(v))) % Fan

\* setAddr keeps 40 bits of the address.
SetAddr(f) == f % FrameMod

\* Mutant of AllocateEntry: PDI is incremented after its use.
AllocateEntryLate(n) == IF n > DirBase + DirSize THEN Null ELSE DirBase + n - 1

\* allocateEntry, PDI having been incremented to n.
AllocateEntry(n) == IF n > DirBase + DirSize THEN Null ELSE DirBase + n

\* A table is cleared, then entry i of the table at f is made to point to it.
Link(m, f, i, new) ==
  LET cleared == [m EXCEPT ![new] = EmptyTable]
  IN  [cleared EXCEPT ![f][i] = SetAddr(new)]

\* Mutant of Enter: a table is allocated although there is one.
EnterAnew(w, i) ==
  LET new == AllocateEntry(w.pdi + 1)
  IN  [pdi |-> w.pdi + 1, at |-> new, mem |-> Link(w.mem, w.at, i, new)]

\* Mutant of Enter: PDI is incremented by the caller as well.
EnterCountingTwice(w, i) ==
  IF w.mem[w.at][i] # Absent
  THEN [w EXCEPT !.at = w.mem[w.at][i]]
  ELSE LET new == AllocateEntry(w.pdi + 2)
       IN  [pdi |-> w.pdi + 2, at |-> new, mem |-> Link(w.mem, w.at, i, new)]

\* One of the three steps down: from entry i of the table at w.at to the table
\* below, which is allocated, cleared and linked if the entry is not present.
Enter(w, i) ==
  IF w.mem[w.at][i] # Absent
  THEN [w EXCEPT !.at = w.mem[w.at][i]]
  ELSE LET new == AllocateEntry(w.pdi + 1)
       IN  [pdi |-> w.pdi + 1, at |-> new, mem |-> Link(w.mem, w.at, i, new)]

\* map(v, p): mem and pdi before and after it.
MapPage(tables, v, p) ==
  LET root == [pdi |-> tables.pdi, at |-> DirBase, mem |-> tables.mem]
      walk == Enter(Enter(Enter(root, PDP_i(v)), PD_i(v)), PT_i(v))
  IN  [pdi |-> walk.pdi,
       mem |-> [walk.mem EXCEPT ![walk.at][P_i(v)] = SetAddr(p)]]

\* The tables that map has read and written on its way to page v, when it has
\* left m.
TablesTo(m, v) ==
  LET PDP == m[DirBase][PDP_i(v)]
      PD == m[PDP][PD_i(v)]
  IN  {DirBase, PDP, PD, m[PD][PT_i(v)]}

-------------------------------------------------------------------------------

\* What nobody has cleared yet: the frames hold what the firmware left in them,
\* the root table in the entries that are garbage.
LeftOver(garbage, dirt) ==
  [f \in Frames |->
     [i \in 0 .. Fan - 1 |->
        IF f = DirBase THEN IF i \in garbage THEN Junk ELSE Absent ELSE dirt]]

\* The entry the processor reads at step i of a walk that has come to f.
EntryIn(m, f, i) == IF f \in Frames THEN m[f][i] ELSE Absent

TranslateIn(m, v) ==
  EntryIn(m, EntryIn(m, EntryIn(m, EntryIn(m, DirBase, PDP_i(v)), PD_i(v)), PT_i(v)), P_i(v))

\* How many tables below the root the pages of V need: one for each prefix that
\* their numbers have.
TablesFor(V) ==
  Cardinality({Shift(v) : v \in V})
    + Cardinality({Shift(Shift(v)) : v \in V})
    + Cardinality({Shift(Shift(Shift(v))) : v \in V})

\* The pages of V may be mapped: they are pages, and the frames up to MaxFrame
\* suffice for their tables.
Pageable(V) == V \subseteq PageNumbers /\ DirBase + TablesFor(V) <= MaxFrame

\* allocateEntry's test never fails, whichever pages of V are mapped.
Room(V) == TablesFor(V) <= DirBase + DirSize
===============================================================================
