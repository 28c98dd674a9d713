------------------------------ MODULE KernelMemory ------------------------------
(***************************************************************************)
(* The kernel's memory as a whole: memoryInit of                           *)
(* src/kernel/src/kernelFunc.cpp and getPool of                            *)
(* src/kernel/src/memory/paging.cpp, which bring the page allocator and    *)
(* the page tables together.                                               *)
(*                                                                         *)
(* One thread runs all of it, and no interrupt touches what it uses.       *)
(* Virtual pages and frames are page numbers; sizes are in bytes.          *)
(***************************************************************************)
EXTENDS PageWalk, Sequences, Functions

CONSTANTS
  Maps, PhysPages, PageBytes, Wrap, IntPages,   \* of PageAllocator
  MemPages,    \* the pages of each map
  Layouts,     \* where the loader and the firmware put things
  PoolSizes,   \* what callers pass to getPool
  MaxBytes,    \* bound: no caller asks for more
  MaxPools     \* bound: pools asked for

\* The pages of the directory, as the loader reckons them from the size of the
\* memory.
DirectoryPages == MemPages \div Fan + MemPages \div (Fan * Fan)
                    + MemPages \div (Fan * Fan * Fan) + 3

ASSUME SizesAssumption ==
  /\ MemPages \in Nat /\ PageBytes \in Nat \ {0}
  /\ DirSize = DirectoryPages
  /\ PoolSizes \subseteq 0 .. MaxBytes /\ MaxBytes \in Nat /\ MaxPools \in Nat

\* things are the pages of params, params->buffer and the font's three parts.
Layout == [kernel : Nat, kernelSize : Nat, stack : Nat, stackSize : Nat,
           fb : Nat, fbSize : Nat, things : Seq(Nat)]

VARIABLES
  memMap, stray, initialized, al, halted, taken, claimed,  \* of PageAllocator
  mem, pdi,                                                \* of PageTable
  layout,   \* the KernelParameters
  phase,    \* how far memoryInit has come; "lost" when an access went astray
  vai,      \* VAI: the next virtual page for a pool
  todo,     \* the pages that memoryInit or getPool has still to map
  pools     \* history: the first page and the size in pages of each pool

allocator == <<memMap, stray, initialized, al, halted, taken, claimed>>
tables == <<mem, pdi>>
pooling == <<vai, todo, pools>>
vars == <<allocator, tables, layout, phase, pooling>>

A == INSTANCE PageAllocator WITH Starts <- {}, Counts <- {}

Translate(v) == TranslateIn(mem, v)

Pages(bytes) == (bytes + PageBytes - 1) \div PageBytes
Run(start, bytes) == [i \in 1 .. Pages(bytes) |-> start + i - 1]

\* What is in use when the kernel starts.  The loader sets the stack pointer
\* to the last byte of the stack's size, in a page that it did not allocate.
Held(l) ==
  UNION {Range(Run(l.kernel, l.kernelSize)), Range(Run(l.stack, l.stackSize)),
         Range(Run(DirBase, DirSize * PageBytes)), Range(Run(l.fb, l.fbSize)),
         Range(l.things)}

\* Nothing overlaps, and the firmware allocates from the end of a segment, so
\* that nothing lies where readMap will put its bitmap.
ASSUME LayoutsAssumption ==
  /\ Layouts \subseteq Layout
  /\ \A m \in Maps : A!MemSize(m) = MemPages
  /\ \A m \in Maps, l \in Layouts :
       Held(l) \cap (A!LargestSeg(m) .. A!LargestSeg(m) + A!BitmapSize(m) \div PageBytes) = {}

-------------------------------------------------------------------------------
(* memoryInit.                                                             *)

\* Mutant of OwnPages: the stack is not locked.
OwnPagesButStack(l) ==
  (l.kernel .. l.kernel + l.kernelSize \div PageBytes + 1)
    \cup (DirBase .. DirBase + DirSize)
    \cup (l.fb .. l.fb + l.fbSize \div PageBytes)
    \cup Range(l.things)

\* The pages that memoryInit locks.
OwnPages(l) ==
  (l.kernel .. l.kernel + l.kernelSize \div PageBytes + 1)
    \cup (l.stack .. l.stack + l.stackSize \div PageBytes)
    \cup (DirBase .. DirBase + DirSize)
    \cup (l.fb .. l.fb + l.fbSize \div PageBytes)
    \cup Range(l.things)

\* Mutant of IdentityPages: the bitmap is left out.
IdentityPagesButBitmap(l, m) ==
  Run(l.kernel, l.kernelSize + PageBytes)
    \o Run(l.stack, l.stackSize + PageBytes)
    \o Run(DirBase, DirSize * PageBytes)
    \o Run(l.fb, l.fbSize + PageBytes)
    \o l.things

\* Mutant of IdentityPages: the page directory is left out.
IdentityPagesButTables(l, m) ==
  Run(l.kernel, l.kernelSize + PageBytes)
    \o Run(l.stack, l.stackSize + PageBytes)
    \o Run(A!LargestSeg(m), A!BitmapSize(m) + PageBytes)
    \o Run(l.fb, l.fbSize + PageBytes)
    \o l.things

\* The pages that it maps to themselves, in this order.
IdentityPages(l, m) ==
  Run(l.kernel, l.kernelSize + PageBytes)
    \o Run(l.stack, l.stackSize + PageBytes)
    \o Run(DirBase, DirSize * PageBytes)
    \o Run(A!LargestSeg(m), A!BitmapSize(m) + PageBytes)
    \o Run(l.fb, l.fbSize + PageBytes)
    \o l.things

\* VAI: behind as many pages as there are of memory and framebuffer, wherever
\* the memory and the framebuffer are.
FirstPoolPage(l) == (MemPages * PageBytes + l.fbSize) \div PageBytes

\* The virtual pages in play: those of memoryInit, and as many behind VAI as
\* MaxPools pools with their guard pages can take.
KernelPages(l, m) ==
  Range(IdentityPages(l, m))
    \cup FirstPoolPage(l) .. FirstPoolPage(l) + MaxPools * (MaxBytes \div PageBytes + 2)

\* They are pages, their tables fit into the frames that are modelled, and
\* the frames of memory are not too many for an address.
ASSUME PagesAssumption ==
  /\ MemPages + 7 < FrameMod
  /\ \A m \in Maps, l \in Layouts :
       Pageable(KernelPages(l, m)) /\ Range(IdentityPages(l, m)) \subseteq 0 .. FrameMod - 1

\* allocateEntry's test never fails.
RoomForAll == \A m \in Maps, l \in Layouts : Room(KernelPages(l, m))

ReadMap ==
  /\ phase = "boot"
  /\ A!ReadMap
  /\ phase' = "locks"
  /\ UNCHANGED <<tables, layout, pooling>>

\* Nothing depends on the order in which the pages are locked.
LockOwn ==
  /\ phase = "locks"
  /\ al' = A!Lock(al, OwnPages(layout))
  /\ claimed' = claimed \cup A!Clear(al, OwnPages(layout))
  /\ vai' = FirstPoolPage(layout)
  /\ phase' = "maps" /\ todo' = Len(IdentityPages(layout, memMap))
  /\ UNCHANGED <<memMap, stray, initialized, halted, taken, tables, layout, pools>>

\* One call of map; cr3 is loaded after the last.  Until then the firmware's
\* page tables are in use, under which every table can be written.
MapOwn ==
  /\ phase = "maps"
  /\ LET v == IdentityPages(layout, memMap)[Len(IdentityPages(layout, memMap)) - todo + 1]
         after == MapPage([mem |-> mem, pdi |-> pdi], v, v)
     IN  mem' = after.mem /\ pdi' = after.pdi
  /\ todo' = todo - 1
  /\ phase' = IF todo = 1 THEN "running" ELSE "maps"
  /\ UNCHANGED <<allocator, layout, vai, pools>>

-------------------------------------------------------------------------------
(* getPool.                                                                *)

BeginPool(bytes) ==
  /\ phase = "running" /\ ~halted /\ todo = 0 /\ Len(pools) < MaxPools
  /\ todo' = bytes \div PageBytes + 1
  /\ pools' = Append(pools, [first |-> vai, pages |-> todo'])
  /\ UNCHANGED <<allocator, tables, layout, phase, vai>>

\* Mutant of NextVai: there is no page between the pools.
NextVaiUnguarded == vai + 1

\* The page after the last one of a pool is skipped.
NextVai == IF todo = 1 THEN vai + 2 ELSE vai + 1

\* The kernel uses all its memory, the tables included, by the frames' own
\* numbers.  An access to a page that is not mapped to itself faults, or reaches
\* another frame;
Astray(U) == {u \in U : Translate(u) # u}

\* but map does not flush the TLB, and where a pool has been mapped over a page
\* of memoryInit the processor may still use the mapping from before.
Reached(U) == Astray(U) \subseteq Range(IdentityPages(layout, memMap))

Lost == phase' = "lost" /\ UNCHANGED <<mem, pdi, vai, todo>>

\* The bitmap, and the kernel and its stack: what every turn of the loop uses.
BitmapPages == Range(Run(A!LargestSeg(memMap), A!BitmapSize(memMap)))
AlwaysUsed ==
  BitmapPages \cup Range(Run(layout.kernel, layout.kernelSize))
    \cup Range(Run(layout.stack, layout.stackSize))

\* map is at frame p's turn.
MapPoolPage(p) ==
  LET after == MapPage([mem |-> mem, pdi |-> pdi], vai, p)
      walk == TablesTo(after.mem, vai)
  IN  \/ /\ Reached(walk)
         /\ mem' = after.mem /\ pdi' = after.pdi
         /\ vai' = NextVai /\ todo' = todo - 1
         /\ UNCHANGED phase
      \/ Astray(walk) # {} /\ Lost

\* One turn of getPool's loop: getPage, then map; or getPage stops the machine.
PoolPage ==
  /\ phase = "running" /\ todo > 0
  /\ \/ /\ Reached(AlwaysUsed)
        /\ A!GetPage
        /\ \/ ~halted' /\ \E p \in taken' \ taken : MapPoolPage(p)
           \/ halted' /\ UNCHANGED <<mem, pdi, vai, todo, phase>>
     \/ Astray(AlwaysUsed) # {} /\ Lost /\ UNCHANGED allocator
  /\ UNCHANGED <<layout, pools>>

-------------------------------------------------------------------------------
\* The root table is taken to be clear: PageTable says what happens if not.
Init ==
  /\ A!Init
  /\ \E dirt \in {Absent, Junk} : mem = LeftOver({}, dirt)
  /\ pdi = 0
  /\ layout \in Layouts
  /\ phase = "boot"
  /\ vai = 0 /\ todo = 0 /\ pools = <<>>

Next == ReadMap \/ LockOwn \/ MapOwn \/ PoolPage \/ \E bytes \in PoolSizes : BeginPool(bytes)

Spec == Init /\ [][Next]_vars

-------------------------------------------------------------------------------
(* Properties.                                                             *)

Paging == phase \in {"running", "lost"}

\* The pages of pool k that are mapped: all, but for a pool in the making.
MappedOf(k) ==
  pools[k].first ..
    pools[k].first + pools[k].pages - 1 - (IF k = Len(pools) THEN todo ELSE 0)

PoolPages == UNION {MappedOf(k) : k \in DOMAIN pools}

\* Each page of each pool has a frame of its own, which getPage returned, and
\* none of the frames the kernel, its stack, the page directory, the
\* framebuffer or the parameters are in: writing to a pool changes none of
\* them.  (It may change the bitmap, whose pages are not locked.)
PoolsOwnTheirFrames ==
  /\ \A v \in PoolPages : Translate(v) \in taken \ Held(layout)
  /\ \A v, w \in PoolPages : v # w => Translate(v) # Translate(w)

\* What was mapped to itself before cr3 was loaded still is, the page tables
\* and the bitmap included, unless the pools have grown up to it: VAI starts
\* at the size of the memory, and not behind its last address.
IdentityKept ==
  Paging =>
    \A v \in Held(layout) \cup BitmapPages :
      Translate(v) = v \/ v \in FirstPoolPage(layout) .. vai - 1

\* The page behind a pool is not mapped, so that an overrun faults, unless it
\* was mapped to itself.
GuardPages ==
  \A k \in DOMAIN pools :
    LET behind == pools[k].first + pools[k].pages
    IN  (k = Len(pools) => todo = 0) =>
          Translate(behind) = Absent \/ behind \in Range(IdentityPages(layout, memMap))

\* getPool reaches every table it needs, the bitmap, its code and its stack,
\* until the page directory is used up, or the pools have been mapped over one
\* of the pages that the kernel was started with, or over the bitmap.
LostOnlyWhenFull ==
  phase = "lost" =>
    \/ MapPage([mem |-> mem, pdi |-> pdi], vai, 0).pdi >= DirSize
    \/ \E v \in Held(layout) \cup BitmapPages : v \in FirstPoolPage(layout) .. vai - 1
===============================================================================
