---------------------------------- MODULE Boot ----------------------------------
(***************************************************************************)
(* The UEFI loader src/gnu-efi/bootloader/main.c: efi_main with loadFile,  *)
(* loadPSFFont and GOPInit, up to the jump into the kernel.                *)
(*                                                                         *)
(* Memory is counted in pages.  The firmware is external: it owns pages,   *)
(* grants or refuses requests for them, and its memory map is the function *)
(* `owner' at the moment of the call.  The map's key identifies a state of *)
(* that function; pages are never given back, so a key is current exactly  *)
(* when the map still equals `owner'.  The loader looks at the results of  *)
(* Open, LocateProtocol and QueryMode, and at no other.                    *)
(***************************************************************************)
EXTENDS Integers, Sequences, FiniteSets, FiniteSetsExt

CONSTANTS
  MemPages,       \* the pages of memory
  FirmwareUses,   \* sets of pages that the firmware may use at the start
  Segments,       \* the loadable segments of the kernel file, in its order
  PoolPages,      \* the most pages that AllocatePool takes at once
  StackBytes, PageBytes,
  Fan             \* entries of a page table, for the size of the directory

Pages == 0 .. MemPages - 1
Segment == [first : Nat, pages : Nat]
SegmentPages(s) == s.first .. s.first + s.pages - 1

ASSUME SizesAssumption ==
  /\ MemPages \in Nat \ {0} /\ StackBytes \in Nat /\ PageBytes \in Nat \ {0}
  /\ Fan \in Nat \ {0} /\ PoolPages \in Nat
  /\ StackBytes \div PageBytes > 0
  /\ Segments \in Seq(Segment)
  /\ \A k \in DOMAIN Segments : SegmentPages(Segments[k]) \subseteq Pages
  /\ FirmwareUses \subseteq SUBSET Pages

None == -1          \* an address that no service has set
Owners == {"free", "firmware", "kernel", "pool", "stack", "directory"}
Files == {"missing", "bad", "good"}
NoMap == [p \in {} |-> "free"]

VARIABLES
  step,       \* what efi_main does next, or how it ended
  kernel, font,   \* the files: "missing", "bad" or "good"
  screen,     \* whether there is a graphics output
  topDown,    \* the firmware's policy: pages come from the highest free ones
  owner,      \* who uses a page
  loaded,     \* how many segments have been loaded
  error,      \* the flag of efi_main
  room,       \* the descriptors that the buffer for the map can hold
  buffer,     \* the pages that were taken for it
  map,        \* what GetMemoryMap put into it, if anything
  stack,      \* stackPhys
  directory,  \* pageDirectoryPhysAddress
  dirPages,   \* kernelParameters.pageDirectorySize
  services    \* whether boot services are still there

env == <<kernel, font, screen, topDown>>
vars == <<step, env, owner, loaded, error, room, buffer, map, stack, directory, dirPages, services>>

-------------------------------------------------------------------------------
(* The firmware.                                                           *)

Kind(o) == CASE o = "free" -> "conventional" [] o = "firmware" -> "firmware" [] OTHER -> "loader"

Free(o) == {p \in DOMAIN o : o[p] = "free"}

\* Neighbouring pages of one kind share a descriptor.
Descriptors(o) ==
  Cardinality({p \in DOMAIN o : p = 0 \/ Kind(o[p]) # Kind(o[p - 1])})

Grant(o, S, who) == [p \in DOMAIN o |-> IF p \in S THEN who ELSE o[p]]

\* The first pages of the runs of n free pages that the policy allows.
Starts(o, n) ==
  LET all == {p \in Free(o) : p .. p + n - 1 \subseteq Free(o)}
  IN  IF topDown THEN {p \in all : \A q \in all : q <= p} ELSE all

\* AllocatePool: out of pages the pool has, or of a run of new ones, as many as
\* the request needs; or the request is refused.
Pooled(o) ==
  {o} \cup UNION {{Grant(o, p .. p + n - 1, "pool") : p \in Starts(o, n)} : n \in 1 .. PoolPages}

\* AllocatePages at any address: where, or None when no run is long enough.
Anywhere(o, n) == IF Starts(o, n) = {} THEN {None} ELSE Starts(o, n)

-------------------------------------------------------------------------------
(* The loader.                                                             *)

Init ==
  /\ step = "open"
  /\ kernel \in Files /\ font \in Files /\ screen \in BOOLEAN
  /\ topDown \in BOOLEAN
  /\ \E F \in FirmwareUses : owner = [p \in Pages |-> IF p \in F THEN "firmware" ELSE "free"]
  /\ loaded = 0 /\ error = 0 /\ room = 0 /\ buffer = {} /\ map = NoMap
  /\ stack = None /\ directory = None /\ dirPages = 0
  /\ services = TRUE

\* loadFile, and the file's information in a pool.  Without a kernel the
\* function GetInfo is called through NULL.
OpenKernel ==
  /\ step = "open"
  /\ IF kernel # "missing"
     THEN step' = "verify" /\ owner' \in Pooled(owner)
     ELSE step' = "wild" /\ UNCHANGED owner
  /\ UNCHANGED <<env, loaded, error, room, buffer, map, stack, directory, dirPages, services>>

\* The header is checked, and the program headers read into a pool.  A bad
\* kernel is reported, and error set to 0, which it is.
Verify ==
  /\ step = "verify"
  /\ owner' \in Pooled(owner)
  /\ step' = "load"
  /\ UNCHANGED <<env, loaded, error, room, buffer, map, stack, directory, dirPages, services>>

\* One loadable segment: it is read to its address even if the pages there
\* were refused.
LoadSegment ==
  /\ step = "load" /\ loaded < Len(Segments)
  /\ LET S == SegmentPages(Segments[loaded + 1])
     IN  owner' = IF S \subseteq Free(owner) THEN Grant(owner, S, "kernel") ELSE owner
  /\ loaded' = loaded + 1
  /\ UNCHANGED <<step, env, error, room, buffer, map, stack, directory, dirPages, services>>

\* What the headers of a file that is no kernel ask for is not known: its
\* segments may end anywhere.
EndOfSegments ==
  /\ step = "load"
  /\ loaded = Len(Segments) \/ kernel = "bad"
  /\ step' = "font"
  /\ UNCHANGED <<env, owner, loaded, error, room, buffer, map, stack, directory, dirPages, services>>

\* loadPSFFont: a pool for the header, and when that is valid one for the
\* glyphs and one for the font.
LoadFont ==
  /\ step = "font"
  /\ \/ /\ font = "good"
        /\ owner' \in UNION {Pooled(p) : p \in UNION {Pooled(o) : o \in Pooled(owner)}}
        /\ UNCHANGED error
     \/ /\ font = "bad"
        /\ owner' \in Pooled(owner) /\ error' = 1
     \/ /\ font = "missing"
        /\ error' = 1 /\ UNCHANGED owner
  /\ step' = "screen"
  /\ UNCHANGED <<env, loaded, room, buffer, map, stack, directory, dirPages, services>>

\* GOPInit.
FindScreen ==
  /\ step = "screen"
  /\ error' = IF screen THEN error ELSE 1
  /\ step' = "size"
  /\ UNCHANGED <<env, owner, loaded, room, buffer, map, stack, directory, dirPages, services>>

\* Mutant of SizeMap: the descriptors are counted from 0.
SizeMapShort ==
  /\ step = "size"
  /\ room' = Descriptors(owner) - 1
  /\ step' = "buffer"
  /\ UNCHANGED <<env, owner, loaded, error, buffer, map, stack, directory, dirPages, services>>

\* GetMemoryMap without a buffer reports the size of the map.  mapSize is not
\* set before: that the firmware stores the size whatever it held is assumed.
SizeMap ==
  /\ step = "size"
  /\ room' = Descriptors(owner)
  /\ step' = "buffer"
  /\ UNCHANGED <<env, owner, loaded, error, buffer, map, stack, directory, dirPages, services>>

\* A pool of that size is allocated,
MapBuffer ==
  /\ step = "buffer"
  /\ owner' \in Pooled(owner)
  /\ buffer' = {p \in Pages : owner'[p] # owner[p]}
  /\ step' = "map"
  /\ UNCHANGED <<env, loaded, error, room, map, stack, directory, dirPages, services>>

\* and GetMemoryMap is called with it: it fails when the map has outgrown it.
GetMap ==
  /\ step = "map"
  /\ map' = IF Descriptors(owner) <= room THEN owner ELSE NoMap
  /\ step' = "stack"
  /\ UNCHANGED <<env, owner, loaded, error, room, buffer, stack, directory, dirPages, services>>

TakeStack ==
  /\ step = "stack"
  /\ LET n == StackBytes \div PageBytes
     IN  \E at \in Anywhere(owner, n) :
           /\ stack' = at
           /\ owner' = IF at = None THEN owner ELSE Grant(owner, at .. at + n - 1, "stack")
  /\ step' = "directory"
  /\ UNCHANGED <<env, loaded, error, room, buffer, map, directory, dirPages, services>>

\* The directory's pages for a memory of n pages.
DirectorySize(n) == n \div Fan + n \div (Fan * Fan) + n \div (Fan * Fan * Fan) + 3

\* The memory's size is the sum of the map's descriptors: any, if there is no
\* map in the buffer.
TakeDirectory ==
  /\ step = "directory"
  /\ dirPages' \in IF map # NoMap THEN {DirectorySize(MemPages)} ELSE 3 .. MemPages + 1
  /\ \E at \in Anywhere(owner, dirPages') :
       /\ directory' = at
       /\ owner' = IF at = None THEN owner
                   ELSE Grant(owner, at .. at + dirPages' - 1, "directory")
  /\ step' = "leave"
  /\ UNCHANGED <<env, loaded, error, room, buffer, map, stack, services>>

\* Mutant of CanExit: the map is read again before the loader leaves.
CanExitAfterRetry == TRUE

\* ExitBootServices wants the key of the current map.
CanExit == map = owner

\* The jump into the kernel.  Where it leads is not known when the file is no
\* kernel, or the new stack pointer was never set.
Leave ==
  /\ step = "leave" /\ error = 0
  /\ services' = ~CanExit
  /\ step' = IF kernel = "good" /\ stack # None THEN "kernel" ELSE "wild"
  /\ UNCHANGED <<env, owner, loaded, error, room, buffer, map, stack, directory, dirPages>>

\* Back to the firmware; nothing is given back.
Return ==
  /\ step = "leave" /\ error = 1
  /\ step' = "returned"
  /\ UNCHANGED <<env, owner, loaded, error, room, buffer, map, stack, directory, dirPages, services>>

Next ==
  \/ OpenKernel \/ Verify \/ LoadSegment \/ EndOfSegments \/ LoadFont \/ FindScreen
  \/ SizeMap \/ MapBuffer \/ GetMap \/ TakeStack \/ TakeDirectory \/ Leave \/ Return

Spec == Init /\ [][Next]_vars

-------------------------------------------------------------------------------
(* What the kernel finds.                                                  *)

Entered == step = "kernel"

\* Mutant of LockedPages: the page directory is not locked.
LockedButDirectory == stack .. stack + StackBytes \div PageBytes

\* What memoryInit locks of the pages that were taken after the map was read.
LockedPages == (stack .. stack + StackBytes \div PageBytes)
                 \cup (directory .. directory + dirPages)

\* The stack's pages, from its first byte to the stack pointer's.
StackUsed == stack .. stack + (StackBytes - 1) \div PageBytes

DirectoryUsed == IF directory = None THEN {} ELSE directory .. directory + dirPages - 1

\* The free pages from p on.
RunLength(p) == Max({n \in 0 .. MemPages : p .. p + n - 1 \subseteq Free(map)})

\* Where readMap puts its bitmap: at the first longest segment.
LargestSeg == Min({p \in Pages : \A q \in Pages : RunLength(q) <= RunLength(p)})
BitmapPages == (MemPages \div 8) \div PageBytes + 1

\* Mutant of BitmapCleared: the bitmap at the segment's end.
ClearedAtEnd ==
  LET behind == LargestSeg + RunLength(LargestSeg)
  IN  behind - BitmapPages .. behind - 1

BitmapCleared == LargestSeg .. LargestSeg + BitmapPages - 1

-------------------------------------------------------------------------------
(* Properties.                                                             *)

TypeOK ==
  /\ step \in {"open", "verify", "load", "font", "screen", "size", "buffer", "map", "stack",
              "directory", "leave", "kernel", "returned", "wild"}
  /\ kernel \in Files /\ font \in Files /\ screen \in BOOLEAN /\ topDown \in BOOLEAN
  /\ owner \in [Pages -> Owners]
  /\ loaded \in 0 .. Len(Segments)
  /\ error \in {0, 1}
  /\ room \in Nat /\ buffer \subseteq Pages
  /\ map \in [Pages -> Owners] \cup {NoMap}
  /\ stack \in Pages \cup {None} /\ directory \in Pages \cup {None}
  /\ dirPages \in Nat
  /\ services \in BOOLEAN

\* The kernel always starts with boot services still there: the stack and the
\* directory are allocated after the map was read, so that its key is stale
\* and ExitBootServices refuses.  Nobody looks at its result.
ExitRefused == Entered => services

\* The map that the kernel is given is older than its stack and directory.
\* Whatever the loader has taken and the map calls free memory, memoryInit
\* locks, and the page that the stack reaches into behind its allocation.
UsedPagesKept ==
  Entered /\ map # NoMap =>
    \A p \in Free(map) :
      owner[p] # "free" \/ p \in StackUsed => p \in LockedPages

\* readMap clears its bitmap before anything is locked.  It clears nothing of
\* the stack and the directory if the firmware allocates from the top and the
\* largest segment has room for all three.
BitmapApart ==
  Entered /\ map # NoMap /\ topDown
    /\ RunLength(LargestSeg) >= Cardinality(BitmapCleared)
                                 + Cardinality(StackUsed) + Cardinality(DirectoryUsed)
  => BitmapCleared \cap (StackUsed \cup DirectoryUsed) = {}

\* The kernel is given no map exactly when the buffer for it made the map one
\* descriptor longer: when its pages are new, at least one page beside them is
\* free, and none is the loader's.
MapLostByLoneBuffer ==
  step = "stack" =>
    LET beside == {Kind(owner[p]) :
                    p \in {q \in Pages \ buffer : q + 1 \in buffer \/ q - 1 \in buffer}}
    IN  map = NoMap <=> "conventional" \in beside /\ "loader" \notin beside
===============================================================================
