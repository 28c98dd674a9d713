# RedX-OS in TLA+

RedX-OS is a small x86-64 kernel in C++ (`src/kernel/src/`), started by a UEFI
loader (`src/gnu-efi/bootloader/main.c`). The kernel takes the firmware's memory
map, builds a page allocator and page tables from it, sets up keyboard
interrupts and runs a terminal in an endless loop. This directory models the
loader, memory, interrupts, keyboard and terminal, the mouse packets, and the
text and number output.

Run a model with `tlc -config MCTerminal.cfg Terminal` (the run names below say
which module goes with which configuration) and check a proof with
`tlapm PageAllocatorProofs.tla`. A module `XProofs` holds the theorems about
module `X`, and `InputOutputProofs` those about `Keyboard`, `Mouse`, `Console` and
`Strings`.

## The system

| Component | State | Operations | Model |
|---|---|---|---|
| Page allocator, `memory/memory.cpp`, `libs/math.cpp` | bitmap, hint `pageI`, three 64-bit counters | `readMap`, `getPage`, `lock(s)`, `free(s)`, `reserve(s)`, `release(s)` | `PageAllocator`, `PagePool` |
| Page tables, `memory/paging.cpp` | tables in memory, `PDI`, `VAI` | `map`, `allocateEntry`, `getPool` | `PageWalk`, `PageTable`, `AddressSpace`, `KernelMemory` |
| Kernel initialisation, `kernelFunc.cpp` | the parameters from the loader | `memoryInit`, `interuptInit`, `gdtInit`, `welcome`, `panic` | `memoryInit` in `KernelMemory`, `interuptInit` in `Interrupts`, `panic` in `Console` |
| Keyboard, `hid/keyboard.cpp` | `mod`, two shift flags | `handleKeyboard`, `lookup` | `Keyboard`, `Terminal` |
| Terminal and main loop, `terminal/terminal.cpp`, `main.cpp`, `scheduler/` | four buffers, `ii`, `scheduler.work` | `init`, `handler`, `_start`'s loop | `Terminal` |
| Interrupts, `interrupts/interrupts.cpp`, `hid/io.cpp` | IDT, PIC masks, interrupt flag | handlers, `setGate`, `remapPIC`, `endMaster` | `Interrupts`; the keyboard's handler also in `Terminal`, `Keyboard` |
| Mouse, `hid/mouse.cpp` | `mCycle`, `mPacket`, `mReady` | `handleMouse`, `processMPacket`, `ps2MouseInit` | `Mouse`, without `ps2MouseInit` |
| Cursor and renderer, `basicRenderer.cpp` | cursor, cells | `move`, `newLine`, `right`, `printChar`, `print`, `printString` | `Cursor`, `Console` |
| Strings, `libs/string.cpp` | static buffers | `toString`, `toHString`, `cat` | `Strings` |
| UEFI loader, `gnu-efi/bootloader/main.c` | firmware handles, the map, `error` | load, allocate, leave, jump | `Boot` |
| Screen, `screen.cpp`, `terminal/renderer.cpp` | pixels | drawing | not modelled |
| GDT, BIOS boot sector, vendored gnu-efi, build files | - | - | not modelled: constant tables, a stub, third-party code, no program logic |

How they interact. The loader hands the kernel one structure with the map, the
framebuffer, the font, a stack and pages for the page directory; the map is the
one from before the last two were allocated. `memoryInit`
passes the map to the allocator, locks the pages that are in use and maps them
to themselves; from then on `getPool` takes pages from the allocator and maps
them at the virtual address `VAI`. The terminal's four buffers are such pools.
The keyboard interrupt decodes scan codes and stores characters in the
terminal's buffer `in`, which the main loop reads, echoes and clears; the two
share nothing else, and there is no lock. The interrupt reaches the handler
through the two interrupt controllers, which `interuptInit` programs with
interrupts in whatever state the firmware left them. `handleMouse` and
`processMPacket` share `mPacket` and `mReady` in the same way, but nobody calls
them yet, and their line has no handler: what `Mouse` says of that interleaving
is about the code as it is written, not about the kernel as it runs. The log and
the panic message are printed at one cursor, the numbers in them come out of
static buffers.

What is hard here:

- *State kept as a cache.* `pageI` must never lie above a clear page; freeing in
  any order must lower it.
- *Boundaries.* The bitmap is rounded up, `reserves` runs one page too far, the
  bounds test lets one bit too many through, the counters wrap.
- *32 bits.* The loops over pages multiply an `int` by 4096; a `double` loses its
  whole part through an `int`.
- *The interrupt between any two accesses to `in`*, the three reads of one key
  included, between the test of `scheduler.work` and `hlt`, and before there is
  an `in` at all.
- *Paging that extends itself.* New tables are written through the mapping that
  they extend, out of a directory of limited size.
- *Nothing recovers.* Out of memory and page faults stop the machine, so the
  question is always when that may happen.
- *A decoder with memory.* Flags set by one byte are used for later ones.
- *A map that is out of date when it is read.* The loader goes on allocating
  after it has asked for the map, and looks at hardly any result.
- *Hardware in between.* A reset controller forgets edges, and unmasks everything
  until its mask is written.
- *Buffers in a row.* `toHString` writes in front of its buffer, `cat` writes no
  end; what another function has handed out must survive.

There is no persistence and no network: crashes and lost messages do not arise.

## Modules and how they correspond to the code

`PROJECT.json` ("map") names the lines of every definition.

**`PageAllocator`** is `class pageAllocator` with its bitmap. Addresses are page
numbers. The record `al` holds the bitmap as the set of marked bits, `pageI` and
the three counters, in pages modulo `Wrap` (2^64 bytes are 2^52 pages). The
operations of the class are operators on that record (`Lock`, `Reserve`, `Free`,
`Release`), each for one page or many; `ReadMap`, `GetPage`, `Locks` and `Frees`
are the actions. `stray` is the bit behind the bitmap, which the bounds test
lets through and nobody initialises. `taken` and `claimed` record who uses what.
`reserve` and `release` are only called inside `readMap`. Sizes and loop bounds
are the code's. `reserves`, `releases` and `frees` count in an `int` and multiply it
by 4096 in 32 bits: from page `IntPages` (2^19, that is 2 GiB) on the offset is
negative, and after as many again it comes back. `Reach` is the set of pages that
such a loop gets to (`MCPageAllocator` compares it with the product, wrapped).
`locks` counts in 64 bits. The product overflows a signed type; the model takes
it to wrap. `bitmapInit`'s `uint32_t` is not modelled (bitmaps of 4 GiB, 128 TiB).
What is written into a page after `getPage` returned it is not modelled, not
even when it is the bitmap itself, which can happen (see findings).

**`PagePool`** is what a caller may rely on: the lowest page is given out, none
twice, and the pool gives up only when it is empty. `PageAllocator` implements
it with the clear bits that `getPage` scans as the pages on offer.

**`PageWalk`** is `pTableMan::map` with `allocateEntry`, `pMapIndexer` and
`dirEntry`, as operators on the tables and the counter. Memory is a function from
frames to tables. `dirEntry::get` is only asked for the present bit, which it
returns (it always tests bit 0, since `>` binds tighter than `&`). `TranslateIn`
is the processor's page walk. **`PageTable`** calls `map` in any order, from memory
that nobody cleared. A root entry that happens to be present there is `Junk`;
following it ends the model (`wild`). **`AddressSpace`** is its abstraction: a
function from virtual pages to frames, changed at one page by each `map`.

**`KernelMemory`** brings the two together: it extends `PageWalk` and instantiates
`PageAllocator` on its own variables. Its actions are `ReadMap`,
`LockOwn`, one `MapOwn` for each page that `memoryInit` maps to itself, then
`BeginPool` and one `PoolPage` for each turn of `getPool`'s loop, which is
`A!GetPage` and a `map` in one step. One thread runs all of this. `layout` is
the loader's structure, `Held` what is in use when the kernel starts. After cr3
is loaded every turn of the loop needs the bitmap, the kernel, its stack and all
the tables of the walk, old and new (`TablesTo`), at their own addresses. If one
of them is not there any more (`Astray`), because it never was or because a pool
has been mapped over it, the turn makes the phase `lost`, and what follows is not
modelled. `map` does not flush the TLB, so for a page of `memoryInit` the processor
may also still have the old mapping (`Reached`), and go on. The five small
structures the kernel locks and maps count one page each.

**`Keyboard`** decodes: the handler's case analysis, split by its cases, and
`lookup` with its table. The keyboard is external: `wire` holds the bytes on
their way, each with the character that is `due` when it is read. Prefixed keys
send the releases and presses of the shift keys that scan code set 1 prescribes.
The byte behind the table, which Caps Lock reads, is fixed by the build
(`BehindBytes`).

**`Terminal`** is the loop of `_start`, `Terminal::handler` and the store of
`handleKeyboard`. `pc` is where the main loop is between two accesses to `in`;
the interrupt may come at any of them. `handler` reads a key four times: it finds
it, tests it for Enter, and stores it in the text and in the command (`FindKey`,
`TestChar`, `StoreText`, `StoreCommand`). When the key is in the cell behind a full
buffer the interrupt can put another one there in between; `replaced` records
that, until Enter clears the command. `asleep` is `hlt`. Buffers have the size
of their pool, so that scans which run on behind the buffer are seen; the last
cell and the rest of each pool are not cleared by `init` and hold garbage, in
all of these cells or in none. `out` stays empty, because `print` of
`libs/io.cpp` stops before the first character of any string, so the half of
`handler` that copies it to the screen has no effect and is left out, with
`runCommand`'s message. Page faults end in `panic`, the state `fault`.

**`Boot`** is `efi_main` with `loadFile`, `loadPSFFont` and `GOPInit`, one action
for each stretch that takes memory, reads the map or can fail. `owner` says who
uses each page; the firmware's map is `owner` at the moment of the call, and a
key is current while `owner` has not changed (nothing is ever given back). The
firmware grants pages where it likes, or always the highest ones (`topDown`), and
a pool comes out of pages it has or out of new ones, up to `PoolPages` in a row
(`Pooled`): the buffer for the map takes more than one for a usual map. Only the results of `Open`,
`LocateProtocol` and `QueryMode` are looked at; everything else may fail unseen.
Steps into the unknown (a call through NULL, a jump into what is no kernel) end
in `wild`. `LockedPages`, `BitmapCleared` are what `memoryInit` and `readMap` do
with the result; `KernelMemory` starts from such results.

**`Interrupts`** runs `interuptInit` as a script of statements, port by port:
gates, `lidt`, the four initialisation words, the masks, `sti`, and last the
statement of `Terminal::init` that gives the keyboard's handler its buffer. Until
then a key is stored through NULL, where the kernel itself is. The two 8259
controllers, timer, keyboard controller and the processor's way from vector to
handler are external, and described from how the code programs them. `Interrupt`
may come between any two statements when the flag is set, which before `sti` is
the firmware's choice. A vector ends in the keyboard's handler, in `panic`, in a
reset (no usable table, or no gate for the double fault) or anywhere (`wild`), if
the table's page was not empty or the handler has no buffer.

**`Cursor`** is `struct cursor` as functions on records, with coordinates modulo
`Wrap`. **`Console`** draws strings, counted by length, at a cursor: a cell holds
the numbers of the strings that drew into it, since glyphs only set pixels.
`stage` follows `_start`: the log, the cursor at the top again with the log still
there (`ResetCursor`) while `getPool` starts lines for the terminal, and the
cleared screen (`ClearScreen`), which leaves the cursor where it is.
**`Mouse`** is `handleMouse` (one step) and `processMPacket` (two steps: it reads
the flags, then the rest), with every byte numbered in the order sent.
**`Strings`** is memory, byte by byte, with the eight static buffers next to
each other in the order of the file: the code's writes outside of its own buffer
land in another one, as they do in the kernel. `given` is what each function has
last promised. `toString(double)` takes the decimals from what is left when the
number as an `int` is subtracted: from 2^31 (`IntLimit`) on they come out as zeros.
`SizesAssumption` says that numbers have 20 digits at most, as those of
64 bits have, and that what callers ask for fits into a buffer: the functions
do not look (nobody calls `cat`, and nobody asks for 105 decimals). These three
and `Keyboard` share no state; `MCInputOutput` checks them in one run, each
behaviour of which is one of any of the four.

`CHECK_DEADLOCK FALSE` is set wherever the machine really stops (`hlt` for ever
after "Out of RAM", `panic`) or a bound is used up.

## Runs

| Run | Module, configuration | Question |
|---|---|---|
| `page_allocator` | `MCPageAllocator` | Do the hint, the marks and the counters stay right in every sequence of calls, and is it a page pool? |
| `page_table` | `PageTable`, `MCPageTable.cfg` | Do the tables stay a tree, and does a map change one translation only? |
| `kernel_memory` | `MCKernelMemory` | Do pools share frames with anything, are guard pages kept, when is a table, the bitmap or the stack out of reach? |
| `terminal` | `Terminal`, `MCTerminal.cfg` | Are keys lost, shown twice, overtaken, left waiting, replaced while they are stored? When does it fault? |
| `boot` | `MCBoot` | With which map, which locks and which services does the kernel start? |
| `interrupts` | `MCInterrupts` | What can stop the kernel while it programs the controllers, and is every key's byte read in the end? |
| `input_output` | `MCInputOutput` | Do the keyboard's flags follow it, is the right character stored? Is the log readable, are packets whole, do handed-out strings survive? |
| `phantom_page`, `bitmap_unlocked`, `range_unreserved`, `directory_full`, `enter_faults` | as above, one property each | findings, below |

Bounds, and why they suffice:

- `page_allocator`: four maps of 5 to 8 pages, one with page numbers beyond the
  map that the bitmap has bits for, one with a hole, one whose second segment
  holds the bitmap and lies beyond the reach of the reserve loop, one with a
  segment so large that the release loop's product wraps (`IntPages` is 6);
  pages of one byte so that the bitmap takes several pages.
  Calls start before, in and behind the map. `Wrap` is 64, small enough that
  `freeMem` and `reservedMem` wrap. The proofs lift all these bounds.
- `page_table`: tables of two entries, four levels, pages that share prefixes of
  each length, two frames, so that pages are also mapped again.
- `kernel_memory`: pages of 4 bytes, tables of 8 entries, 64 pages of memory and
  the 12 pages of directory that the loader computes from that; five pools of 1,
  3 and 7 pages. The two maps have a hole, with the directory behind it, in a
  segment that is conventional or that holds the bitmap, too. In two of the three
  layouts the pools start in the hole, in front of the directory or on top of the
  framebuffer, and the stack is behind the directory or in low memory; in the third
  they start behind all that is in use. Out of memory, a full directory, pools over a
  table in use, over the bitmap, the stack and the framebuffer, with old and with new
  mapping, and one in the bitmap's pages are all reached.
- `terminal`: a screen of one row of three characters, pools of five cells, so that
  one row and a part of the next fit behind it; eight keys, which is what it takes
  for the buffer to fill, to be emptied and filled again up to the cell behind it,
  where a key is replaced while `handler` stores it. Rows fill up, `ii` wraps, or
  runs to the end of the pool.
- `boot`: ten pages, a kernel of two pages, a stack of which one page is allocated
  and one is reached into, a directory of four pages, pools of up to two new
  pages; the firmware uses the last page, one in the middle and the last, or one
  in the middle and one that the kernel belongs to. The buffer for the
  map is outgrown, requests are refused, the largest segment has room for
  everything or not. The proofs lift these bounds.
- `interrupts`: the controllers' real widths and numbers; vectors as UEFI and as a
  BIOS leave them, three pairs of masks, two keys, any number of ticks and mouse
  bytes. More keys would repeat: the output byte holds one at a time.
- `input_output`: every case of `handleKeyboard` and every case of `lookup` has a
  key; one byte may wait when a key is touched, so up to five are on their way (more
  would repeat: the decoder sees one byte at a time); a screen of four by three cells and four strings, so that rows and
  the screen fill up and `print`'s count wraps (at 8 instead of 256); nine mouse
  bytes, three packets, with each sign and an overflow; buffers of 44 bytes (no
  result is longer, and 14 bytes in front of one lie in its neighbour), three
  conversions in any order, integers from -128 on, doubles on both sides of the
  limit of an `int`, here 100, and beyond the least integer.

Fairness. `Terminal.FairSpec` assumes weak fairness of `MainLoop`: it is the only
thread, and runs whenever no interrupt does. Nothing is assumed of the keyboard:
no further key needs to come. `Drained` holds because `scheduler.work` is never
reset; before the first key is shown a key can wait asleep (`SleepsOnlyAtFirst`).
`Interrupts.Spec` assumes weak fairness of the boot script, of the handler's
steps and of taking an interrupt: a processor goes on, and looks at its interrupt
line between instructions. A tick of the timer may be pending for ever, but it
is a panic when it is taken, so it starves nothing. The other modules claim
nothing that must happen.

## Findings

- `phantom_page`: `getPage` returns page numbers behind the end of memory,
  because the bitmap is rounded up and `reserves` stops at the memory's size.
- `bitmap_unlocked`: `readMap` locks the bitmap's own pages and `releases` then
  clears these marks again: the pages are handed out, and counted as used for
  ever.
- `range_unreserved`: `readMap` means to reserve all memory before it releases the
  conventional segments, but the loop stops having an effect at 2 GiB: the bitmap
  stays clear above, and reserved memory there counts as free.
- `directory_full`: `allocateEntry` compares an index with an absolute page
  number, so tables are put behind the end of the directory.
- `enter_faults`: Enter on an empty screen reads the byte in front of its pool,
  an unmapped page: the kernel panics.

Noted while modelling; nothing in the repository says otherwise.

- Loader: `ExitBootServices` is always refused (`ExitRefused`), so the kernel runs
  beside the firmware. A missing or bad kernel sets `error` to 0, the value it
  has; the program continues, in the first case through NULL. `mapSize` is read
  before it is set. What follows a segment's file bytes (`.bss`) is not cleared.
  Seven pages are allocated for 32000 bytes of stack.
- Memory: of a conventional segment of more than 2 GiB the release loop misses the
  pages behind, and clears pages below its start instead; glyphs are mapped for
  one page only; `VAI` starts at the sum of the
  descriptors, which may be below the end of memory; the bitmap is cleared before
  anything is locked (`BitmapApart` says when that is harmless).
- Interrupts: interrupts are not disabled while the controllers are programmed,
  and ICW1 unmasks all lines. Line 12 is unmasked without a gate. The table's page
  is not cleared. A byte that waits while the controller is reset leaves the
  keyboard dead. A key between `sti` and `Terminal::init` is stored through NULL.
- Terminal: a key that arrives while `handler` stores the one behind a full buffer
  goes into the command and not into the text, or into both after the test for
  Enter of another; the command may then hold a newline. `init` sets `in` before it
  clears it, so a key that comes in between is overwritten.
- Keyboard: shift and quote gives character 22; shift with a key that has no
  character stores byte 224; Caps Lock reads behind the table.
- Mouse: `data & 0b00001000 == 0` is `data & 0`, so no first byte is ever rejected
  and a lost byte shifts all later packets.
- Output: `panic` clears 25 columns for messages of up to 34 characters;
  descriptor types above 13 are printed from behind the array of names;
  `toHString` reads behind its argument and writes in front of its buffer; the
  least integer is printed wrong, numbers between -1 and 0 lose their sign, and
  from 2^31 on a double's decimals are zeros;
  `cat` with its own result as an argument loses it.

## Proofs

TLC checks small instances; the theorems below hold for every value of the
constants that satisfies the module's assumptions. Each rests on an inductive
invariant `IInv`, which implies the properties, with one lemma per action. The
invariants were checked with TLC before they were proved.

**`PageAllocatorProofs`**, for memory of any size above and below 2 GiB, from
`MapsAssumption` (descriptors do not overlap, and
lie below `PhysPages`), `SizesAssumption` (the counters can count twice the pages
there are) and `CallersAssumption` (arguments are page numbers):

    IInv == TypeOK /\ SizeInv /\ HintInv /\ HeldMarked /\ ReservedInv /\ OnlyConventional

`HintInv` alone is not inductive: the step of `getPage` needs that marked bits lie
in the bitmap (`TypeOK`, `SizeInv`); `OnlyConventional` needs that what the reserve
loop has reached (below `ReserveEnd`) and the release loops have not
(`ReleasedPages`) is still marked (`ReservedInv`), which `free` keeps because
callers free only what they hold (`HeldMarked`). `OnlyConventional` names the
pages that are handed out although they are not conventional: those that
a release loop clears behind its wrap, and those from `ReserveEnd` on.
`NothingMisreleased` says that with less than 2 GiB of memory there are none of
the first kind, and the second begin behind the size of the memory. The argument is one lemma for
each operation on the record, one for each action, and `LeastIsMinimum`, that the
page where the scan stops is the least clear one. From it follow `TypeCorrect`,
`HintCorrect`, `HeldPagesMarked` and `HandsOutConventional`.

The laws of the counters (`FreeMemCorrect`, `UsedMemCorrect`, `CountersConserve`)
are inductive on top of `IInv`. Counting is about cardinalities of finite sets
(`ClearFacts`, `MarkedFacts`), and two lemmas about arithmetic modulo `Wrap`
(`Transfer`, `LeftOver`) carry them through `readMap`, where the counters really
wrap. `RefinesPool` is `Spec => ImplementsPool`: with `HintInv` the page found
from `pageI` on is the lowest on offer, and with `HeldMarked` a page put back is
not in use. So every property of the run `page_allocator` is proved.

**`PageWalkProofs`** is about a set `V` of pages that may be mapped, in tables of any
size, under the hypotheses `Pageable(V)`, that the modelled frames suffice for
their tables, and

    Room(V) == TablesFor(V) <= DirBase + DirSize

which says that `allocateEntry`'s test does not fail (with the test as it is in
the code, against an absolute page number; what happens when it fails is the
finding `directory_full`). `TablesFor` counts the prefixes that the pages have.
`Tree(V, m, n)` says that the memory `m` with `n` tables given out is a tree. It has
a witness: a bijection `name` from the keys of the tables there are, a level and
the number that the addresses below have in common, to the pages of the
directory up to `n`. `Linked` says that each table is entered in the one its key
says, and nothing else is, but for what was in the root before; `Leaves` that no
table is there without a page, and no page entry without an address. A new table
extends `name` by one key. The results, which the next two rest on, are
`LeftOverTree` (what the firmware leaves is a tree of one table) and `MapEffect`: a
`map` of a page of `V` keeps the tree and changes the translation of that page and
of no other, since two addresses whose walks end in the same entry are equal.

**`PageTableProofs`** concludes, under `Room(Virt)`, `TypesKept`, `TablesFormATree`,
`OneTablePerPrefix` (the number of tables is the number of keys) and
`TablesImplementSpace`, the refinement of `AddressSpace`.

**`KernelMemoryProofs`**, for every map, every layout, pools of any number and size:

    IInv == PhaseInv /\ MarksInv /\ TablesInv /\ PoolsInv /\ MappingInv /\ LostOnlyWhenFull

under `RoomForAll`, which is `Room` of the pages that `memoryInit` and the pools can
map (`KernelPages`). `PagesAssumption` says of the same pages that they are pages
and that their tables fit into the frames modelled. `MCKernelMemory` assumes
`RoomForAll` as well, so that TLC shows that there are such machines.

- `MarksInv` is about the allocator: what was in use before (`Held`) is marked as far
  as the bitmap goes, and so is what `getPage` has returned since. Hence the page it
  returns next is neither. The bitmap's own marks are cleared by `releases`, so its
  pages are not in `Held`.
- `TablesInv` is `Tree`, without junk in the root, from `MapEffect`.
- `PoolsInv` is arithmetic: a pool in the making ends `todo` pages behind `vai`; the
  page behind a finished one is below `vai` and in no pool; and `vai` is at most
  what the pools asked for so far can take.
- `MappingInv` says, as long as no access has gone astray, what each page is mapped to: a page of a pool to a frame that
  was taken for it alone, a page of `memoryInit` to itself unless a pool has grown
  over it, any other page to nothing.
- `LostOnlyWhenFull` is inductive with these: a table of the walk, new or old
  (`TablesOnTheWay`), lies in the directory unless it is full, the bitmap, the kernel
  and the stack are `memoryInit`'s, and each of these pages is mapped to itself
  unless it is a pool's (`AstrayPage`).

`MemoryConsistent` is `Spec => []IInv`. From `MappingInv` follow `PoolFramesDistinct`,
`IdentityStays` and `PoolsGuarded`; `TablesReachable` is the last conjunct. So every
property of the run `kernel_memory` is proved. The concatenation of runs that
`memoryInit` maps is cut into its parts in `IdentityParts`; that a run's division by
the page size covers what is held is `PagesFacts` and `HeldFacts`.

**`TerminalProofs`**, for a screen of any size, pools that hold more than the
buffer, any number of keys, at any moment: `IInv == TypeOK /\ KeyInv /\ ScreenInv`.

- `KeyInv` is about the buffer `in`. `Places`: a key is in one cell, garbage only
  where `init` does not clear. `Hand` ties `pc` to the cell that handler has read.
  `Losses`: a key neither shown nor lost is in a cell, and when handler is about to
  clear one that it has not shown, every cell was taken. `Reached`: the cells in
  front of a waiting key are taken, from where handler reads or from the first
  on. `Ordered`: as long as no key was put before older ones, cells in reading
  order hold keys in typing order. It yields `EveryKeyAccounted`, `NoKeyStranded`,
  `KeysInOrder`, `SleepsAtFirst` and `LossesWhenFull`.
- `ScreenInv` is about `command` and the text. `NoFaultBeforeFull` is not inductive:
  it needs that the command's end is never behind the text's, and before it
  while `handler` stores (`TextCovers`), that
  there are as many keys shown as cells gone through (`KeysThrough`), and that
  nothing of a command is behind its end. `Counts` is `CommandSinceEnter` with the
  step in which the text is one character ahead, and with the key at hand: unless
  it was replaced it is no newline, as it was when it was tested. It yields `CommandKept`, `FaultsOnlyWhenFull` and
  `ScreenKept`.

All of `Terminal`'s properties are proved but `Drained`, which is liveness.

**`InputOutputProofs`**, about `Keyboard`: any set of keys and any number of waiting bytes. The
handler's flags lag behind the keyboard, so the invariant says that the bytes on
the wire lead from the one to the other (`Leads`): there is a sequence of
states, one per byte, from the flags to the keys that are down, and each byte
takes one to the next and stores what is due. Touching a key extends the
sequence, reading a byte drops its first state. `FlagsFollowShiftKeys` is the case of an empty
wire, `StoresTheKeycap` the first byte's. `KeysAssumption` excludes a key with code 96, whose release would be
the prefix byte; scan code set 1 has none.

**`BootProofs`**, from `SizesAssumption` (there is memory, the kernel's segments lie
in it, the stack has a page at least):

    IInv == TypeOK /\ Order /\ StackHeld /\ Explained /\ Refused

`Order` is the sequence of the loader's steps: no map before the map is read, no
stack and no directory when it is. Hence a map calls no page "stack", while
`owner` does once there is a stack (`StackHeld`): they differ, the key is stale,
and `ExitAlwaysRefused` follows. `Explained` says that what the map calls free is
free, or in the stack, or in the directory, from which `TakenPagesLocked` follows
by comparing intervals. `Placed` adds that stack and directory are where the
firmware's policy puts them; for allocation from the top the end of the largest
run, or the pages below a stack in it, would have done, so both are above the
bitmap (`BitmapClearsNothingTaken`). `Roomy` adds that the buffer for the map is large
enough unless its own pages made the map longer: a run of new pages, however
long, adds a descriptor if there are free pages beside it and none of the
loader's, and otherwise exchanges an edge between descriptors for at most one
other (`OnlyALoneBufferLosesTheMap`). All properties of the run `boot` are proved.

**`InterruptsProofs`**: `IInv` follows the script. `Programmed` says, statement by
statement, which gates are set, which initialisation word the master waits for,
and its vectors and mask; `Asked` that only timer, keyboard and mouse raise a
line. With everything programmed the timer is masked, so the line served is the
keyboard's, whose gate is set, or the mouse's. `Reading` adds that the handler runs
for one of the two, so that what it stores through NULL is a key's:
`StopsForFourReasons`, for every state that the firmware may leave.

**`InputOutputProofs`**, about `Mouse` (from `MouseAssumption`: a position and the largest
movement do not reach the width of a coordinate):

    MouseInv == MouseTypeOK /\ OnScreen /\ Collecting /\ Waiting /\ Working

`Collecting` says that the bytes of an incomplete packet are the last ones sent,
`Waiting` and `Working` that a complete one is not touched until it is used:
`PacketsStayWhole`. `SignedMove` shows that unsigned addition with the test
against the limit is signed addition that is left out when it leads off the
screen: `PointerFollowsPackets`, `PointerOnScreen`.

**`InputOutputProofs`**, about `Console`, for a screen of any size, strings of any
length and in any number:

    ConsoleInv == strings \in Seq(Printed) /\ SoundScreen(Present, strings)
                  /\ panicked \in {"no", "ram", "panic"}
                  /\ (panicked = "no" => SingleButLast(Present)
                                         /\ (stage = "log" => Filled(Present)))
                  /\ PanicLegible

- `Filled`: while the log is printed, what is drawn lies in front of the cursor, one
  character in a cell, but for the last row (`SingleButLast`). `LogReadable`'s first part is not inductive without it: it says
  nothing of what lies where the next character goes.
- `SoundScreen`: the cells hold strings printed so far, and each string that `print`
  does not break is in one row. For its second part `LogStaysReadable` only counts.
- `printString` is a recursive function over the characters. That it is what it
  says (`PutStringSteps`), and what holds after each character, are inductions up
  to the string's length, by `CountingUp`: a set of numbers that holds 0 and each
  successor holds all, which follows from the well-foundedness of the naturals.
- `PanicStaysLegible` is about a message drawn where the first row was cleared
  (`StringInRow`: a string that fits behind the cursor draws once into each cell of
  its row) or, after "Out of RAM", on a blank screen (`StringOnBlank`: the cursor
  counts the cells, a product of columns and rows).

**`InputOutputProofs`**, about `Strings`, from `StringsAssumption` and `SizesAssumption`:
`StringsInv`, that each buffer is `Intact`: it holds what its function returned
last, with its end, within the part `Own` of it that no other function reaches.
`ResultsKept` alone is not inductive, since it does not say that what was returned
ends before the bytes that `toHString` overwrites in front of the next buffer
(`ReachApart`), nor that `cat`'s buffer is clear behind its result, which is all
that ends the next one (`JoinedHolds`). `HexTail` says that the last 2n of the
digits that `toHString` writes are the number's, whatever is behind it on the
stack; `DecimalFacts`, by the least number of divisions that leaves nothing, that
decimal digits are characters and at most 20. It yields `ResultsStayKept`. All
properties of the run `input_output` are proved.

Only model-checked: liveness, which the proof system does not do (`Drained` of
`Terminal`, `BytesRead` of `Interrupts`). And that `Decimal` and `Hex` are the digits
of their numbers is neither checked nor proved: it is their definition,
translated from the code, and `ResultsKept` is about what becomes of them.

## Not modelled

- The vendored gnu-efi library (`src/gnu-efi` without `bootloader/`) is third-party
  code, nine tenths of the repository's lines; the loader's use of the firmware is
  in `Boot`. So the map covers a small share of all lines, but most of the
  kernel's and the loader's own.
- Pixels: `screen.cpp`, `terminal/renderer.cpp`, shapes and glyphs. They write to
  the framebuffer and keep no state.
- The GDT is a constant table; `src/bootloader/mbr.asm` is a boot sector that
  loads no kernel; build files have no logic.
- `ps2MouseInit` is called by nobody; its waits give up after a count, unseen.
- `handler`'s copy from `out` to the screen, as `out` stays empty.

## Plan

1. `KernelMemory` started from `Boot`'s results instead of chosen layouts, and
   `interuptInit` and `Terminal::init` as callers of `getPool`.
2. `ps2MouseInit` with its waits, and `handleMouse` behind a gate for line 12, if
   the kernel comes to call them.
