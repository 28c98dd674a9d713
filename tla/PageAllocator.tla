----------------------------- MODULE PageAllocator -----------------------------
(***************************************************************************)
(* The physical page allocator: class pageAllocator of                     *)
(* src/kernel/src/memory/memory.cpp and the bitmap of                      *)
(* src/kernel/src/libs/math.cpp it keeps its marks in.                     *)
(*                                                                         *)
(* Addresses are page numbers and memory sizes are counted in pages.  The  *)
(* three counters are 64-bit byte counts that wrap around; in pages they   *)
(* wrap at 2^52, the constant Wrap.                                        *)
(***************************************************************************)
EXTENDS Integers, Sequences, FiniteSets

CONSTANTS
  Maps,        \* the firmware memory maps the kernel may be given
  PhysPages,   \* every page of a map lies below this page number
  PageBytes,   \* bytes in a page: 4096
  Wrap,        \* the counters wrap here: 2^64 bytes
  IntPages,    \* pages below which i * 4096 fits into an int: 2^19, 2 GiB
  Starts,      \* bound: first pages that callers pass to locks and frees
  Counts       \* bound: page counts that callers pass to locks and frees

Conventional == 7   \* EfiConventionalMemory

Descriptor == [type : 0..13, start : Nat, pages : Nat]

PagesOf(d) == d.start .. d.start + d.pages - 1

\* The firmware's descriptors do not overlap.
ASSUME MapsAssumption ==
  /\ Maps \subseteq Seq(Descriptor)
  /\ \A m \in Maps : \A i \in DOMAIN m : m[i].start + m[i].pages <= PhysPages
  /\ \A m \in Maps : \A i, j \in DOMAIN m :
       i # j => PagesOf(m[i]) \cap PagesOf(m[j]) = {}

ASSUME SizesAssumption ==
  /\ PhysPages \in Nat
  /\ PageBytes \in Nat \ {0}
  /\ Wrap \in Nat
  /\ IntPages \in Nat \ {0}
  /\ 2 * (PhysPages + 9) < Wrap

ASSUME CallersAssumption == Starts \subseteq Nat /\ Counts \subseteq Nat

VARIABLES
  memMap,       \* the map passed to readMap
  stray,        \* what memory holds in the bit that follows the bitmap
  initialized,  \* the flag of readMap
  al,           \* the allocator: bitmap, hint and counters
  halted,       \* getPage printed "Out of RAM" and stopped the machine
  taken,        \* history: pages returned by getPage, not freed since
  claimed       \* history: clear pages that lock marked, not freed since

vars == <<memMap, stray, initialized, al, halted, taken, claimed>>

-------------------------------------------------------------------------------
(* The map.                                                                *)

MapPages(m) == UNION {PagesOf(m[i]) : i \in DOMAIN m}

ConventionalPages(m) ==
  UNION {PagesOf(m[i]) : i \in {j \in DOMAIN m : m[j].type = Conventional}}

\* getMemorySize: the sum over the descriptors, which do not overlap.
MemSize(m) == Cardinality(MapPages(m))

\* The start of the first conventional segment no other one exceeds; NULL
\* when no segment has a page.
LargestSeg(m) ==
  LET conv == {i \in DOMAIN m : m[i].type = Conventional /\ m[i].pages > 0}
      best == {i \in conv : /\ \A j \in conv : m[j].pages <= m[i].pages
                            /\ \A j \in conv : m[j].pages = m[i].pages => i <= j}
  IN  IF conv = {} THEN 0 ELSE m[CHOOSE i \in best : TRUE].start

BitmapSize(m) == MemSize(m) \div 8 + 1

\* The pages readMap locks for the bitmap it puts at LargestSeg.
BitmapPages(m) ==
  LargestSeg(m) .. LargestSeg(m) + BitmapSize(m) \div PageBytes

-------------------------------------------------------------------------------
(* The allocator's record and the operations on it.  The bounds test of    *)
(* the bitmap lets index size * 8 through, the bit after the last one.     *)

Allocator == [size : Nat, bits : SUBSET Nat, pageI : Nat,
              freeMem : Nat, usedMem : Nat, reservedMem : Nat]

\* Mutant of Minus: counters that do not wrap.
MinusUnbounded(c, k) == c - k

Plus(c, k) == IF c + k < Wrap THEN c + k ELSE c + k - Wrap
Minus(c, k) == IF k <= c THEN c - k ELSE c - k + Wrap

Least(S) == CHOOSE x \in S : \A y \in S : x <= y

Addressable(a) == 0 .. a.size * 8

Clear(a, S) == (S \cap Addressable(a)) \ a.bits
Marked(a, S) == S \cap Addressable(a) \cap a.bits

Lesser(i, j) == IF i <= j THEN i ELSE j

\* The pages that the loops of reserves, releases and frees get to.  They
\* multiply an int by 4096 in 32 bits, which the build lets wrap: from page
\* IntPages on the offset goes on at -IntPages, and it comes back after twice
\* IntPages.  An address below zero is none of the bitmap's.
Reach(start, count) ==
  LET up == start .. start + Lesser(count, IntPages) - 1
      down == start - IntPages .. start + Lesser(count, 2 * IntPages) - 2 * IntPages - 1
  IN  (up \cup down) \cap Nat


\* lock and locks: pages already marked are skipped.
Lock(a, S) ==
  [size |-> a.size, bits |-> a.bits \cup Clear(a, S), pageI |-> a.pageI,
   freeMem |-> Minus(a.freeMem, Cardinality(Clear(a, S))),
   usedMem |-> Plus(a.usedMem, Cardinality(Clear(a, S))),
   reservedMem |-> a.reservedMem]

\* Mutant of Reserve: freeMem is not reduced.
ReserveStillFree(a, S) ==
  [size |-> a.size, bits |-> a.bits \cup Clear(a, S), pageI |-> a.pageI,
   freeMem |-> a.freeMem, usedMem |-> a.usedMem,
   reservedMem |-> Plus(a.reservedMem, Cardinality(Clear(a, S)))]

\* reserve and reserves.
Reserve(a, S) ==
  [size |-> a.size, bits |-> a.bits \cup Clear(a, S), pageI |-> a.pageI,
   freeMem |-> Minus(a.freeMem, Cardinality(Clear(a, S))),
   usedMem |-> a.usedMem,
   reservedMem |-> Plus(a.reservedMem, Cardinality(Clear(a, S)))]

\* Mutant of Free: the hint stays where it is.
FreeKeepingHint(a, S) ==
  [size |-> a.size, bits |-> a.bits \ Marked(a, S), pageI |-> a.pageI,
   freeMem |-> Plus(a.freeMem, Cardinality(Marked(a, S))),
   usedMem |-> Minus(a.usedMem, Cardinality(Marked(a, S))),
   reservedMem |-> a.reservedMem]

\* Mutant of Free: the test for pages already clear is gone.
FreeUnchecked(a, S) ==
  LET k == Cardinality(S \cap Addressable(a))
  IN  [size |-> a.size, bits |-> a.bits \ S,
       pageI |-> Least({a.pageI} \cup Marked(a, S)),
       freeMem |-> Plus(a.freeMem, k), usedMem |-> Minus(a.usedMem, k),
       reservedMem |-> a.reservedMem]

\* free and frees: the hint falls back to the lowest page freed.
Free(a, S) ==
  [size |-> a.size, bits |-> a.bits \ Marked(a, S),
   pageI |-> Least({a.pageI} \cup Marked(a, S)),
   freeMem |-> Plus(a.freeMem, Cardinality(Marked(a, S))),
   usedMem |-> Minus(a.usedMem, Cardinality(Marked(a, S))),
   reservedMem |-> a.reservedMem]

\* release and releases.
Release(a, S) ==
  [size |-> a.size, bits |-> a.bits \ Marked(a, S),
   pageI |-> Least({a.pageI} \cup Marked(a, S)),
   freeMem |-> Plus(a.freeMem, Cardinality(Marked(a, S))),
   usedMem |-> a.usedMem,
   reservedMem |-> Minus(a.reservedMem, Cardinality(Marked(a, S)))]

\* bitmapInit clears the bitmap, not the bit after it.
FreshAllocator ==
  [size |-> BitmapSize(memMap),
   bits |-> IF stray THEN {BitmapSize(memMap) * 8} ELSE {},
   pageI |-> 0, freeMem |-> MemSize(memMap), usedMem |-> 0, reservedMem |-> 0]

\* readMap's first step.
BitmapLocked == Lock(FreshAllocator, BitmapPages(memMap))

\* Mutant of AllReserved: the bitmap's bytes are taken for its bits.
ReservedByBytes == Reserve(BitmapLocked, Reach(0, BitmapSize(memMap)))

\* Its second: the reserve loop runs over one page too many.
AllReserved == Reserve(BitmapLocked, Reach(0, MemSize(memMap) + 1))

\* What its third step, the loop over the conventional segments, releases.
ReleasedPages(m) ==
  UNION {Reach(m[i].start, m[i].pages) :
           i \in {j \in DOMAIN m : m[j].type = Conventional}}

\* The pages getPage scans from i on: the last bit of the bitmap is left out.
Candidates(a, i) == {p \in i .. a.size * 8 - 2 : p \notin a.bits}

-------------------------------------------------------------------------------

\* pageAllocator() and the zeroed globals, before readMap.
NoAllocator == [size |-> 0, bits |-> {}, pageI |-> 0,
                freeMem |-> 0, usedMem |-> 0, reservedMem |-> 0]

Init ==
  /\ memMap \in Maps
  /\ stray \in BOOLEAN
  /\ initialized = FALSE
  /\ al = NoAllocator
  /\ halted = FALSE
  /\ taken = {}
  /\ claimed = {}

Running == initialized /\ ~halted

ReadMap ==
  /\ ~initialized
  /\ initialized' = TRUE
  /\ al' = Release(AllReserved, ReleasedPages(memMap))
  /\ UNCHANGED <<memMap, stray, halted, taken, claimed>>

\* Mutant of Found: the page is returned without being locked.
FoundUnlocked(p) ==
  /\ al' = [al EXCEPT !.pageI = p]
  /\ taken' = taken \cup {p}
  /\ UNCHANGED halted

\* getPage found p at or after the scan's start.
Found(p) ==
  /\ al' = [Lock(al, {p}) EXCEPT !.pageI = p]
  /\ taken' = taken \cup {p}
  /\ UNCHANGED halted

\* Both scans ran to the end: "Out of RAM", hlt for ever.
OutOfRam ==
  /\ al' = [al EXCEPT !.pageI = al.size * 8 - 1]
  /\ halted' = TRUE
  /\ UNCHANGED taken

\* Mutant of GetPage: the first scan starts behind the hint.
GetPageBehindHint ==
  /\ Running
  /\ IF Candidates(al, al.pageI + 1) # {}
     THEN Found(Least(Candidates(al, al.pageI + 1)))
     ELSE IF Candidates(al, 0) # {}
          THEN Found(Least(Candidates(al, 0)))
          ELSE OutOfRam
  /\ UNCHANGED <<memMap, stray, initialized, claimed>>

GetPage ==
  /\ Running
  /\ IF Candidates(al, al.pageI) # {}
     THEN Found(Least(Candidates(al, al.pageI)))
     ELSE IF Candidates(al, 0) # {}
          THEN Found(Least(Candidates(al, 0)))
          ELSE OutOfRam
  /\ UNCHANGED <<memMap, stray, initialized, claimed>>

\* lock is locks with a count of one.
Locks(start, count) ==
  LET S == start .. start + count - 1
  IN  /\ Running
      /\ al' = Lock(al, S)
      /\ claimed' = claimed \cup Clear(al, S)
      /\ UNCHANGED <<memMap, stray, initialized, halted, taken>>

\* free is frees with a count of one.  Callers free pages they were given or
\* locked; pages that are not marked are skipped.
Frees(start, count) ==
  LET S == Reach(start, count)
  IN  /\ Running
      /\ Marked(al, S) \subseteq taken \cup claimed
      /\ al' = Free(al, S)
      /\ taken' = taken \ S
      /\ claimed' = claimed \ S
      /\ UNCHANGED <<memMap, stray, initialized, halted>>

Next ==
  \/ ReadMap
  \/ GetPage
  \/ \E start \in Starts, count \in Counts : Locks(start, count)
  \/ \E start \in Starts, count \in Counts : Frees(start, count)

Spec == Init /\ [][Next]_vars

-------------------------------------------------------------------------------
(* What makes the allocator correct.                                       *)

WellFormed(a) ==
  /\ a \in Allocator
  /\ a.bits \subseteq Addressable(a)
  /\ a.freeMem < Wrap /\ a.usedMem < Wrap /\ a.reservedMem < Wrap

TypeOK ==
  /\ memMap \in Maps
  /\ stray \in BOOLEAN
  /\ initialized \in BOOLEAN
  /\ WellFormed(al)
  /\ halted \in BOOLEAN
  /\ taken \subseteq Nat /\ claimed \subseteq Nat

\* The scan of getPage may start at pageI: no page below the hint is clear.
\* It is why the second scan never finds anything the first one missed.
HintInv == initialized => \A p \in 0 .. al.pageI - 1 : p \in al.bits

\* Every page in use, got from getPage or locked, keeps its mark, whatever
\* is freed, locked and handed out in between; and no page has two owners.
HeldMarked ==
  /\ taken \cup claimed \subseteq al.bits
  /\ taken \cap claimed = {}

\* The pages that readMap releases although they are not conventional: those
\* that the offset gets to behind its wrap, in a segment of more than 2 GiB.
Misreleased(m) == ReleasedPages(m) \ ConventionalPages(m)

\* The first page that the reserve loop does not get to.
ReserveEnd(m) == Lesser(MemSize(m) + 1, IntPages)

\* getPage hands out conventional memory only, but for the pages misreleased
\* and those between the end of the reserve loop and the last bit but one of
\* the bitmap.  With less than 2 GiB of memory none is misreleased, and the
\* loop's end is behind the size of the memory.
OnlyConventional ==
  taken \subseteq ConventionalPages(memMap) \cup Misreleased(memMap)
                 \cup (ReserveEnd(memMap) .. al.size * 8 - 2)

\* getFreeMem is the memory size less one page for every mark there is, up to
\* the bit after the bitmap when it was set by chance.
FreeMemLaw ==
  initialized =>
    al.freeMem = Minus(MemSize(memMap) + (IF stray THEN 1 ELSE 0),
                       Cardinality(al.bits))

\* getUsedMem is the number of pages in use, and the bitmap's own pages that
\* readMap locked: it keeps counting them after releases cleared their marks.
BitmapLocks == Clear(FreshAllocator, BitmapPages(memMap))
UsedMemLaw ==
  initialized =>
    al.usedMem = Cardinality(taken \cup claimed) + Cardinality(BitmapLocks)

\* The three counters add up to the memory size, modulo their width.
Conservation ==
  initialized =>
    al.freeMem + al.usedMem + al.reservedMem
      \in {MemSize(memMap), MemSize(memMap) + Wrap, MemSize(memMap) + 2 * Wrap}

Offer == IF initialized THEN Candidates(al, 0) ELSE {}

Pool == INSTANCE PagePool WITH avail <- Offer, open <- initialized

\* The allocator implements the page pool: pages are given out lowest first,
\* none is given out while in use, and getPage gives up only when no page that
\* it scans is clear.
ImplementsPool == Pool!PoolSpec

(* The inductive invariant of the proofs: what the properties above rest   *)
(* on besides each other.                                                  *)

\* The bitmap has the size readMap gave it; before readMap nothing is there.
SizeInv ==
  IF initialized THEN al.size = BitmapSize(memMap)
                 ELSE al = NoAllocator /\ taken = {} /\ claimed = {}

\* Pages below the end of the reserve loop that were not released stay marked,
\* and none of them was ever handed out or locked for a caller.
ReservedInv ==
  initialized =>
    /\ (0 .. ReserveEnd(memMap) - 1) \ ReleasedPages(memMap) \subseteq al.bits
    /\ (taken \cup claimed) \cap (0 .. ReserveEnd(memMap) - 1)
         \subseteq ReleasedPages(memMap)

IInv == TypeOK /\ SizeInv /\ HintInv /\ HeldMarked /\ ReservedInv /\ OnlyConventional

(* What the comments of the code promise and the code does not keep.       *)

\* "Finds and locks a free page in memory": the page is one of the map's.
FreePageInMemory == taken \subseteq MapPages(memMap)

\* "Reserves `count` amount of pages starting at address `addr`": what is in
\* the range that readMap reserves and not conventional memory is marked.
RangeStaysReserved ==
  initialized =>
    ((0 .. MemSize(memMap)) \ ConventionalPages(memMap)) \cap Addressable(al)
      \subseteq al.bits

\* The pages readMap locks for the bitmap are still locked when it returns.
BitmapStaysLocked ==
  initialized => BitmapPages(memMap) \cap Addressable(al) \subseteq al.bits
===============================================================================
