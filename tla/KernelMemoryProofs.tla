--------------------------- MODULE KernelMemoryProofs ---------------------------
(***************************************************************************)
(* Proofs about the module KernelMemory, for memory, tables and pools of   *)
(* any size, wherever the loader and the firmware put things, as long as   *)
(* the page directory has room for the tables: what a pool's pages are     *)
(* backed by, what stays mapped to itself, and what is not mapped at all.  *)
(***************************************************************************)
EXTENDS KernelMemory, PageWalkProofs, SequenceTheorems, WellFoundedInduction

-------------------------------------------------------------------------------
(* The invariant.                                                          *)

InPlay == KernelPages(layout, memMap)
OwnRun == IdentityPages(layout, memMap)

\* The pages that memoryInit has mapped to themselves so far.
Identity ==
  IF phase \in {"boot", "locks"} THEN {}
  ELSE IF phase = "maps" THEN {OwnRun[i] : i \in 1 .. Len(OwnRun) - todo}
  ELSE Range(OwnRun)

\* How far things are.
PhaseInv ==
  /\ memMap \in Maps /\ layout \in Layouts
  /\ phase \in {"boot", "locks", "maps", "running", "lost"}
  /\ todo \in Nat /\ vai \in Nat
  /\ initialized = (phase # "boot")
  /\ phase \in {"boot", "locks"} => todo = 0
  /\ phase = "maps" => todo \in 1 .. Len(OwnRun)
  /\ phase = "lost" => todo > 0
  /\ phase = "maps" => vai = FirstPoolPage(layout)
  /\ Paging => vai >= FirstPoolPage(layout)

\* The allocator has its six fields and no other.
IsRecord(a) ==
  a = [size |-> a.size, bits |-> a.bits, pageI |-> a.pageI,
       freeMem |-> a.freeMem, usedMem |-> a.usedMem, reservedMem |-> a.reservedMem]

\* The marks: what is in use is marked as far as there are marks, and so is
\* every page that getPage returned; the first of the two is not.
MarksInv ==
  /\ taken \subseteq 0 .. MemPages + 6
  /\ phase \in {"boot", "locks", "maps"} => taken = {}
  /\ phase # "boot" => al.size = MemPages \div 8 + 1 /\ al.pageI \in Nat /\ IsRecord(al)
  /\ phase \in {"maps", "running", "lost"} => Held(layout) \cap A!Addressable(al) \subseteq al.bits
  /\ taken \subseteq al.bits
  /\ taken \cap Held(layout) = {}

\* The tables form a tree, and what was in the root table before is gone.
TablesInv ==
  /\ Tree(InPlay, mem, pdi)
  /\ \A i \in Indices : mem[DirBase][i] # Junk

Pool == [first : Nat, pages : Nat]

\* The pages of each pool lie between those before it and VAI, and one page is
\* left out behind each pool that is complete.
PoolsInv ==
  /\ pools \in Seq(Pool) /\ Len(pools) <= MaxPools
  /\ ~Paging => pools = <<>>
  /\ Paging /\ todo > 0 =>
       /\ Len(pools) > 0
       /\ pools[Len(pools)].first <= vai
       /\ pools[Len(pools)].first + pools[Len(pools)].pages - todo = vai
  /\ \A k \in 1 .. Len(pools) :
       /\ pools[k].first >= FirstPoolPage(layout)
       /\ k < Len(pools) \/ todo = 0 =>
            /\ pools[k].first + pools[k].pages < vai
            /\ pools[k].first + pools[k].pages \notin PoolPages
  /\ PoolPages \subseteq FirstPoolPage(layout) .. vai - 1
  /\ Paging =>
       vai + (IF todo > 0 THEN todo + 1 ELSE 0)
         <= FirstPoolPage(layout) + Len(pools) * (MaxBytes \div PageBytes + 2)

\* What each page in play is backed by.
MappingInv ==
  /\ \A v \in PoolPages : Translate(v) \in taken
  /\ \A v, w \in PoolPages : v # w => Translate(v) # Translate(w)
  /\ \A v \in InPlay \ PoolPages : Translate(v) = IF v \in Identity THEN v ELSE Absent

IInv ==
  /\ PhaseInv /\ MarksInv /\ TablesInv /\ PoolsInv /\ MappingInv
  /\ LostOnlyWhenFull

-------------------------------------------------------------------------------
(* Pages and runs of pages.                                                *)

LEMMA Quotients ==
  ASSUME NEW a \in Nat, NEW b \in Nat \ {0}, NEW q \in Nat
  PROVE  /\ a \div b \in Nat
         /\ b * (a \div b) <= a /\ a < b * (a \div b) + b
         /\ a < (q + 1) * b => a \div b <= q
         /\ a >= q * b => a \div b >= q
<1>1. a = b * (a \div b) + (a % b) /\ a % b \in 0 .. b - 1 /\ a \div b \in Nat
  OBVIOUS
<1>. DEFINE d == a \div b
<1>2. d \in Nat /\ b * d <= a /\ a < b * d + b
  BY <1>1
<1>. HIDE DEF d
<1>3. ASSUME d >= q + 1 PROVE a >= (q + 1) * b
  <2>1. b * d >= b * (q + 1)
    BY <1>2, <1>3
  <2>2. b * (q + 1) = (q + 1) * b
    OBVIOUS
  <2>. QED BY <1>2, <2>1, <2>2
<1>4. ASSUME d < q PROVE a < q * b
  <2>1. b * (d + 1) <= b * q
    BY <1>2, <1>4
  <2>2. b * (d + 1) = b * d + b /\ b * q = q * b
    BY <1>2
  <2>. QED BY <1>2, <2>1, <2>2
<1>. QED BY <1>2, <1>3, <1>4 DEF d

\* Bytes rounded up to pages.
LEMMA PagesFacts ==
  ASSUME NEW bytes \in Nat
  PROVE  /\ Pages(bytes) \in Nat
         /\ bytes \div PageBytes \in Nat
         /\ Pages(bytes) <= bytes \div PageBytes + 1
         /\ Pages(bytes + PageBytes) \in Nat
         /\ Pages(bytes) <= Pages(bytes + PageBytes)
<1>. DEFINE P == PageBytes
            d == bytes \div P
            e == Pages(bytes)
<1>1. P \in Nat \ {0}
  BY SizesAssumption
<1>2. d \in Nat /\ P * d <= bytes /\ bytes < P * d + P
  BY <1>1, Quotients
<1>3. e = (bytes + P - 1) \div P
  BY DEF Pages
<1>4. e \in Nat /\ P * e <= bytes + P - 1
  <2>. DEFINE x == bytes + P - 1
  <2>1. x \in Nat
    BY <1>1
  <2>. HIDE DEF x
  <2>2. P * (x \div P) <= x /\ x \div P \in Nat
    BY <1>1, <2>1, Quotients
  <2>. QED BY <1>3, <2>2 DEF x
<1>5. Pages(bytes + P) = (bytes + P + P - 1) \div P
  BY DEF Pages
<1>. HIDE DEF d, e, P
<1>6. e <= d + 1
  <2>1. SUFFICES ASSUME e >= d + 2 PROVE FALSE
    BY <1>2, <1>4
  <2>2. P * e >= P * (d + 2)
    BY <1>1, <1>2, <1>4, <2>1
  <2>3. P * (d + 2) = P * d + P + P
    BY <1>1, <1>2
  <2>4. P * d \in Nat /\ P * e \in Nat
    BY <1>1, <1>2, <1>4
  <2>. QED BY <1>1, <1>2, <1>4, <2>2, <2>3, <2>4
<1>7. Pages(bytes + P) \in Nat /\ e <= Pages(bytes + P)
  <2>. DEFINE x == bytes + P + P - 1
  <2>1. x \in Nat
    BY <1>1
  <2>2. x >= e * P
    <3>1. e * P = P * e /\ P * e \in Nat
      BY <1>1, <1>4
    <3>. QED BY <1>1, <1>4, <3>1
  <2>. HIDE DEF x
  <2>3. x \div P \in Nat /\ e <= x \div P
    BY <1>1, <1>4, <2>1, <2>2, Quotients
  <2>. QED BY <1>5, <2>3 DEF x
<1>. QED BY <1>2, <1>4, <1>6, <1>7 DEF d, e, P

\* Whole pages are not rounded.
LEMMA WholePages ==
  ASSUME NEW n \in Nat
  PROVE  Pages(n * PageBytes) = n
<1>. DEFINE P == PageBytes
            x == n * P + P - 1
<1>1. P \in Nat \ {0} /\ n * P \in Nat
  BY SizesAssumption
<1>2. x \in Nat /\ x >= n * P /\ x < (n + 1) * P
  BY <1>1
<1>3. Pages(n * P) = x \div P
  BY DEF Pages
<1>. HIDE DEF x, P
<1>4. x \div P \in Nat /\ x \div P <= n /\ x \div P >= n
  BY <1>1, <1>2, Quotients
<1>. QED BY <1>3, <1>4 DEF P

LEMMA RunRange ==
  ASSUME NEW start, NEW bytes, Pages(bytes) \in Nat
  PROVE  /\ Range(Run(start, bytes)) = {start + i - 1 : i \in 1 .. Pages(bytes)}
         /\ \A S : Range(Run(start, bytes)) \subseteq S => Run(start, bytes) \in Seq(S)
         /\ Len(Run(start, bytes)) = Pages(bytes)
<1>1. Range(Run(start, bytes)) = {start + i - 1 : i \in 1 .. Pages(bytes)}
  BY DEF Range, Run
<1>2. Len(Run(start, bytes)) = Pages(bytes)
  BY DEF Run
<1>3. ASSUME NEW S, Range(Run(start, bytes)) \subseteq S PROVE Run(start, bytes) \in Seq(S)
  <2>1. \A i \in 1 .. Pages(bytes) : start + i - 1 \in S
    BY <1>1, <1>3
  <2>. QED BY <2>1 DEF Run
<1>. QED BY <1>1, <1>2, <1>3

\* A run of fewer pages is part of one of more.
LEMMA RunWithin ==
  ASSUME NEW start, NEW a, NEW b, Pages(a) \in Nat, Pages(b) \in Nat, Pages(a) <= Pages(b)
  PROVE  Range(Run(start, a)) \subseteq Range(Run(start, b))
<1>1. \A i \in 1 .. Pages(a) : i \in 1 .. Pages(b)
  OBVIOUS
<1>2. Range(Run(start, a)) = {start + i - 1 : i \in 1 .. Pages(a)}
  BY RunRange
<1>3. Range(Run(start, b)) = {start + i - 1 : i \in 1 .. Pages(b)}
  BY RunRange
<1>. QED BY <1>1, <1>2, <1>3, Zenon

\* Two sequences one after the other.
LEMMA RangeOfConcat ==
  ASSUME NEW S, NEW s \in Seq(S), NEW t \in Seq(S)
  PROVE  /\ s \o t \in Seq(S) /\ Len(s \o t) = Len(s) + Len(t)
         /\ Range(s \o t) = Range(s) \cup Range(t)
<1>1. /\ s \o t \in Seq(S) /\ Len(s \o t) = Len(s) + Len(t)
      /\ \A i \in 1 .. Len(s) + Len(t) :
           (s \o t)[i] = IF i <= Len(s) THEN s[i] ELSE t[i - Len(s)]
  BY ConcatProperties, Zenon
<1>2. DOMAIN s = 1 .. Len(s) /\ DOMAIN t = 1 .. Len(t) /\ DOMAIN (s \o t) = 1 .. Len(s) + Len(t)
        /\ Len(s) \in Nat /\ Len(t) \in Nat
  BY <1>1
<1>. DEFINE u == s \o t
<1>. HIDE DEF u
<1>3. \A i \in 1 .. Len(s) : i \in 1 .. Len(s) + Len(t) /\ u[i] = s[i]
  BY <1>1, <1>2 DEF u
<1>4. \A i \in 1 .. Len(t) : i + Len(s) \in 1 .. Len(s) + Len(t) /\ u[i + Len(s)] = t[i]
  <2>. SUFFICES ASSUME NEW i \in 1 .. Len(t)
                PROVE  i + Len(s) \in 1 .. Len(s) + Len(t) /\ u[i + Len(s)] = t[i]
    OBVIOUS
  <2>1. i + Len(s) \in 1 .. Len(s) + Len(t) /\ ~ (i + Len(s) <= Len(s)) /\ i + Len(s) - Len(s) = i
    BY <1>2
  <2>. QED BY <1>1, <2>1 DEF u
<1>5. \A i \in 1 .. Len(s) + Len(t) :
        \/ i \in 1 .. Len(s) /\ u[i] = s[i]
        \/ i - Len(s) \in 1 .. Len(t) /\ u[i] = t[i - Len(s)]
  BY <1>1, <1>2 DEF u
<1>6. Range(u) \subseteq Range(s) \cup Range(t)
  BY <1>2, <1>5, Zenon DEF Range, u
<1>7. Range(s) \cup Range(t) \subseteq Range(u)
  <2>1. ASSUME NEW x \in Range(s) PROVE x \in Range(u)
    BY <1>2, <1>3, Zenon DEF Range, u
  <2>2. ASSUME NEW x \in Range(t) PROVE x \in Range(u)
    BY <1>2, <1>4, Zenon DEF Range, u
  <2>. QED BY <2>1, <2>2
<1>8. Range(u) = Range(s) \cup Range(t)
  BY <1>6, <1>7
<1>. QED BY <1>1, <1>8 DEF u

-------------------------------------------------------------------------------
(* What is in use when the kernel starts.                                  *)

\* The six parts of IdentityPages.
KernelRun(l) == Run(l.kernel, l.kernelSize + PageBytes)
StackRun(l) == Run(l.stack, l.stackSize + PageBytes)
DirRun == Run(DirBase, DirSize * PageBytes)
BitmapRun(m) == Run(A!LargestSeg(m), A!BitmapSize(m) + PageBytes)
FbRun(l) == Run(l.fb, l.fbSize + PageBytes)

LEMMA LayoutFacts ==
  ASSUME NEW l \in Layouts
  PROVE  /\ l.kernel \in Nat /\ l.kernelSize \in Nat /\ l.stack \in Nat /\ l.stackSize \in Nat
         /\ l.fb \in Nat /\ l.fbSize \in Nat /\ l.things \in Seq(Nat)
BY LayoutsAssumption DEF Layout

LEMMA MapFacts ==
  ASSUME NEW m \in Maps
  PROVE  /\ A!MemSize(m) = MemPages
         /\ A!BitmapSize(m) = MemPages \div 8 + 1 /\ A!BitmapSize(m) \in Nat
<1>1. A!MemSize(m) = MemPages
  BY LayoutsAssumption
<1>2. MemPages \div 8 \in Nat
  BY SizesAssumption
<1>. QED BY <1>1, <1>2 DEF A!BitmapSize

\* The runs have lengths, and so the pages of each are a sequence.
LEMMA RunLengths ==
  ASSUME NEW l \in Layouts, NEW m \in Maps
  PROVE  /\ Pages(l.kernelSize) \in Nat /\ Pages(l.kernelSize + PageBytes) \in Nat
         /\ Pages(l.stackSize) \in Nat /\ Pages(l.stackSize + PageBytes) \in Nat
         /\ Pages(l.fbSize) \in Nat /\ Pages(l.fbSize + PageBytes) \in Nat
         /\ Pages(A!BitmapSize(m)) \in Nat /\ Pages(A!BitmapSize(m) + PageBytes) \in Nat
         /\ Pages(l.kernelSize) <= Pages(l.kernelSize + PageBytes)
         /\ Pages(l.stackSize) <= Pages(l.stackSize + PageBytes)
         /\ Pages(l.fbSize) <= Pages(l.fbSize + PageBytes)
         /\ Pages(A!BitmapSize(m)) <= Pages(A!BitmapSize(m) + PageBytes)
         /\ Pages(DirSize * PageBytes) = DirSize
<1>1. l.kernelSize \in Nat /\ l.stackSize \in Nat /\ l.fbSize \in Nat
  BY LayoutFacts
<1>2. A!BitmapSize(m) \in Nat
  BY MapFacts
<1>3. DirSize \in Nat
  BY TablesAssumption
<1>. QED BY <1>1, <1>2, <1>3, PagesFacts, WholePages, Zenon

\* The pages that memoryInit maps are those of the six parts.
LEMMA IdentityParts ==
  ASSUME NEW l \in Layouts, NEW m \in Maps
  PROVE  /\ IdentityPages(l, m) \in Seq(Range(IdentityPages(l, m)))
         /\ Len(IdentityPages(l, m)) \in Nat \ {0}
         /\ Range(IdentityPages(l, m)) =
              Range(KernelRun(l)) \cup Range(StackRun(l)) \cup Range(DirRun)
                \cup Range(BitmapRun(m)) \cup Range(FbRun(l)) \cup Range(l.things)
<1>. DEFINE S == Range(KernelRun(l)) \cup Range(StackRun(l)) \cup Range(DirRun)
                   \cup Range(BitmapRun(m)) \cup Range(FbRun(l)) \cup Range(l.things)
            a == KernelRun(l)
            b == StackRun(l)
            c == DirRun
            d == BitmapRun(m)
            e == FbRun(l)
            f == l.things
<1>1. a \in Seq(S) /\ b \in Seq(S) /\ d \in Seq(S) /\ e \in Seq(S)
  BY RunLengths, RunRange DEF KernelRun, StackRun, BitmapRun, FbRun
<1>2. c \in Seq(S) /\ Len(c) = DirSize
  <2>1. Pages(DirSize * PageBytes) = DirSize /\ DirSize \in Nat
    BY RunLengths, TablesAssumption
  <2>. QED BY <2>1, RunRange DEF DirRun
<1>3. f \in Seq(S)
  <2>1. f \in Seq(Nat)
    BY LayoutFacts
  <2>2. \A i \in 1 .. Len(f) : f[i] \in S
    BY <2>1 DEF Range
  <2>. QED BY <2>1, <2>2
<1>. DEFINE ab == a \o b
            abc == ab \o c
            abcd == abc \o d
            abcde == abcd \o e
<1>4. IdentityPages(l, m) = abcde \o f
  BY DEF IdentityPages, KernelRun, StackRun, DirRun, BitmapRun, FbRun
<1>. HIDE DEF S, a, b, c, d, e, f
<1>. HIDE DEF ab, abc, abcd, abcde
<1>0. \A s, t \in Seq(S) : /\ s \o t \in Seq(S) /\ Len(s \o t) = Len(s) + Len(t)
                           /\ Range(s \o t) = Range(s) \cup Range(t)
  BY RangeOfConcat, Zenon
<1>5. ab \in Seq(S) /\ Range(ab) = Range(a) \cup Range(b)
  BY <1>0, <1>1, Zenon DEF ab
<1>6. abc \in Seq(S) /\ Range(abc) = Range(ab) \cup Range(c) /\ Len(abc) = Len(ab) + Len(c)
  BY <1>0, <1>2, <1>5, Zenon DEF abc
<1>7. abcd \in Seq(S) /\ Range(abcd) = Range(abc) \cup Range(d) /\ Len(abcd) = Len(abc) + Len(d)
  BY <1>0, <1>1, <1>6, Zenon DEF abcd
<1>8. abcde \in Seq(S) /\ Range(abcde) = Range(abcd) \cup Range(e)
        /\ Len(abcde) = Len(abcd) + Len(e)
  BY <1>0, <1>1, <1>7, Zenon DEF abcde
<1>9. /\ IdentityPages(l, m) \in Seq(S)
      /\ Range(IdentityPages(l, m)) = Range(abcde) \cup Range(f)
      /\ Len(IdentityPages(l, m)) = Len(abcde) + Len(f)
  BY <1>0, <1>3, <1>4, <1>8, Zenon
<1>10. Range(IdentityPages(l, m)) = S
  <2>1. Range(IdentityPages(l, m))
          = Range(a) \cup Range(b) \cup Range(c) \cup Range(d) \cup Range(e) \cup Range(f)
    BY <1>5, <1>6, <1>7, <1>8, <1>9, Zenon
  <2>. QED BY <2>1 DEF S, a, b, c, d, e, f
<1>11. \A s \in Seq(S) : Len(s) \in Nat
  OBVIOUS
<1>12. Len(IdentityPages(l, m)) \in Nat /\ Len(IdentityPages(l, m)) >= DirSize
  <2>1. Len(ab) \in Nat /\ Len(d) \in Nat /\ Len(e) \in Nat /\ Len(f) \in Nat
    BY <1>1, <1>3, <1>5, <1>11
  <2>. QED BY <1>2, <1>6, <1>7, <1>8, <1>9, <2>1, TablesAssumption
<1>. QED BY <1>9, <1>10, <1>12, TablesAssumption DEF S

\* What is in use is locked and mapped to itself, and so are the directory and
\* the bitmap.
LEMMA HeldFacts ==
  ASSUME NEW l \in Layouts, NEW m \in Maps
  PROVE  /\ Held(l) \subseteq OwnPages(l)
         /\ Held(l) \subseteq Range(IdentityPages(l, m))
         /\ Range(Run(A!LargestSeg(m), A!BitmapSize(m))) \subseteq Range(IdentityPages(l, m))
         /\ DirBase .. DirBase + DirSize - 1 \subseteq Held(l)
<1>. DEFINE kernel == Range(Run(l.kernel, l.kernelSize))
            stack == Range(Run(l.stack, l.stackSize))
            fb == Range(Run(l.fb, l.fbSize))
<1>1. /\ kernel \subseteq Range(KernelRun(l)) /\ stack \subseteq Range(StackRun(l))
      /\ fb \subseteq Range(FbRun(l))
      /\ Range(Run(A!LargestSeg(m), A!BitmapSize(m))) \subseteq Range(BitmapRun(m))
  BY RunLengths, RunWithin, Zenon DEF KernelRun, StackRun, FbRun, BitmapRun
<1>2. Range(DirRun) = DirBase .. DirBase + DirSize - 1
  <2>1. Range(DirRun) = {DirBase + i - 1 : i \in 1 .. DirSize}
    BY RunLengths, RunRange, TablesAssumption DEF DirRun
  <2>2. ASSUME NEW x \in DirBase .. DirBase + DirSize - 1
        PROVE  \E i \in 1 .. DirSize : x = DirBase + i - 1
    <3>1. x - DirBase + 1 \in 1 .. DirSize /\ x = DirBase + (x - DirBase + 1) - 1
      BY TablesAssumption
    <3>. QED BY <3>1
  <2>3. \A i \in 1 .. DirSize : DirBase + i - 1 \in DirBase .. DirBase + DirSize - 1
    BY TablesAssumption
  <2>. QED BY <2>1, <2>2, <2>3
<1>3. Held(l) = kernel \cup stack \cup Range(DirRun) \cup fb \cup Range(l.things)
  BY DEF Held, DirRun
<1>4. Held(l) \subseteq Range(IdentityPages(l, m))
  <2>. HIDE DEF kernel, stack, fb
  <2>. QED BY <1>1, <1>3, IdentityParts
<1>5. \A start, bytes \in Nat :
        Range(Run(start, bytes)) \subseteq start .. start + bytes \div PageBytes
  <2>. SUFFICES ASSUME NEW start \in Nat, NEW bytes \in Nat
                PROVE  Range(Run(start, bytes)) \subseteq start .. start + bytes \div PageBytes
    OBVIOUS
  <2>1. Pages(bytes) \in Nat /\ Pages(bytes) <= bytes \div PageBytes + 1 /\ bytes \div PageBytes \in Nat
    BY PagesFacts
  <2>2. Range(Run(start, bytes)) = {start + i - 1 : i \in 1 .. Pages(bytes)}
    BY <2>1, RunRange
  <2>. QED BY <2>1, <2>2
<1>6. /\ kernel \subseteq l.kernel .. l.kernel + l.kernelSize \div PageBytes
      /\ stack \subseteq l.stack .. l.stack + l.stackSize \div PageBytes
      /\ fb \subseteq l.fb .. l.fb + l.fbSize \div PageBytes
  BY <1>5, LayoutFacts
<1>7. /\ kernel \subseteq l.kernel .. l.kernel + l.kernelSize \div PageBytes + 1
      /\ Range(DirRun) \subseteq DirBase .. DirBase + DirSize
  <2>1. l.kernel \in Nat /\ l.kernelSize \div PageBytes \in Nat
    BY LayoutFacts, PagesFacts
  <2>. HIDE DEF kernel
  <2>. QED BY <1>2, <1>6, <2>1, TablesAssumption
<1>8. Held(l) \subseteq OwnPages(l)
  <2>. HIDE DEF kernel, stack, fb
  <2>. QED BY <1>3, <1>6, <1>7 DEF OwnPages
<1>9. DirBase .. DirBase + DirSize - 1 \subseteq Held(l)
  <2>. HIDE DEF kernel, stack, fb
  <2>. QED BY <1>2, <1>3
<1>. QED BY <1>1, <1>4, <1>8, <1>9, IdentityParts

\* The first page for a pool, and the pages in play.
LEMMA InPlayFacts ==
  ASSUME NEW l \in Layouts, NEW m \in Maps
  PROVE  /\ FirstPoolPage(l) \in Nat /\ MaxBytes \div PageBytes \in Nat
         /\ Pageable(KernelPages(l, m))
         /\ Range(IdentityPages(l, m)) \subseteq KernelPages(l, m)
         /\ Range(IdentityPages(l, m)) \subseteq 0 .. FrameMod - 1
         /\ FirstPoolPage(l) .. FirstPoolPage(l) + MaxPools * (MaxBytes \div PageBytes + 2)
              \subseteq KernelPages(l, m)
<1>1. FirstPoolPage(l) \in Nat
  <2>1. MemPages * PageBytes + l.fbSize \in Nat
    BY LayoutFacts, SizesAssumption
  <2>. QED BY <2>1, PagesFacts DEF FirstPoolPage
<1>2. MaxBytes \div PageBytes \in Nat
  BY SizesAssumption, PagesFacts
<1>. QED BY <1>1, <1>2, PagesAssumption DEF KernelPages

-------------------------------------------------------------------------------
(* The allocator.                                                          *)

\* Least, the minimum of a set of page numbers, is one of them.
LEMMA LeastIsOne ==
  ASSUME NEW S, S \subseteq Nat, S # {}
  PROVE  A!Least(S) \in S
<1>. DEFINE R == {ss \in Nat \X Nat : ss[1] < ss[2]}
<1>1. IsWellFoundedOn(R, Nat)
  BY NatLessThanWellFounded, Zenon DEF OpToRel
<1>2. PICK x \in S : \A y \in S : ~ (<<y, x>> \in R)
  <2>. HIDE DEF R
  <2>. QED BY <1>1, WFMin, Zenon
<1>3. \A y \in S : x <= y
  <2>. SUFFICES ASSUME NEW y \in S PROVE x <= y
    OBVIOUS
  <2>1. ~ (<<y, x>> \in R)
    BY <1>2
  <2>. QED BY <2>1
<1>. QED BY <1>3 DEF A!Least

\* readMap leaves a bitmap of the size for the memory, and a hint.
LEMMA ReadMapFacts ==
  ASSUME memMap \in Maps, A!ReadMap
  PROVE  /\ al'.size = MemPages \div 8 + 1 /\ al'.pageI \in Nat /\ IsRecord(al')
         /\ initialized' = TRUE /\ taken' = taken /\ memMap' = memMap
<1>. DEFINE a == A!AllReserved
            H == {a.pageI} \cup A!Marked(a, A!ReleasedPages(memMap))
<1>1. /\ al' = A!Release(a, A!ReleasedPages(memMap))
      /\ initialized' = TRUE /\ taken' = taken /\ memMap' = memMap
  BY DEF A!ReadMap
<1>2. a.size = A!BitmapSize(memMap) /\ a.pageI = 0
  BY DEF A!AllReserved, A!Reserve, A!BitmapLocked, A!Lock, A!FreshAllocator
<1>3. a.size \in Nat /\ a.size = MemPages \div 8 + 1
  BY <1>2, MapFacts
<1>. HIDE DEF a
<1>4. H \subseteq Nat /\ H # {}
  BY <1>2, <1>3 DEF A!Marked, A!Addressable
<1>5. al'.size = a.size /\ al'.pageI = A!Least(H) /\ IsRecord(al')
  BY <1>1 DEF A!Release, IsRecord
<1>. HIDE DEF H
<1>6. A!Least(H) \in Nat
  BY <1>4, LeastIsOne
<1>. QED BY <1>1, <1>3, <1>5, <1>6

\* lock marks what there are marks for.
LEMMA LockFacts ==
  ASSUME NEW S, NEW a
  PROVE  /\ A!Lock(a, S).size = a.size /\ A!Lock(a, S).pageI = a.pageI
         /\ A!Addressable(A!Lock(a, S)) = A!Addressable(a)
         /\ IsRecord(A!Lock(a, S))
         /\ S \cap A!Addressable(a) \subseteq A!Lock(a, S).bits
         /\ a.bits \subseteq A!Lock(a, S).bits
BY DEF A!Lock, A!Clear, A!Addressable, IsRecord

\* getPage returns a page that was clear, and marks it, or stops the machine.
LEMMA GetPageFacts ==
  ASSUME al.size \in Nat \ {0}, al.pageI \in Nat, IsRecord(al), A!GetPage
  PROVE  /\ memMap' = memMap /\ initialized' = initialized
         /\ al'.size = al.size /\ al'.pageI \in Nat /\ IsRecord(al')
         /\ \/ /\ ~halted'
               /\ \E p \in 0 .. al.size * 8 - 2 :
                    p \notin al.bits /\ taken' = taken \cup {p} /\ al'.bits = al.bits \cup {p}
            \/ halted' /\ taken' = taken /\ al'.bits = al.bits
<1>1. ~halted /\ memMap' = memMap /\ initialized' = initialized
  BY DEF A!GetPage, A!Running
<1>2. ASSUME NEW i \in Nat, A!Candidates(al, i) # {}, A!Found(A!Least(A!Candidates(al, i)))
      PROVE  /\ al'.size = al.size /\ al'.pageI \in Nat /\ IsRecord(al')
             /\ ~halted'
             /\ \E p \in 0 .. al.size * 8 - 2 :
                  p \notin al.bits /\ taken' = taken \cup {p} /\ al'.bits = al.bits \cup {p}
  <2>. DEFINE C == A!Candidates(al, i)
              p == A!Least(C)
  <2>1. C \subseteq Nat /\ C \subseteq 0 .. al.size * 8 - 2 /\ C \cap al.bits = {}
    BY DEF A!Candidates
  <2>2. p \in C
    <3>. HIDE DEF C
    <3>. QED BY <1>2, <2>1, LeastIsOne DEF C
  <2>3. al' = [A!Lock(al, {p}) EXCEPT !.pageI = p] /\ taken' = taken \cup {p} /\ halted' = halted
    BY <1>2 DEF A!Found
  <2>. HIDE DEF C, p
  <2>4. p \in 0 .. al.size * 8 - 2 /\ p \notin al.bits /\ p \in Nat
    BY <2>1, <2>2
  <2>5. A!Clear(al, {p}) = {p}
    BY <2>4 DEF A!Clear, A!Addressable
  <2>6. al'.size = al.size /\ al'.pageI = p /\ al'.bits = al.bits \cup {p} /\ IsRecord(al')
    BY <2>3, <2>5 DEF A!Lock, IsRecord
  <2>. QED BY <1>1, <2>3, <2>4, <2>6
<1>3. ASSUME A!OutOfRam
      PROVE  /\ al'.size = al.size /\ al'.pageI \in Nat /\ IsRecord(al')
             /\ halted' /\ taken' = taken /\ al'.bits = al.bits
  <2>1. al' = [al EXCEPT !.pageI = al.size * 8 - 1] /\ halted' /\ taken' = taken
    BY <1>3 DEF A!OutOfRam
  <2>2. PICK s, b, i, f, u, r :
          al = [size |-> s, bits |-> b, pageI |-> i, freeMem |-> f, usedMem |-> u, reservedMem |-> r]
    BY Zenon DEF IsRecord
  <2>. DEFINE n == al.size * 8 - 1
  <2>3. n \in Nat
    OBVIOUS
  <2>. HIDE DEF n
  <2>4. al' = [size |-> s, bits |-> b, pageI |-> n, freeMem |-> f, usedMem |-> u, reservedMem |-> r]
    BY <2>1, <2>2 DEF n
  <2>5. IsRecord(al') /\ al'.size = s /\ al'.bits = b /\ al'.pageI = n
    BY <2>4 DEF IsRecord
  <2>6. al.size = s /\ al.bits = b
    BY <2>2
  <2>. QED BY <2>1, <2>3, <2>5, <2>6
<1>4. \/ A!Candidates(al, al.pageI) # {} /\ A!Found(A!Least(A!Candidates(al, al.pageI)))
      \/ A!Candidates(al, 0) # {} /\ A!Found(A!Least(A!Candidates(al, 0)))
      \/ A!OutOfRam
  BY Zenon DEF A!GetPage
<1>. QED BY <1>1, <1>2, <1>3, <1>4

-------------------------------------------------------------------------------
(* The pages of pools.                                                     *)

\* PoolPages and Identity, of the variables they depend on.
LastPage(ps, td, k) ==
  ps[k].first + ps[k].pages - 1 - (IF k = Len(ps) THEN td ELSE 0)
PagesOfPools(ps, td) == UNION {ps[k].first .. LastPage(ps, td, k) : k \in DOMAIN ps}

IdentityAt(ph, td, own) ==
  IF ph \in {"boot", "locks"} THEN {}
  ELSE IF ph = "maps" THEN {own[i] : i \in 1 .. Len(own) - td}
  ELSE Range(own)

LEMMA PoolPagesIs ==
  /\ PoolPages = PagesOfPools(pools, todo)
  /\ PoolPages' = PagesOfPools(pools', todo')
  /\ Identity = IdentityAt(phase, todo, OwnRun)
  /\ Identity' = IdentityAt(phase', todo', OwnRun')
<1>1. \A k \in DOMAIN pools : MappedOf(k) = pools[k].first .. LastPage(pools, todo, k)
  BY DEF MappedOf, LastPage
<1>2. \A k \in DOMAIN pools' : MappedOf(k)' = pools'[k].first .. LastPage(pools', todo', k)
  BY DEF MappedOf, LastPage
<1>3. PoolPages = PagesOfPools(pools, todo)
  BY <1>1 DEF PoolPages, PagesOfPools
<1>4. PoolPages' = PagesOfPools(pools', todo')
  BY <1>2 DEF PoolPages, PagesOfPools
<1>. QED BY <1>3, <1>4 DEF Identity, IdentityAt

LEMMA PoolFacts ==
  ASSUME NEW ps \in Seq(Pool)
  PROVE  /\ Len(ps) \in Nat /\ DOMAIN ps = 1 .. Len(ps)
         /\ \A k \in 1 .. Len(ps) : ps[k].first \in Nat /\ ps[k].pages \in Nat
<1>1. \A k \in 1 .. Len(ps) : ps[k] \in Pool
  OBVIOUS
<1>2. \A q \in Pool : q.first \in Nat /\ q.pages \in Nat
  BY DEF Pool
<1>. QED BY <1>1, <1>2

LEMMA NoPools == \A td : PagesOfPools(<<>>, td) = {}
BY DEF PagesOfPools

\* A pool that has just been begun has no page yet.
LEMMA BeginPages ==
  ASSUME NEW ps \in Seq(Pool), NEW first \in Nat, NEW n \in Nat
  PROVE  PagesOfPools(Append(ps, [first |-> first, pages |-> n]), n) = PagesOfPools(ps, 0)
<1>. DEFINE qs == Append(ps, [first |-> first, pages |-> n])
<1>1. /\ DOMAIN ps = 1 .. Len(ps) /\ DOMAIN qs = 1 .. Len(ps) + 1 /\ Len(qs) = Len(ps) + 1
      /\ Len(ps) \in Nat
      /\ \A k \in 1 .. Len(ps) : qs[k] = ps[k]
      /\ qs[Len(ps) + 1] = [first |-> first, pages |-> n]
  OBVIOUS
<1>2. \A k \in 1 .. Len(ps) : ps[k].first \in Nat /\ ps[k].pages \in Nat
  BY PoolFacts
<1>. HIDE DEF qs
<1>3. \A k \in 1 .. Len(ps) : qs[k].first .. LastPage(qs, n, k) = ps[k].first .. LastPage(ps, 0, k)
  <2>. SUFFICES ASSUME NEW k \in 1 .. Len(ps)
                PROVE  qs[k].first .. LastPage(qs, n, k) = ps[k].first .. LastPage(ps, 0, k)
    OBVIOUS
  <2>1. k # Len(qs) /\ qs[k] = ps[k] /\ ps[k].first \in Nat /\ ps[k].pages \in Nat
    BY <1>1, <1>2
  <2>2. LastPage(qs, n, k) = ps[k].first + ps[k].pages - 1
    BY <2>1 DEF LastPage
  <2>3. LastPage(ps, 0, k) = ps[k].first + ps[k].pages - 1
    BY <2>1 DEF LastPage
  <2>. QED BY <2>1, <2>2, <2>3
<1>4. qs[Len(ps) + 1].first .. LastPage(qs, n, Len(ps) + 1) = {}
  BY <1>1 DEF LastPage
<1>5. ASSUME NEW x \in PagesOfPools(qs, n) PROVE x \in PagesOfPools(ps, 0)
  <2>1. PICK k \in 1 .. Len(ps) + 1 : x \in qs[k].first .. LastPage(qs, n, k)
    BY <1>1, Zenon DEF PagesOfPools
  <2>2. k \in 1 .. Len(ps)
    BY <1>1, <1>4, <2>1
  <2>3. x \in ps[k].first .. LastPage(ps, 0, k)
    BY <1>3, <2>1, <2>2
  <2>. QED BY <1>1, <2>2, <2>3, Zenon DEF PagesOfPools
<1>6. ASSUME NEW x \in PagesOfPools(ps, 0) PROVE x \in PagesOfPools(qs, n)
  <2>1. PICK k \in 1 .. Len(ps) : x \in ps[k].first .. LastPage(ps, 0, k)
    BY <1>1, Zenon DEF PagesOfPools
  <2>2. k \in 1 .. Len(ps) + 1 /\ x \in qs[k].first .. LastPage(qs, n, k)
    <3>1. k \in 1 .. Len(ps) + 1
      BY <1>1
    <3>. QED BY <1>3, <2>1, <3>1
  <2>. QED BY <1>1, <2>2, Zenon DEF PagesOfPools
<1>7. PagesOfPools(qs, n) = PagesOfPools(ps, 0)
  BY <1>5, <1>6
<1>. QED BY <1>7 DEF qs

\* When one more page of the last pool is mapped, it is the next one.
LEMMA GrowPages ==
  ASSUME NEW ps \in Seq(Pool), Len(ps) > 0, NEW td \in Nat \ {0}, NEW next \in Nat,
         ps[Len(ps)].first + ps[Len(ps)].pages - td = next, ps[Len(ps)].first <= next
  PROVE  PagesOfPools(ps, td - 1) = PagesOfPools(ps, td) \cup {next}
<1>. DEFINE n == Len(ps)
<1>1. n \in Nat /\ n \in 1 .. n /\ DOMAIN ps = 1 .. n
        /\ \A k \in 1 .. n : ps[k].first \in Nat /\ ps[k].pages \in Nat
  BY PoolFacts
<1>2. \A k \in 1 .. n : k # n => LastPage(ps, td - 1, k) = LastPage(ps, td, k)
  BY DEF LastPage
<1>3. LastPage(ps, td, n) = next - 1 /\ LastPage(ps, td - 1, n) = next
  <2>. DEFINE f == ps[n].first
              s == ps[n].pages
  <2>1. f \in Nat /\ s \in Nat /\ f + s - td = next
    BY <1>1
  <2>2. LastPage(ps, td, n) = f + s - 1 - td /\ LastPage(ps, td - 1, n) = f + s - 1 - (td - 1)
    BY <2>1 DEF LastPage
  <2>. HIDE DEF f, s
  <2>. QED BY <2>1, <2>2
<1>4. ps[n].first .. next = (ps[n].first .. next - 1) \cup {next}
  BY <1>1
<1>. HIDE DEF n
<1>5. ASSUME NEW x \in PagesOfPools(ps, td - 1) PROVE x \in PagesOfPools(ps, td) \cup {next}
  <2>1. PICK k \in 1 .. n : x \in ps[k].first .. LastPage(ps, td - 1, k)
    BY <1>1, Zenon DEF PagesOfPools
  <2>2. x = next \/ x \in ps[k].first .. LastPage(ps, td, k)
    BY <1>2, <1>3, <1>4, <2>1
  <2>3. x = next \/ x \in PagesOfPools(ps, td)
    BY <1>1, <2>2, Zenon DEF PagesOfPools
  <2>. QED BY <2>3
<1>6. ASSUME NEW x \in PagesOfPools(ps, td) \cup {next} PROVE x \in PagesOfPools(ps, td - 1)
  <2>1. CASE x = next
    <3>1. x \in ps[n].first .. LastPage(ps, td - 1, n)
      BY <1>3, <1>4, <2>1
    <3>. QED BY <1>1, <3>1, Zenon DEF PagesOfPools
  <2>2. CASE x \in PagesOfPools(ps, td)
    <3>1. PICK k \in 1 .. n : x \in ps[k].first .. LastPage(ps, td, k)
      BY <1>1, <2>2, Zenon DEF PagesOfPools
    <3>2. x \in ps[k].first .. LastPage(ps, td - 1, k)
      BY <1>2, <1>3, <1>4, <3>1
    <3>. QED BY <1>1, <3>2, Zenon DEF PagesOfPools
  <2>. QED BY <2>1, <2>2
<1>. QED BY <1>5, <1>6

-------------------------------------------------------------------------------
(* The steps of memoryInit.                                                *)

LEMMA InitInv == Init => IInv
<1>. SUFFICES ASSUME Init PROVE IInv
  OBVIOUS
<1>1. /\ memMap \in Maps /\ layout \in Layouts /\ initialized = FALSE /\ taken = {}
      /\ pdi = 0 /\ phase = "boot" /\ vai = 0 /\ todo = 0 /\ pools = <<>>
  BY DEF Init, A!Init
<1>2. PICK dirt \in {Absent, Junk} : mem = LeftOver({}, dirt)
  BY DEF Init
<1>3. PoolPages = {} /\ Identity = {}
  BY <1>1, PoolPagesIs, NoPools DEF IdentityAt
<1>4. PhaseInv
  BY <1>1 DEF PhaseInv, Paging
<1>5. MarksInv
  BY <1>1 DEF MarksInv
<1>6. TablesInv
  <2>1. Pageable(InPlay)
    BY <1>1, InPlayFacts DEF InPlay
  <2>2. Tree(InPlay, mem, pdi)
    BY <1>1, <1>2, <2>1, LeftOverTree
  <2>3. \A i \in Indices : mem[DirBase][i] # Junk
    BY <1>2, TablesAssumption DEF LeftOver, Indices, Frames, Junk, Absent
  <2>. QED BY <2>2, <2>3 DEF TablesInv
<1>7. PoolsInv
  BY <1>1, <1>3, SizesAssumption DEF PoolsInv, Paging
<1>8. MappingInv
  <2>1. Pageable(InPlay)
    BY <1>1, InPlayFacts DEF InPlay
  <2>2. \A v \in InPlay : TranslateIn(mem, v) = Absent
    BY <1>2, <2>1, LeftOverTree
  <2>. QED BY <1>3, <2>2 DEF MappingInv, Translate
<1>9. LostOnlyWhenFull
  BY <1>1 DEF LostOnlyWhenFull
<1>. QED BY <1>4, <1>5, <1>6, <1>7, <1>8, <1>9 DEF IInv

\* What depends on the layout and the map only.
LEMMA SameInPlay ==
  ASSUME memMap' = memMap, layout' = layout
  PROVE  /\ InPlay' = InPlay /\ OwnRun' = OwnRun
         /\ FirstPoolPage(layout)' = FirstPoolPage(layout) /\ Held(layout)' = Held(layout)
BY DEF InPlay, OwnRun

LEMMA ReadMapStep ==
  ASSUME IInv, ReadMap
  PROVE  IInv'
<1>. USE DEF IInv
<1>1. /\ phase = "boot" /\ phase' = "locks" /\ A!ReadMap
      /\ mem' = mem /\ pdi' = pdi /\ layout' = layout
      /\ vai' = vai /\ todo' = todo /\ pools' = pools
  BY DEF ReadMap, tables, pooling
<1>2. memMap \in Maps /\ todo = 0 /\ taken = {} /\ pools = <<>>
  BY <1>1 DEF PhaseInv, MarksInv, PoolsInv, Paging
<1>3. /\ al'.size = MemPages \div 8 + 1 /\ al'.pageI \in Nat /\ IsRecord(al')
      /\ initialized' = TRUE /\ taken' = taken /\ memMap' = memMap
  BY <1>1, <1>2, ReadMapFacts
<1>4. InPlay' = InPlay /\ OwnRun' = OwnRun
  BY <1>1, <1>3, SameInPlay
<1>5. PoolPages' = {} /\ PoolPages = {} /\ Identity' = {} /\ Identity = {}
  BY <1>1, <1>2, PoolPagesIs, NoPools DEF IdentityAt
<1>6. PhaseInv'
  BY <1>1, <1>2, <1>3, <1>4 DEF PhaseInv, Paging
<1>7. MarksInv'
  BY <1>1, <1>2, <1>3 DEF MarksInv
<1>8. TablesInv'
  BY <1>1, <1>4 DEF TablesInv
<1>9. PoolsInv'
  BY <1>1, <1>2, <1>5 DEF PoolsInv, Paging
<1>10. MappingInv'
  BY <1>1, <1>4, <1>5 DEF MappingInv, Translate
<1>11. LostOnlyWhenFull'
  BY <1>1 DEF LostOnlyWhenFull
<1>. QED BY <1>6, <1>7, <1>8, <1>9, <1>10, <1>11

LEMMA LockOwnStep ==
  ASSUME IInv, LockOwn
  PROVE  IInv'
<1>. USE DEF IInv
<1>1. /\ phase = "locks" /\ phase' = "maps"
      /\ al' = A!Lock(al, OwnPages(layout))
      /\ vai' = FirstPoolPage(layout) /\ todo' = Len(OwnRun)
      /\ memMap' = memMap /\ initialized' = initialized /\ taken' = taken
      /\ mem' = mem /\ pdi' = pdi /\ layout' = layout /\ pools' = pools
  BY DEF LockOwn, tables, OwnRun
<1>2. memMap \in Maps /\ layout \in Layouts /\ todo = 0 /\ taken = {} /\ pools = <<>>
  BY <1>1 DEF PhaseInv, MarksInv, PoolsInv, Paging
<1>3. al.size = MemPages \div 8 + 1 /\ al.pageI \in Nat
  BY <1>1 DEF MarksInv
<1>4. InPlay' = InPlay /\ OwnRun' = OwnRun
  BY <1>1, SameInPlay
<1>5. Len(OwnRun) \in Nat \ {0} /\ FirstPoolPage(layout) \in Nat
  BY <1>2, IdentityParts, InPlayFacts DEF OwnRun
<1>6. PoolPages' = {} /\ PoolPages = {} /\ Identity' = {} /\ Identity = {}
  <2>1. PoolPages' = {} /\ PoolPages = {} /\ Identity = {}
    BY <1>1, <1>2, PoolPagesIs, NoPools DEF IdentityAt
  <2>2. 1 .. Len(OwnRun) - Len(OwnRun) = {}
    BY <1>5
  <2>3. Identity' = {}
    BY <1>1, <1>4, <2>2, PoolPagesIs DEF IdentityAt
  <2>. QED BY <2>1, <2>3
<1>7. PhaseInv'
  BY <1>1, <1>2, <1>4, <1>5 DEF PhaseInv, Paging
<1>8. MarksInv'
  <2>1. /\ al'.size = al.size /\ al'.pageI = al.pageI /\ IsRecord(al')
        /\ A!Addressable(al') = A!Addressable(al)
        /\ OwnPages(layout) \cap A!Addressable(al) \subseteq al'.bits
    BY <1>1, LockFacts
  <2>2. Held(layout) \subseteq OwnPages(layout)
    BY <1>2, HeldFacts
  <2>3. A!Addressable(al)' = A!Addressable(al)
    BY <2>1 DEF A!Addressable
  <2>4. Held(layout)' = Held(layout)
    BY <1>1
  <2>. QED BY <1>1, <1>2, <1>3, <2>1, <2>2, <2>3, <2>4 DEF MarksInv
<1>9. TablesInv'
  BY <1>1, <1>4 DEF TablesInv
<1>10. PoolsInv'
  BY <1>1, <1>2, <1>6 DEF PoolsInv, Paging
<1>11. MappingInv'
  BY <1>1, <1>4, <1>6 DEF MappingInv, Translate
<1>12. LostOnlyWhenFull'
  BY <1>1 DEF LostOnlyWhenFull
<1>. QED BY <1>7, <1>8, <1>9, <1>10, <1>11, <1>12

\* One call of map, for any page in play.
LEMMA MapInPlay ==
  ASSUME RoomForAll, memMap \in Maps, layout \in Layouts, TablesInv,
         NEW v \in InPlay, NEW p \in 0 .. FrameMod - 1
  PROVE  LET after == MapPage([mem |-> mem, pdi |-> pdi], v, p)
         IN  /\ Tree(InPlay, after.mem, after.pdi)
             /\ \A i \in Indices : after.mem[DirBase][i] # Junk
             /\ TranslateIn(after.mem, v) = p
             /\ \A w \in InPlay \ {v} : TranslateIn(after.mem, w) = Translate(w)
<1>. DEFINE after == MapPage([pdi |-> pdi, mem |-> mem], v, p)
<1>1. Pageable(InPlay) /\ Room(InPlay)
  BY InPlayFacts DEF InPlay, RoomForAll
<1>2. PDP_i(v) \in Indices
  BY <1>1, FourShifts, ShiftType DEF PDP_i
<1>3. Tree(InPlay, mem, pdi) /\ \A i \in Indices : mem[DirBase][i] # Junk
  BY DEF TablesInv
<1>4. /\ Tree(InPlay, after.mem, after.pdi)
      /\ RootKept(mem, after.mem)
      /\ TranslateIn(after.mem, v) = p
      /\ \A w \in InPlay \ {v} : TranslateIn(after.mem, w) = TranslateIn(mem, w)
  BY <1>1, <1>2, <1>3, MapEffect
<1>. HIDE DEF after
<1>5. \A i \in Indices : after.mem[DirBase][i] # Junk
  BY <1>3, <1>4 DEF RootKept
<1>6. \A w \in InPlay \ {v} : TranslateIn(after.mem, w) = Translate(w)
  BY <1>4 DEF Translate
<1>7. MapPage([mem |-> mem, pdi |-> pdi], v, p) = after
  <2>1. [mem |-> mem, pdi |-> pdi] = [pdi |-> pdi, mem |-> mem]
    OBVIOUS
  <2>. QED BY <2>1, Zenon DEF after
<1>. QED BY <1>4, <1>5, <1>6, <1>7, Zenon

\* The page that is mapped next is one in play, and it is added to those that
\* are mapped to themselves.
LEMMA NextOwnPage ==
  ASSUME memMap \in Maps, layout \in Layouts, todo \in 1 .. Len(OwnRun)
  PROVE  /\ OwnRun[Len(OwnRun) - todo + 1] \in InPlay
         /\ OwnRun[Len(OwnRun) - todo + 1] \in 0 .. FrameMod - 1
         /\ IdentityAt("maps", todo - 1, OwnRun)
              = IdentityAt("maps", todo, OwnRun) \cup {OwnRun[Len(OwnRun) - todo + 1]}
         /\ IdentityAt("maps", 0, OwnRun) = IdentityAt("running", 0, OwnRun)
<1>. DEFINE n == Len(OwnRun)
            j == n - todo + 1
<1>1. n \in Nat \ {0} /\ DOMAIN OwnRun = 1 .. n
  BY IdentityParts DEF OwnRun
<1>. HIDE DEF n
<1>2. j \in 1 .. n /\ todo \in 1 .. n
  BY <1>1 DEF n
<1>3. OwnRun[j] \in Range(OwnRun)
  BY <1>1, <1>2 DEF Range
<1>4. Range(OwnRun) \subseteq InPlay /\ Range(OwnRun) \subseteq 0 .. FrameMod - 1
  BY InPlayFacts DEF InPlay, OwnRun
<1>5. 1 .. n - (todo - 1) = (1 .. n - todo) \cup {j}
  BY <1>1, <1>2
<1>6. {OwnRun[i] : i \in 1 .. n - (todo - 1)} = {OwnRun[i] : i \in 1 .. n - todo} \cup {OwnRun[j]}
  <2>. DEFINE I == 1 .. n - todo
              J == 1 .. n - (todo - 1)
  <2>1. J = I \cup {j}
    BY <1>5
  <2>. HIDE DEF I, J, j
  <2>2. {OwnRun[i] : i \in J} = {OwnRun[i] : i \in I} \cup {OwnRun[j]}
    BY <2>1
  <2>. QED BY <2>2 DEF I, J
<1>7. {OwnRun[i] : i \in 1 .. n - 0} = Range(OwnRun)
  <2>1. n - 0 = n
    BY <1>1
  <2>. QED BY <1>1, <2>1 DEF Range
<1>. QED BY <1>3, <1>4, <1>6, <1>7 DEF IdentityAt, n

LEMMA MapOwnStep ==
  ASSUME RoomForAll, IInv, MapOwn
  PROVE  IInv'
<1>. USE DEF IInv
<1>. DEFINE v == OwnRun[Len(OwnRun) - todo + 1]
            after == MapPage([mem |-> mem, pdi |-> pdi], v, v)
<1>1. /\ phase = "maps" /\ mem' = after.mem /\ pdi' = after.pdi
      /\ todo' = todo - 1 /\ phase' = IF todo = 1 THEN "running" ELSE "maps"
      /\ al' = al /\ taken' = taken /\ memMap' = memMap /\ initialized' = initialized
      /\ layout' = layout /\ vai' = vai /\ pools' = pools
  BY DEF MapOwn, allocator, OwnRun
<1>2. memMap \in Maps /\ layout \in Layouts /\ todo \in 1 .. Len(OwnRun)
        /\ taken = {} /\ pools = <<>> /\ vai = FirstPoolPage(layout)
  BY <1>1 DEF PhaseInv, MarksInv, PoolsInv, Paging
<1>3. Len(OwnRun) \in Nat /\ FirstPoolPage(layout) \in Nat
        /\ MaxBytes \div PageBytes \in Nat
  BY <1>2, IdentityParts, InPlayFacts DEF OwnRun
<1>4. InPlay' = InPlay /\ OwnRun' = OwnRun
  BY <1>1, SameInPlay
<1>5. v \in InPlay /\ v \in 0 .. FrameMod - 1
  BY <1>2, NextOwnPage
<1>6. /\ Tree(InPlay, after.mem, after.pdi)
      /\ \A i \in Indices : after.mem[DirBase][i] # Junk
      /\ TranslateIn(after.mem, v) = v
      /\ \A w \in InPlay \ {v} : TranslateIn(after.mem, w) = Translate(w)
  <2>. HIDE DEF v
  <2>. QED BY <1>2, <1>5, MapInPlay
<1>7. PoolPages' = {} /\ PoolPages = {} /\ Identity' = Identity \cup {v}
  <2>1. PoolPages' = {} /\ PoolPages = {}
    BY <1>1, <1>2, PoolPagesIs, NoPools
  <2>2. Identity = IdentityAt("maps", todo, OwnRun)
    BY <1>1, PoolPagesIs
  <2>3. CASE todo = 1
    <3>1. Identity' = IdentityAt("running", 0, OwnRun)
      BY <1>1, <1>4, <2>3, PoolPagesIs
    <3>2. IdentityAt("running", 0, OwnRun) = IdentityAt("maps", todo - 1, OwnRun)
      BY <1>2, <2>3, NextOwnPage
    <3>. QED BY <1>2, <2>1, <2>2, <3>1, <3>2, NextOwnPage
  <2>4. CASE todo # 1
    <3>1. Identity' = IdentityAt("maps", todo - 1, OwnRun)
      BY <1>1, <1>4, <2>4, PoolPagesIs
    <3>. QED BY <1>2, <2>1, <2>2, <3>1, NextOwnPage
  <2>. QED BY <2>3, <2>4
<1>. HIDE DEF v, after
<1>8. PhaseInv'
  BY <1>1, <1>2, <1>3, <1>4 DEF PhaseInv, Paging
<1>9. MarksInv'
  <2>1. A!Addressable(al)' = A!Addressable(al) /\ Held(layout)' = Held(layout)
    BY <1>1 DEF A!Addressable
  <2>. QED BY <1>1, <1>2, <2>1 DEF MarksInv
<1>10. TablesInv'
  BY <1>1, <1>4, <1>6 DEF TablesInv
<1>11. PoolsInv'
  <2>1. Len(pools) = 0
    BY <1>2
  <2>2. (todo' > 0) => phase' = "maps"
    BY <1>1, <1>2
  <2>. QED BY <1>1, <1>2, <1>3, <1>7, <2>1, <2>2, SizesAssumption DEF PoolsInv, Paging
<1>12. MappingInv'
  <2>1. \A w \in InPlay : Translate(w)' = TranslateIn(after.mem, w)
    BY <1>1 DEF Translate
  <2>2. \A w \in InPlay : Translate(w) = IF w \in Identity THEN w ELSE Absent
    BY <1>7 DEF MappingInv
  <2>3. \A w \in InPlay : Translate(w)' = IF w \in Identity' THEN w ELSE Absent
    BY <1>5, <1>6, <1>7, <2>1, <2>2
  <2>. QED BY <1>4, <1>7, <2>3 DEF MappingInv
<1>13. LostOnlyWhenFull'
  BY <1>1 DEF LostOnlyWhenFull
<1>. QED BY <1>8, <1>9, <1>10, <1>11, <1>12, <1>13

-------------------------------------------------------------------------------
(* The steps of getPool.                                                   *)

\* The most pages that a pool takes, the one behind it included.
Most == MaxBytes \div PageBytes + 2

LEMMA MostFacts ==
  /\ Most \in Nat /\ MaxPools \in Nat
  /\ \A bytes \in PoolSizes : bytes \div PageBytes \in Nat /\ bytes \div PageBytes + 2 <= Most
  /\ \A n \in Nat : n * Most \in Nat /\ (n + 1) * Most = n * Most + Most
  /\ \A n \in 0 .. MaxPools : n * Most <= MaxPools * Most
<1>1. Most \in Nat /\ MaxPools \in Nat /\ PageBytes \in Nat \ {0} /\ MaxBytes \in Nat
  BY SizesAssumption, PagesFacts DEF Most
<1>2. ASSUME NEW bytes \in PoolSizes
      PROVE  bytes \div PageBytes \in Nat /\ bytes \div PageBytes + 2 <= Most
  <2>. DEFINE q == MaxBytes \div PageBytes
  <2>1. bytes \in Nat /\ bytes <= MaxBytes
    BY SizesAssumption
  <2>2. q \in Nat /\ MaxBytes < PageBytes * q + PageBytes
    BY <1>1, Quotients
  <2>. HIDE DEF q
  <2>3. PageBytes * q + PageBytes = (q + 1) * PageBytes /\ (q + 1) * PageBytes \in Nat
    BY <1>1, <2>2
  <2>4. bytes < (q + 1) * PageBytes
    BY <1>1, <2>1, <2>2, <2>3
  <2>5. bytes \div PageBytes \in Nat /\ bytes \div PageBytes <= q
    BY <1>1, <2>1, <2>2, <2>4, Quotients
  <2>. QED BY <2>2, <2>5 DEF Most, q
<1>3. ASSUME NEW n \in Nat PROVE n * Most \in Nat /\ (n + 1) * Most = n * Most + Most
  BY <1>1
<1>4. ASSUME NEW n \in 0 .. MaxPools PROVE n * Most <= MaxPools * Most
  BY <1>1
<1>. QED BY <1>1, <1>2, <1>3, <1>4

\* While there is a page to map, it is in play, as all pages of pools are.
LEMMA VaiInPlay ==
  ASSUME PhaseInv, PoolsInv, phase = "running"
  PROVE  /\ PoolPages \subseteq InPlay
         /\ todo > 0 => vai \in InPlay /\ vai \notin PoolPages
<1>. DEFINE first == FirstPoolPage(layout)
            all == MaxPools * Most
            some == Len(pools) * Most
<1>1. first \in Nat /\ first .. first + all \subseteq InPlay
  BY InPlayFacts DEF PhaseInv, InPlay, Most
<1>2. Len(pools) \in 0 .. MaxPools
  BY MostFacts DEF PoolsInv
<1>3. all \in Nat /\ some \in Nat /\ some <= all
  BY <1>2, MostFacts
<1>4. /\ PoolPages \subseteq first .. vai - 1
      /\ vai + (IF todo > 0 THEN todo + 1 ELSE 0) <= first + some
      /\ vai \in Nat /\ todo \in Nat /\ vai >= first
  BY DEF PhaseInv, PoolsInv, Paging, Most
<1>. HIDE DEF first, all, some
<1>5. PoolPages \subseteq InPlay
  <2>1. first .. vai - 1 \subseteq first .. first + all
    BY <1>1, <1>3, <1>4
  <2>. QED BY <1>1, <1>4, <2>1
<1>6. ASSUME todo > 0 PROVE vai \in InPlay /\ vai \notin PoolPages
  <2>1. vai \in first .. first + all /\ vai \notin first .. vai - 1
    BY <1>1, <1>3, <1>4, <1>6
  <2>. QED BY <1>1, <1>4, <2>1
<1>. QED BY <1>5, <1>6

LEMMA BeginPoolStep ==
  ASSUME IInv, NEW bytes \in PoolSizes, BeginPool(bytes)
  PROVE  IInv'
<1>. USE DEF IInv
<1>. DEFINE n == bytes \div PageBytes + 1
<1>1. /\ phase = "running" /\ phase' = phase /\ todo = 0 /\ Len(pools) < MaxPools
      /\ todo' = n /\ pools' = Append(pools, [first |-> vai, pages |-> n])
      /\ al' = al /\ taken' = taken /\ memMap' = memMap /\ initialized' = initialized
      /\ mem' = mem /\ pdi' = pdi /\ layout' = layout /\ vai' = vai
  BY DEF BeginPool, allocator, tables
<1>2. n \in Nat \ {0} /\ n + 1 <= Most /\ Most \in Nat
  BY MostFacts
<1>. HIDE DEF n
<1>3. /\ vai \in Nat /\ pools \in Seq(Pool) /\ Len(pools) \in Nat
      /\ vai >= FirstPoolPage(layout) /\ FirstPoolPage(layout) \in Nat
      /\ vai <= FirstPoolPage(layout) + Len(pools) * Most
      /\ PoolPages \subseteq FirstPoolPage(layout) .. vai - 1
  BY <1>1, InPlayFacts DEF PhaseInv, PoolsInv, Paging, Most
<1>4. InPlay' = InPlay /\ OwnRun' = OwnRun
  BY <1>1, SameInPlay
<1>5. PoolPages' = PoolPages /\ Identity' = Identity
  <2>1. PoolPages = PagesOfPools(pools, 0) /\ PoolPages' = PagesOfPools(pools', n)
    BY <1>1, PoolPagesIs
  <2>2. PagesOfPools(pools', n) = PagesOfPools(pools, 0)
    BY <1>1, <1>2, <1>3, BeginPages
  <2>3. Identity' = Identity
    BY <1>1, <1>4 DEF Identity
  <2>. QED BY <2>1, <2>2, <2>3
<1>6. PhaseInv'
  BY <1>1, <1>2, <1>4 DEF PhaseInv, Paging
<1>7. MarksInv'
  <2>1. A!Addressable(al)' = A!Addressable(al) /\ Held(layout)' = Held(layout)
    BY <1>1 DEF A!Addressable
  <2>. QED BY <1>1, <2>1 DEF MarksInv
<1>8. TablesInv'
  BY <1>1, <1>4 DEF TablesInv
<1>9. PoolsInv'
  <2>1. [first |-> vai, pages |-> n] \in Pool
    BY <1>2, <1>3 DEF Pool
  <2>2. /\ pools' \in Seq(Pool) /\ Len(pools') = Len(pools) + 1
        /\ \A k \in 1 .. Len(pools) : pools'[k] = pools[k]
        /\ pools'[Len(pools) + 1] = [first |-> vai, pages |-> n]
    BY <1>1, <1>3, <2>1
  <2>3. Paging' /\ FirstPoolPage(layout)' = FirstPoolPage(layout) /\ todo' > 0
    BY <1>1, <1>2 DEF Paging
  <2>4. Len(pools') > 0 /\ Len(pools') <= MaxPools
    BY <1>1, <1>3, <2>2, SizesAssumption
  <2>5. /\ pools'[Len(pools')].first <= vai'
        /\ pools'[Len(pools')].first + pools'[Len(pools')].pages - todo' = vai'
    BY <1>1, <1>2, <1>3, <2>2
  <2>6. ASSUME NEW k \in 1 .. Len(pools')
        PROVE  /\ pools'[k].first >= FirstPoolPage(layout)
               /\ k < Len(pools') => /\ pools'[k].first + pools'[k].pages < vai
                                     /\ pools'[k].first + pools'[k].pages \notin PoolPages
    <3>1. CASE k = Len(pools) + 1
      BY <1>3, <2>2, <3>1
    <3>2. CASE k # Len(pools) + 1
      <4>1. k \in 1 .. Len(pools)
        BY <1>3, <2>2, <3>2
      <4>2. pools'[k] = pools[k]
        BY <2>2, <4>1
      <4>. QED BY <1>1, <4>1, <4>2 DEF PoolsInv
    <3>. QED BY <3>1, <3>2
  <2>7. vai' + (todo' + 1) <= FirstPoolPage(layout) + Len(pools') * Most
    <3>. DEFINE some == Len(pools) * Most
                next == (Len(pools) + 1) * Most
    <3>1. some \in Nat /\ next = some + Most
      BY <1>3, MostFacts
    <3>2. vai <= FirstPoolPage(layout) + some /\ Len(pools') * Most = next
      BY <1>3, <2>2
    <3>. HIDE DEF some, next
    <3>. QED BY <1>1, <1>2, <1>3, <3>1, <3>2
  <2>8. PoolPages' \subseteq FirstPoolPage(layout)' .. vai' - 1
    BY <1>1, <1>3, <1>5, <2>3
  <2>. QED BY <1>1, <1>5, <2>2, <2>3, <2>4, <2>5, <2>6, <2>7, <2>8 DEF PoolsInv, Most
<1>10. MappingInv'
  BY <1>1, <1>4, <1>5 DEF MappingInv, Translate
<1>11. LostOnlyWhenFull'
  BY <1>1 DEF LostOnlyWhenFull
<1>. QED BY <1>6, <1>7, <1>8, <1>9, <1>10, <1>11

\* A page that getPage returned is marked from now on, is not in use by the
\* kernel, and was not returned before.
LEMMA TakenPage ==
  ASSUME PhaseInv, MarksInv, phase = "running", A!GetPage
  PROVE  /\ memMap' = memMap /\ initialized' = initialized
         /\ \/ /\ ~halted'
               /\ \E p \in 0 .. MemPages + 6 :
                    /\ p \notin taken /\ taken' = taken \cup {p}
                    /\ p \notin Held(layout) /\ al'.bits = al.bits \cup {p}
            \/ halted' /\ taken' = taken /\ al'.bits = al.bits
         /\ al'.size = al.size /\ al'.pageI \in Nat /\ IsRecord(al')
<1>1. /\ al.size = MemPages \div 8 + 1 /\ al.pageI \in Nat /\ IsRecord(al)
      /\ Held(layout) \cap A!Addressable(al) \subseteq al.bits
      /\ taken \subseteq al.bits
  BY DEF MarksInv
<1>2. al.size \in Nat \ {0} /\ al.size * 8 <= MemPages + 8
  <2>1. MemPages \div 8 \in Nat /\ 8 * (MemPages \div 8) <= MemPages /\ MemPages \in Nat
    BY SizesAssumption
  <2>. QED BY <1>1, <2>1
<1>3. /\ memMap' = memMap /\ initialized' = initialized
      /\ al'.size = al.size /\ al'.pageI \in Nat /\ IsRecord(al')
      /\ \/ /\ ~halted'
            /\ \E p \in 0 .. al.size * 8 - 2 :
                 p \notin al.bits /\ taken' = taken \cup {p} /\ al'.bits = al.bits \cup {p}
         \/ halted' /\ taken' = taken /\ al'.bits = al.bits
  BY <1>1, <1>2, GetPageFacts
<1>4. ASSUME NEW p \in 0 .. al.size * 8 - 2, p \notin al.bits
      PROVE  p \in 0 .. MemPages + 6 /\ p \notin taken /\ p \notin Held(layout)
  <2>1. p \in A!Addressable(al) /\ p \in 0 .. MemPages + 6
    BY <1>2, SizesAssumption DEF A!Addressable
  <2>. QED BY <1>1, <1>4, <2>1
<1>. QED BY <1>3, <1>4

\* The part of the invariant that is about the marks, after getPage.
LEMMA MarksAfterGetPage ==
  ASSUME PhaseInv, MarksInv, phase = "running", A!GetPage,
         layout' = layout, phase' \in {"running", "lost"}
  PROVE  MarksInv'
<1>1. /\ al'.size = al.size /\ al'.pageI \in Nat /\ IsRecord(al')
      /\ al.bits \subseteq al'.bits
      /\ \/ taken' = taken
         \/ \E p \in 0 .. MemPages + 6 :
              taken' = taken \cup {p} /\ p \notin Held(layout) /\ al'.bits = al.bits \cup {p}
  BY TakenPage
<1>2. A!Addressable(al)' = A!Addressable(al) /\ Held(layout)' = Held(layout)
  BY <1>1 DEF A!Addressable
<1>3. /\ taken' \subseteq 0 .. MemPages + 6 /\ taken' \subseteq al'.bits
      /\ taken' \cap Held(layout) = {}
  BY <1>1 DEF MarksInv
<1>. QED BY <1>1, <1>2, <1>3 DEF MarksInv

\* Where the pools are after a page of the last one has been mapped.
LEMMA PoolGrows ==
  ASSUME PhaseInv, PoolsInv, phase = "running", phase' = phase, todo > 0,
         memMap' = memMap, layout' = layout, pools' = pools,
         vai' = NextVai, todo' = todo - 1
  PROVE  PoolsInv' /\ PoolPages' = PoolPages \cup {vai}
<1>. DEFINE n == Len(pools)
            first == FirstPoolPage(layout)
            some == n * Most
<1>1. /\ pools \in Seq(Pool) /\ n \in Nat \ {0} /\ n <= MaxPools
      /\ \A k \in 1 .. n : pools[k].first \in Nat /\ pools[k].pages \in Nat
  <2>1. pools \in Seq(Pool) /\ n > 0 /\ n <= MaxPools
    BY DEF PoolsInv, Paging
  <2>. QED BY <2>1, PoolFacts
<1>2. /\ first \in Nat /\ vai \in Nat /\ todo \in Nat /\ todo > 0 /\ vai >= first
      /\ vai + (todo + 1) <= first + some /\ some \in Nat
      /\ pools[n].first <= vai /\ pools[n].first + pools[n].pages - todo = vai
      /\ PoolPages \subseteq first .. vai - 1
  <2>1. first \in Nat /\ some \in Nat
    BY <1>1, MostFacts, InPlayFacts DEF PhaseInv
  <2>. QED BY <1>1, <2>1 DEF PhaseInv, PoolsInv, Paging, Most
<1>3. \A k \in 1 .. n :
        /\ pools[k].first >= first
        /\ k < n => /\ pools[k].first + pools[k].pages < vai
                    /\ pools[k].first + pools[k].pages \notin PoolPages
  BY <1>1 DEF PoolsInv
<1>4. vai' = IF todo = 1 THEN vai + 2 ELSE vai + 1
  BY DEF NextVai
<1>5. PoolPages' = PoolPages \cup {vai}
  <2>1. PoolPages = PagesOfPools(pools, todo) /\ PoolPages' = PagesOfPools(pools, todo - 1)
    BY PoolPagesIs
  <2>2. /\ pools \in Seq(Pool) /\ Len(pools) > 0 /\ todo \in Nat \ {0} /\ vai \in Nat
        /\ pools[Len(pools)].first + pools[Len(pools)].pages - todo = vai
        /\ pools[Len(pools)].first <= vai
    BY <1>1, <1>2
  <2>. HIDE DEF n, first, some
  <2>3. PagesOfPools(pools, todo - 1) = PagesOfPools(pools, todo) \cup {vai}
    BY <2>2, GrowPages
  <2>. QED BY <2>1, <2>3
<1>6. first' = first /\ Paging /\ Paging'
  BY DEF Paging
<1>. HIDE DEF first, some
<1>7. \A k \in 1 .. n :
        /\ pools[k].first >= first
        /\ k < n \/ todo' = 0 =>
             /\ pools[k].first + pools[k].pages < vai'
             /\ pools[k].first + pools[k].pages \notin PoolPages'
  <2>. SUFFICES ASSUME NEW k \in 1 .. n, k < n \/ todo' = 0
                PROVE  /\ pools[k].first + pools[k].pages < vai'
                       /\ pools[k].first + pools[k].pages \notin PoolPages'
    BY <1>3
  <2>1. CASE k < n
    BY <1>1, <1>2, <1>3, <1>4, <1>5, <2>1
  <2>2. CASE ~ (k < n)
    <3>1. k = n /\ todo = 1
      BY <1>1, <1>2, <2>2
    <3>2. pools[k].first + pools[k].pages = vai + 1
      <4>. DEFINE f == pools[n].first
                  s == pools[n].pages
      <4>1. f \in Nat /\ s \in Nat /\ f + s - todo = vai
        BY <1>1, <1>2
      <4>. HIDE DEF f, s
      <4>2. f + s = vai + 1
        BY <1>2, <3>1, <4>1
      <4>. QED BY <3>1, <4>2 DEF f, s
    <3>. QED BY <1>2, <1>4, <1>5, <3>1, <3>2
  <2>. QED BY <2>1, <2>2
<1>8. todo' > 0 =>
        pools[n].first <= vai' /\ pools[n].first + pools[n].pages - todo' = vai'
  <2>. DEFINE f == pools[n].first
              s == pools[n].pages
  <2>1. f \in Nat /\ s \in Nat /\ f <= vai /\ f + s - todo = vai
    BY <1>1, <1>2
  <2>. HIDE DEF f, s
  <2>2. todo' > 0 => f <= vai' /\ f + s - todo' = vai'
    BY <1>2, <1>4, <2>1
  <2>. QED BY <2>2 DEF f, s
<1>9. /\ vai' + (IF todo' > 0 THEN todo' + 1 ELSE 0) <= first + some
      /\ PoolPages' \subseteq first .. vai' - 1
  BY <1>2, <1>4, <1>5
<1>10. PoolsInv'
  BY <1>1, <1>6, <1>7, <1>8, <1>9 DEF PoolsInv, Most, first, some
<1>. QED BY <1>5, <1>10

\* What memoryInit has mapped to itself goes astray only when pools have grown
\* over it.
LEMMA AstrayPage ==
  ASSUME IInv, Paging,
         NEW v \in Held(layout) \cup BitmapPages, Translate(v) # v
  PROVE  v \in FirstPoolPage(layout) .. vai - 1
<1>1. v \in Range(OwnRun) /\ v \in InPlay
  BY HeldFacts, InPlayFacts DEF IInv, PhaseInv, OwnRun, InPlay, BitmapPages
<1>2. Identity = Range(OwnRun)
  BY DEF Paging, Identity
<1>3. v \in PoolPages
  BY <1>1, <1>2 DEF IInv, MappingInv
<1>. QED BY <1>3 DEF IInv, PoolsInv

LEMMA PoolPageStep ==
  ASSUME RoomForAll, IInv, PoolPage
  PROVE  IInv'
<1>. USE DEF IInv
<1>1. /\ phase = "running" /\ todo > 0 /\ layout' = layout /\ pools' = pools
      /\ \/ /\ A!GetPage
            /\ \/ ~halted' /\ \E p \in taken' \ taken : MapPoolPage(p)
               \/ halted' /\ UNCHANGED <<mem, pdi, vai, todo, phase>>
         \/ Astray(AlwaysUsed) # {} /\ Lost /\ UNCHANGED allocator
  BY Zenon DEF PoolPage
<1>2. memMap' = memMap /\ initialized' = initialized
  <2>1. A!GetPage \/ UNCHANGED allocator
    BY <1>1
  <2>. QED BY <1>1, <2>1, TakenPage DEF allocator
<1>3. /\ memMap \in Maps /\ layout \in Layouts /\ todo \in Nat /\ vai \in Nat
      /\ initialized = TRUE /\ vai >= FirstPoolPage(layout)
      /\ FirstPoolPage(layout) \in Nat
  BY <1>1, InPlayFacts DEF PhaseInv, Paging
<1>4. InPlay' = InPlay /\ OwnRun' = OwnRun /\ FirstPoolPage(layout)' = FirstPoolPage(layout)
  BY <1>1, <1>2, SameInPlay
<1>5. PoolPages \subseteq InPlay /\ vai \in InPlay /\ vai \notin PoolPages
  BY <1>1, VaiInPlay
<1>6. ASSUME UNCHANGED <<mem, pdi, vai, todo>>, phase' \in {"running", "lost"}, taken \subseteq taken',
             MarksInv', LostOnlyWhenFull'
      PROVE  IInv'
  <2>1. PoolPages' = PoolPages /\ Identity' = Identity
    BY <1>1, <1>4, <1>6, PoolPagesIs DEF IdentityAt
  <2>2. PhaseInv'
    BY <1>1, <1>2, <1>3, <1>4, <1>6 DEF PhaseInv, Paging
  <2>3. MarksInv'
    BY <1>6
  <2>4. TablesInv'
    BY <1>4, <1>6 DEF TablesInv
  <2>5. PoolsInv'
    <3>1. Paging /\ Paging'
      BY <1>1, <1>6 DEF Paging
    <3>. QED BY <1>1, <1>4, <1>6, <2>1, <3>1 DEF PoolsInv
  <2>6. MappingInv'
    BY <1>4, <1>6, <2>1 DEF MappingInv, Translate
  <2>. QED BY <1>6, <2>2, <2>3, <2>4, <2>5, <2>6
<1>7. CASE A!GetPage /\ halted' /\ UNCHANGED <<mem, pdi, vai, todo, phase>>
  <2>1. taken \subseteq taken' /\ MarksInv'
    BY <1>1, <1>7, TakenPage, MarksAfterGetPage
  <2>2. LostOnlyWhenFull'
    BY <1>1, <1>7 DEF LostOnlyWhenFull
  <2>. QED BY <1>1, <1>6, <1>7, <2>1, <2>2
\* An access goes astray only when the pools are in the way.
<1>8. ASSUME phase' = "lost", UNCHANGED <<mem, pdi, vai, todo>>,
             NEW v \in Held(layout) \cup BitmapPages, Translate(v) # v
      PROVE  LostOnlyWhenFull'
  <2>1. Held(layout)' = Held(layout) /\ BitmapPages' = BitmapPages
    BY <1>1, <1>2 DEF BitmapPages
  <2>2. v \in FirstPoolPage(layout) .. vai - 1
    BY <1>1, <1>8, AstrayPage DEF Paging
  <2>3. v \in (Held(layout) \cup BitmapPages)' /\ v \in (FirstPoolPage(layout) .. vai - 1)'
    BY <1>4, <1>8, <2>1, <2>2
  <2>. QED BY <2>3, Zenon DEF LostOnlyWhenFull
<1>9. CASE Astray(AlwaysUsed) # {} /\ Lost /\ UNCHANGED allocator
  <2>1. phase' = "lost" /\ UNCHANGED <<mem, pdi, vai, todo, al, taken>>
    BY <1>9 DEF Lost, allocator
  <2>2. PICK v \in AlwaysUsed : Translate(v) # v
    BY <1>9 DEF Astray
  <2>3. v \in Held(layout) \cup BitmapPages
    BY <2>2 DEF AlwaysUsed, Held
  <2>4. LostOnlyWhenFull'
    BY <1>8, <2>1, <2>2, <2>3
  <2>5. MarksInv'
    <3>1. A!Addressable(al)' = A!Addressable(al) /\ Held(layout)' = Held(layout)
      BY <1>1, <2>1 DEF A!Addressable
    <3>. QED BY <1>1, <2>1, <3>1 DEF MarksInv
  <2>. QED BY <1>6, <2>1, <2>4, <2>5
<1>10. CASE A!GetPage /\ ~halted' /\ \E p \in taken' \ taken : MapPoolPage(p)
  <2>1. PICK p \in taken' \ taken : MapPoolPage(p)
    BY <1>10
  <2>2. /\ p \in 0 .. MemPages + 6 /\ p \notin taken /\ taken' = taken \cup {p}
        /\ p \in 0 .. FrameMod - 1
    <3>1. PICK q \in 0 .. MemPages + 6 : q \notin taken /\ taken' = taken \cup {q}
      BY <1>1, <1>10, TakenPage
    <3>2. p = q
      BY <3>1, <2>1
    <3>. QED BY <3>1, <3>2, PagesAssumption, SizesAssumption, TablesAssumption
  <2>. DEFINE after == MapPage([mem |-> mem, pdi |-> pdi], vai, p)
              walk == TablesTo(after.mem, vai)
  <2>3. \/ /\ mem' = after.mem /\ pdi' = after.pdi
           /\ vai' = NextVai /\ todo' = todo - 1 /\ phase' = phase
        \/ /\ Astray(walk) # {}
           /\ phase' = "lost" /\ UNCHANGED <<mem, pdi, vai, todo>>
    BY <2>1, Zenon DEF MapPoolPage, Lost
  <2>4. /\ Tree(InPlay, after.mem, after.pdi)
        /\ \A i \in Indices : after.mem[DirBase][i] # Junk
        /\ TranslateIn(after.mem, vai) = p
        /\ \A w \in InPlay \ {vai} : TranslateIn(after.mem, w) = Translate(w)
    BY <1>3, <1>5, <2>2, MapInPlay
  <2>5. CASE phase' = "lost" /\ UNCHANGED <<mem, pdi, vai, todo>> /\ Astray(walk) # {}
    <3>1. MapPage([mem |-> mem, pdi |-> pdi], vai, 0).pdi = after.pdi
      BY DEF MapPage
    <3>2. pdi \in Nat /\ after.pdi \in Nat
      BY <2>4 DEF TablesInv, Tree, Shape
    <3>3. PICK t \in walk : Translate(t) # t
      BY <2>5 DEF Astray
    <3>4. Pageable(InPlay)
      BY <1>3, InPlayFacts DEF InPlay
    <3>. HIDE DEF after
    <3>5. t \in DirBase .. DirBase + after.pdi
      <4>1. TranslateIn(after.mem, vai) # Absent
        BY <2>2, <2>4 DEF Absent
      <4>. QED BY <1>5, <2>4, <3>3, <3>4, <4>1, TablesOnTheWay
    <3>6. ASSUME after.pdi >= DirSize
          PROVE  LostOnlyWhenFull'
      <4>1. MapPage([mem |-> mem, pdi |-> pdi], vai, 0)' = MapPage([mem |-> mem, pdi |-> pdi], vai, 0)
        BY <2>5
      <4>2. (MapPage([mem |-> mem, pdi |-> pdi], vai, 0).pdi >= DirSize)'
        BY <3>1, <3>6, <4>1
      <4>. QED BY <4>2, Zenon DEF LostOnlyWhenFull
    <3>7. ASSUME after.pdi < DirSize
          PROVE  LostOnlyWhenFull'
      <4>1. t \in DirBase .. DirBase + DirSize - 1
        BY <3>2, <3>5, <3>7, TablesAssumption
      <4>2. t \in Held(layout) \cup BitmapPages
        BY <1>3, <4>1, HeldFacts
      <4>. QED BY <1>8, <2>5, <3>3, <4>2, Zenon
    <3>8. LostOnlyWhenFull'
      BY <3>2, <3>6, <3>7, TablesAssumption
    <3>9. MarksInv'
      BY <1>1, <1>10, <2>5, MarksAfterGetPage
    <3>. QED BY <1>6, <2>2, <2>5, <3>8, <3>9
  <2>6. CASE /\ mem' = after.mem /\ pdi' = after.pdi
             /\ vai' = NextVai /\ todo' = todo - 1 /\ phase' = phase
    <3>. HIDE DEF after
    <3>1. mem' = after.mem /\ pdi' = after.pdi /\ vai' = NextVai /\ todo' = todo - 1
      BY <2>6
    <3>2. MarksInv'
      BY <1>1, <1>10, <2>6, MarksAfterGetPage
    <3>3. PoolsInv' /\ PoolPages' = PoolPages \cup {vai}
      BY <1>1, <1>2, <2>6, <3>1, PoolGrows
    <3>4. Identity' = Identity
      BY <1>1, <1>4, <2>6 DEF Identity
    <3>5. PhaseInv'
      BY <1>1, <1>2, <1>3, <1>4, <2>6, <3>1 DEF PhaseInv, Paging, NextVai
    <3>6. TablesInv'
      BY <1>4, <2>4, <3>1 DEF TablesInv
    <3>7. MappingInv'
      <4>1. \A w \in InPlay : Translate(w)' = TranslateIn(after.mem, w)
        BY <3>1 DEF Translate
      <4>2. /\ \A w \in PoolPages : Translate(w) \in taken
            /\ \A u, w \in PoolPages : u # w => Translate(u) # Translate(w)
            /\ \A w \in InPlay \ PoolPages : Translate(w) = IF w \in Identity THEN w ELSE Absent
        BY DEF MappingInv
      <4>3. \A w \in PoolPages : TranslateIn(after.mem, w) = Translate(w)
        BY <1>5, <2>4
      <4>4. \A w \in PoolPages' : Translate(w)' \in taken'
        BY <1>5, <2>2, <2>4, <3>3, <4>1, <4>2, <4>3
      <4>5. ASSUME NEW u \in PoolPages', NEW w \in PoolPages', u # w
            PROVE  Translate(u)' # Translate(w)'
        <5>1. Translate(u)' = TranslateIn(after.mem, u) /\ Translate(w)' = TranslateIn(after.mem, w)
          BY <1>5, <3>3, <4>1
        <5>2. CASE u \in PoolPages /\ w \in PoolPages
          BY <4>2, <4>3, <4>5, <5>1, <5>2
        <5>3. CASE u = vai
          BY <2>2, <2>4, <3>3, <4>2, <4>3, <4>5, <5>1, <5>3
        <5>4. CASE w = vai
          BY <2>2, <2>4, <3>3, <4>2, <4>3, <4>5, <5>1, <5>4
        <5>. QED BY <3>3, <5>2, <5>3, <5>4
      <4>6. \A w \in InPlay \ PoolPages' : Translate(w)' = IF w \in Identity THEN w ELSE Absent
        BY <2>4, <3>3, <4>1, <4>2
      <4>. QED BY <1>4, <3>4, <4>4, <4>5, <4>6 DEF MappingInv
    <3>8. LostOnlyWhenFull'
      BY <1>1, <2>6 DEF LostOnlyWhenFull
    <3>. QED BY <3>2, <3>3, <3>5, <3>6, <3>7, <3>8
  <2>. QED BY <2>3, <2>5, <2>6
<1>. QED BY <1>1, <1>7, <1>10, <1>9

LEMMA NextInv ==
  ASSUME RoomForAll, IInv, [Next]_vars
  PROVE  IInv'
<1>1. CASE UNCHANGED vars
  <2>1. /\ UNCHANGED <<memMap, initialized, al, taken, mem, pdi, layout, phase, vai, todo, pools>>
    BY <1>1 DEF vars, allocator, tables, pooling
  <2>2. InPlay' = InPlay /\ OwnRun' = OwnRun /\ PoolPages' = PoolPages /\ Identity' = Identity
    BY <2>1, SameInPlay, PoolPagesIs
  <2>3. PhaseInv'
    BY <2>1, <2>2 DEF IInv, PhaseInv, Paging
  <2>4. MarksInv'
    <3>1. A!Addressable(al)' = A!Addressable(al) /\ Held(layout)' = Held(layout)
      BY <2>1 DEF A!Addressable
    <3>. QED BY <2>1, <3>1 DEF IInv, MarksInv
  <2>5. TablesInv'
    BY <2>1, <2>2 DEF IInv, TablesInv
  <2>6. PoolsInv'
    BY <2>1, <2>2 DEF IInv, PoolsInv, Paging
  <2>7. MappingInv'
    BY <2>1, <2>2 DEF IInv, MappingInv, Translate
  <2>8. LostOnlyWhenFull'
    BY <2>1 DEF IInv, LostOnlyWhenFull, BitmapPages
  <2>. QED BY <2>3, <2>4, <2>5, <2>6, <2>7, <2>8 DEF IInv
<1>. QED BY <1>1, ReadMapStep, LockOwnStep, MapOwnStep, PoolPageStep, BeginPoolStep DEF Next

-------------------------------------------------------------------------------
(* Theorems.                                                               *)

\* Marks, tables, pools and translations stay in step whatever pools are asked
\* for; a page in play that is neither a pool's nor memoryInit's is not mapped.
THEOREM MemoryConsistent ==
  ASSUME RoomForAll
  PROVE  Spec => []IInv
<1>1. Init => IInv
  BY InitInv
<1>2. IInv /\ [Next]_vars => IInv'
  BY NextInv
<1>. QED BY <1>1, <1>2, PTL DEF Spec

\* What getPool hands out is backed, page by page, by frames that getPage
\* returned, each backing one page only, and none of which memoryInit locked.
THEOREM PoolFramesDistinct ==
  ASSUME RoomForAll
  PROVE  Spec => []PoolsOwnTheirFrames
<1>1. IInv => PoolsOwnTheirFrames
  BY DEF IInv, MarksInv, MappingInv, PoolsOwnTheirFrames
<1>. QED BY <1>1, MemoryConsistent, PTL

\* The kernel, its stack, the directory, the framebuffer and the bitmap stay
\* mapped to themselves, but for what the pools have grown over.
THEOREM IdentityStays ==
  ASSUME RoomForAll
  PROVE  Spec => []IdentityKept
<1>1. IInv => IdentityKept
  BY AstrayPage DEF IdentityKept
<1>. QED BY <1>1, MemoryConsistent, PTL

\* Running over the end of a pool faults, wherever the pool is, unless the page
\* there is one of those that memoryInit mapped to themselves.
THEOREM PoolsGuarded ==
  ASSUME RoomForAll
  PROVE  Spec => []GuardPages
<1>1. IInv => GuardPages
  <2>. SUFFICES ASSUME IInv, NEW k \in DOMAIN pools, k = Len(pools) => todo = 0
                PROVE  LET behind == pools[k].first + pools[k].pages
                       IN  \/ Translate(behind) = Absent
                           \/ behind \in Range(IdentityPages(layout, memMap))
    BY DEF GuardPages
  <2>. DEFINE behind == pools[k].first + pools[k].pages
  <2>1. /\ pools \in Seq(Pool) /\ DOMAIN pools = 1 .. Len(pools) /\ Len(pools) \in Nat
        /\ pools[k].first \in Nat /\ pools[k].pages \in Nat
    BY PoolFacts DEF IInv, PoolsInv
  <2>2. k \in 1 .. Len(pools) /\ (k < Len(pools) \/ todo = 0)
    BY <2>1
  <2>3. /\ pools[k].first >= FirstPoolPage(layout) /\ behind < vai /\ behind \notin PoolPages
    BY <2>2 DEF IInv, PoolsInv
  <2>4. Paging
    BY <2>1, <2>2 DEF IInv, PoolsInv
  <2>5. behind \in InPlay
    <3>. DEFINE first == FirstPoolPage(layout)
                all == MaxPools * Most
                some == Len(pools) * Most
    <3>1. first \in Nat /\ first .. first + all \subseteq InPlay
      BY InPlayFacts DEF IInv, PhaseInv, InPlay, Most
    <3>2. Len(pools) \in 0 .. MaxPools
      BY <2>1, MostFacts DEF IInv, PoolsInv
    <3>3. all \in Nat /\ some \in Nat /\ some <= all
      BY <3>2, MostFacts
    <3>4. vai + (IF todo > 0 THEN todo + 1 ELSE 0) <= first + some /\ vai \in Nat /\ todo \in Nat
      BY <2>4 DEF IInv, PhaseInv, PoolsInv, Most
    <3>5. behind \in Nat /\ first <= behind
      BY <2>1, <2>3, <3>1
    <3>. HIDE DEF behind, first, all, some
    <3>6. behind < vai
      BY <2>3 DEF behind
    <3>7. behind \in first .. first + all
      BY <3>1, <3>3, <3>4, <3>5, <3>6
    <3>. QED BY <3>1, <3>7
  <2>6. Translate(behind) = Absent \/ behind \in Identity
    BY <2>3, <2>5 DEF IInv, MappingInv
  <2>7. Identity = Range(IdentityPages(layout, memMap))
    BY <2>4 DEF Paging, Identity, OwnRun
  <2>. QED BY <2>6, <2>7
<1>. QED BY <1>1, MemoryConsistent, PTL

\* getPool loses sight of a table, of the bitmap, its code or its stack only when
\* the directory has no page left, or when pools have been mapped over what the
\* kernel was started with, or over the bitmap.
THEOREM TablesReachable ==
  ASSUME RoomForAll
  PROVE  Spec => []LostOnlyWhenFull
<1>1. IInv => LostOnlyWhenFull
  BY DEF IInv
<1>. QED BY <1>1, MemoryConsistent, PTL
===============================================================================
