-------------------------- MODULE PageAllocatorProofs --------------------------
(***************************************************************************)
(* Proofs about PageAllocator: its invariants and the laws of its counters *)
(* hold for every set of memory maps, every page size and every set of     *)
(* calls, and it implements PagePool.                                      *)
(***************************************************************************)
EXTENDS PageAllocator, FiniteSetTheorems, WellFoundedInduction, TLAPS

-------------------------------------------------------------------------------
(* Lemmas about the operators of the model.                                *)

\* Least, the minimum of a set of page numbers, is one of them and at most
\* each of them: the page that getPage's scan meets first.
LEMMA LeastIsMinimum ==
  ASSUME NEW S, S \subseteq Nat, S # {}
  PROVE  /\ Least(S) \in S
         /\ \A y \in S : Least(S) <= y
<1>. DEFINE R == {ss \in Nat \X Nat : ss[1] < ss[2]}
<1>1. IsWellFoundedOn(R, Nat)
  BY NatLessThanWellFounded, Zenon DEF OpToRel
<1>2. PICK x \in S : \A y \in S : ~ (<<y, x>> \in R)
  <2>. HIDE DEF R
  <2>. QED
    BY <1>1, WFMin, Zenon
<1>3. \A y \in S : x <= y
  <2>. SUFFICES ASSUME NEW y \in S PROVE x <= y
    OBVIOUS
  <2>1. ~ (<<y, x>> \in R)
    BY <1>2
  <2>. QED
    BY <2>1
<1>. QED
  BY <1>3 DEF Least

\* The pages of a map are finitely many page numbers, as many as MemSize, and
\* its conventional pages are among them.
LEMMA MapFacts ==
  ASSUME NEW m \in Maps
  PROVE  /\ MapPages(m) \subseteq 0 .. PhysPages - 1
         /\ ConventionalPages(m) \subseteq MapPages(m)
         /\ MemSize(m) \in 0 .. PhysPages
<1>1. \A i \in DOMAIN m : /\ m[i] \in Descriptor
                          /\ m[i].start + m[i].pages <= PhysPages
  BY MapsAssumption
<1>2. \A i \in DOMAIN m : PagesOf(m[i]) \subseteq 0 .. PhysPages - 1
  BY <1>1, SizesAssumption DEF PagesOf, Descriptor
<1>3. MapPages(m) \subseteq 0 .. PhysPages - 1
  BY <1>2 DEF MapPages
<1>4. ConventionalPages(m) \subseteq MapPages(m)
  BY DEF ConventionalPages, MapPages
<1>5. /\ IsFiniteSet(0 .. PhysPages - 1)
      /\ Cardinality(0 .. PhysPages - 1) = PhysPages
  BY FS_Interval, SizesAssumption
<1>6. Cardinality(MapPages(m)) <= PhysPages /\ IsFiniteSet(MapPages(m))
  BY <1>3, <1>5, FS_Subset
<1>7. Cardinality(MapPages(m)) \in Nat
  BY <1>6, FS_CardinalityType
<1>. QED
  BY <1>3, <1>4, <1>6, <1>7, SizesAssumption DEF MemSize

\* The bitmap has a bit for every page up to MemSize, and at most eight more.
LEMMA BitmapFacts ==
  ASSUME NEW m \in Maps
  PROVE  /\ BitmapSize(m) \in Nat
         /\ MemSize(m) < BitmapSize(m) * 8
         /\ BitmapSize(m) * 8 <= MemSize(m) + 8
<1>. DEFINE n == MemSize(m)
<1>1. n \in Nat
  BY MapFacts, SizesAssumption
<1>2. /\ n \div 8 \in Nat
      /\ n < (n \div 8 + 1) * 8
      /\ (n \div 8 + 1) * 8 <= n + 8
  BY <1>1
<1>. QED
  BY <1>2 DEF BitmapSize

\* The counters stay below Wrap.
LEMMA CounterFacts ==
  ASSUME NEW c \in Nat, NEW k \in Nat, c < Wrap, k < Wrap
  PROVE  /\ Plus(c, k) \in Nat /\ Plus(c, k) < Wrap
         /\ Minus(c, k) \in Nat /\ Minus(c, k) < Wrap
BY SizesAssumption DEF Plus, Minus

-------------------------------------------------------------------------------
(* What one operation on the allocator's record does.                      *)

\* An allocator whose bitmap was sized for a map of the machine.
Sized(a) == WellFormed(a) /\ a.size * 8 <= PhysPages + 8

\* Sets of pages that the bitmap has bits for are finite, and smaller than Wrap.
LEMMA PageSets ==
  ASSUME NEW a, Sized(a), NEW T, T \subseteq Addressable(a)
  PROVE  IsFiniteSet(T) /\ Cardinality(T) \in Nat /\ Cardinality(T) <= PhysPages + 9
<1>. DEFINE top == a.size * 8
<1>1. top \in Nat /\ top <= PhysPages + 8
  BY DEF Sized, WellFormed, Allocator
<1>. HIDE DEF top
<1>2. /\ IsFiniteSet(0 .. top)
      /\ Cardinality(0 .. top) = IF 0 > top THEN 0 ELSE top - 0 + 1
  BY <1>1, FS_Interval
<1>3. IsFiniteSet(0 .. top) /\ Cardinality(0 .. top) = top + 1
  BY <1>1, <1>2
<1>4. T \subseteq 0 .. top
  BY DEF Addressable, top
<1>5. IsFiniteSet(T) /\ Cardinality(T) <= top + 1
  BY <1>3, <1>4, FS_Subset
<1>6. Cardinality(T) \in Nat
  BY <1>5, FS_CardinalityType
<1>. QED
  BY <1>1, <1>5, <1>6, SizesAssumption

\* The pages that an operation marks, and the number of marks afterwards.
LEMMA ClearFacts ==
  ASSUME NEW a, Sized(a), NEW S
  PROVE  /\ Clear(a, S) \subseteq Addressable(a)
         /\ Cardinality(Clear(a, S)) \in Nat
         /\ Cardinality(Clear(a, S)) < Wrap
         /\ Cardinality(a.bits \cup Clear(a, S))
              = Cardinality(a.bits) + Cardinality(Clear(a, S))
<1>. DEFINE C == Clear(a, S)
            B == a.bits
<1>1. B \subseteq Addressable(a)
  BY DEF Sized, WellFormed
<1>2. C \subseteq Addressable(a) /\ B \cap C = {}
  BY DEF Clear
<1>. HIDE DEF C, B
<1>3. /\ IsFiniteSet(C) /\ Cardinality(C) \in Nat /\ Cardinality(C) <= PhysPages + 9
      /\ IsFiniteSet(B) /\ Cardinality(B) \in Nat
  BY <1>1, <1>2, PageSets
<1>4. Cardinality(C) < Wrap
  BY <1>3, SizesAssumption
<1>5. Cardinality(B \cup C)
        = Cardinality(B) + Cardinality(C) - Cardinality(B \cap C)
  BY <1>3, FS_Union
<1>6. Cardinality(B \cup C) = Cardinality(B) + Cardinality(C)
  BY <1>2, <1>3, <1>5, FS_EmptySet
<1>. QED
  BY <1>2, <1>3, <1>4, <1>6 DEF C, B

\* The pages whose mark an operation removes, and the number of marks left.
LEMMA MarkedFacts ==
  ASSUME NEW a, Sized(a), NEW S
  PROVE  /\ Marked(a, S) \subseteq Addressable(a)
         /\ Cardinality(Marked(a, S)) \in Nat
         /\ Cardinality(Marked(a, S)) < Wrap
         /\ Cardinality(a.bits \ Marked(a, S))
              = Cardinality(a.bits) - Cardinality(Marked(a, S))
<1>. DEFINE M == Marked(a, S)
            B == a.bits
<1>1. B \subseteq Addressable(a)
  BY DEF Sized, WellFormed
<1>2. M \subseteq Addressable(a) /\ B \cap M = M
  BY DEF Marked
<1>. HIDE DEF M, B
<1>3. /\ IsFiniteSet(B)
      /\ Cardinality(M) \in Nat /\ Cardinality(M) <= PhysPages + 9
  BY <1>1, <1>2, PageSets
<1>4. Cardinality(M) < Wrap
  BY <1>3, SizesAssumption
<1>5. Cardinality(B \ M) = Cardinality(B) - Cardinality(M)
  BY <1>2, <1>3, FS_Difference
<1>. QED
  BY <1>2, <1>3, <1>4, <1>5 DEF M, B

\* lock and locks: the marks of S are added, the hint stays.
LEMMA LockFacts ==
  ASSUME NEW a, Sized(a), NEW S
  PROVE  /\ Sized(Lock(a, S))
         /\ Lock(a, S).size = a.size
         /\ Lock(a, S).bits = a.bits \cup Clear(a, S)
         /\ Lock(a, S).pageI = a.pageI
<1>1. Cardinality(Clear(a, S)) \in Nat /\ Cardinality(Clear(a, S)) < Wrap
  BY ClearFacts
<1>2. /\ Minus(a.freeMem, Cardinality(Clear(a, S))) \in Nat
      /\ Minus(a.freeMem, Cardinality(Clear(a, S))) < Wrap
      /\ Plus(a.usedMem, Cardinality(Clear(a, S))) \in Nat
      /\ Plus(a.usedMem, Cardinality(Clear(a, S))) < Wrap
  BY <1>1, CounterFacts DEF Sized, WellFormed, Allocator
<1>3. Clear(a, S) \subseteq Addressable(a)
  BY ClearFacts
<1>. QED
  BY <1>2, <1>3 DEF Lock, Sized, WellFormed, Allocator, Addressable

\* reserve and reserves: as lock, but for the counters.
LEMMA ReserveFacts ==
  ASSUME NEW a, Sized(a), NEW S
  PROVE  /\ Sized(Reserve(a, S))
         /\ Reserve(a, S).size = a.size
         /\ Reserve(a, S).bits = a.bits \cup Clear(a, S)
         /\ Reserve(a, S).pageI = a.pageI
<1>1. Cardinality(Clear(a, S)) \in Nat /\ Cardinality(Clear(a, S)) < Wrap
  BY ClearFacts
<1>2. /\ Minus(a.freeMem, Cardinality(Clear(a, S))) \in Nat
      /\ Minus(a.freeMem, Cardinality(Clear(a, S))) < Wrap
      /\ Plus(a.reservedMem, Cardinality(Clear(a, S))) \in Nat
      /\ Plus(a.reservedMem, Cardinality(Clear(a, S))) < Wrap
  BY <1>1, CounterFacts DEF Sized, WellFormed, Allocator
<1>3. Clear(a, S) \subseteq Addressable(a)
  BY ClearFacts
<1>. QED
  BY <1>2, <1>3 DEF Reserve, Sized, WellFormed, Allocator, Addressable

\* The hint that free and release leave: at most the old one, and at most
\* every page whose mark they removed.
LEMMA LoweredHint ==
  ASSUME NEW a, Sized(a), NEW S
  PROVE  /\ Least({a.pageI} \cup Marked(a, S)) \in Nat
         /\ Least({a.pageI} \cup Marked(a, S)) <= a.pageI
         /\ \A p \in Marked(a, S) : Least({a.pageI} \cup Marked(a, S)) <= p
<1>1. a.pageI \in Nat /\ a.size \in Nat
  BY DEF Sized, WellFormed, Allocator
<1>2. Marked(a, S) \subseteq Nat
  BY <1>1 DEF Marked, Addressable
<1>. DEFINE H == {a.pageI} \cup Marked(a, S)
<1>3. H \subseteq Nat /\ H # {}
  BY <1>1, <1>2
<1>4. Least(H) \in H /\ \A y \in H : Least(H) <= y
  <2>. HIDE DEF H
  <2>. QED
    BY <1>3, LeastIsMinimum
<1>. QED
  BY <1>3, <1>4

\* free and frees: the marks of S are removed, and the hint is lowered.
LEMMA FreeFacts ==
  ASSUME NEW a, Sized(a), NEW S
  PROVE  /\ Sized(Free(a, S))
         /\ Free(a, S).size = a.size
         /\ Free(a, S).bits = a.bits \ Marked(a, S)
         /\ Free(a, S).pageI <= a.pageI
         /\ \A p \in Marked(a, S) : Free(a, S).pageI <= p
<1>1. Cardinality(Marked(a, S)) \in Nat /\ Cardinality(Marked(a, S)) < Wrap
  BY MarkedFacts
<1>2. /\ Plus(a.freeMem, Cardinality(Marked(a, S))) \in Nat
      /\ Plus(a.freeMem, Cardinality(Marked(a, S))) < Wrap
      /\ Minus(a.usedMem, Cardinality(Marked(a, S))) \in Nat
      /\ Minus(a.usedMem, Cardinality(Marked(a, S))) < Wrap
  BY <1>1, CounterFacts DEF Sized, WellFormed, Allocator
<1>. QED
  BY <1>2, LoweredHint DEF Free, Sized, WellFormed, Allocator, Addressable

\* release and releases: as free, but for the counters.
LEMMA ReleaseFacts ==
  ASSUME NEW a, Sized(a), NEW S
  PROVE  /\ Sized(Release(a, S))
         /\ Release(a, S).size = a.size
         /\ Release(a, S).bits = a.bits \ Marked(a, S)
         /\ Release(a, S).pageI <= a.pageI
         /\ \A p \in Marked(a, S) : Release(a, S).pageI <= p
<1>1. Cardinality(Marked(a, S)) \in Nat /\ Cardinality(Marked(a, S)) < Wrap
  BY MarkedFacts
<1>2. /\ Plus(a.freeMem, Cardinality(Marked(a, S))) \in Nat
      /\ Plus(a.freeMem, Cardinality(Marked(a, S))) < Wrap
      /\ Minus(a.reservedMem, Cardinality(Marked(a, S))) \in Nat
      /\ Minus(a.reservedMem, Cardinality(Marked(a, S))) < Wrap
  BY <1>1, CounterFacts DEF Sized, WellFormed, Allocator
<1>. QED
  BY <1>2, LoweredHint DEF Release, Sized, WellFormed, Allocator, Addressable

-------------------------------------------------------------------------------
(* The inductive invariant.                                                *)

\* The loops get to page numbers only; and from page 0 on to all that they
\* should up to the wrap.
LEMMA ReachFacts ==
  /\ \A start, count : Reach(start, count) \subseteq Nat
  /\ \A count \in Nat : 0 .. Lesser(count, IntPages) - 1 \subseteq Reach(0, count)
<1>1. \A start, count : Reach(start, count) \subseteq Nat
  BY Zenon DEF Reach
<1>2. ASSUME NEW count \in Nat
      PROVE  0 .. Lesser(count, IntPages) - 1 \subseteq Reach(0, count)
  <2>1. Lesser(count, IntPages) \in Nat
    BY <1>2, SizesAssumption DEF Lesser
  <2>2. 0 + Lesser(count, IntPages) - 1 = Lesser(count, IntPages) - 1
    BY <2>1
  <2>3. 0 .. Lesser(count, IntPages) - 1 \subseteq Nat
    BY <2>1
  <2>. QED
    BY <2>2, <2>3, Zenon DEF Reach
<1>. QED
  BY <1>1, <1>2

\* Where the reserve loop ends.
LEMMA ReserveEndFacts ==
  ASSUME NEW m \in Maps
  PROVE  /\ ReserveEnd(m) \in Nat /\ ReserveEnd(m) <= BitmapSize(m) * 8
         /\ 0 .. ReserveEnd(m) - 1 \subseteq Reach(0, MemSize(m) + 1)
<1>1. /\ MemSize(m) + 1 \in Nat /\ BitmapSize(m) * 8 \in Nat
      /\ MemSize(m) + 1 <= BitmapSize(m) * 8
  BY BitmapFacts, MapFacts
<1>2. ReserveEnd(m) = Lesser(MemSize(m) + 1, IntPages)
  BY DEF ReserveEnd
<1>3. ReserveEnd(m) \in Nat /\ ReserveEnd(m) <= MemSize(m) + 1
  BY <1>1, <1>2, SizesAssumption DEF Lesser
<1>. QED
  BY <1>1, <1>2, <1>3, ReachFacts

\* Under the invariant the operations act on an allocator of known size.
LEMMA SizedAllocator ==
  ASSUME IInv, initialized
  PROVE  /\ Sized(al)
         /\ MemSize(memMap) \in Nat
         /\ MemSize(memMap) < al.size * 8
         /\ al.size * 8 \in Nat
         /\ ReserveEnd(memMap) \in Nat /\ ReserveEnd(memMap) <= al.size * 8
<1>1. memMap \in Maps /\ WellFormed(al) /\ al.size = BitmapSize(memMap)
  BY DEF IInv, TypeOK, SizeInv
<1>. QED
  BY <1>1, BitmapFacts, MapFacts, ReserveEndFacts, SizesAssumption DEF Sized

\* readMap: the invariant holds when it returns.
LEMMA ReadMapStep ==
  ASSUME IInv, ReadMap
  PROVE  IInv'
<1>. DEFINE n == MemSize(memMap)
            size == BitmapSize(memMap)
            end == ReserveEnd(memMap)
            out == ReleasedPages(memMap)
            f == FreshAllocator
            b == BitmapLocked
            r == AllReserved
<1>1. memMap \in Maps /\ stray \in BOOLEAN /\ taken = {} /\ claimed = {}
      /\ halted \in BOOLEAN
  BY DEF IInv, TypeOK, SizeInv, ReadMap
<1>2. /\ size \in Nat /\ n \in Nat /\ n < Wrap
      /\ n < size * 8 /\ size * 8 <= PhysPages + 8 /\ size * 8 \in Nat
      /\ end \in Nat /\ end <= size * 8
      /\ 0 .. end - 1 \subseteq Reach(0, n + 1)
  BY <1>1, BitmapFacts, MapFacts, SizesAssumption, ReserveEndFacts
<1>3. /\ Sized(f) /\ f.size = size /\ f.pageI = 0
  BY <1>1, <1>2, SizesAssumption
  DEF FreshAllocator, Sized, WellFormed, Allocator, Addressable
<1>4. Sized(b) /\ b.size = size /\ b.pageI = 0
  BY <1>3, LockFacts DEF BitmapLocked
<1>5. /\ Sized(r) /\ r.size = size /\ r.pageI = 0
      /\ r.bits = b.bits \cup Clear(b, Reach(0, n + 1))
  BY <1>4, ReserveFacts DEF AllReserved
<1>6. 0 .. end - 1 \subseteq r.bits
  <2>1. 0 .. end - 1 \subseteq Addressable(b)
    BY <1>2, <1>4 DEF Addressable
  <2>. QED
    BY <1>2, <1>5, <2>1 DEF Clear
<1>7. /\ Sized(al') /\ al'.size = size /\ al'.pageI <= 0
      /\ al'.bits = r.bits \ Marked(r, out)
  BY <1>5, ReleaseFacts DEF ReadMap
<1>8. al'.pageI \in Nat /\ WellFormed(al')
  BY <1>7 DEF Sized, WellFormed, Allocator
<1>9. (0 .. end - 1) \ out \subseteq al'.bits
  BY <1>6, <1>7 DEF Marked
<1>10. /\ memMap' = memMap /\ stray' = stray /\ initialized' = TRUE
       /\ halted' = halted /\ taken' = {} /\ claimed' = {}
  BY <1>1 DEF ReadMap
<1>11. TypeOK'
  BY <1>1, <1>8, <1>10 DEF TypeOK
<1>12. SizeInv' /\ HintInv'
  BY <1>7, <1>8, <1>10 DEF SizeInv, HintInv
<1>13. HeldMarked' /\ ReservedInv' /\ OnlyConventional'
  BY <1>9, <1>10 DEF HeldMarked, ReservedInv, OnlyConventional
<1>. QED
  BY <1>11, <1>12, <1>13 DEF IInv

\* A page the scan finds is clear, is one the bitmap has a bit for, and every
\* page the scan passed over is marked.
LEMMA ScanFacts ==
  ASSUME NEW a, Sized(a), NEW i \in Nat, Candidates(a, i) # {}
  PROVE  /\ Least(Candidates(a, i)) \in Nat
         /\ Least(Candidates(a, i)) \notin a.bits
         /\ Least(Candidates(a, i)) <= a.size * 8 - 2
         /\ \A q \in i .. Least(Candidates(a, i)) - 1 : q \in a.bits
<1>. DEFINE C == Candidates(a, i)
<1>1. a.size \in Nat
  BY DEF Sized, WellFormed, Allocator
<1>2. C \subseteq Nat /\ C # {}
  BY <1>1 DEF Candidates
<1>3. Least(C) \in C /\ \A y \in C : Least(C) <= y
  <2>. HIDE DEF C
  <2>. QED
    BY <1>2, LeastIsMinimum
<1>4. ASSUME NEW q \in i .. Least(C) - 1
      PROVE  q \in a.bits
  <2>1. Least(C) \in i .. a.size * 8 - 2 /\ Least(C) \in Nat
    BY <1>2, <1>3 DEF Candidates
  <2>2. q \in i .. a.size * 8 - 2 /\ ~ (Least(C) <= q)
    BY <2>1, <1>1
  <2>3. q \notin C
    BY <2>2, <1>3
  <2>. QED
    BY <2>2, <2>3 DEF Candidates
<1>5. Least(C) \notin a.bits /\ Least(C) \in i .. a.size * 8 - 2
  BY <1>3 DEF Candidates
<1>. QED
  BY <1>1, <1>2, <1>3, <1>4, <1>5

\* getPage when the scan found page p, with every page below p marked.
LEMMA FoundStep ==
  ASSUME IInv, initialized, NEW p \in Nat, Found(p),
         p \notin al.bits, p <= al.size * 8 - 2,
         \A q \in 0 .. p - 1 : q \in al.bits,
         UNCHANGED <<memMap, stray, initialized, claimed>>
  PROVE  IInv'
<1>. DEFINE l == Lock(al, {p})
<1>1. /\ Sized(al) /\ ReserveEnd(memMap) \in Nat /\ al.size * 8 \in Nat
      /\ memMap \in Maps /\ al.size = BitmapSize(memMap)
  BY SizedAllocator DEF IInv, TypeOK, SizeInv
<1>2. Clear(al, {p}) = {p}
  <2>1. p \in Addressable(al)
    BY <1>1 DEF Addressable
  <2>. QED
    BY <2>1 DEF Clear
<1>3. Sized(l) /\ l.size = al.size /\ l.bits = al.bits \cup {p}
  <2>1. Sized(l) /\ l.size = al.size
    BY <1>1, LockFacts
  <2>2. l.bits = al.bits \cup Clear(al, {p})
    BY DEF Lock
  <2>. QED
    BY <1>2, <2>1, <2>2
<1>4. al' = [l EXCEPT !.pageI = p] /\ l \in Allocator
  BY <1>3 DEF Found, Sized, WellFormed
<1>5. /\ al'.size = al.size /\ al'.bits = al.bits \cup {p} /\ al'.pageI = p
      /\ WellFormed(al')
  BY <1>3, <1>4 DEF Sized, WellFormed, Allocator, Addressable
<1>6. taken' = taken \cup {p} /\ claimed' = claimed /\ halted' = halted
  BY DEF Found
<1>7. TypeOK'
  BY <1>5, <1>6 DEF IInv, TypeOK
<1>8. SizeInv' /\ HintInv'
  BY <1>5 DEF IInv, SizeInv, HintInv
<1>9. HeldMarked'
  BY <1>5, <1>6 DEF IInv, HeldMarked
<1>10. p < ReserveEnd(memMap) => p \in ReleasedPages(memMap)
  BY <1>1 DEF IInv, ReservedInv
<1>11. ReservedInv'
  BY <1>1, <1>5, <1>6, <1>10 DEF IInv, ReservedInv
<1>12. OnlyConventional'
  <2>1. CASE p < ReserveEnd(memMap)
    BY <2>1, <1>1, <1>5, <1>6, <1>10 DEF IInv, OnlyConventional, Misreleased
  <2>2. CASE ~ (p < ReserveEnd(memMap))
    BY <2>2, <1>1, <1>5, <1>6 DEF IInv, OnlyConventional
  <2>. QED
    BY <2>1, <2>2
<1>. QED
  BY <1>7, <1>8, <1>9, <1>11, <1>12 DEF IInv

\* getPage.
LEMMA GetPageStep ==
  ASSUME IInv, GetPage
  PROVE  IInv'
<1>1. /\ initialized /\ UNCHANGED <<memMap, stray, initialized, claimed>>
      /\ Sized(al) /\ al.size * 8 \in Nat /\ al.size * 8 > 0
      /\ MemSize(memMap) \in Nat
      /\ al.pageI \in Nat
  BY SizedAllocator DEF GetPage, Running, Sized, WellFormed, Allocator
<1>2. CASE Candidates(al, al.pageI) # {}
  <2>. DEFINE p == Least(Candidates(al, al.pageI))
  <2>1. Found(p)
    BY <1>2 DEF GetPage
  <2>2. /\ p \in Nat /\ p \notin al.bits /\ p <= al.size * 8 - 2
        /\ \A q \in al.pageI .. p - 1 : q \in al.bits
    BY <1>1, <1>2, ScanFacts
  <2>3. \A q \in 0 .. p - 1 : q \in al.bits
    <3>. SUFFICES ASSUME NEW q \in 0 .. p - 1 PROVE q \in al.bits
      OBVIOUS
    <3>1. q \in 0 .. al.pageI - 1 \/ q \in al.pageI .. p - 1
      BY <1>1, <2>2
    <3>. QED
      BY <3>1, <2>2, <1>1 DEF IInv, HintInv
  <2>. HIDE DEF p
  <2>. QED
    BY <1>1, <2>1, <2>2, <2>3, FoundStep
<1>3. CASE Candidates(al, al.pageI) = {} /\ Candidates(al, 0) # {}
  <2>. DEFINE p == Least(Candidates(al, 0))
  <2>1. Found(p)
    BY <1>3 DEF GetPage
  <2>2. /\ p \in Nat /\ p \notin al.bits /\ p <= al.size * 8 - 2
        /\ \A q \in 0 .. p - 1 : q \in al.bits
    BY <1>1, <1>3, ScanFacts
  <2>. HIDE DEF p
  <2>. QED
    BY <1>1, <2>1, <2>2, FoundStep
<1>4. CASE Candidates(al, al.pageI) = {} /\ Candidates(al, 0) = {}
  <2>1. OutOfRam
    BY <1>4 DEF GetPage
  <2>2. al \in Allocator /\ WellFormed(al)
    BY DEF IInv, TypeOK, WellFormed
  <2>3. /\ al'.size = al.size /\ al'.bits = al.bits
        /\ al'.pageI = al.size * 8 - 1 /\ WellFormed(al')
    BY <1>1, <2>1, <2>2 DEF OutOfRam, WellFormed, Allocator, Addressable
  <2>4. \A q \in 0 .. al'.pageI - 1 : q \in al'.bits
    BY <1>1, <1>4, <2>3 DEF Candidates
  <2>5. taken' = taken /\ halted' = TRUE
    BY <2>1 DEF OutOfRam
  <2>6. TypeOK'
    BY <1>1, <2>3, <2>5 DEF IInv, TypeOK
  <2>7. SizeInv' /\ HintInv'
    BY <1>1, <2>3, <2>4 DEF IInv, SizeInv, HintInv
  <2>8. HeldMarked' /\ ReservedInv' /\ OnlyConventional'
    BY <1>1, <2>3, <2>5 DEF IInv, HeldMarked, ReservedInv, OnlyConventional
  <2>. QED
    BY <2>6, <2>7, <2>8 DEF IInv
<1>. QED
  BY <1>2, <1>3, <1>4

\* lock and locks.
LEMMA LocksStep ==
  ASSUME IInv, NEW start \in Starts, NEW count \in Counts, Locks(start, count)
  PROVE  IInv'
<1>. DEFINE S == start .. start + count - 1
<1>1. /\ initialized /\ UNCHANGED <<memMap, stray, initialized, halted, taken>>
      /\ al' = Lock(al, S) /\ claimed' = claimed \cup Clear(al, S)
  BY DEF Locks, Running
<1>. HIDE DEF S
<1>2. /\ Sized(al) /\ ReserveEnd(memMap) \in Nat /\ al.size * 8 \in Nat
      /\ ReserveEnd(memMap) <= al.size * 8
  BY <1>1, SizedAllocator
<1>3. /\ WellFormed(al') /\ al'.size = al.size /\ al'.pageI = al.pageI
      /\ al'.bits = al.bits \cup Clear(al, S)
  BY <1>1, <1>2, LockFacts DEF Sized
<1>4. Clear(al, S) \cap al.bits = {} /\ Clear(al, S) \subseteq Nat
  BY <1>2 DEF Clear, Addressable
<1>5. TypeOK'
  BY <1>1, <1>3, <1>4 DEF IInv, TypeOK
<1>6. SizeInv' /\ HintInv'
  BY <1>1, <1>3 DEF IInv, SizeInv, HintInv
<1>7. HeldMarked'
  BY <1>1, <1>3, <1>4 DEF IInv, HeldMarked
<1>8. ReservedInv' /\ OnlyConventional'
  BY <1>1, <1>2, <1>3, <1>4 DEF IInv, ReservedInv, OnlyConventional
<1>. QED
  BY <1>5, <1>6, <1>7, <1>8 DEF IInv

\* free and frees.
LEMMA FreesStep ==
  ASSUME IInv, NEW start \in Starts, NEW count \in Counts, Frees(start, count)
  PROVE  IInv'
<1>. DEFINE S == Reach(start, count)
<1>1. /\ initialized /\ UNCHANGED <<memMap, stray, initialized, halted>>
      /\ Marked(al, S) \subseteq taken \cup claimed
      /\ al' = Free(al, S) /\ taken' = taken \ S /\ claimed' = claimed \ S
  BY DEF Frees, Running
<1>. HIDE DEF S
<1>2. /\ Sized(al) /\ ReserveEnd(memMap) \in Nat /\ al.size * 8 \in Nat
      /\ ReserveEnd(memMap) <= al.size * 8
  BY <1>1, SizedAllocator
<1>3. /\ WellFormed(al') /\ al'.size = al.size /\ al'.pageI <= al.pageI
      /\ al'.bits = al.bits \ Marked(al, S)
      /\ \A p \in Marked(al, S) : al'.pageI <= p
  BY <1>1, <1>2, FreeFacts DEF Sized
<1>4. Marked(al, S) \subseteq S /\ Marked(al, S) \subseteq Nat
  BY <1>2 DEF Marked, Addressable
<1>5. al'.pageI \in Nat /\ al.pageI \in Nat
  BY <1>2, <1>3 DEF Sized, WellFormed, Allocator
<1>6. TypeOK'
  BY <1>1, <1>3 DEF IInv, TypeOK
<1>7. SizeInv'
  BY <1>1, <1>3 DEF IInv, SizeInv
<1>8. HintInv'
  BY <1>1, <1>3, <1>4, <1>5 DEF IInv, HintInv
<1>9. HeldMarked'
  BY <1>1, <1>3, <1>4 DEF IInv, HeldMarked
<1>10. ReservedInv' /\ OnlyConventional'
  <2>1. Marked(al, S) \cap (0 .. ReserveEnd(memMap) - 1) \subseteq ReleasedPages(memMap)
    BY <1>1, <1>2 DEF IInv, ReservedInv
  <2>. QED
    BY <2>1, <1>1, <1>2, <1>3 DEF IInv, ReservedInv, OnlyConventional
<1>. QED
  BY <1>6, <1>7, <1>8, <1>9, <1>10 DEF IInv

\* The invariant holds before readMap.
LEMMA InitInv ==
  ASSUME Init
  PROVE  IInv
<1>1. WellFormed(NoAllocator)
  BY SizesAssumption DEF NoAllocator, WellFormed, Allocator, Addressable
<1>2. TypeOK
  BY <1>1 DEF Init, TypeOK
<1>. QED
  BY <1>2
  DEF Init, IInv, SizeInv, HintInv, HeldMarked, ReservedInv, OnlyConventional

\* Every step keeps the invariant.
LEMMA StepInv ==
  ASSUME IInv, [Next]_vars
  PROVE  IInv'
<1>1. CASE ReadMap
  BY <1>1, ReadMapStep
<1>2. CASE GetPage
  BY <1>2, GetPageStep
<1>3. CASE \E start \in Starts, count \in Counts : Locks(start, count)
  BY <1>3, LocksStep
<1>4. CASE \E start \in Starts, count \in Counts : Frees(start, count)
  BY <1>4, FreesStep
<1>5. CASE UNCHANGED vars
  BY <1>5 DEF vars, IInv, TypeOK, SizeInv, HintInv, HeldMarked, ReservedInv,
              OnlyConventional
<1>. QED
  BY <1>1, <1>2, <1>3, <1>4, <1>5 DEF Next

\* The inductive invariant is an invariant: everything else follows from it.
THEOREM Invariance == Spec => []IInv
<1>1. Init => IInv
  BY InitInv
<1>2. IInv /\ [Next]_vars => IInv'
  BY StepInv
<1>. QED
  BY <1>1, <1>2, PTL DEF Spec

\* The allocator's state has its type: in particular the marks stay within the
\* bitmap and the bit after it, and the counters within 64 bits.
THEOREM TypeCorrect == Spec => []TypeOK
<1>1. IInv => TypeOK
  BY DEF IInv
<1>. QED
  BY <1>1, Invariance, PTL

\* No clear page lies below the hint of getPage, for every memory map and
\* every sequence of calls.
THEOREM HintCorrect == Spec => []HintInv
<1>1. IInv => HintInv
  BY DEF IInv
<1>. QED
  BY <1>1, Invariance, PTL

\* A page in use keeps its mark and has one owner.
THEOREM HeldPagesMarked == Spec => []HeldMarked
<1>1. IInv => HeldMarked
  BY DEF IInv
<1>. QED
  BY <1>1, Invariance, PTL

\* getPage returns conventional memory, one of the pages that the release loop
\* wraps around to in a segment of more than 2 GiB, or a page number past the
\* end of the reserve loop.
THEOREM HandsOutConventional == Spec => []OnlyConventional
<1>1. IInv => OnlyConventional
  BY DEF IInv
<1>. QED
  BY <1>1, Invariance, PTL

\* With no more than 2 GiB of memory what readMap releases is conventional, and
\* the reserve loop gets to every page below the size of the memory: only page
\* numbers behind it are left to OnlyConventional's exceptions.
THEOREM NothingMisreleased ==
  ASSUME NEW m \in Maps, MemSize(m) <= IntPages
  PROVE  Misreleased(m) = {} /\ ReserveEnd(m) >= MemSize(m)
<1>1. MemSize(m) \in Nat /\ IsFiniteSet(MapPages(m))
  <2>1. IsFiniteSet(0 .. PhysPages - 1)
    BY FS_Interval, SizesAssumption
  <2>. QED
    BY <2>1, MapFacts, SizesAssumption, FS_Subset
<1>2. ASSUME NEW i \in DOMAIN m
      PROVE  Reach(m[i].start, m[i].pages) \subseteq PagesOf(m[i])
  <2>1. m[i].start \in Nat /\ m[i].pages \in Nat
    <3>1. m[i] \in Descriptor
      BY MapsAssumption
    <3>. QED
      BY <3>1 DEF Descriptor
  <2>. DEFINE s == m[i].start
              k == m[i].pages
  <2>2. k <= MemSize(m)
    <3>1. CASE k = 0
      BY <1>1, <3>1
    <3>2. CASE k # 0
      <4>1. Cardinality(PagesOf(m[i])) = k
        <5>. HIDE DEF k
        <5>1. k \in Nat \ {0} /\ PagesOf(m[i]) = m[i].start .. m[i].start + k - 1
          BY <2>1, <3>2 DEF PagesOf, k
        <5>. DEFINE a == m[i].start
                    b == m[i].start + k - 1
        <5>2. a \in Int /\ b \in Int /\ a <= b /\ b - a + 1 = k
          BY <2>1, <5>1
        <5>. HIDE DEF a, b
        <5>3. Cardinality(a .. b) = IF a > b THEN 0 ELSE b - a + 1
          BY <5>2, FS_Interval
        <5>. QED
          BY <5>1, <5>2, <5>3 DEF a, b
      <4>2. PagesOf(m[i]) \subseteq MapPages(m)
        BY DEF MapPages
      <4>. QED
        BY <1>1, <4>1, <4>2, FS_Subset DEF MemSize
    <3>. QED
      BY <3>1, <3>2
  <2>3. PagesOf(m[i]) = s .. s + k - 1
    BY DEF PagesOf
  <2>4. k <= IntPages /\ IntPages \in Nat
    BY <1>1, <2>1, <2>2, SizesAssumption
  <2>. HIDE DEF s, k
  <2>5. s \in Nat /\ k \in Nat
    BY <2>1 DEF s, k
  <2>6. Lesser(k, IntPages) = k /\ Lesser(k, 2 * IntPages) = k
    BY <2>4, <2>5 DEF Lesser
  <2>7. s - IntPages .. s + k - 2 * IntPages - 1 = {}
    BY <2>4, <2>5
  <2>8. Reach(s, k) = ((s .. s + k - 1) \cup {}) \cap Nat
    BY <2>6, <2>7, Zenon DEF Reach
  <2>. QED
    BY <2>3, <2>8 DEF s, k
<1>3. ReleasedPages(m) \subseteq ConventionalPages(m)
  BY <1>2 DEF ReleasedPages, ConventionalPages
<1>. QED
  BY <1>1, <1>3, SizesAssumption DEF Misreleased, ReserveEnd, Lesser

-------------------------------------------------------------------------------
(* Arithmetic modulo Wrap.                                                 *)

\* Pages move from one counter to another: the sum is kept, modulo Wrap.
LEMMA Transfer ==
  ASSUME NEW n \in Nat, NEW x \in Nat, NEW y \in Nat, NEW z \in Nat, NEW k \in Nat,
         n < Wrap, x < Wrap, y < Wrap, z < Wrap, k < Wrap,
         x + y + z \in {n, n + Wrap, n + 2 * Wrap}
  PROVE  Minus(x, k) + Plus(y, k) + z \in {n, n + Wrap, n + 2 * Wrap}
BY SizesAssumption DEF Minus, Plus

\* What is left of N after B marks, when k more are set or removed.
LEMMA LeftOver ==
  ASSUME NEW N \in Nat, NEW B \in Nat, NEW k \in Nat, N < Wrap, k < Wrap
  PROVE  /\ B + k < Wrap => Minus(Minus(N, B), k) = Minus(N, B + k)
         /\ k <= B /\ B < Wrap => Plus(Minus(N, B), k) = Minus(N, B - k)
BY SizesAssumption DEF Minus, Plus

-------------------------------------------------------------------------------
(* What one operation does to the counters.                                *)

Balanced(a, n) ==
  a.freeMem + a.usedMem + a.reservedMem \in {n, n + Wrap, n + 2 * Wrap}

CountsMarks(a, N) == a.freeMem = Minus(N, Cardinality(a.bits))

\* An allocator's counters fit in their width, and so does the number of marks.
LEMMA CounterTypes ==
  ASSUME NEW a, Sized(a)
  PROVE  /\ a.freeMem \in Nat /\ a.usedMem \in Nat /\ a.reservedMem \in Nat
         /\ a.freeMem < Wrap /\ a.usedMem < Wrap /\ a.reservedMem < Wrap
         /\ Cardinality(a.bits) \in Nat /\ Cardinality(a.bits) < Wrap
<1>1. a.bits \subseteq Addressable(a)
  BY DEF Sized, WellFormed
<1>2. Cardinality(a.bits) \in Nat /\ Cardinality(a.bits) <= PhysPages + 9
  BY <1>1, PageSets
<1>. QED
  BY <1>2, SizesAssumption DEF Sized, WellFormed, Allocator

\* lock, locks, reserve and reserves.
LEMMA MarkingCounts ==
  ASSUME NEW a, Sized(a), NEW S, NEW n \in Nat, n < Wrap, NEW b,
         b \in {Lock(a, S), Reserve(a, S)}
  PROVE  /\ CountsMarks(a, n) => CountsMarks(b, n)
         /\ Balanced(a, n) => Balanced(b, n)
<1>. DEFINE k == Cardinality(Clear(a, S))
            B == Cardinality(a.bits)
<1>1. /\ k \in Nat /\ k < Wrap /\ Cardinality(a.bits \cup Clear(a, S)) = B + k
  BY ClearFacts
<1>2. Sized(b) /\ b.bits = a.bits \cup Clear(a, S)
  BY LockFacts, ReserveFacts
<1>3. B \in Nat /\ B + k < Wrap
  BY <1>1, <1>2, CounterTypes
<1>4. /\ a.freeMem \in Nat /\ a.usedMem \in Nat /\ a.reservedMem \in Nat
      /\ a.freeMem < Wrap /\ a.usedMem < Wrap /\ a.reservedMem < Wrap
  BY CounterTypes
<1>5. /\ b.freeMem = Minus(a.freeMem, k)
      /\ \/ b.usedMem = Plus(a.usedMem, k) /\ b.reservedMem = a.reservedMem
         \/ b.usedMem = a.usedMem /\ b.reservedMem = Plus(a.reservedMem, k)
  BY DEF Lock, Reserve
<1>. HIDE DEF k, B
<1>6. CountsMarks(a, n) => CountsMarks(b, n)
  <2>. SUFFICES ASSUME a.freeMem = Minus(n, B) PROVE b.freeMem = Minus(n, B + k)
    BY <1>1, <1>2 DEF CountsMarks, B
  <2>. QED
    BY <1>1, <1>3, <1>5, LeftOver
<1>7. ASSUME Balanced(a, n) PROVE Balanced(b, n)
  <2>1. a.freeMem + a.usedMem + a.reservedMem \in {n, n + Wrap, n + 2 * Wrap}
    BY <1>7 DEF Balanced
  <2>2. CASE b.usedMem = Plus(a.usedMem, k) /\ b.reservedMem = a.reservedMem
    <3>1. Minus(a.freeMem, k) + Plus(a.usedMem, k) + a.reservedMem
            \in {n, n + Wrap, n + 2 * Wrap}
      BY <1>1, <1>4, <2>1, Transfer
    <3>2. b.freeMem + b.usedMem + b.reservedMem
            = Minus(a.freeMem, k) + Plus(a.usedMem, k) + a.reservedMem
      BY <1>5, <2>2
    <3>. QED
      BY <3>1, <3>2 DEF Balanced
  <2>3. CASE b.usedMem = a.usedMem /\ b.reservedMem = Plus(a.reservedMem, k)
    <3>1. a.freeMem + a.reservedMem + a.usedMem \in {n, n + Wrap, n + 2 * Wrap}
      BY <1>4, <2>1, SizesAssumption
    <3>2. Minus(a.freeMem, k) + Plus(a.reservedMem, k) + a.usedMem
            \in {n, n + Wrap, n + 2 * Wrap}
      BY <1>1, <1>4, <3>1, Transfer
    <3>3. /\ Minus(a.freeMem, k) \in Nat /\ Plus(a.reservedMem, k) \in Nat
      BY <1>1, <1>4, CounterFacts
    <3>. QED
      BY <1>4, <1>5, <2>3, <3>2, <3>3, SizesAssumption DEF Balanced
  <2>. QED
    BY <1>5, <2>2, <2>3
<1>. QED
  BY <1>6, <1>7

\* free, frees, release and releases.
LEMMA ClearingCounts ==
  ASSUME NEW a, Sized(a), NEW S, NEW n \in Nat, n < Wrap, NEW b,
         b \in {Free(a, S), Release(a, S)}
  PROVE  /\ CountsMarks(a, n) => CountsMarks(b, n)
         /\ Balanced(a, n) => Balanced(b, n)
<1>. DEFINE k == Cardinality(Marked(a, S))
            B == Cardinality(a.bits)
<1>1. /\ k \in Nat /\ k < Wrap /\ Cardinality(a.bits \ Marked(a, S)) = B - k
  BY MarkedFacts
<1>2. Sized(b) /\ b.bits = a.bits \ Marked(a, S)
  BY FreeFacts, ReleaseFacts
<1>3. B \in Nat /\ B < Wrap /\ k <= B
  <2>1. B \in Nat /\ B < Wrap /\ Cardinality(b.bits) \in Nat
    BY <1>2, CounterTypes
  <2>2. Cardinality(b.bits) = B - k
    BY <1>1, <1>2
  <2>. QED
    BY <1>1, <2>1, <2>2
<1>4. /\ a.freeMem \in Nat /\ a.usedMem \in Nat /\ a.reservedMem \in Nat
      /\ a.freeMem < Wrap /\ a.usedMem < Wrap /\ a.reservedMem < Wrap
  BY CounterTypes
<1>5. /\ b.freeMem = Plus(a.freeMem, k)
      /\ \/ b.usedMem = Minus(a.usedMem, k) /\ b.reservedMem = a.reservedMem
         \/ b.usedMem = a.usedMem /\ b.reservedMem = Minus(a.reservedMem, k)
  BY DEF Free, Release
<1>. HIDE DEF k, B
<1>6. CountsMarks(a, n) => CountsMarks(b, n)
  <2>. SUFFICES ASSUME a.freeMem = Minus(n, B) PROVE b.freeMem = Minus(n, B - k)
    BY <1>1, <1>2 DEF CountsMarks, B
  <2>. QED
    BY <1>1, <1>3, <1>5, LeftOver
<1>7. ASSUME Balanced(a, n) PROVE Balanced(b, n)
  <2>1. /\ a.usedMem + a.freeMem + a.reservedMem \in {n, n + Wrap, n + 2 * Wrap}
        /\ a.reservedMem + a.freeMem + a.usedMem \in {n, n + Wrap, n + 2 * Wrap}
    BY <1>4, <1>7, SizesAssumption DEF Balanced
  <2>2. /\ Minus(a.usedMem, k) \in Nat /\ Minus(a.reservedMem, k) \in Nat
        /\ Plus(a.freeMem, k) \in Nat
    BY <1>1, <1>4, CounterFacts
  <2>3. CASE b.usedMem = Minus(a.usedMem, k) /\ b.reservedMem = a.reservedMem
    <3>1. Minus(a.usedMem, k) + Plus(a.freeMem, k) + a.reservedMem
            \in {n, n + Wrap, n + 2 * Wrap}
      BY <1>1, <1>4, <2>1, Transfer
    <3>. QED
      BY <1>4, <1>5, <2>2, <2>3, <3>1, SizesAssumption DEF Balanced
  <2>4. CASE b.usedMem = a.usedMem /\ b.reservedMem = Minus(a.reservedMem, k)
    <3>1. Minus(a.reservedMem, k) + Plus(a.freeMem, k) + a.usedMem
            \in {n, n + Wrap, n + 2 * Wrap}
      BY <1>1, <1>4, <2>1, Transfer
    <3>. QED
      BY <1>4, <1>5, <2>2, <2>4, <3>1, SizesAssumption DEF Balanced
  <2>. QED
    BY <1>5, <2>3, <2>4
<1>. QED
  BY <1>6, <1>7

-------------------------------------------------------------------------------
(* readMap.                                                                *)

\* The pages the map accounts for, and the bit behind the bitmap if it is set.
MapBits == MemSize(memMap) + (IF stray THEN 1 ELSE 0)

\* Before readMap the bitmap is clear, but for the bit behind it.
LEMMA FreshCounts ==
  ASSUME IInv
  PROVE  /\ Sized(FreshAllocator)
         /\ CountsMarks(FreshAllocator, MapBits)
         /\ Balanced(FreshAllocator, MemSize(memMap))
         /\ MapBits \in Nat /\ MapBits < Wrap
         /\ MemSize(memMap) \in Nat /\ MemSize(memMap) < Wrap
<1>. DEFINE n == MemSize(memMap)
            size == BitmapSize(memMap)
            f == FreshAllocator
<1>1. memMap \in Maps /\ stray \in BOOLEAN
  BY DEF IInv, TypeOK
<1>2. /\ size \in Nat /\ n \in Nat /\ n + 1 < Wrap
      /\ n < size * 8 /\ size * 8 <= PhysPages + 8 /\ size * 8 \in Nat
  BY <1>1, BitmapFacts, MapFacts, SizesAssumption
<1>3. Sized(f)
  BY <1>1, <1>2, SizesAssumption
  DEF FreshAllocator, Sized, WellFormed, Allocator, Addressable
<1>4. Cardinality(f.bits) = IF stray THEN 1 ELSE 0
  BY <1>1, FS_EmptySet, FS_Singleton DEF FreshAllocator
<1>5. CountsMarks(f, MapBits)
  <2>1. CASE stray
    BY <2>1, <1>2, <1>4 DEF CountsMarks, MapBits, Minus, FreshAllocator
  <2>2. CASE ~stray
    BY <2>2, <1>2, <1>4 DEF CountsMarks, MapBits, Minus, FreshAllocator
  <2>. QED
    BY <2>1, <2>2
<1>6. Balanced(f, n)
  BY <1>2 DEF Balanced, FreshAllocator
<1>7. MapBits \in Nat /\ MapBits < Wrap /\ n < Wrap
  <2>1. CASE stray
    BY <1>2, <2>1, SizesAssumption DEF MapBits
  <2>2. CASE ~stray
    BY <1>2, <2>2, SizesAssumption DEF MapBits
  <2>. QED
    BY <2>1, <2>2
<1>. QED
  BY <1>2, <1>3, <1>5, <1>6, <1>7

\* The three steps of readMap keep both sums, and leave the lock of the
\* bitmap's pages in usedMem.
LEMMA ReadMapCounts ==
  ASSUME IInv, ReadMap
  PROVE  /\ CountsMarks(al', MapBits)
         /\ Balanced(al', MemSize(memMap))
         /\ al'.usedMem = Cardinality(BitmapLocks)
<1>. DEFINE n == MemSize(memMap)
            f == FreshAllocator
            b == BitmapLocked
            r == AllReserved
<1>1. /\ Sized(f) /\ CountsMarks(f, MapBits) /\ Balanced(f, n)
      /\ MapBits \in Nat /\ MapBits < Wrap /\ n \in Nat /\ n < Wrap
  BY FreshCounts
<1>2. b = Lock(f, BitmapPages(memMap)) /\ r = Reserve(b, Reach(0, n + 1))
      /\ al' = Release(r, ReleasedPages(memMap))
  BY DEF BitmapLocked, AllReserved, ReadMap
<1>3. b.usedMem = Cardinality(BitmapLocks)
  <2>1. Cardinality(BitmapLocks) \in Nat /\ Cardinality(BitmapLocks) < Wrap
    BY <1>1, ClearFacts DEF BitmapLocks
  <2>2. b.usedMem = Plus(0, Cardinality(BitmapLocks))
    BY DEF BitmapLocked, BitmapLocks, Lock, FreshAllocator
  <2>. QED
    BY <2>1, <2>2 DEF Plus
<1>4. al'.usedMem = b.usedMem
  BY <1>2 DEF Reserve, Release
<1>. HIDE DEF f, b, r, n
<1>5. Sized(b) /\ CountsMarks(b, MapBits) /\ Balanced(b, n)
  BY <1>1, <1>2, LockFacts, MarkingCounts
<1>6. Sized(r) /\ CountsMarks(r, MapBits) /\ Balanced(r, n)
  BY <1>1, <1>2, <1>5, ReserveFacts, MarkingCounts
<1>7. CountsMarks(al', MapBits) /\ Balanced(al', n)
  BY <1>1, <1>2, <1>6, ClearingCounts
<1>. QED
  BY <1>3, <1>4, <1>7 DEF n

-------------------------------------------------------------------------------
(* The laws.                                                               *)

CountersInv == FreeMemLaw /\ UsedMemLaw /\ Conservation

\* The pages in use and the bitmap's own pages together fit in the counters.
LEMMA PagesInUse ==
  ASSUME IInv, initialized
  PROVE  /\ Cardinality(BitmapLocks) \in Nat
         /\ Cardinality(BitmapLocks) <= PhysPages + 9
         /\ taken \cup claimed \subseteq al.bits
         /\ IsFiniteSet(taken \cup claimed)
         /\ Cardinality(taken \cup claimed) \in Nat
<1>1. Sized(al) /\ Sized(FreshAllocator)
  BY SizedAllocator, FreshCounts
<1>2. BitmapLocks \subseteq Addressable(FreshAllocator)
  BY <1>1, ClearFacts DEF BitmapLocks
<1>3. Cardinality(BitmapLocks) \in Nat /\ Cardinality(BitmapLocks) <= PhysPages + 9
  BY <1>1, <1>2, PageSets
<1>4. taken \cup claimed \subseteq al.bits /\ al.bits \subseteq Addressable(al)
  BY <1>1 DEF IInv, HeldMarked, Sized, WellFormed
<1>5. taken \cup claimed \subseteq Addressable(al)
  BY <1>4
<1>6. IsFiniteSet(taken \cup claimed) /\ Cardinality(taken \cup claimed) \in Nat
  BY <1>1, <1>5, PageSets
<1>. QED
  BY <1>3, <1>4, <1>6

\* lock, locks and getPage: the pages S become the caller's.
LEMMA MarkingStep ==
  ASSUME IInv, initialized, CountersInv, NEW S,
         al'.freeMem = Lock(al, S).freeMem, al'.usedMem = Lock(al, S).usedMem,
         al'.reservedMem = Lock(al, S).reservedMem, al'.bits = Lock(al, S).bits,
         (taken \cup claimed)' = taken \cup claimed \cup Clear(al, S),
         UNCHANGED <<memMap, stray, initialized>>
  PROVE  CountersInv'
<1>. DEFINE l == Lock(al, S)
            n == MemSize(memMap)
            T == taken \cup claimed
            C == Clear(al, S)
<1>1. /\ Sized(al) /\ MapBits \in Nat /\ MapBits < Wrap /\ n \in Nat /\ n < Wrap
  BY SizedAllocator, FreshCounts
<1>2. CountsMarks(al, MapBits) /\ Balanced(al, n)
  BY DEF CountersInv, FreeMemLaw, Conservation, CountsMarks, Balanced, MapBits
<1>3. CountsMarks(l, MapBits) /\ Balanced(l, n)
  <2>. HIDE DEF n
  <2>. QED
    BY <1>1, <1>2, MarkingCounts
<1>4. FreeMemLaw' /\ Conservation'
  BY <1>3 DEF FreeMemLaw, Conservation, CountsMarks, Balanced, MapBits
<1>5. UsedMemLaw'
  <2>. DEFINE L == Cardinality(BitmapLocks)
  <2>1. L' = L
    BY DEF BitmapLocks, FreshAllocator
  <2>2. /\ L \in Nat /\ L <= PhysPages + 9 /\ T \subseteq al.bits
        /\ IsFiniteSet(T) /\ Cardinality(T) \in Nat
    BY PagesInUse
  <2>3. al.usedMem = Cardinality(T) + L
    BY DEF CountersInv, UsedMemLaw
  <2>4. C \subseteq Addressable(al) /\ C \cap al.bits = {}
    BY <1>1, ClearFacts DEF Clear
  <2>5. IsFiniteSet(C) /\ Cardinality(C) \in Nat
    BY <1>1, <2>4, PageSets
  <2>6. T \cup C \subseteq Addressable(al)
    BY <1>1, <2>2, <2>4 DEF Sized, WellFormed
  <2>7. Cardinality(T \cup C) <= PhysPages + 9
    BY <1>1, <2>6, PageSets
  <2>8. l.usedMem = Plus(al.usedMem, Cardinality(C))
    BY DEF Lock
  <2>. HIDE DEF L, T, C, l
  <2>9. Cardinality(T \cup C) = Cardinality(T) + Cardinality(C)
    <3>1. T \cap C = {}
      BY <2>2, <2>4
    <3>2. Cardinality(T \cup C)
            = Cardinality(T) + Cardinality(C) - Cardinality(T \cap C)
      BY <2>2, <2>5, FS_Union
    <3>3. Cardinality(T \cap C) = 0
      BY <3>1, FS_EmptySet
    <3>. QED
      BY <2>2, <2>5, <3>2, <3>3
  <2>10. l.usedMem = Cardinality(T \cup C) + L
    BY <2>2, <2>3, <2>5, <2>7, <2>8, <2>9, SizesAssumption DEF Plus
  <2>. QED
    BY <2>1, <2>10 DEF UsedMemLaw, L, T, C, l
<1>. QED
  BY <1>4, <1>5 DEF CountersInv

\* free and frees: the pages S are nobody's any more.
LEMMA ClearingStep ==
  ASSUME IInv, CountersInv, NEW start \in Starts, NEW count \in Counts,
         Frees(start, count)
  PROVE  CountersInv'
<1>. DEFINE S == Reach(start, count)
            l == Free(al, S)
            n == MemSize(memMap)
            T == taken \cup claimed
            M == Marked(al, S)
<1>0. /\ initialized /\ UNCHANGED <<memMap, stray, initialized>>
      /\ M \subseteq T
      /\ al' = l /\ (taken \cup claimed)' = T \ S
  BY DEF Frees, Running
<1>. HIDE DEF S
<1>1. /\ Sized(al) /\ MapBits \in Nat /\ MapBits < Wrap /\ n \in Nat /\ n < Wrap
  BY <1>0, SizedAllocator, FreshCounts
<1>2. CountsMarks(al, MapBits) /\ Balanced(al, n)
  BY <1>0 DEF CountersInv, FreeMemLaw, Conservation, CountsMarks, Balanced, MapBits
<1>3. CountsMarks(l, MapBits) /\ Balanced(l, n)
  <2>. HIDE DEF n
  <2>. QED
    BY <1>1, <1>2, ClearingCounts
<1>4. FreeMemLaw' /\ Conservation'
  BY <1>0, <1>3 DEF FreeMemLaw, Conservation, CountsMarks, Balanced, MapBits
<1>5. UsedMemLaw'
  <2>. DEFINE L == Cardinality(BitmapLocks)
  <2>1. L' = L
    BY <1>0 DEF BitmapLocks, FreshAllocator
  <2>2. /\ L \in Nat /\ L <= PhysPages + 9 /\ T \subseteq al.bits
        /\ IsFiniteSet(T) /\ Cardinality(T) \in Nat
    BY <1>0, PagesInUse
  <2>3. al.usedMem = Cardinality(T) + L
    BY <1>0 DEF CountersInv, UsedMemLaw
  <2>4. T \ S = T \ M /\ T \cap M = M
    BY <1>0, <1>1, <2>2 DEF Marked, Sized, WellFormed
  <2>5. l.usedMem = Minus(al.usedMem, Cardinality(M))
    BY DEF Free
  <2>. HIDE DEF L, T, M, l
  <2>6. /\ Cardinality(T \ M) = Cardinality(T) - Cardinality(M)
        /\ Cardinality(T \ M) \in Nat /\ Cardinality(M) \in Nat
    <3>1. Cardinality(T \ M) = Cardinality(T) - Cardinality(T \cap M)
      BY <2>2, FS_Difference
    <3>2. /\ IsFiniteSet(T \ M) /\ IsFiniteSet(M)
      BY <1>0, <2>2, FS_Subset
    <3>3. Cardinality(T \ M) \in Nat /\ Cardinality(M) \in Nat
      BY <3>2, FS_CardinalityType
    <3>. QED
      BY <2>4, <3>1, <3>3
  <2>7. l.usedMem = Cardinality(T \ M) + L
    BY <2>2, <2>3, <2>5, <2>6 DEF Minus
  <2>. QED
    BY <1>0, <2>1, <2>4, <2>7 DEF UsedMemLaw, L
<1>. QED
  BY <1>4, <1>5 DEF CountersInv

\* getPage: a page it finds is marked and taken; without one nothing counts.
LEMMA GetPageCounts ==
  ASSUME IInv, CountersInv, GetPage
  PROVE  CountersInv'
<1>1. /\ initialized /\ UNCHANGED <<memMap, stray, initialized, claimed>>
      /\ Sized(al) /\ al \in Allocator /\ al.pageI \in Nat /\ al.size * 8 \in Nat
  BY SizedAllocator DEF GetPage, Running, Sized, WellFormed, Allocator
<1>2. ASSUME NEW i \in Nat, Candidates(al, i) # {}, Found(Least(Candidates(al, i)))
      PROVE  CountersInv'
  <2>. DEFINE p == Least(Candidates(al, i))
              l == Lock(al, {p})
  <2>1. p \in Nat /\ p \notin al.bits /\ p <= al.size * 8 - 2
    BY <1>1, <1>2, ScanFacts
  <2>2. al' = [l EXCEPT !.pageI = p] /\ taken' = taken \cup {p}
    BY <1>2 DEF Found
  <2>. HIDE DEF p
  <2>3. Clear(al, {p}) = {p}
    BY <1>1, <2>1 DEF Clear, Addressable
  <2>4. (taken \cup claimed)' = taken \cup claimed \cup Clear(al, {p})
    BY <1>1, <2>2, <2>3
  <2>5. l \in Allocator
    BY <1>1, LockFacts DEF Sized, WellFormed
  <2>. HIDE DEF l
  <2>6. /\ al'.freeMem = l.freeMem /\ al'.usedMem = l.usedMem
        /\ al'.reservedMem = l.reservedMem /\ al'.bits = l.bits
    BY <2>2, <2>5 DEF Allocator
  <2>. QED
    BY <1>1, <2>4, <2>6, MarkingStep DEF l
<1>3. CASE Candidates(al, al.pageI) # {}
  BY <1>1, <1>2, <1>3 DEF GetPage
<1>4. CASE Candidates(al, al.pageI) = {} /\ Candidates(al, 0) # {}
  BY <1>2, <1>4 DEF GetPage
<1>5. CASE Candidates(al, al.pageI) = {} /\ Candidates(al, 0) = {}
  <2>1. OutOfRam
    BY <1>5 DEF GetPage
  <2>2. /\ al'.freeMem = al.freeMem /\ al'.usedMem = al.usedMem
        /\ al'.reservedMem = al.reservedMem /\ al'.bits = al.bits
        /\ taken' = taken
    BY <1>1, <2>1 DEF OutOfRam, Allocator
  <2>. QED
    BY <1>1, <2>2 DEF CountersInv, FreeMemLaw, UsedMemLaw, Conservation,
                      BitmapLocks, FreshAllocator
<1>. QED
  BY <1>3, <1>4, <1>5

\* Every step keeps the laws.
LEMMA CountersStep ==
  ASSUME IInv, CountersInv, [Next]_vars
  PROVE  CountersInv'
<1>1. CASE ReadMap
  <2>1. /\ CountsMarks(al', MapBits) /\ Balanced(al', MemSize(memMap))
        /\ al'.usedMem = Cardinality(BitmapLocks)
    BY <1>1, ReadMapCounts
  <2>2. /\ UNCHANGED <<memMap, stray>> /\ taken' = {} /\ claimed' = {}
    BY <1>1 DEF ReadMap, IInv, SizeInv
  <2>3. FreeMemLaw' /\ Conservation'
    BY <2>1, <2>2 DEF FreeMemLaw, Conservation, CountsMarks, Balanced, MapBits
  <2>4. BitmapLocks' = BitmapLocks
    BY <2>2 DEF BitmapLocks, FreshAllocator
  <2>5. /\ Cardinality((taken \cup claimed)') = 0
        /\ Cardinality(BitmapLocks) \in Nat
    BY <2>2, FS_EmptySet, FreshCounts, ClearFacts DEF BitmapLocks
  <2>6. UsedMemLaw'
    BY <2>1, <2>4, <2>5 DEF UsedMemLaw
  <2>. QED
    BY <2>3, <2>6 DEF CountersInv
<1>2. CASE GetPage
  BY <1>2, GetPageCounts
<1>3. CASE \E start \in Starts, count \in Counts : Locks(start, count)
  <2>1. PICK start \in Starts, count \in Counts : Locks(start, count)
    BY <1>3
  <2>. DEFINE S == start .. start + count - 1
  <2>2. /\ initialized /\ UNCHANGED <<memMap, stray, initialized, taken>>
        /\ al' = Lock(al, S) /\ claimed' = claimed \cup Clear(al, S)
    BY <2>1 DEF Locks, Running
  <2>. HIDE DEF S
  <2>. QED
    BY <2>2, MarkingStep
<1>4. CASE \E start \in Starts, count \in Counts : Frees(start, count)
  BY <1>4, ClearingStep
<1>5. CASE UNCHANGED vars
  BY <1>5 DEF vars, CountersInv, FreeMemLaw, UsedMemLaw, Conservation,
              BitmapLocks, FreshAllocator
<1>. QED
  BY <1>1, <1>2, <1>3, <1>4, <1>5 DEF Next

\* The counters keep their laws from readMap on, whatever wraps on the way.
THEOREM CountersCorrect == Spec => []CountersInv
<1>1. Init => CountersInv
  BY DEF Init, CountersInv, FreeMemLaw, UsedMemLaw, Conservation
<1>2. IInv /\ CountersInv /\ [Next]_vars => CountersInv'
  BY CountersStep
<1>. QED
  BY <1>1, <1>2, Invariance, PTL DEF Spec

\* getFreeMem is the memory size less one page for every mark of the bitmap,
\* for every memory map and sequence of calls, although reserves covers one
\* page too many.
THEOREM FreeMemCorrect == Spec => []FreeMemLaw
<1>1. CountersInv => FreeMemLaw
  BY DEF CountersInv
<1>. QED
  BY <1>1, CountersCorrect, PTL

\* getUsedMem counts the pages in use, and for ever those of the bitmap.
THEOREM UsedMemCorrect == Spec => []UsedMemLaw
<1>1. CountersInv => UsedMemLaw
  BY DEF CountersInv
<1>. QED
  BY <1>1, CountersCorrect, PTL

\* The three counters add up to the size of the memory, modulo their width.
THEOREM CountersConserve == Spec => []Conservation
<1>1. CountersInv => Conservation
  BY DEF CountersInv
<1>. QED
  BY <1>1, CountersCorrect, PTL

-------------------------------------------------------------------------------
(* PageAllocator implements PagePool: what getPage, lock and free do to the *)
(* bitmap, the hint and the counters is, for a caller, one step of a pool  *)
(* that hands out its lowest page.                                         *)

\* What the pool offers, in terms of the marks.
LEMMA OfferFacts ==
  ASSUME IInv, initialized
  PROVE  /\ Offer \subseteq Nat
         /\ Offer = {p \in 0 .. al.size * 8 - 2 : p \notin al.bits}
         /\ al.size * 8 \in Nat
BY SizedAllocator DEF Offer, Candidates

\* getPage found p, with every page below p marked: the pool gives p out.
LEMMA FoundGrabs ==
  ASSUME IInv, Running, NEW p \in Nat, Found(p),
         p \notin al.bits, p <= al.size * 8 - 2,
         \A q \in 0 .. p - 1 : q \in al.bits,
         UNCHANGED initialized
  PROVE  Pool!Grab
<1>1. initialized /\ ~halted /\ Sized(al)
  BY SizedAllocator DEF Running
<1>2. /\ Offer = {q \in 0 .. al.size * 8 - 2 : q \notin al.bits}
      /\ Offer \subseteq Nat /\ al.size * 8 \in Nat
  BY <1>1, OfferFacts
<1>3. p \in Offer
  BY <1>2
<1>4. \A q \in Offer : p <= q
  BY <1>2
<1>5. Offer' = Offer \ {p}
  <2>. DEFINE l == Lock(al, {p})
  <2>1. l.size = al.size /\ l.bits = al.bits \cup Clear(al, {p}) /\ l \in Allocator
    BY <1>1, LockFacts DEF Sized, WellFormed
  <2>2. Clear(al, {p}) = {p}
    BY <1>2 DEF Clear, Addressable
  <2>3. al' = [l EXCEPT !.pageI = p]
    BY DEF Found
  <2>. HIDE DEF l
  <2>4. al'.size = al.size /\ al'.bits = al.bits \cup {p}
    BY <2>1, <2>2, <2>3 DEF Allocator
  <2>5. Offer' = {q \in 0 .. al.size * 8 - 2 : q \notin al.bits \cup {p}}
    BY <1>1, <2>4 DEF Offer, Candidates
  <2>. QED
    BY <1>2, <2>5
<1>6. taken' = taken \cup {p} /\ halted' = halted
  BY DEF Found
<1>. QED
  BY <1>1, <1>3, <1>4, <1>5, <1>6 DEF Pool!Grab

\* getPage gives out the lowest page of the pool, or gives up an empty pool.
LEMMA GetPageGrabs ==
  ASSUME IInv, GetPage
  PROVE  Pool!Grab \/ Pool!GiveUp
<1>1. /\ Running /\ initialized /\ ~halted /\ UNCHANGED initialized
      /\ Sized(al) /\ al.pageI \in Nat
  BY SizedAllocator DEF GetPage, Running, Sized, WellFormed, Allocator
<1>2. CASE Candidates(al, al.pageI) # {}
  <2>. DEFINE p == Least(Candidates(al, al.pageI))
  <2>1. Found(p)
    BY <1>2 DEF GetPage
  <2>2. /\ p \in Nat /\ p \notin al.bits /\ p <= al.size * 8 - 2
        /\ \A q \in al.pageI .. p - 1 : q \in al.bits
    BY <1>1, <1>2, ScanFacts
  <2>. HIDE DEF p
  <2>3. \A q \in 0 .. p - 1 : q \in al.bits
    <3>. SUFFICES ASSUME NEW q \in 0 .. p - 1 PROVE q \in al.bits
      OBVIOUS
    <3>1. q \in 0 .. al.pageI - 1 \/ q \in al.pageI .. p - 1
      BY <1>1, <2>2
    <3>. QED
      BY <3>1, <2>2, <1>1 DEF IInv, HintInv
  <2>. QED
    BY <1>1, <2>1, <2>2, <2>3, FoundGrabs
<1>3. CASE Candidates(al, al.pageI) = {} /\ Candidates(al, 0) # {}
  <2>. DEFINE p == Least(Candidates(al, 0))
  <2>1. Found(p)
    BY <1>3 DEF GetPage
  <2>2. /\ p \in Nat /\ p \notin al.bits /\ p <= al.size * 8 - 2
        /\ \A q \in 0 .. p - 1 : q \in al.bits
    BY <1>1, <1>3, ScanFacts
  <2>. HIDE DEF p
  <2>. QED
    BY <1>1, <2>1, <2>2, FoundGrabs
<1>4. CASE Candidates(al, al.pageI) = {} /\ Candidates(al, 0) = {}
  <2>1. OutOfRam
    BY <1>4 DEF GetPage
  <2>2. Offer = {}
    BY <1>1, <1>4 DEF Offer
  <2>3. al'.size = al.size /\ al'.bits = al.bits
    BY <1>1, <2>1 DEF OutOfRam, Sized, WellFormed, Allocator
  <2>4. Offer' = {}
    BY <1>1, <2>2, <2>3 DEF Offer, Candidates
  <2>. QED
    BY <1>1, <2>1, <2>2, <2>4 DEF OutOfRam, Pool!GiveUp
<1>. QED
  BY <1>2, <1>3, <1>4

\* lock and locks only take pages out of the pool.
LEMMA LocksClaim ==
  ASSUME IInv, NEW start \in Starts, NEW count \in Counts, Locks(start, count)
  PROVE  Pool!Claim
<1>. DEFINE S == start .. start + count - 1
<1>1. /\ initialized /\ ~halted /\ UNCHANGED <<initialized, halted, taken>>
      /\ al' = Lock(al, S)
  BY DEF Locks, Running
<1>. HIDE DEF S
<1>2. al'.size = al.size /\ al'.bits = al.bits \cup Clear(al, S)
  BY <1>1, SizedAllocator, LockFacts
<1>3. Offer' \subseteq Offer
  BY <1>1, <1>2 DEF Offer, Candidates
<1>. QED
  BY <1>1, <1>3 DEF Pool!Claim

\* free and frees only put pages back, and none that is still in use.
LEMMA FreesPutBack ==
  ASSUME IInv, NEW start \in Starts, NEW count \in Counts, Frees(start, count)
  PROVE  Pool!PutBack
<1>. DEFINE S == Reach(start, count)
<1>1. /\ initialized /\ ~halted /\ UNCHANGED <<initialized, halted>>
      /\ al' = Free(al, S) /\ taken' = taken \ S
  BY DEF Frees, Running
<1>. HIDE DEF S
<1>2. al'.size = al.size /\ al'.bits = al.bits \ Marked(al, S)
  BY <1>1, SizedAllocator, FreeFacts
<1>3. Offer \subseteq Offer'
  BY <1>1, <1>2 DEF Offer, Candidates
<1>4. taken' \subseteq al'.bits
  BY FreesStep DEF IInv, HeldMarked
<1>5. taken' \cap Offer' = {}
  BY <1>1, <1>4 DEF Offer, Candidates
<1>. QED
  BY <1>1, <1>3, <1>5 DEF Pool!PutBack

\* readMap fills the pool.
LEMMA ReadMapFills ==
  ASSUME IInv, ReadMap
  PROVE  Pool!Fill
<1>1. IInv' /\ ~initialized /\ initialized' /\ UNCHANGED <<halted, taken>>
  BY ReadMapStep DEF ReadMap
<1>2. al'.size \in Nat
  BY <1>1 DEF IInv, TypeOK, WellFormed, Allocator
<1>3. Offer' \in SUBSET Nat
  BY <1>1, <1>2 DEF Offer, Candidates
<1>. QED
  BY <1>1, <1>3 DEF Pool!Fill, ReadMap

\* Every step of the allocator is a step of the pool, or leaves it alone.
LEMMA StepRefines ==
  ASSUME IInv, [Next]_vars
  PROVE  [Pool!PoolNext]_(Pool!poolVars)
<1>1. CASE ReadMap
  BY <1>1, ReadMapFills DEF Pool!PoolNext
<1>2. CASE GetPage
  BY <1>2, GetPageGrabs DEF Pool!PoolNext
<1>3. CASE \E start \in Starts, count \in Counts : Locks(start, count)
  BY <1>3, LocksClaim DEF Pool!PoolNext
<1>4. CASE \E start \in Starts, count \in Counts : Frees(start, count)
  BY <1>4, FreesPutBack DEF Pool!PoolNext
<1>5. CASE UNCHANGED vars
  BY <1>5 DEF vars, Pool!poolVars, Offer
<1>. QED
  BY <1>1, <1>2, <1>3, <1>4, <1>5 DEF Next

\* The allocator implements the page pool, for every set of memory maps and
\* calls: getPage gives out the lowest page on offer, none that is in use, and
\* stops the machine only when nothing that it scans is left.
THEOREM RefinesPool == Spec => ImplementsPool
<1>1. Init => Pool!PoolInit
  BY DEF Init, Pool!PoolInit, Offer
<1>2. IInv /\ [Next]_vars => [Pool!PoolNext]_(Pool!poolVars)
  BY StepRefines
<1>. QED
  BY <1>1, <1>2, Invariance, PTL DEF Spec, ImplementsPool, Pool!PoolSpec
===============================================================================
