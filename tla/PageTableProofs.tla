------------------------------ MODULE PageTableProofs ------------------------------
(***************************************************************************)
(* Proofs about the module PageTable, for tables of any size and any set   *)
(* of pages mapped in any order, as long as the page directory has room    *)
(* for their tables: the tables form a tree, there is one per prefix of a  *)
(* mapped page, and a map changes the translation of its own page only.    *)
(* What one call of map does is proved in PageWalkProofs.                  *)
(***************************************************************************)
EXTENDS PageTable, PageWalkProofs

IInv == wild \in BOOLEAN /\ Tree(Virt, mem, pdi)

\* The pages may be mapped, and there are finitely many.
LEMMA VirtPageable ==
  /\ Pageable(Virt) /\ TablesFor(Virt) \in Nat
  /\ \A p \in Phys : p \in 0 .. FrameMod - 1
BY CallersAssumption, NeededSize

-------------------------------------------------------------------------------
(* The invariant.                                                          *)

LEMMA InitInv == Init => IInv
<1>. SUFFICES ASSUME Init PROVE IInv
  OBVIOUS
<1>1. PICK garbage \in SUBSET (0 .. Fan - 1), dirt \in {Absent, Junk} :
        mem = LeftOver(garbage, dirt)
  BY Zenon DEF Init
<1>2. Tree(Virt, mem, 0)
  BY <1>1, VirtPageable, LeftOverTree
<1>. QED BY <1>2 DEF Init, IInv

\* What a map does to the tables and to the translation.
LEMMA MapStep ==
  ASSUME Room(Virt), IInv, NEW v \in Virt, NEW p \in Phys, Map(v, p)
  PROVE  /\ IInv'
         /\ Translate(v)' = p
         /\ \A w \in Virt \ {v} : Translate(w)' = Translate(w)
<1>. DEFINE after == MapPage([pdi |-> pdi, mem |-> mem], v, p)
<1>1. mem[DirBase][PDP_i(v)] # Junk /\ mem' = after.mem /\ pdi' = after.pdi /\ wild' = wild
  BY DEF Map
<1>2. /\ Tree(Virt, after.mem, after.pdi)
      /\ TranslateIn(after.mem, v) = p
      /\ \A w \in Virt \ {v} : TranslateIn(after.mem, w) = TranslateIn(mem, w)
  <2>1. Tree(Virt, mem, pdi) /\ p \in 0 .. FrameMod - 1 /\ Pageable(Virt)
    BY VirtPageable DEF IInv
  <2>. QED BY <1>1, <2>1, MapEffect
<1>. HIDE DEF after
<1>3. IInv'
  BY <1>1, <1>2 DEF IInv
<1>4. \A w \in Virt : Translate(w) = TranslateIn(mem, w) /\ Translate(w)' = TranslateIn(mem', w)
  BY DEF Translate
<1>. QED BY <1>1, <1>2, <1>3, <1>4

LEMMA NextInv ==
  ASSUME Room(Virt), IInv, [Next]_vars
  PROVE  IInv'
<1>1. ASSUME NEW v \in Virt, MapAstray(v) PROVE IInv'
  BY <1>1, Zenon DEF MapAstray, IInv
<1>2. ASSUME NEW v \in Virt, NEW p \in Phys, Map(v, p) PROVE IInv'
  BY <1>2, MapStep
<1>3. CASE UNCHANGED vars
  BY <1>3, Zenon DEF vars, IInv
<1>. QED BY <1>1, <1>2, <1>3, Zenon DEF Next

\* The invariant holds whatever is mapped.
THEOREM AlwaysTree ==
  ASSUME Room(Virt)
  PROVE  Spec => []IInv
<1>1. Init => IInv
  BY InitInv
<1>2. IInv /\ [Next]_vars => IInv'
  BY NextInv
<1>. QED BY <1>1, <1>2, PTL DEF Spec

\* The tables stay in the memory that is modelled and hold frames or nothing,
\* and one table for each prefix of a page is enough.
THEOREM TypesKept ==
  ASSUME Room(Virt)
  PROVE  Spec => []TypeOK
<1>1. IInv => TypeOK
  <2>. SUFFICES ASSUME IInv PROVE TypeOK
    OBVIOUS
  <2>1. PICK K, name : Shape(Virt, mem, pdi, K, name)
    BY Zenon DEF IInv, Tree
  <2>2. mem \in Memory /\ pdi \in Nat /\ pdi <= TablesFor(Virt) /\ wild \in BOOLEAN
    BY <2>1, VirtPageable, NameFacts DEF Shape, IInv
  <2>. QED BY <2>2 DEF TypeOK, Memory, Indices, Entries
<1>. QED BY <1>1, AlwaysTree, PTL

\* map's promise, kept by every call whatever tables it allocates on the way:
\* the page is backed by the frame, and every other page by what it was.
THEOREM TablesImplementSpace ==
  ASSUME Room(Virt)
  PROVE  Spec => ImplementsSpace
<1>. DEFINE now == [v \in Virt |-> Translate(v)]
<1>1. Init => Space!SpaceInit
  <2>. SUFFICES ASSUME Init, NEW v \in Virt PROVE Translate(v) = Absent
    BY DEF Space!SpaceInit
  <2>1. PICK garbage \in SUBSET (0 .. Fan - 1), dirt \in {Absent, Junk} :
          mem = LeftOver(garbage, dirt)
    BY Zenon DEF Init
  <2>. QED BY <2>1, VirtPageable, LeftOverTree DEF Translate
<1>2. IInv /\ [Next]_vars => [Space!SpaceNext]_now
  <2>. SUFFICES ASSUME IInv, [Next]_vars PROVE [Space!SpaceNext]_now
    OBVIOUS
  <2>1. ASSUME NEW v \in Virt, NEW p \in Phys, Map(v, p) PROVE Space!SpaceNext
    <3>1. Translate(v)' = p /\ \A w \in Virt \ {v} : Translate(w)' = Translate(w)
      BY <2>1, MapStep
    <3>2. now' = [now EXCEPT ![v] = p]
      BY <3>1
    <3>. QED BY <3>2 DEF Space!SpaceNext, Space!SpaceMap
  <2>2. ASSUME UNCHANGED <<mem, pdi>> PROVE UNCHANGED now
    BY <2>2 DEF Translate, TranslateIn, EntryIn
  <2>3. CASE UNCHANGED vars
    BY <2>2, <2>3 DEF vars
  <2>4. ASSUME NEW v \in Virt, MapAstray(v) PROVE UNCHANGED now
    BY <2>2, <2>4 DEF MapAstray
  <2>. QED BY <2>1, <2>3, <2>4 DEF Next
<1>. QED BY <1>1, <1>2, AlwaysTree, PTL DEF Spec, ImplementsSpace, Space!SpaceSpec

-------------------------------------------------------------------------------
(* The tree.                                                               *)

OnLevel(K, l) == {k \in K : k[1] = l}
TablesOn(K, name, l) == {name[k] : k \in OnLevel(K, l)}

\* The tables below those of a level are those of the next.
LEMMA ChildrenOf ==
  ASSUME NEW K, NEW name, Shape(Virt, mem, pdi, K, name), NEW l \in 0 .. 2
  PROVE  Children(TablesOn(K, name, l)) = TablesOn(K, name, l + 1)
<1>. DEFINE F == TablesOn(K, name, l)
<1>1. /\ K \subseteq Keys
      /\ \A k \in K : name[k] \in Frames /\ name[k] # Absent /\ name[k] # Junk
  BY VirtPageable, NameFacts
<1>2. ASSUME NEW x \in Children(F) PROVE x \in TablesOn(K, name, l + 1)
  <2>1. PICK f \in F, i \in 0 .. Fan - 1 : x = Entry(f, i) /\ x \notin {Absent, Junk}
    <3>. HIDE DEF F
    <3>. QED BY DEF Children
  <2>2. PICK k \in K : f = name[k] /\ k[1] = l
    BY Zenon DEF TablesOn, OnLevel
  <2>3. x = mem[name[k]][i] /\ k[1] < 3 /\ i \in Indices
    BY <1>1, <2>1, <2>2 DEF Entry, EntryIn, Indices
  <2>4. PICK c \in K \ {Root} : Above(c) = k /\ Ix(c) = i
    BY <2>1, <2>3, Zenon DEF Shape, Linked
  <2>5. x = name[c]
    BY <2>3, <2>4, Zenon DEF Shape, Linked
  <2>6. c[1] = l + 1
    BY <1>1, <2>2, <2>4, KeyFacts
  <2>. QED BY <2>5, <2>6, Zenon DEF TablesOn, OnLevel
<1>3. ASSUME NEW x \in TablesOn(K, name, l + 1) PROVE x \in Children(F)
  <2>1. PICK c \in K : x = name[c] /\ c[1] = l + 1
    BY Zenon DEF TablesOn, OnLevel
  <2>2. c \in K \ {Root} /\ Above(c)[1] = l /\ Ix(c) \in 0 .. Fan - 1
    BY <1>1, <2>1, KeyFacts, RootLevel DEF Indices
  <2>3. Above(c) \in K /\ mem[name[Above(c)]][Ix(c)] = x
    BY <2>1, <2>2, Zenon DEF Shape, Named, Linked
  <2>4. name[Above(c)] \in F
    BY <2>2, <2>3, Zenon DEF TablesOn, OnLevel
  <2>5. x = Entry(name[Above(c)], Ix(c)) /\ x \notin {Absent, Junk}
    BY <1>1, <2>1, <2>3 DEF Entry, EntryIn
  <2>. HIDE DEF F
  <2>. QED BY <2>2, <2>4, <2>5 DEF Children
<1>. QED BY <1>2, <1>3

LEMMA Levels ==
  ASSUME NEW K, NEW name, Shape(Virt, mem, pdi, K, name)
  PROVE  /\ Level1 = TablesOn(K, name, 0) /\ Level2 = TablesOn(K, name, 1)
         /\ Level3 = TablesOn(K, name, 2) /\ Level4 = TablesOn(K, name, 3)
         /\ OnLevel(K, 0) = {Root}
<1>1. \A k \in K : k[1] = 0 <=> k = Root
  BY RootLevel, VirtPageable, LevelOfNeeded DEF Shape, Named
<1>2. OnLevel(K, 0) = {Root}
  BY <1>1 DEF OnLevel, Shape, Named
<1>3. Level1 = TablesOn(K, name, 0)
  BY <1>2 DEF Level1, TablesOn, Shape, Named
<1>4. /\ Children(TablesOn(K, name, 0)) = TablesOn(K, name, 1)
      /\ Children(TablesOn(K, name, 1)) = TablesOn(K, name, 2)
      /\ Children(TablesOn(K, name, 2)) = TablesOn(K, name, 3)
  <2>1. /\ Children(TablesOn(K, name, 0)) = TablesOn(K, name, 0 + 1)
        /\ Children(TablesOn(K, name, 1)) = TablesOn(K, name, 1 + 1)
        /\ Children(TablesOn(K, name, 2)) = TablesOn(K, name, 2 + 1)
    BY ChildrenOf
  <2>. QED BY <2>1
<1>. QED BY <1>2, <1>3, <1>4, Zenon DEF Level2, Level3, Level4

LEMMA SizeOfBijection ==
  ASSUME NEW S, NEW T, IsFiniteSet(S), NEW f \in [S -> T],
         \A x, y \in S : f[x] = f[y] => x = y,
         \A y \in T : \E x \in S : f[x] = y
  PROVE  IsFiniteSet(T) /\ Cardinality(T) = Cardinality(S)
<1>1. f \in Bijection(S, T)
  BY Zenon DEF Bijection, Injection, Surjection, IsInjective
<1>. QED BY <1>1, FS_Bijection, Zenon DEF ExistsBijection

\* The tables form a tree: no table hangs below two entries, or on two levels,
\* or below itself, and every page that allocateEntry gave out is in the tree.
THEOREM TablesFormATree ==
  ASSUME Room(Virt)
  PROVE  Spec => []TreeInv
<1>1. IInv => TreeInv
  <2>. SUFFICES ASSUME IInv PROVE TreeInv
    OBVIOUS
  <2>1. PICK K, name : Shape(Virt, mem, pdi, K, name)
    BY Zenon DEF IInv, Tree
  <2>2. /\ Level1 = TablesOn(K, name, 0) /\ Level2 = TablesOn(K, name, 1)
        /\ Level3 = TablesOn(K, name, 2) /\ Level4 = TablesOn(K, name, 3)
        /\ OnLevel(K, 0) = {Root}
    BY <2>1, Levels
  <2>3. /\ K \subseteq Keys /\ Root \in K /\ pdi \in Nat
        /\ \A k, h \in K : name[k] = name[h] => k = h
        /\ \A k \in K : /\ name[k] \in Frames /\ name[k] \in DirBase .. DirBase + pdi
                        /\ name[k] # Absent /\ name[k] # Junk
    BY <2>1, VirtPageable, NameFacts
  <2>4. \A k \in K : k[1] \in 0 .. 3 /\ (k[1] = 0 <=> k = Root)
    BY <2>2, <2>3, KeyFacts DEF OnLevel
  <2>5. \A k \in K \ {Root} : Above(k) \in K /\ mem[name[Above(k)]][Ix(k)] = name[k]
    BY <2>1, Zenon DEF Shape, Named, Linked
  <2>6. Level2 \cup Level3 \cup Level4 = {name[k] : k \in K \ {Root}}
    <3>1. \A k \in K : k # Root <=> k[1] = 1 \/ k[1] = 2 \/ k[1] = 3
      BY <2>4
    <3>. QED BY <2>2, <3>1 DEF TablesOn, OnLevel
  <2>7. {name[k] : k \in K \ {Root}} = DirBase + 1 .. DirBase + pdi
    <3>1. name[Root] = DirBase /\ \A f \in DirBase .. DirBase + pdi : \E k \in K : name[k] = f
      BY <2>1 DEF Shape, Named, Bijection, Surjection
    <3>2. \A k \in K \ {Root} : name[k] \in DirBase + 1 .. DirBase + pdi
      BY <2>3, <3>1, TablesAssumption
    <3>3. ASSUME NEW f \in DirBase + 1 .. DirBase + pdi
          PROVE  \E k \in K \ {Root} : name[k] = f
      <4>1. f \in DirBase .. DirBase + pdi /\ f # DirBase
        BY TablesAssumption, <2>3
      <4>. QED BY <4>1, <3>1
    <3>. QED BY <3>2, <3>3
  <2>8. Level2 \cap (Level3 \cup Level4) = {} /\ Level3 \cap Level4 = {}
    <3>1. \A i, j \in 1 .. 3 : i # j => TablesOn(K, name, i) \cap TablesOn(K, name, j) = {}
      BY <2>3 DEF TablesOn, OnLevel
    <3>. QED BY <2>2, <3>1
  <2>9. Cardinality(Links) = pdi
    <3>. DEFINE f == [k \in K \ {Root} |-> <<name[Above(k)], Ix(k)>>]
    <3>1. IsFiniteSet(K) /\ Cardinality(K) = pdi + 1
      BY <2>1, VirtPageable, NamedSize DEF Shape
    <3>2. IsFiniteSet(K \ {Root}) /\ Cardinality(K \ {Root}) = pdi
      <4>1. IsFiniteSet(K \ {Root}) /\ Cardinality(K \ {Root}) = Cardinality(K) - 1
        BY <2>3, <3>1, FS_RemoveElement, Zenon
      <4>. QED BY <2>3, <3>1, <4>1
    <3>3. ASSUME NEW k \in K \ {Root} PROVE f[k] \in Links
      <4>1. Above(k)[1] \in 0 .. 2 /\ Ix(k) \in Indices
        BY <2>3, <2>4, KeyFacts
      <4>2. name[Above(k)] \in Level1 \cup Level2 \cup Level3
        BY <2>2, <2>5, <4>1 DEF TablesOn, OnLevel
      <4>3. Entry(name[Above(k)], Ix(k)) \notin {Absent, Junk}
        BY <2>3, <2>5 DEF Entry, EntryIn
      <4>. QED BY <4>1, <4>2, <4>3 DEF Links, Indices
    <3>4. ASSUME NEW k \in K \ {Root}, NEW h \in K \ {Root}, f[k] = f[h] PROVE k = h
      <4>1. name[Above(k)] = name[Above(h)] /\ Ix(k) = Ix(h)
        BY <3>4
      <4>2. Above(k) = Above(h) /\ k \in Keys /\ h \in Keys
        BY <2>3, <2>5, <4>1
      <4>. QED BY <4>1, <4>2, AboveDetermines
    <3>5. ASSUME NEW e \in Links PROVE \E k \in K \ {Root} : f[k] = e
      <4>1. PICK g \in Level1 \cup Level2 \cup Level3, i \in 0 .. Fan - 1 :
              e = <<g, i>> /\ Entry(g, i) \notin {Absent, Junk}
        BY DEF Links
      <4>2. PICK h \in K : g = name[h] /\ h[1] < 3
        BY <2>2 DEF TablesOn, OnLevel
      <4>3. mem[name[h]][i] \notin {Absent, Junk}
        BY <2>3, <4>1, <4>2 DEF Entry, EntryIn
      <4>4. PICK k \in K \ {Root} : Above(k) = h /\ Ix(k) = i
        BY <2>1, <4>2, <4>3 DEF Shape, Linked, Indices
      <4>. QED BY <4>1, <4>2, <4>4
    <3>6. f \in [K \ {Root} -> Links]
      BY <3>3
    <3>. HIDE DEF f
    <3>. QED BY <3>2, <3>4, <3>5, <3>6, SizeOfBijection
  <2>. QED BY <2>6, <2>7, <2>8, <2>9 DEF TreeInv
<1>. QED BY <1>1, AlwaysTree, PTL

\* The numbers of the tables on a level.
Numbers(K, l) == {k[2] : k \in OnLevel(K, l)}

LEMMA NumbersSize ==
  ASSUME NEW K, K \subseteq Keys, IsFiniteSet(K), NEW l \in 1 .. 3
  PROVE  /\ IsFiniteSet(OnLevel(K, l)) /\ Cardinality(OnLevel(K, l)) \in Nat
         /\ Cardinality(Numbers(K, l)) = Cardinality(OnLevel(K, l))
<1>. DEFINE S == OnLevel(K, l)
            f == [k \in S |-> k[2]]
<1>1. S \subseteq K
  BY DEF OnLevel
<1>2. IsFiniteSet(S) /\ Cardinality(S) \in Nat
  BY <1>1, FS_Subset, FS_CardinalityType
<1>3. \A k \in S : k = <<l, k[2]>>
  BY KeyFacts DEF OnLevel
<1>4. \A k, h \in S : f[k] = f[h] => k = h
  BY <1>3
<1>5. f \in [S -> Numbers(K, l)] /\ \A y \in Numbers(K, l) : \E k \in S : f[k] = y
  BY Zenon DEF Numbers
<1>. HIDE DEF S, f
<1>6. Cardinality(Numbers(K, l)) = Cardinality(S)
  BY <1>2, <1>4, <1>5, SizeOfBijection
<1>. QED BY <1>2, <1>6 DEF S

\* The tables there are, are those the mapped pages need.
LEMMA NumbersOfMapped ==
  ASSUME NEW K, NEW name, Shape(Virt, mem, pdi, K, name), Leaves(Virt, mem, K, name)
  PROVE  /\ Numbers(K, 3) = {Shift(v) : v \in Mapped}
         /\ Numbers(K, 2) = {Shift(Shift(v)) : v \in Mapped}
         /\ Numbers(K, 1) = {Shift(Shift(Shift(v))) : v \in Mapped}
<1>1. \A v \in Virt : Translate(v) = TranslateIn(mem, v)
  BY DEF Translate
<1>2. \A v \in Virt : Translate(v) = IF T3(v) \in K THEN mem[name[T3(v)]][P_i(v)] ELSE Absent
  BY <1>1, VirtPageable, TranslateIs
<1>3. ASSUME NEW v \in Mapped
      PROVE  /\ T1(v) \in K /\ T2(v) \in K /\ T3(v) \in K
             /\ T1(v)[1] = 1 /\ T2(v)[1] = 2 /\ T3(v)[1] = 3
  <2>1. v \in Virt /\ T3(v) \in K
    BY <1>2 DEF Mapped
  <2>2. /\ Above(T2(v)) = T1(v) /\ Above(T3(v)) = T2(v) /\ Root \notin {T1(v), T2(v), T3(v)}
        /\ T1(v)[1] = 1 /\ T2(v)[1] = 2 /\ T3(v)[1] = 3
    BY <2>1, VirtPageable, PathOf, Zenon
  <2>3. \A k \in K \ {Root} : Above(k) \in K
    BY Zenon DEF Shape, Named
  <2>. QED BY <2>1, <2>2, <2>3
<1>4. ASSUME NEW k \in K, k[1] # 0
      PROVE  \E v \in Mapped : /\ k[1] = 3 => k = T3(v)
                               /\ k[1] = 2 => k = T2(v)
                               /\ k[1] = 1 => k = T1(v)
  <2>1. PICK v \in Virt : /\ k \in {T1(v), T2(v), T3(v)}
                          /\ T3(v) \in K /\ mem[name[T3(v)]][P_i(v)] # Absent
    BY <1>4, RootLevel, Zenon DEF Leaves
  <2>2. v \in Mapped
    BY <1>2, <2>1 DEF Mapped
  <2>3. T1(v)[1] = 1 /\ T2(v)[1] = 2 /\ T3(v)[1] = 3
    BY VirtPageable, PathOf
  <2>. QED BY <2>1, <2>2, <2>3
<1>5. \A v \in Mapped : /\ T3(v)[2] = Shift(v) /\ T2(v)[2] = Shift(Shift(v))
                        /\ T1(v)[2] = Shift(Shift(Shift(v)))
  BY DEF T1, T2, T3
<1>6. Numbers(K, 3) = {Shift(v) : v \in Mapped}
  BY <1>3, <1>4, <1>5 DEF Numbers, OnLevel
<1>7. Numbers(K, 2) = {Shift(Shift(v)) : v \in Mapped}
  BY <1>3, <1>4, <1>5 DEF Numbers, OnLevel
<1>8. Numbers(K, 1) = {Shift(Shift(Shift(v))) : v \in Mapped}
  BY <1>3, <1>4, <1>5 DEF Numbers, OnLevel
<1>. QED BY <1>6, <1>7, <1>8

\* allocateEntry has been called once for each different prefix of the mapped
\* pages, and for nothing else.
THEOREM OneTablePerPrefix ==
  ASSUME Room(Virt)
  PROVE  Spec => []TableCount
<1>1. IInv => TableCount
  <2>. SUFFICES ASSUME IInv PROVE TableCount
    OBVIOUS
  <2>1. PICK K, name : Shape(Virt, mem, pdi, K, name) /\ Leaves(Virt, mem, K, name)
    BY Zenon DEF IInv, Tree
  <2>2. K \subseteq Keys /\ Root \in K /\ pdi \in Nat
    BY <2>1, VirtPageable, NameFacts
  <2>3. IsFiniteSet(K) /\ Cardinality(K) = pdi + 1
    BY <2>1, VirtPageable, NamedSize DEF Shape
  <2>4. IsFiniteSet(K \ {Root}) /\ Cardinality(K \ {Root}) = pdi
    <3>1. IsFiniteSet(K \ {Root}) /\ Cardinality(K \ {Root}) = Cardinality(K) - 1
      BY <2>2, <2>3, FS_RemoveElement, Zenon
    <3>. QED BY <2>2, <2>3, <3>1
  <2>. DEFINE A1 == OnLevel(K, 1)
              A2 == OnLevel(K, 2)
              A3 == OnLevel(K, 3)
  <2>5. K \ {Root} = A1 \cup A2 \cup A3
    <3>1. OnLevel(K, 0) = {Root}
      BY <2>1, Levels
    <3>2. \A k \in K : k[1] \in 0 .. 3 /\ (k[1] = 0 <=> k = Root)
      BY <2>2, <3>1, KeyFacts DEF OnLevel
    <3>3. \A k \in K : k # Root <=> k[1] = 1 \/ k[1] = 2 \/ k[1] = 3
      BY <3>2
    <3>. QED BY <3>3 DEF OnLevel
  <2>6. A1 \cap A2 = {} /\ (A1 \cup A2) \cap A3 = {}
    BY DEF OnLevel
  <2>7. /\ IsFiniteSet(A1) /\ Cardinality(A1) \in Nat
        /\ IsFiniteSet(A2) /\ Cardinality(A2) \in Nat
        /\ IsFiniteSet(A3) /\ Cardinality(A3) \in Nat
        /\ Cardinality(Numbers(K, 1)) = Cardinality(A1)
        /\ Cardinality(Numbers(K, 2)) = Cardinality(A2)
        /\ Cardinality(Numbers(K, 3)) = Cardinality(A3)
    BY <2>2, <2>3, NumbersSize
  <2>. HIDE DEF A1, A2, A3
  <2>8. Cardinality({}) = 0
    BY FS_EmptySet
  <2>9. IsFiniteSet(A1 \cup A2)
          /\ Cardinality(A1 \cup A2) = Cardinality(A1) + Cardinality(A2) - Cardinality({})
    BY <2>6, <2>7, FS_Union
  <2>10. Cardinality(A1 \cup A2 \cup A3)
           = Cardinality(A1 \cup A2) + Cardinality(A3) - Cardinality({})
    BY <2>6, <2>7, <2>9, FS_Union
  <2>11. pdi = Cardinality(A3) + Cardinality(A2) + Cardinality(A1)
    <3>1. Cardinality(A1 \cup A2 \cup A3) = pdi
      BY <2>4, <2>5, Zenon
    <3>. QED BY <3>1, <2>7, <2>8, <2>9, <2>10
  <2>. QED BY <2>1, <2>7, <2>11, NumbersOfMapped DEF TableCount, TablesFor
<1>. QED BY <1>1, AlwaysTree, PTL

===============================================================================
