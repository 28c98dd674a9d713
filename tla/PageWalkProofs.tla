----------------------------- MODULE PageWalkProofs -----------------------------
(***************************************************************************)
(* Proofs about the module PageWalk, for tables of any size and any set V  *)
(* of pages, as long as the page directory has room for their tables: what *)
(* one call of map does to tables that form a tree, and to the translation *)
(* of every page.                                                          *)
(***************************************************************************)
EXTENDS PageWalk, FiniteSetTheorems, TLAPS

\* A table is known by its level and the number that the addresses below it
\* have in common.
Root == <<0, 0>>
T3(v) == <<3, Shift(v)>>
T2(v) == <<2, Shift(Shift(v))>>
T1(v) == <<1, Shift(Shift(Shift(v)))>>

Keys == (0 .. 3) \X Nat
Above(k) == <<k[1] - 1, Shift(k[2])>>
Ix(k) == k[2] % Fan

\* The tables that the pages of V need.
Needed(V) == {Root} \cup {T1(v) : v \in V} \cup {T2(v) : v \in V} \cup {T3(v) : v \in V}

Indices == 0 .. Fan - 1
Entries == (0 .. FrameMod - 1) \cup {Absent}
Memory == [Frames -> [Indices -> Entries]]

\* K holds the tables there are, and name tells the page each of them is in.
Named(V, n, K, name) ==
  /\ Root \in K /\ K \subseteq Needed(V)
  /\ \A k \in K \ {Root} : Above(k) \in K
  /\ name \in Bijection(K, DirBase .. DirBase + n)
  /\ name[Root] = DirBase

\* Each table but the root is linked where its key says, and nothing else is
\* linked, but for what was in the root table before.
Linked(m, K, name) ==
  /\ \A k \in K \ {Root} : m[name[Above(k)]][Ix(k)] = name[k]
  /\ \A k \in K, i \in Indices :
       k[1] < 3 /\ m[name[k]][i] # Absent =>
         \/ k = Root /\ m[name[k]][i] = Junk
         \/ \E c \in K \ {Root} : Above(c) = k /\ Ix(c) = i

Shape(V, m, n, K, name) ==
  m \in Memory /\ n \in Nat /\ Named(V, n, K, name) /\ Linked(m, K, name)

\* The entries of the lowest tables are those of pages, and no table is there
\* without a page.
Leaves(V, m, K, name) ==
  /\ \A k \in K, i \in Indices :
       k[1] = 3 /\ m[name[k]][i] # Absent => \E v \in V : T3(v) = k /\ P_i(v) = i
  /\ \A k \in K \ {Root} : \E v \in V :
       /\ k \in {T1(v), T2(v), T3(v)}
       /\ T3(v) \in K /\ m[name[T3(v)]][P_i(v)] # Absent

Tree(V, m, n) == \E K : \E name : Shape(V, m, n, K, name) /\ Leaves(V, m, K, name)

-------------------------------------------------------------------------------
(* Numbers.                                                                *)

LEMMA ShiftType ==
  ASSUME NEW n \in Nat
  PROVE  Shift(n) \in Nat /\ n % Fan \in Indices
BY TablesAssumption DEF Shift, Indices

\* Quotient and remainder determine a number.
LEMMA ShiftDetermines ==
  ASSUME NEW a \in Nat, NEW b \in Nat, Shift(a) = Shift(b), a % Fan = b % Fan
  PROVE  a = b
<1>1. a = Fan * Shift(a) + (a % Fan) /\ b = Fan * Shift(b) + (b % Fan)
  BY TablesAssumption DEF Shift
<1>. QED BY <1>1

LEMMA ShiftBelow ==
  ASSUME NEW n \in Nat, NEW b \in Nat, n < b * Fan
  PROVE  Shift(n) < b
<1>1. n = Fan * Shift(n) + (n % Fan) /\ n % Fan >= 0 /\ Shift(n) \in Nat
  BY TablesAssumption DEF Shift
<1>2. SUFFICES ASSUME Shift(n) >= b PROVE FALSE
  BY <1>1
<1>3. Fan * Shift(n) >= Fan * b
  BY <1>1, <1>2, TablesAssumption
<1>. QED BY <1>1, <1>3, TablesAssumption

\* Four shifts leave nothing of a page number.
LEMMA FourShifts ==
  ASSUME NEW V, Pageable(V),
         NEW v \in V
  PROVE  v \in Nat /\ Shift(Shift(Shift(Shift(v)))) = 0
<1>. DEFINE F2 == Fan * Fan
            F3 == F2 * Fan
<1>1. F2 \in Nat /\ Fan \in Nat
  BY TablesAssumption
<1>2. F3 \in Nat
  <2>. HIDE DEF F2
  <2>. QED BY <1>1
<1>3. v \in Nat /\ v < F3 * Fan
  <2>1. v \in 0 .. Fan * Fan * Fan * Fan - 1
    BY DEF Pageable, PageNumbers
  <2>2. F3 * Fan \in Nat
    <3>. HIDE DEF F3
    <3>. QED BY <1>1, <1>2
  <2>. QED BY <2>1, <2>2
<1>4. Shift(v) \in Nat /\ Shift(v) < F3
  <2>. HIDE DEF F3
  <2>. QED BY <1>2, <1>3, ShiftBelow, ShiftType
<1>5. Shift(Shift(v)) \in Nat /\ Shift(Shift(v)) < F2
  <2>. HIDE DEF F2
  <2>. QED BY <1>1, <1>4, ShiftBelow, ShiftType
<1>6. Shift(Shift(Shift(v))) \in Nat /\ Shift(Shift(Shift(v))) < 1 * Fan
  <2>1. Shift(Shift(Shift(v))) \in Nat /\ Shift(Shift(Shift(v))) < Fan
    BY <1>1, <1>5, ShiftBelow, ShiftType
  <2>. QED BY <2>1, <1>1
<1>7. Shift(Shift(Shift(Shift(v)))) \in Nat /\ Shift(Shift(Shift(Shift(v)))) < 1
  BY <1>6, ShiftBelow, ShiftType
<1>. QED BY <1>3, <1>7

-------------------------------------------------------------------------------
(* Keys.                                                                   *)

LEMMA KeysType ==
  ASSUME NEW V, Pageable(V)
  PROVE  /\ Root \in Keys
         /\ \A v \in V : T1(v) \in Keys /\ T2(v) \in Keys /\ T3(v) \in Keys
         /\ Needed(V) \subseteq Keys
<1>1. Root \in Keys
  BY DEF Root, Keys
<1>2. ASSUME NEW v \in V PROVE T1(v) \in Keys /\ T2(v) \in Keys /\ T3(v) \in Keys
  BY FourShifts, ShiftType DEF Keys, T1, T2, T3
<1>. QED BY <1>1, <1>2, Zenon DEF Needed

LEMMA KeyFacts ==
  /\ \A k \in Keys : k[1] \in 0 .. 3 /\ k[2] \in Nat /\ k = <<k[1], k[2]>> /\ Ix(k) \in Indices
  /\ \A k \in Keys : Above(k)[1] = k[1] - 1
BY ShiftType DEF Keys, Ix, Above

\* A table is the only one at its place.
LEMMA AboveDetermines ==
  ASSUME NEW k \in Keys, NEW c \in Keys, Above(k) = Above(c), Ix(k) = Ix(c)
  PROVE  k = c
<1>1. k[1] - 1 = c[1] - 1 /\ Shift(k[2]) = Shift(c[2]) /\ k[2] % Fan = c[2] % Fan
  BY DEF Above, Ix
<1>2. k[2] = c[2]
  BY <1>1, KeyFacts, ShiftDetermines
<1>3. k[1] = c[1]
  BY <1>1, KeyFacts
<1>. QED BY <1>2, <1>3, KeyFacts

LEMMA PathOf ==
  ASSUME NEW V, Pageable(V),
         NEW v \in V
  PROVE  /\ Above(T1(v)) = Root /\ Above(T2(v)) = T1(v) /\ Above(T3(v)) = T2(v)
         /\ Ix(T1(v)) = PDP_i(v) /\ Ix(T2(v)) = PD_i(v) /\ Ix(T3(v)) = PT_i(v)
         /\ T1(v)[1] = 1 /\ T2(v)[1] = 2 /\ T3(v)[1] = 3
         /\ Root \notin {T1(v), T2(v), T3(v)}
         /\ P_i(v) \in Indices
BY FourShifts, ShiftType DEF Above, Root, T1, T2, T3, Ix, PDP_i, PD_i, PT_i, P_i

LEMMA PageDetermined ==
  ASSUME NEW V, Pageable(V),
         NEW v \in V, NEW w \in V, T3(v) = T3(w), P_i(v) = P_i(w)
  PROVE  v = w
BY FourShifts, ShiftDetermines DEF T3, P_i

\* Only the root is on level 0.
LEMMA LevelOfNeeded ==
  ASSUME NEW V, Pageable(V),
         NEW k \in Needed(V), k # Root
  PROVE  k[1] \in 1 .. 3 /\ \E v \in V : k \in {T1(v), T2(v), T3(v)}
<1>1. PICK v \in V : k \in {T1(v), T2(v), T3(v)}
  BY Zenon DEF Needed
<1>. QED BY <1>1, PathOf

LEMMA RootLevel == Root[1] = 0
BY DEF Root

-------------------------------------------------------------------------------
(* Counting the tables.                                                    *)

LEMMA PageableFinite ==
  ASSUME NEW V, Pageable(V)
  PROVE  IsFiniteSet(V)
<1>. DEFINE last == Fan * Fan * Fan * Fan - 1
<1>1. last \in Int
  <2>1. \A a, b \in Nat : a * b \in Nat
    OBVIOUS
  <2>2. Fan * Fan * Fan * Fan \in Nat
    BY <2>1, TablesAssumption, Zenon
  <2>. QED BY <2>2
<1>2. V \subseteq 0 .. last
  BY DEF Pageable, PageNumbers
<1>. HIDE DEF last
<1>3. IsFiniteSet(0 .. last)
  BY <1>1, FS_Interval
<1>. QED BY <1>2, <1>3, FS_Subset

LEMMA ImageSize ==
  ASSUME NEW S, NEW T, IsFiniteSet(S), NEW f \in Surjection(S, T)
  PROVE  IsFiniteSet(T) /\ Cardinality(T) \in Nat /\ Cardinality(T) <= Cardinality(S)
BY FS_Surjection, FS_CardinalityType

LEMMA UnionSize ==
  ASSUME NEW S, NEW T, IsFiniteSet(S), IsFiniteSet(T)
  PROVE  /\ IsFiniteSet(S \cup T) /\ Cardinality(S \cup T) \in Nat
         /\ Cardinality(S \cup T) <= Cardinality(S) + Cardinality(T)
<1>1. /\ Cardinality(S) \in Nat /\ Cardinality(T) \in Nat
      /\ IsFiniteSet(S \cap T) /\ IsFiniteSet(S \cup T)
  BY FS_Union, FS_Intersection, FS_CardinalityType
<1>2. Cardinality(S \cap T) \in Nat /\ Cardinality(S \cup T) \in Nat
  BY <1>1, FS_CardinalityType
<1>3. Cardinality(S \cup T) = Cardinality(S) + Cardinality(T) - Cardinality(S \cap T)
  BY FS_Union
<1>. QED BY <1>1, <1>2, <1>3

\* The pages need a table for each prefix at most, and the root.
LEMMA NeededSize ==
  ASSUME NEW V, Pageable(V)
  PROVE  /\ IsFiniteSet(Needed(V)) /\ TablesFor(V) \in Nat
         /\ Cardinality(Needed(V)) <= 1 + TablesFor(V)
<1>. DEFINE N1 == {Shift(Shift(Shift(v))) : v \in V}
            N2 == {Shift(Shift(v)) : v \in V}
            N3 == {Shift(v) : v \in V}
            A1 == {T1(v) : v \in V}
            A2 == {T2(v) : v \in V}
            A3 == {T3(v) : v \in V}
<1>1. IsFiniteSet(V)
  BY PageableFinite
<1>2. IsFiniteSet(N1) /\ IsFiniteSet(N2) /\ IsFiniteSet(N3)
  <2>1. /\ [v \in V |-> Shift(Shift(Shift(v)))] \in Surjection(V, N1)
        /\ [v \in V |-> Shift(Shift(v))] \in Surjection(V, N2)
        /\ [v \in V |-> Shift(v)] \in Surjection(V, N3)
    BY Zenon DEF Surjection
  <2>. QED BY <1>1, <2>1, ImageSize
<1>3. Cardinality(N1) \in Nat /\ Cardinality(N2) \in Nat /\ Cardinality(N3) \in Nat
  BY <1>2, FS_CardinalityType
<1>4. IsFiniteSet(A1) /\ Cardinality(A1) \in Nat /\ Cardinality(A1) <= Cardinality(N1)
  <2>1. [n \in N1 |-> <<1, n>>] \in Surjection(N1, A1)
    BY Zenon DEF Surjection, T1
  <2>. QED BY <1>2, <2>1, ImageSize
<1>5. IsFiniteSet(A2) /\ Cardinality(A2) \in Nat /\ Cardinality(A2) <= Cardinality(N2)
  <2>1. [n \in N2 |-> <<2, n>>] \in Surjection(N2, A2)
    BY Zenon DEF Surjection, T2
  <2>. QED BY <1>2, <2>1, ImageSize
<1>6. IsFiniteSet(A3) /\ Cardinality(A3) \in Nat /\ Cardinality(A3) <= Cardinality(N3)
  <2>1. [n \in N3 |-> <<3, n>>] \in Surjection(N3, A3)
    BY Zenon DEF Surjection, T3
  <2>. QED BY <1>2, <2>1, ImageSize
<1>7. IsFiniteSet({Root}) /\ Cardinality({Root}) = 1
  BY FS_Singleton
<1>. DEFINE c1 == Cardinality(N1)
            c2 == Cardinality(N2)
            c3 == Cardinality(N3)
<1>8. TablesFor(V) = c3 + c2 + c1
  BY DEF TablesFor
<1>9. Needed(V) = {Root} \cup A1 \cup A2 \cup A3
  BY DEF Needed
<1>10. c1 \in Nat /\ c2 \in Nat /\ c3 \in Nat
         /\ Cardinality(A1) <= c1 /\ Cardinality(A2) <= c2 /\ Cardinality(A3) <= c3
  BY <1>3, <1>4, <1>5, <1>6
<1>. HIDE DEF A1, A2, A3, N1, N2, N3, c1, c2, c3
<1>11. IsFiniteSet({Root} \cup A1) /\ Cardinality({Root} \cup A1) \in Nat
         /\ Cardinality({Root} \cup A1) <= 1 + c1
  BY <1>4, <1>7, <1>10, UnionSize
<1>12. IsFiniteSet({Root} \cup A1 \cup A2) /\ Cardinality({Root} \cup A1 \cup A2) \in Nat
         /\ Cardinality({Root} \cup A1 \cup A2) <= 1 + c1 + c2
  BY <1>5, <1>10, <1>11, UnionSize
<1>13. IsFiniteSet({Root} \cup A1 \cup A2 \cup A3)
         /\ Cardinality({Root} \cup A1 \cup A2 \cup A3) <= 1 + c1 + c2 + c3
  BY <1>6, <1>10, <1>12, UnionSize
<1>. QED BY <1>8, <1>9, <1>10, <1>13

\* As many pages have been given out as there are tables besides the root.
LEMMA NamedSize ==
  ASSUME NEW V, Pageable(V),
         NEW n \in Nat, NEW K, NEW name, Named(V, n, K, name)
  PROVE  IsFiniteSet(K) /\ Cardinality(K) = n + 1 /\ n <= TablesFor(V)
<1>1. K \subseteq Needed(V) /\ name \in Bijection(K, DirBase .. DirBase + n)
  BY DEF Named
<1>2. IsFiniteSet(K) /\ Cardinality(K) <= Cardinality(Needed(V))
  BY <1>1, NeededSize, FS_Subset
<1>3. Cardinality(DirBase .. DirBase + n) = n + 1
  BY FS_Interval, TablesAssumption
<1>4. Cardinality(K) = n + 1
  BY <1>1, <1>2, <1>3, FS_Bijection, Zenon DEF ExistsBijection
<1>. QED BY <1>2, <1>4, NeededSize, FS_CardinalityType

\* There is room for a table that is missing.
LEMMA RoomForOneMore ==
  ASSUME NEW V, Pageable(V),
         NEW n \in Nat, NEW K, NEW name, Named(V, n, K, name), NEW c \in Needed(V), c \notin K
  PROVE  n + 1 <= TablesFor(V)
<1>1. IsFiniteSet(K) /\ Cardinality(K) = n + 1
  BY NamedSize
<1>2. Cardinality(K \cup {c}) = n + 2
  BY <1>1, FS_AddElement
<1>3. K \cup {c} \subseteq Needed(V)
  BY DEF Named
<1>4. Cardinality(K \cup {c}) <= Cardinality(Needed(V))
  BY <1>3, NeededSize, FS_Subset
<1>. QED BY <1>2, <1>4, NeededSize, FS_CardinalityType

-------------------------------------------------------------------------------
(* One step down the tables.                                               *)

LEMMA LinkFacts ==
  ASSUME NEW m \in Memory, NEW f \in Frames, NEW i \in Indices, NEW new \in Frames
  PROVE  /\ Link(m, f, i, new) \in Memory
         /\ \A g \in Frames, j \in Indices :
              Link(m, f, i, new)[g][j] =
                IF g = f /\ j = i THEN new ELSE IF g = new THEN Absent ELSE m[g][j]
<1>1. SetAddr(new) = new /\ new \in Entries
  BY TablesAssumption DEF SetAddr, Frames, Entries
<1>. DEFINE cleared == [m EXCEPT ![new] = EmptyTable]
<1>2. EmptyTable \in [Indices -> Entries] /\ \A j \in Indices : EmptyTable[j] = Absent
  BY DEF EmptyTable, Indices, Entries
<1>3. cleared \in Memory /\ \A g \in Frames : cleared[g] = IF g = new THEN EmptyTable ELSE m[g]
  BY <1>2, Zenon DEF Memory
<1>. HIDE DEF cleared
<1>4. Link(m, f, i, new) = [cleared EXCEPT ![f] = [cleared[f] EXCEPT ![i] = new]]
  BY <1>1 DEF Link, cleared
<1>5. [cleared[f] EXCEPT ![i] = new] \in [Indices -> Entries]
  BY <1>1, <1>3 DEF Memory
<1>. QED BY <1>2, <1>3, <1>4, <1>5 DEF Memory

LEMMA NameFacts ==
  ASSUME NEW V, Pageable(V),
         NEW m, NEW n, NEW K, NEW name, Shape(V, m, n, K, name)
  PROVE  /\ K \subseteq Keys /\ Root \in K
         /\ \A k \in K : name[k] \in Frames /\ name[k] \in DirBase .. DirBase + n
         /\ \A k, h \in K : name[k] = name[h] => k = h
         /\ \A k \in K : name[k] \in Entries /\ name[k] # Absent /\ name[k] # Junk
         /\ DirBase + n <= MaxFrame /\ n \in Nat /\ n <= TablesFor(V)
<1>1. K \subseteq Keys /\ Root \in K
  BY KeysType DEF Shape, Named
<1>2. n \in Nat /\ n <= TablesFor(V)
  BY NamedSize DEF Shape
<1>3. DirBase + n <= MaxFrame
  BY <1>2, TablesAssumption, NeededSize DEF Pageable
<1>4. \A k \in K : name[k] \in DirBase .. DirBase + n
  BY DEF Shape, Named, Bijection, Injection
<1>5. \A k, h \in K : name[k] = name[h] => k = h
  BY Zenon DEF Shape, Named, Bijection, Injection, IsInjective
<1>6. \A f \in DirBase .. DirBase + n :
        f \in Frames /\ f \in Entries /\ f # Absent /\ f # Junk
  BY <1>2, <1>3, TablesAssumption DEF Frames, Entries, Absent, Junk
<1>. QED BY <1>1, <1>2, <1>3, <1>4, <1>5, <1>6

LEMMA EnterFacts ==
  ASSUME NEW m, NEW n, NEW f, NEW i
  PROVE  Enter([pdi |-> n, at |-> f, mem |-> m], i)
           = IF m[f][i] # Absent
             THEN [pdi |-> n, at |-> m[f][i], mem |-> m]
             ELSE [pdi |-> n + 1, at |-> AllocateEntry(n + 1),
                   mem |-> Link(m, f, i, AllocateEntry(n + 1))]
BY DEF Enter

LEMMA EnterMissing ==
  ASSUME NEW m, NEW n, NEW f, NEW i, m[f][i] = Absent
  PROVE  Enter([pdi |-> n, at |-> f, mem |-> m], i)
           = [pdi |-> n + 1, at |-> AllocateEntry(n + 1),
              mem |-> Link(m, f, i, AllocateEntry(n + 1))]
BY DEF Enter

\* What a step down, or several, leave as it was: the tables there were are
\* where they were, and the entries of the lowest ones are what they were.
Kept(m, K, name, after, names) ==
  \A k \in K :
    /\ names[k] = name[k]
    /\ k[1] = 3 => \A i \in Indices : after[name[k]][i] = m[name[k]][i]

\* Nor does it put anything into the root that was not there and is no table.
RootKept(m, after) ==
  \A i \in Indices : after[DirBase][i] = Junk => m[DirBase][i] = Junk

\* A step down to table c, after which it is there if it was not.
Entered(V, m, n, K, name, c, after, count, names) ==
  /\ Enter([pdi |-> n, at |-> name[Above(c)], mem |-> m], Ix(c))
       = [pdi |-> count, at |-> names[c], mem |-> after]
  /\ Shape(V, after, count, K \cup {c}, names)
  /\ Kept(m, K, name, after, names) /\ RootKept(m, after)
  /\ c \notin K => \A i \in Indices : after[names[c]][i] = Absent

\* A step down to a table that is there.
LEMMA EnterOld ==
  ASSUME NEW V, Pageable(V),
         NEW m, NEW n, NEW K, NEW name, Shape(V, m, n, K, name),
         NEW c \in K \ {Root}
  PROVE  Enter([pdi |-> n, at |-> name[Above(c)], mem |-> m], Ix(c))
           = [pdi |-> n, at |-> name[c], mem |-> m]
<1>1. m[name[Above(c)]][Ix(c)] = name[c]
  BY Zenon DEF Shape, Linked
<1>2. name[c] # Absent
  BY NameFacts
<1>3. m[name[Above(c)]][Ix(c)] # Absent
  BY <1>1, <1>2, Zenon
<1>4. Enter([pdi |-> n, at |-> name[Above(c)], mem |-> m], Ix(c))
        = [pdi |-> n, at |-> m[name[Above(c)]][Ix(c)], mem |-> m]
  <2>. DEFINE f == name[Above(c)]
              i == Ix(c)
  <2>1. m[f][i] # Absent
    BY <1>3
  <2>. HIDE DEF f, i
  <2>2. Enter([pdi |-> n, at |-> f, mem |-> m], i) = [pdi |-> n, at |-> m[f][i], mem |-> m]
    BY <2>1 DEF Enter
  <2>. QED BY <2>2 DEF f, i
<1>. QED BY <1>1, <1>4, Zenon

\* The entry for a table that is not there is absent, if it is not left over.
LEMMA MissingIsAbsent ==
  ASSUME NEW V, Pageable(V),
         NEW m, NEW n, NEW K, NEW name, Shape(V, m, n, K, name),
         NEW c \in Needed(V) \ {Root}, c \notin K, Above(c) \in K,
         ~ (Above(c) = Root /\ m[name[Above(c)]][Ix(c)] = Junk)
  PROVE  m[name[Above(c)]][Ix(c)] = Absent
<1>1. c \in Keys /\ Ix(c) \in Indices /\ Above(c)[1] < 3
  BY KeysType, KeyFacts, LevelOfNeeded
<1>2. SUFFICES ASSUME m[name[Above(c)]][Ix(c)] # Absent PROVE FALSE
  OBVIOUS
<1>3. PICK d \in K \ {Root} : Above(d) = Above(c) /\ Ix(d) = Ix(c)
  BY <1>1, <1>2, Zenon DEF Shape, Linked
<1>4. d \in Keys
  BY NameFacts
<1>5. d = c
  BY <1>1, <1>3, <1>4, AboveDetermines
<1>. QED BY <1>3, <1>5

\* A step down to a table that is allocated on the way.
LEMMA EnterNew ==
  ASSUME NEW V, Pageable(V), Room(V),
         NEW m, NEW n, NEW K, NEW name, Shape(V, m, n, K, name),
         NEW c \in Needed(V) \ {Root}, c \notin K, Above(c) \in K,
         ~ (Above(c) = Root /\ m[name[Above(c)]][Ix(c)] = Junk)
  PROVE  \E after, names : Entered(V, m, n, K, name, c, after, n + 1, names)
<1>. DEFINE new == DirBase + n + 1
            f == name[Above(c)]
            after == Link(m, f, Ix(c), new)
            L == K \cup {c}
            names == [k \in L |-> IF k = c THEN new ELSE name[k]]
<1>1. n \in Nat /\ n + 1 <= TablesFor(V) /\ TablesFor(V) \in Nat
  BY RoomForOneMore, NeededSize DEF Shape
<1>2. AllocateEntry(n + 1) = new
  BY <1>1, TablesAssumption DEF AllocateEntry, Room
<1>3. new \in Frames /\ new \notin DirBase .. DirBase + n
  BY <1>1, TablesAssumption DEF Frames, Pageable
<1>4. c \in Keys /\ Ix(c) \in Indices /\ Above(c)[1] < 3 /\ Above(c)[1] = c[1] - 1
        /\ c[1] \in 1 .. 3
  BY KeysType, KeyFacts, LevelOfNeeded
<1>5. m \in Memory /\ f \in Frames /\ f # new
  BY <1>3, NameFacts DEF Shape
<1>6. Enter([pdi |-> n, at |-> f, mem |-> m], Ix(c)) = [pdi |-> n + 1, at |-> new, mem |-> after]
  <2>1. m[f][Ix(c)] = Absent
    BY MissingIsAbsent, ZenonT(60)
  <2>. HIDE DEF f, new, after, L, names
  <2>2. Enter([pdi |-> n, at |-> f, mem |-> m], Ix(c))
          = [pdi |-> n + 1, at |-> AllocateEntry(n + 1),
             mem |-> Link(m, f, Ix(c), AllocateEntry(n + 1))]
    BY <2>1, EnterMissing, Zenon
  <2>. QED BY <2>2, <1>2 DEF after
<1>7. after \in Memory /\ \A g \in Frames, j \in Indices :
        after[g][j] = IF g = f /\ j = Ix(c) THEN new ELSE IF g = new THEN Absent ELSE m[g][j]
  <2>. HIDE DEF f, new, after, L, names
  <2>1. m \in Memory /\ f \in Frames /\ Ix(c) \in Indices /\ new \in Frames
    BY <1>3, <1>4, <1>5
  <2>. QED BY <2>1, LinkFacts DEF after
<1>8. /\ names[c] = new /\ Root # c
      /\ \A k \in K : names[k] = name[k] /\ k # c
      /\ \A k \in K : name[k] # new /\ name[k] \in Frames /\ k \in Keys
  BY <1>3, NameFacts
<1>9. Named(V, n + 1, L, names)
  <2>1. Root \in L /\ L \subseteq Needed(V) /\ \A k \in L \ {Root} : Above(k) \in L
    BY Zenon DEF Shape, Named
  <2>2. names[Root] = DirBase
    BY <1>8 DEF Shape, Named
  <2>3. names \in [L -> DirBase .. DirBase + (n + 1)]
    <3>1. DirBase .. DirBase + n \subseteq DirBase .. DirBase + (n + 1)
            /\ new \in DirBase .. DirBase + (n + 1)
      BY <1>1, TablesAssumption
    <3>2. \A k \in K : name[k] \in DirBase .. DirBase + n
      BY NameFacts
    <3>. QED BY <3>1, <3>2
  <2>4. \A k, h \in L : names[k] = names[h] => k = h
    BY <1>8, NameFacts
  <2>5. ASSUME NEW g \in DirBase .. DirBase + (n + 1) PROVE \E k \in L : names[k] = g
    <3>1. CASE g = new
      BY <3>1
    <3>2. CASE g # new
      <4>1. g \in DirBase .. DirBase + n
        BY <3>2, <1>1, TablesAssumption
      <4>2. PICK k \in K : name[k] = g
        BY <4>1 DEF Shape, Named, Bijection, Surjection
      <4>. QED BY <4>2, <1>8
    <3>. QED BY <3>1, <3>2
  <2>6. names \in Bijection(L, DirBase .. DirBase + (n + 1))
    <3>. HIDE DEF names, L
    <3>. QED BY <2>3, <2>4, <2>5, Zenon DEF Bijection, Injection, Surjection, IsInjective
  <2>. QED BY <2>1, <2>2, <2>6, Zenon DEF Named
<1>. HIDE DEF after, names, new, f
<1>10. f = name[Above(c)] /\ Above(c) \in K
  BY DEF f
<1>11. Linked(after, L, names)
  <2>1. ASSUME NEW k \in L \ {Root} PROVE after[names[Above(k)]][Ix(k)] = names[k]
    <3>1. CASE k = c
      BY <3>1, <1>4, <1>5, <1>7, <1>8, <1>10
    <3>2. CASE k # c
      <4>1. k \in K \ {Root} /\ Above(k) \in K /\ m[name[Above(k)]][Ix(k)] = name[k]
        BY <3>2 DEF Shape, Named, Linked
      <4>2. k \in Keys /\ Ix(k) \in Indices
        BY <4>1, <1>8, KeyFacts
      <4>3. ~ (name[Above(k)] = f /\ Ix(k) = Ix(c))
        <5>1. SUFFICES ASSUME name[Above(k)] = f, Ix(k) = Ix(c) PROVE FALSE
          OBVIOUS
        <5>2. Above(k) = Above(c)
          BY <4>1, <5>1, <1>10, NameFacts
        <5>3. k = c
          BY <5>1, <5>2, <4>2, <1>4, AboveDetermines, Zenon
        <5>. QED BY <5>3, <3>2
      <4>. QED BY <4>1, <4>2, <4>3, <1>7, <1>8
    <3>. QED BY <3>1, <3>2
  <2>2. ASSUME NEW k \in L, NEW i \in Indices, k[1] < 3, after[names[k]][i] # Absent
        PROVE  \/ k = Root /\ after[names[k]][i] = Junk
               \/ \E d \in L \ {Root} : Above(d) = k /\ Ix(d) = i
    <3>1. CASE k = c
      BY <3>1, <2>2, <1>3, <1>5, <1>7, <1>8
    <3>2. CASE k # c
      <4>1. k \in K /\ names[k] = name[k] /\ name[k] # new /\ name[k] \in Frames
        BY <3>2, <1>8
      <4>2. CASE name[k] = f /\ i = Ix(c)
        <5>1. k = Above(c)
          BY <4>1, <4>2, <1>10, NameFacts
        <5>. QED BY <5>1, <4>2, <1>8
      <4>3. CASE ~ (name[k] = f /\ i = Ix(c))
        <5>1. after[names[k]][i] = m[name[k]][i]
          BY <4>1, <4>3, <1>7
        <5>2. \/ k = Root /\ m[name[k]][i] = Junk
              \/ \E d \in K \ {Root} : Above(d) = k /\ Ix(d) = i
          BY <5>1, <4>1, <2>2, Zenon DEF Shape, Linked
        <5>. QED BY <5>1, <5>2, Zenon
      <4>. QED BY <4>2, <4>3
    <3>. QED BY <3>1, <3>2
  <2>. QED BY <2>1, <2>2, Zenon DEF Linked
<1>12. Kept(m, K, name, after, names)
  <2>1. ASSUME NEW k \in K, k[1] = 3, NEW i \in Indices
        PROVE  after[name[k]][i] = m[name[k]][i]
    <3>1. name[k] # f
      BY <2>1, <1>4, <1>10, NameFacts
    <3>. QED BY <3>1, <1>7, <1>8
  <2>. QED BY <2>1, <1>8, Zenon DEF Kept
<1>19. RootKept(m, after)
  <2>1. DirBase \in Frames /\ DirBase # new /\ new # Junk
    BY <1>1, <1>3, TablesAssumption DEF Frames, Junk
  <2>. QED BY <1>7, <2>1, TablesAssumption DEF RootKept, Absent, Junk
<1>13. \A i \in Indices : after[names[c]][i] = Absent
  BY <1>3, <1>5, <1>7, <1>8
<1>14. n + 1 \in Nat
  BY <1>1
<1>15. Shape(V, after, n + 1, L, names)
  BY <1>7, <1>9, <1>11, <1>14, Zenon DEF Shape
<1>16. L = K \cup {c}
  BY DEF L
<1>17. Enter([pdi |-> n, at |-> name[Above(c)], mem |-> m], Ix(c))
         = [pdi |-> n + 1, at |-> names[c], mem |-> after]
  BY <1>6, <1>8, <1>10, Zenon
<1>. HIDE DEF L
<1>18. Entered(V, m, n, K, name, c, after, n + 1, names)
  BY <1>12, <1>13, <1>15, <1>16, <1>17, <1>19, Zenon DEF Entered
<1>. QED BY <1>18, Zenon

\* Either way, there is a table now.
LEMMA EnterShape ==
  ASSUME NEW V, Pageable(V), Room(V),
         NEW m, NEW n, NEW K, NEW name, Shape(V, m, n, K, name),
         NEW c \in Needed(V) \ {Root}, Above(c) \in K,
         ~ (Above(c) = Root /\ m[name[Above(c)]][Ix(c)] = Junk)
  PROVE  \E after, count, names : Entered(V, m, n, K, name, c, after, count, names)
<1>1. CASE c \in K
  <2>1. K \cup {c} = K
    BY <1>1
  <2>2. Kept(m, K, name, m, name) /\ RootKept(m, m)
    BY Zenon DEF Kept, RootKept
  <2>3. Enter([pdi |-> n, at |-> name[Above(c)], mem |-> m], Ix(c))
          = [pdi |-> n, at |-> name[c], mem |-> m]
    <3>1. c \in K \ {Root}
      BY <1>1
    <3>. QED BY <3>1, EnterOld
  <2>4. Shape(V, m, n, K \cup {c}, name)
    BY <2>1, Zenon
  <2>5. Entered(V, m, n, K, name, c, m, n, name)
    BY <1>1, <2>2, <2>3, <2>4, Zenon DEF Entered
  <2>. QED BY <2>5, Zenon
<1>2. CASE c \notin K
  <2>1. \E after, names : Entered(V, m, n, K, name, c, after, n + 1, names)
    BY <1>2, EnterNew
  <2>. QED BY <2>1, Zenon
<1>. QED BY <1>1, <1>2

-------------------------------------------------------------------------------
(* map.                                                                    *)

\* The three steps down to the table of page v.
Walked(V, m, n, K, name, v, down, count, names) ==
  /\ Enter(Enter(Enter([pdi |-> n, at |-> DirBase, mem |-> m], PDP_i(v)), PD_i(v)), PT_i(v))
       = [pdi |-> count, at |-> names[T3(v)], mem |-> down]
  /\ Shape(V, down, count, K \cup {T1(v), T2(v), T3(v)}, names)
  /\ Kept(m, K, name, down, names) /\ RootKept(m, down)
  /\ T3(v) \notin K => \A i \in Indices : down[names[T3(v)]][i] = Absent

LEMMA WalkShape ==
  ASSUME NEW V, Pageable(V), Room(V),
         NEW m, NEW n, NEW K, NEW name, Shape(V, m, n, K, name),
         NEW v \in V, m[DirBase][PDP_i(v)] # Junk
  PROVE  \E down, count, names : Walked(V, m, n, K, name, v, down, count, names)
<1>. DEFINE K1 == K \cup {T1(v)}
            K2 == K1 \cup {T2(v)}
            K3 == K2 \cup {T3(v)}
<1>1. /\ {T1(v), T2(v), T3(v)} \subseteq Needed(V) \ {Root}
      /\ Above(T1(v)) = Root /\ Above(T2(v)) = T1(v) /\ Above(T3(v)) = T2(v)
      /\ Ix(T1(v)) = PDP_i(v) /\ Ix(T2(v)) = PD_i(v) /\ Ix(T3(v)) = PT_i(v)
      /\ Root \notin {T1(v), T2(v)}
  BY PathOf DEF Needed
<1>2. Root \in K /\ name[Root] = DirBase
  BY DEF Shape, Named
<1>3. PICK m1, n1, name1 : Entered(V, m, n, K, name, T1(v), m1, n1, name1)
  BY <1>1, <1>2, EnterShape
<1>4. Shape(V, m1, n1, K1, name1) /\ T1(v) \in K1 /\ Kept(m, K, name, m1, name1)
  BY <1>3 DEF Entered
<1>5. PICK m2, n2, name2 : Entered(V, m1, n1, K1, name1, T2(v), m2, n2, name2)
  <2>. HIDE DEF K1
  <2>. QED BY <1>1, <1>4, EnterShape
<1>6. Shape(V, m2, n2, K2, name2) /\ T2(v) \in K2 /\ Kept(m1, K1, name1, m2, name2)
  BY <1>5 DEF Entered
<1>7. PICK m3, n3, name3 : Entered(V, m2, n2, K2, name2, T3(v), m3, n3, name3)
  <2>. HIDE DEF K2
  <2>. QED BY <1>1, <1>6, EnterShape
<1>8. Shape(V, m3, n3, K3, name3) /\ Kept(m2, K2, name2, m3, name3)
  BY <1>7 DEF Entered
<1>9. Enter(Enter(Enter([pdi |-> n, at |-> DirBase, mem |-> m], PDP_i(v)), PD_i(v)), PT_i(v))
        = [pdi |-> n3, at |-> name3[T3(v)], mem |-> m3]
  <2>1. Enter([pdi |-> n, at |-> DirBase, mem |-> m], PDP_i(v))
          = [pdi |-> n1, at |-> name1[T1(v)], mem |-> m1]
    BY <1>1, <1>2, <1>3, Zenon DEF Entered
  <2>2. Enter([pdi |-> n1, at |-> name1[T1(v)], mem |-> m1], PD_i(v))
          = [pdi |-> n2, at |-> name2[T2(v)], mem |-> m2]
    BY <1>1, <1>5, Zenon DEF Entered
  <2>3. Enter([pdi |-> n2, at |-> name2[T2(v)], mem |-> m2], PT_i(v))
          = [pdi |-> n3, at |-> name3[T3(v)], mem |-> m3]
    BY <1>1, <1>7, Zenon DEF Entered
  <2>. QED BY <2>1, <2>2, <2>3, Zenon
<1>10. K3 = K \cup {T1(v), T2(v), T3(v)}
  OBVIOUS
<1>11. Kept(m, K, name, m3, name3)
  <2>1. K \subseteq K1 /\ K1 \subseteq K2
    OBVIOUS
  <2>. HIDE DEF K1, K2
  <2>2. SUFFICES ASSUME NEW k \in K
                 PROVE  /\ name3[k] = name[k]
                        /\ k[1] = 3 => \A i \in Indices : m3[name[k]][i] = m[name[k]][i]
    BY Zenon DEF Kept
  <2>3. name1[k] = name[k] /\ name2[k] = name1[k] /\ name3[k] = name2[k]
    BY <1>4, <1>6, <1>8, <2>1, Zenon DEF Kept
  <2>4. ASSUME k[1] = 3, NEW i \in Indices PROVE m3[name[k]][i] = m[name[k]][i]
    <3>1. m1[name[k]][i] = m[name[k]][i]
      BY <1>4, <2>4, Zenon DEF Kept
    <3>2. m2[name[k]][i] = m1[name[k]][i]
      <4>1. k \in K1
        BY <2>1
      <4>2. \A h \in K1 : h[1] = 3 => \A j \in Indices : m2[name1[h]][j] = m1[name1[h]][j]
        BY <1>6, Zenon DEF Kept
      <4>3. m2[name1[k]][i] = m1[name1[k]][i]
        BY <4>1, <4>2, <2>4, Zenon
      <4>. QED BY <4>3, <2>3, Zenon
    <3>3. m3[name[k]][i] = m2[name[k]][i]
      <4>1. k \in K2 /\ name2[k] = name[k]
        BY <2>1, <2>3
      <4>2. \A h \in K2 : h[1] = 3 => \A j \in Indices : m3[name2[h]][j] = m2[name2[h]][j]
        BY <1>8, Zenon DEF Kept
      <4>3. m3[name2[k]][i] = m2[name2[k]][i]
        BY <4>1, <4>2, <2>4, Zenon
      <4>. QED BY <4>1, <4>3, Zenon
    <3>. QED BY <3>1, <3>2, <3>3, Zenon
  <2>. QED BY <2>3, <2>4, Zenon
<1>14. RootKept(m, m3)
  <2>1. RootKept(m, m1) /\ RootKept(m1, m2) /\ RootKept(m2, m3)
    BY <1>3, <1>5, <1>7, Zenon DEF Entered
  <2>. QED BY <2>1, Zenon DEF RootKept
<1>12. T3(v) \notin K => \A i \in Indices : m3[name3[T3(v)]][i] = Absent
  <2>1. T3(v) \notin {T1(v), T2(v)}
    BY PathOf
  <2>2. T3(v) \notin K => T3(v) \notin K2
    BY <2>1
  <2>. QED BY <1>7, <2>2, Zenon DEF Entered
<1>. HIDE DEF K3
<1>13. Walked(V, m, n, K, name, v, m3, n3, name3)
  BY <1>8, <1>9, <1>10, <1>11, <1>12, <1>14, Zenon DEF Walked
<1>. QED BY <1>13, Zenon

\* What map(v, p) does: page v has the entry p, and the entry of every other
\* page, if its table is there, is what it was, or absent in a new table.
Done(V, m, n, K, name, v, p, after, count, L, names) ==
  /\ MapPage([pdi |-> n, mem |-> m], v, p) = [pdi |-> count, mem |-> after]
  /\ Shape(V, after, count, L, names) /\ Leaves(V, after, L, names)
  /\ RootKept(m, after)
  /\ T3(v) \in L /\ after[names[T3(v)]][P_i(v)] = p
  /\ \A w \in V \ {v} :
       /\ T3(w) \in K => /\ T3(w) \in L
                         /\ after[names[T3(w)]][P_i(w)] = m[name[T3(w)]][P_i(w)]
       /\ T3(w) \in L \ K => after[names[T3(w)]][P_i(w)] = Absent

\* map(v, p) for a page v whose root entry is not left over from before.
LEMMA MapShape ==
  ASSUME NEW V, Pageable(V), Room(V),
         NEW m, NEW n, NEW K, NEW name, Shape(V, m, n, K, name), Leaves(V, m, K, name),
         NEW v \in V, NEW p \in 0 .. FrameMod - 1, m[DirBase][PDP_i(v)] # Junk
  PROVE  \E after, count, L, names : Done(V, m, n, K, name, v, p, after, count, L, names)
<1>1. PICK down, count, names : Walked(V, m, n, K, name, v, down, count, names)
  BY WalkShape
<1>. DEFINE L == K \cup {T1(v), T2(v), T3(v)}
            f == names[T3(v)]
            after == [down EXCEPT ![f] = [down[f] EXCEPT ![P_i(v)] = p]]
<1>2. Shape(V, down, count, L, names) /\ T3(v) \in L /\ L \subseteq Keys /\ K \subseteq L
        /\ down \in Memory /\ f \in Frames
  <2>1. Shape(V, down, count, L, names)
    BY <1>1 DEF Walked
  <2>. QED BY <2>1, NameFacts DEF Shape
<1>3. p \in Entries /\ p # Absent /\ SetAddr(p) = p
  BY TablesAssumption DEF Entries, Absent, SetAddr
<1>4. P_i(v) \in Indices /\ T1(v)[1] = 1 /\ T2(v)[1] = 2 /\ T3(v)[1] = 3
  BY PathOf
<1>. HIDE DEF L, f
<1>5. MapPage([pdi |-> n, mem |-> m], v, p) = [pdi |-> count, mem |-> after]
  <2>1. Enter(Enter(Enter([pdi |-> n, at |-> DirBase, mem |-> m], PDP_i(v)), PD_i(v)), PT_i(v))
          = [pdi |-> count, at |-> f, mem |-> down]
    BY <1>1 DEF Walked, f
  <2>. HIDE DEF after
  <2>2. after = [down EXCEPT ![f][P_i(v)] = SetAddr(p)]
    BY <1>3 DEF after
  <2>. QED BY <2>1, <2>2 DEF MapPage
<1>6. /\ after \in Memory
      /\ \A g \in Frames, j \in Indices :
           after[g][j] = IF g = f /\ j = P_i(v) THEN p ELSE down[g][j]
  <2>1. [down[f] EXCEPT ![P_i(v)] = p] \in [Indices -> Entries]
    BY <1>2, <1>3 DEF Memory
  <2>. QED BY <2>1, <1>2, <1>4 DEF Memory
<1>. HIDE DEF after
<1>7. \A k \in L : names[k] \in Frames /\ (names[k] = f => k = T3(v))
  BY <1>2, NameFacts DEF f
<1>8. \A k \in L, j \in Indices :
        after[names[k]][j] = IF k = T3(v) /\ j = P_i(v) THEN p ELSE down[names[k]][j]
  BY <1>6, <1>7 DEF f
<1>9. Shape(V, after, count, L, names)
  <2>1. \A k \in L, j \in Indices : k[1] < 3 => after[names[k]][j] = down[names[k]][j]
    BY <1>4, <1>8
  <2>2. \A k \in L \ {Root} : Above(k) \in L /\ Above(k)[1] < 3 /\ Ix(k) \in Indices
    <3>1. \A k \in L \ {Root} : Above(k) \in L
      BY <1>2, Zenon DEF Shape, Named
    <3>2. \A k \in L : Above(k)[1] < 3 /\ Ix(k) \in Indices
      BY <1>2, KeyFacts
    <3>. QED BY <3>1, <3>2
  <2>3. Linked(down, L, names)
    BY <1>2, Zenon DEF Shape
  <2>4. \A k \in L \ {Root} : after[names[Above(k)]][Ix(k)] = names[k]
    BY <2>1, <2>2, <2>3, Zenon DEF Linked
  <2>5. ASSUME NEW k \in L, NEW i \in Indices, k[1] < 3, after[names[k]][i] # Absent
        PROVE  \/ k = Root /\ after[names[k]][i] = Junk
               \/ \E d \in L \ {Root} : Above(d) = k /\ Ix(d) = i
    BY <2>1, <2>3, <2>5, Zenon DEF Linked
  <2>6. Linked(after, L, names)
    BY <2>4, <2>5, Zenon DEF Linked
  <2>. QED BY <1>2, <1>6, <2>6, Zenon DEF Shape
<1>10. ASSUME NEW k \in K, k[1] = 3, NEW i \in Indices
       PROVE  names[k] = name[k] /\ down[names[k]][i] = m[name[k]][i]
  <2>1. Kept(m, K, name, down, names)
    BY <1>1, Zenon DEF Walked
  <2>2. names[k] = name[k] /\ down[name[k]][i] = m[name[k]][i]
    BY <2>1, <1>10, Zenon DEF Kept
  <2>. QED BY <2>2
<1>11. Leaves(V, after, L, names)
  <2>1. ASSUME NEW k \in L, NEW i \in Indices, k[1] = 3, after[names[k]][i] # Absent
        PROVE  \E w \in V : T3(w) = k /\ P_i(w) = i
    <3>1. CASE k = T3(v) /\ i = P_i(v)
      BY <3>1
    <3>2. CASE ~ (k = T3(v) /\ i = P_i(v))
      <4>1. down[names[k]][i] # Absent
        BY <2>1, <3>2, <1>8, Zenon
      <4>2. CASE k \in K
        <5>1. m[name[k]][i] # Absent
          BY <4>1, <4>2, <2>1, <1>10, Zenon
        <5>. QED BY <4>2, <5>1, <2>1, Zenon DEF Leaves
      <4>3. CASE k \notin K
        <5>1. k = T3(v)
          BY <4>3, <2>1, <1>4 DEF L
        <5>. QED BY <4>1, <4>3, <5>1, <1>1, Zenon DEF Walked
      <4>. QED BY <4>2, <4>3
    <3>. QED BY <3>1, <3>2
  <2>2. after[names[T3(v)]][P_i(v)] # Absent
    BY <1>2, <1>3, <1>4, <1>8, Zenon
  <2>3. ASSUME NEW k \in L \ {Root}
        PROVE  \E w \in V : /\ k \in {T1(w), T2(w), T3(w)}
                               /\ T3(w) \in L /\ after[names[T3(w)]][P_i(w)] # Absent
    <3>1. CASE k \in {T1(v), T2(v), T3(v)}
      BY <3>1, <2>2, <1>2, Zenon
    <3>2. CASE k \notin {T1(v), T2(v), T3(v)}
      <4>1. k \in K \ {Root}
        BY <3>2 DEF L
      <4>2. PICK w \in V : /\ k \in {T1(w), T2(w), T3(w)}
                              /\ T3(w) \in K /\ m[name[T3(w)]][P_i(w)] # Absent
        BY <4>1, Zenon DEF Leaves
      <4>3. T3(w)[1] = 3 /\ P_i(w) \in Indices /\ T3(w) \in L
        BY <4>2, <1>2, PathOf, Zenon
      <4>4. down[names[T3(w)]][P_i(w)] # Absent
        BY <4>2, <4>3, <1>10, Zenon
      <4>5. after[names[T3(w)]][P_i(w)] # Absent
        BY <4>3, <4>4, <1>3, <1>8, Zenon
      <4>. QED BY <4>2, <4>3, <4>5, Zenon
    <3>. QED BY <3>1, <3>2
  <2>. QED BY <2>1, <2>3, Zenon DEF Leaves
<1>12. after[names[T3(v)]][P_i(v)] = p
  BY <1>2, <1>4, <1>8, Zenon
<1>13. ASSUME NEW w \in V \ {v}
       PROVE  /\ T3(w) \in K => T3(w) \in L /\ after[names[T3(w)]][P_i(w)] = m[name[T3(w)]][P_i(w)]
              /\ T3(w) \in L \ K => after[names[T3(w)]][P_i(w)] = Absent
  <2>1. w \in V /\ T3(w)[1] = 3 /\ P_i(w) \in Indices
    BY PathOf
  <2>2. ~ (T3(w) = T3(v) /\ P_i(w) = P_i(v))
    BY <2>1, PageDetermined
  <2>3. T3(w) \in L => after[names[T3(w)]][P_i(w)] = down[names[T3(w)]][P_i(w)]
    BY <2>1, <2>2, <1>8, Zenon
  <2>4. T3(w) \in K => down[names[T3(w)]][P_i(w)] = m[name[T3(w)]][P_i(w)]
    BY <2>1, <1>10, Zenon
  <2>5. T3(w) \in K => T3(w) \in L
    BY <1>2
  <2>6. T3(w) \in L \ K => T3(w) = T3(v)
    BY <2>1, <1>4 DEF L
  <2>7. T3(w) \in L \ K => down[names[T3(w)]][P_i(w)] = Absent
    BY <2>1, <2>6, <1>1, Zenon DEF Walked
  <2>. QED BY <2>3, <2>4, <2>5, <2>7
<1>15. RootKept(m, after)
  <2>1. RootKept(m, down)
    BY <1>1, Zenon DEF Walked
  <2>2. Root \in L /\ names[Root] = DirBase /\ Root # T3(v)
    <3>1. Root \in L /\ names[Root] = DirBase
      BY <1>2, Zenon DEF Shape, Named
    <3>. QED BY <3>1, PathOf
  <2>3. \A j \in Indices : after[DirBase][j] = down[DirBase][j]
    BY <1>8, <2>2, Zenon
  <2>. QED BY <2>1, <2>3, Zenon DEF RootKept
<1>14. Done(V, m, n, K, name, v, p, after, count, L, names)
  BY <1>2, <1>5, <1>9, <1>11, <1>12, <1>13, <1>15, Zenon DEF Done
<1>. QED BY <1>14, Zenon

-------------------------------------------------------------------------------
(* What the processor reads.                                               *)

LEMMA EntryInTable ==
  ASSUME NEW V, Pageable(V),
         NEW m, NEW n, NEW K, NEW name, Shape(V, m, n, K, name), NEW k \in K, NEW i \in Indices
  PROVE  EntryIn(m, name[k], i) = m[name[k]][i]
BY NameFacts DEF EntryIn

LEMMA NoEntry ==
  ASSUME NEW m, NEW x \in {Absent, Junk}, NEW i
  PROVE  EntryIn(m, x, i) = Absent
BY TablesAssumption DEF EntryIn, Frames, Absent, Junk

\* The entry that leads to table c, which may be missing.
LEMMA EntryAbove ==
  ASSUME NEW V, Pageable(V),
         NEW m, NEW n, NEW K, NEW name, Shape(V, m, n, K, name),
         NEW c \in Needed(V) \ {Root}, Above(c) \in K
  PROVE  /\ c \in K => EntryIn(m, name[Above(c)], Ix(c)) = name[c]
         /\ c \notin K => EntryIn(m, name[Above(c)], Ix(c)) \in {Absent, Junk}
<1>1. Ix(c) \in Indices
  BY KeysType, KeyFacts
<1>2. EntryIn(m, name[Above(c)], Ix(c)) = m[name[Above(c)]][Ix(c)]
  BY <1>1, EntryInTable
<1>3. ASSUME c \in K PROVE m[name[Above(c)]][Ix(c)] = name[c]
  BY <1>3 DEF Shape, Linked
<1>4. ASSUME c \notin K PROVE m[name[Above(c)]][Ix(c)] \in {Absent, Junk}
  <2>1. CASE m[name[Above(c)]][Ix(c)] = Junk
    BY <2>1
  <2>2. CASE m[name[Above(c)]][Ix(c)] # Junk
    BY <1>4, <2>2, MissingIsAbsent
  <2>. QED BY <2>1, <2>2
<1>. QED BY <1>2, <1>3, <1>4

\* The walk of the processor comes to the table of page v, or leads nowhere.
LEMMA TranslateIs ==
  ASSUME NEW V, Pageable(V),
         NEW m, NEW n, NEW K, NEW name, Shape(V, m, n, K, name), NEW v \in V
  PROVE  TranslateIn(m, v) = IF T3(v) \in K THEN m[name[T3(v)]][P_i(v)] ELSE Absent
<1>1. /\ {T1(v), T2(v), T3(v)} \subseteq Needed(V) \ {Root}
      /\ Above(T1(v)) = Root /\ Above(T2(v)) = T1(v) /\ Above(T3(v)) = T2(v)
      /\ Ix(T1(v)) = PDP_i(v) /\ Ix(T2(v)) = PD_i(v) /\ Ix(T3(v)) = PT_i(v)
      /\ P_i(v) \in Indices
  BY PathOf DEF Needed
<1>2. Root \in K /\ name[Root] = DirBase /\ \A k \in K \ {Root} : Above(k) \in K
  BY DEF Shape, Named
<1>. DEFINE e1 == EntryIn(m, DirBase, PDP_i(v))
            e2 == EntryIn(m, e1, PD_i(v))
            e3 == EntryIn(m, e2, PT_i(v))
<1>3. TranslateIn(m, v) = EntryIn(m, e3, P_i(v))
  BY DEF TranslateIn
<1>4. /\ T1(v) \in K => e1 = name[T1(v)]
      /\ T1(v) \notin K => e1 \in {Absent, Junk}
  BY <1>1, <1>2, EntryAbove
<1>5. /\ T2(v) \in K => T1(v) \in K /\ e2 = name[T2(v)]
      /\ T2(v) \notin K => e2 \in {Absent, Junk}
  <2>. HIDE DEF e1
  <2>1. T2(v) \in K => T1(v) \in K
    BY <1>1, <1>2
  <2>2. T1(v) \notin K => e2 = Absent
    BY <1>4, NoEntry
  <2>3. T1(v) \in K => /\ T2(v) \in K => e2 = name[T2(v)]
                       /\ T2(v) \notin K => e2 \in {Absent, Junk}
    BY <1>1, <1>4, EntryAbove
  <2>. QED BY <2>1, <2>2, <2>3
<1>6. /\ T3(v) \in K => e3 = name[T3(v)]
      /\ T3(v) \notin K => e3 \in {Absent, Junk}
  <2>. HIDE DEF e2
  <2>1. T3(v) \in K => T2(v) \in K
    BY <1>1, <1>2
  <2>2. T2(v) \notin K => e3 = Absent
    BY <1>5, NoEntry
  <2>3. T2(v) \in K => /\ T3(v) \in K => e3 = name[T3(v)]
                       /\ T3(v) \notin K => e3 \in {Absent, Junk}
    BY <1>1, <1>5, EntryAbove
  <2>. QED BY <2>1, <2>2, <2>3
<1>. HIDE DEF e3
<1>7. CASE T3(v) \in K
  BY <1>1, <1>3, <1>6, <1>7, EntryInTable
<1>8. CASE T3(v) \notin K
  BY <1>3, <1>6, <1>8, NoEntry
<1>. QED BY <1>7, <1>8

-------------------------------------------------------------------------------
(* What the users of the tables need to know.                              *)

\* The tables before anything is mapped: the root alone, which translates no
\* page, whatever it holds.
LEMMA LeftOverTree ==
  ASSUME NEW V, Pageable(V),
         NEW garbage \in SUBSET (0 .. Fan - 1), NEW dirt \in {Absent, Junk}
  PROVE  /\ Tree(V, LeftOver(garbage, dirt), 0)
         /\ \A v \in V : TranslateIn(LeftOver(garbage, dirt), v) = Absent
<1>. DEFINE K == {Root}
            name == [k \in K |-> DirBase]
            m == LeftOver(garbage, dirt)
<1>1. DirBase \in Frames /\ {Absent, Junk} \subseteq Entries
  BY TablesAssumption DEF Frames, Entries, Junk
<1>2. m \in Memory /\ \A i \in Indices : m[DirBase][i] \in {Absent, Junk}
  BY <1>1 DEF LeftOver, Memory, Frames, Indices
<1>3. Named(V, 0, K, name)
  <2>1. DirBase .. DirBase + 0 = {DirBase}
    BY TablesAssumption
  <2>2. name \in Bijection(K, {DirBase})
    BY DEF Bijection, Injection, Surjection, IsInjective
  <2>. QED BY <2>1, <2>2 DEF Named, Needed
<1>4. Linked(m, K, name)
  BY <1>2 DEF Linked
<1>5. Leaves(V, m, K, name)
  BY RootLevel DEF Leaves
<1>6. Shape(V, m, 0, K, name)
  BY <1>2, <1>3, <1>4 DEF Shape
<1>7. Tree(V, m, 0)
  BY <1>5, <1>6, Zenon DEF Tree
<1>8. ASSUME NEW v \in V PROVE TranslateIn(m, v) = Absent
  <2>1. T3(v) \notin K
    BY PathOf
  <2>. QED BY <1>6, <2>1, TranslateIs
<1>. QED BY <1>7, <1>8

\* map(v, p) keeps the tree, backs page v by frame p, leaves every other page as
\* it was, and puts nothing into the root that was not there but tables.
LEMMA MapEffect ==
  ASSUME NEW V, Pageable(V), Room(V),
         NEW m, NEW n, Tree(V, m, n),
         NEW v \in V, NEW p \in 0 .. FrameMod - 1, m[DirBase][PDP_i(v)] # Junk
  PROVE  LET after == MapPage([pdi |-> n, mem |-> m], v, p)
         IN  /\ Tree(V, after.mem, after.pdi)
             /\ RootKept(m, after.mem)
             /\ TranslateIn(after.mem, v) = p
             /\ \A w \in V \ {v} : TranslateIn(after.mem, w) = TranslateIn(m, w)
<1>1. PICK K, name : Shape(V, m, n, K, name) /\ Leaves(V, m, K, name)
  BY Zenon DEF Tree
<1>2. PICK after, count, L, names : Done(V, m, n, K, name, v, p, after, count, L, names)
  BY <1>1, MapShape
<1>3. MapPage([pdi |-> n, mem |-> m], v, p) = [pdi |-> count, mem |-> after]
  BY <1>2, Zenon DEF Done
<1>4. Shape(V, after, count, L, names) /\ Leaves(V, after, L, names) /\ RootKept(m, after)
  BY <1>2, Zenon DEF Done
<1>5. Tree(V, after, count)
  BY <1>4, Zenon DEF Tree
<1>6. \A w \in V :
        TranslateIn(m, w) = IF T3(w) \in K THEN m[name[T3(w)]][P_i(w)] ELSE Absent
  BY <1>1, TranslateIs
<1>7. \A w \in V :
        TranslateIn(after, w) = IF T3(w) \in L THEN after[names[T3(w)]][P_i(w)] ELSE Absent
  BY <1>4, TranslateIs
<1>8. TranslateIn(after, v) = p
  BY <1>2, <1>7, Zenon DEF Done
<1>9. ASSUME NEW w \in V \ {v} PROVE TranslateIn(after, w) = TranslateIn(m, w)
  <2>1. /\ T3(w) \in K => /\ T3(w) \in L
                          /\ after[names[T3(w)]][P_i(w)] = m[name[T3(w)]][P_i(w)]
        /\ T3(w) \in L \ K => after[names[T3(w)]][P_i(w)] = Absent
    BY <1>2, Zenon DEF Done
  <2>. QED BY <2>1, <1>6, <1>7
<1>10. [pdi |-> count, mem |-> after].mem = after /\ [pdi |-> count, mem |-> after].pdi = count
  OBVIOUS
<1>. QED BY <1>3, <1>4, <1>5, <1>8, <1>9, <1>10, Zenon

\* The tables on the way to a page that is mapped are pages of the directory as
\* far as it is in use.
LEMMA TablesOnTheWay ==
  ASSUME NEW V, Pageable(V),
         NEW m, NEW n, Tree(V, m, n), NEW v \in V, TranslateIn(m, v) # Absent
  PROVE  TablesTo(m, v) \subseteq DirBase .. DirBase + n
<1>1. PICK K, name : Shape(V, m, n, K, name) /\ Leaves(V, m, K, name)
  BY Zenon DEF Tree
<1>2. T3(v) \in K
  BY <1>1, TranslateIs
<1>3. /\ Root \notin {T1(v), T2(v), T3(v)}
      /\ Above(T1(v)) = Root /\ Above(T2(v)) = T1(v) /\ Above(T3(v)) = T2(v)
      /\ Ix(T1(v)) = PDP_i(v) /\ Ix(T2(v)) = PD_i(v) /\ Ix(T3(v)) = PT_i(v)
  BY PathOf
<1>4. /\ \A k \in K \ {Root} : Above(k) \in K /\ m[name[Above(k)]][Ix(k)] = name[k]
      /\ Root \in K /\ name[Root] = DirBase /\ \A k \in K : name[k] \in DirBase .. DirBase + n
  BY <1>1 DEF Shape, Named, Linked, Bijection, Injection
<1>5. T2(v) \in K /\ m[name[T2(v)]][PT_i(v)] = name[T3(v)]
  BY <1>2, <1>3, <1>4
<1>6. T1(v) \in K /\ m[name[T1(v)]][PD_i(v)] = name[T2(v)]
  BY <1>3, <1>4, <1>5
<1>7. m[DirBase][PDP_i(v)] = name[T1(v)]
  BY <1>3, <1>4, <1>6
<1>8. TablesTo(m, v) = {name[Root], name[T1(v)], name[T2(v)], name[T3(v)]}
  BY <1>4, <1>5, <1>6, <1>7 DEF TablesTo
<1>. QED BY <1>2, <1>4, <1>5, <1>6, <1>8
===============================================================================
