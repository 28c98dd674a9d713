------------------------------- MODULE BootProofs -------------------------------
(***************************************************************************)
(* Proofs about the module Boot, for every firmware, kernel file and size  *)
(* of memory: ExitBootServices is always refused, memoryInit locks all     *)
(* that the loader has taken and the map calls free, readMap's bitmap is   *)
(* apart from stack and directory where there is room for all three, and   *)
(* the map is lost exactly when its buffer has no neighbour of the         *)
(* loader's and a free one.                                                *)
(***************************************************************************)
EXTENDS Boot, FiniteSetTheorems, NaturalsInduction, WellFoundedInduction, TLAPS

BeforeMap == {"open", "verify", "load", "font", "screen", "size", "buffer", "map"}

\* What the pages are used for until the stack is allocated.
Early == Owners \ {"stack", "directory"}

\* The order of the steps: the map is read before the stack is allocated, and
\* the stack before the directory.
Order ==
  /\ step \in BeforeMap => map = NoMap
  /\ step \in BeforeMap \cup {"stack"} => owner \in [Pages -> Early] /\ stack = None
  /\ step \in BeforeMap \cup {"stack", "directory"} => directory = None
  /\ map \in [Pages -> Early] \cup {NoMap}

StackHeld == stack # None => owner[stack] = "stack"

StackAllocated == IF stack = None THEN {} ELSE stack .. stack + StackBytes \div PageBytes - 1

\* What the map calls free is free, or in the stack or the directory.
Explained ==
  map # NoMap => \A p \in Pages : map[p] = "free" =>
    owner[p] = "free" \/ p \in StackAllocated \/ p \in DirectoryUsed

\* The kernel has a stack, and the firmware beside it.
Refused == Entered => stack # None /\ services

IInv == TypeOK /\ Order /\ StackHeld /\ Explained /\ Refused

-------------------------------------------------------------------------------
(* The firmware's services.                                                *)

LEMMA NoneIsNoPage == None \notin Pages
BY SizesAssumption DEF None, Pages

LEMMA StackSize ==
  StackBytes \div PageBytes \in Nat \ {0}
BY SizesAssumption

\* The stack pointer's page is the one behind the allocation at most.
LEMMA StackDivision ==
  (StackBytes - 1) \div PageBytes \in Int
    /\ (StackBytes - 1) \div PageBytes <= StackBytes \div PageBytes
BY SizesAssumption

LEMMA DirectorySizeType == DirectorySize(MemPages) \in Nat \ {0}
<1>1. \A n \in Nat \ {0} : MemPages \div n \in Nat
  BY SizesAssumption
<1>2. Fan * Fan \in Nat \ {0}
  BY SizesAssumption
<1>. DEFINE square == Fan * Fan
<1>3. square * Fan \in Nat \ {0}
  <2>. HIDE DEF square
  <2>. QED BY <1>2, SizesAssumption DEF square
<1>4. /\ MemPages \div Fan \in Nat /\ MemPages \div (Fan * Fan) \in Nat
      /\ MemPages \div (Fan * Fan * Fan) \in Nat
  BY <1>1, <1>2, <1>3, SizesAssumption
<1>. QED BY <1>4 DEF DirectorySize

LEMMA DescriptorsType ==
  ASSUME NEW o \in [Pages -> Owners]
  PROVE  Descriptors(o) \in Nat
<1>1. IsFiniteSet(Pages)
  BY FS_Interval, SizesAssumption DEF Pages
<1>2. {p \in DOMAIN o : p = 0 \/ Kind(o[p]) # Kind(o[p - 1])} \in SUBSET Pages
  OBVIOUS
<1>3. IsFiniteSet({p \in DOMAIN o : p = 0 \/ Kind(o[p]) # Kind(o[p - 1])})
  BY <1>1, <1>2, FS_Subset, Zenon
<1>. QED BY <1>3, FS_CardinalityType, Zenon DEF Descriptors

\* Pages are granted out of those that are free.
LEMMA StartsFacts ==
  ASSUME NEW o \in [Pages -> Owners], NEW n \in Nat \ {0}, NEW at \in Starts(o, n)
  PROVE  at \in Pages /\ \A p \in at .. at + n - 1 : p \in Pages /\ o[p] = "free"
<1>1. at \in Free(o) /\ at .. at + n - 1 \subseteq Free(o)
  BY Zenon DEF Starts
<1>. QED BY <1>1 DEF Free

LEMMA PooledFacts ==
  ASSUME NEW o \in [Pages -> Early], NEW after \in Pooled(o)
  PROVE  after \in [Pages -> Early]
BY DEF Pooled, Grant, Early, Owners

-------------------------------------------------------------------------------
(* The invariant.                                                          *)

LEMMA InitInv == Init => IInv
<1>. SUFFICES ASSUME Init PROVE IInv
  OBVIOUS
<1>1. owner \in [Pages -> Early]
  <2>1. PICK F \in FirmwareUses : owner = [p \in Pages |-> IF p \in F THEN "firmware" ELSE "free"]
    BY DEF Init
  <2>. QED BY <2>1 DEF Early, Owners
<1>2. TypeOK
  <2>1. owner \in [Pages -> Owners]
    BY <1>1 DEF Early
  <2>2. loaded \in 0 .. Len(Segments)
    BY SizesAssumption DEF Init
  <2>3. error \in {0, 1} /\ room \in Nat /\ dirPages \in Nat
    BY DEF Init
  <2>. QED BY <2>1, <2>2, <2>3, Zenon DEF Init, TypeOK
<1>3. Order
  BY <1>1 DEF Init, Order
<1>4. StackHeld /\ Explained /\ Refused
  BY DEF Init, StackHeld, Explained, Refused, Entered
<1>. QED BY <1>2, <1>3, <1>4 DEF IInv

\* A step of the loader before it reads the map.
LEMMA CalmStep ==
  ASSUME IInv, step \in BeforeMap,
         step' \in BeforeMap \cup {"wild"},
         UNCHANGED <<env, map, stack, directory, dirPages, services>>,
         owner' \in [Pages -> Early],
         loaded' \in 0 .. Len(Segments), error' \in {0, 1}, room' \in Nat,
         buffer' \subseteq Pages
  PROVE  IInv'
<1>1. map = NoMap /\ stack = None /\ directory = None
  BY DEF IInv, Order
<1>2. TypeOK'
  <2>1. owner' \in [Pages -> Owners]
    BY DEF Early
  <2>2. step' \in {"open", "verify", "load", "font", "screen", "size", "buffer", "map", "stack",
                   "directory", "leave", "kernel", "returned", "wild"}
    BY DEF BeforeMap
  <2>. QED BY <2>1, <2>2 DEF IInv, TypeOK, env
<1>3. Order'
  BY <1>1 DEF IInv, Order
<1>4. StackHeld' /\ Explained' /\ Refused'
  BY <1>1 DEF StackHeld, Explained, Refused, Entered, BeforeMap
<1>. QED BY <1>2, <1>3, <1>4 DEF IInv

LEMMA EarlyStep ==
  ASSUME IInv,
         \/ OpenKernel \/ Verify \/ LoadSegment \/ EndOfSegments \/ LoadFont \/ FindScreen
         \/ SizeMap \/ MapBuffer
  PROVE  IInv'
<1>1. step \in BeforeMap
  BY DEF OpenKernel, Verify, LoadSegment, EndOfSegments, LoadFont, FindScreen, SizeMap,
         MapBuffer, BeforeMap
<1>2. owner \in [Pages -> Early]
  BY <1>1 DEF IInv, Order
<1>3. loaded \in 0 .. Len(Segments) /\ error \in {0, 1} /\ room \in Nat /\ buffer \subseteq Pages
  BY DEF IInv, TypeOK
<1>4. CASE OpenKernel
  <2>1. owner' \in [Pages -> Early]
    BY <1>2, <1>4, PooledFacts DEF OpenKernel
  <2>. QED BY <1>1, <1>3, <1>4, <2>1, CalmStep DEF OpenKernel, BeforeMap
<1>5. CASE Verify
  <2>1. owner' \in [Pages -> Early]
    BY <1>2, <1>5, PooledFacts DEF Verify
  <2>. QED BY <1>1, <1>3, <1>5, <2>1, CalmStep DEF Verify, BeforeMap
<1>6. CASE LoadSegment
  <2>1. owner' \in [Pages -> Early]
    BY <1>2, <1>6 DEF LoadSegment, Grant, Early, Owners
  <2>2. loaded' \in 0 .. Len(Segments)
    BY <1>3, <1>6, SizesAssumption DEF LoadSegment
  <2>. QED BY <1>1, <1>3, <1>6, <2>1, <2>2, CalmStep DEF LoadSegment, BeforeMap
<1>7. CASE EndOfSegments
  BY <1>1, <1>2, <1>3, <1>7, CalmStep DEF EndOfSegments, BeforeMap
<1>8. CASE LoadFont
  <2>1. owner' \in [Pages -> Early]
    BY <1>2, <1>8, PooledFacts DEF LoadFont
  <2>2. error' \in {0, 1}
    BY <1>3, <1>8 DEF LoadFont
  <2>. QED BY <1>1, <1>3, <1>8, <2>1, <2>2, CalmStep DEF LoadFont, BeforeMap
<1>9. CASE FindScreen
  <2>1. error' \in {0, 1}
    BY <1>3, <1>9 DEF FindScreen
  <2>. QED BY <1>1, <1>2, <1>3, <1>9, <2>1, CalmStep DEF FindScreen, BeforeMap
<1>10. CASE SizeMap
  <2>1. room' \in Nat
    BY <1>2, <1>10, DescriptorsType DEF SizeMap, Early
  <2>. QED BY <1>1, <1>2, <1>3, <1>10, <2>1, CalmStep DEF SizeMap, BeforeMap
<1>11. CASE MapBuffer
  <2>1. owner' \in [Pages -> Early]
    BY <1>2, <1>11, PooledFacts DEF MapBuffer
  <2>2. buffer' \subseteq Pages
    BY <1>11, Zenon DEF MapBuffer
  <2>. QED BY <1>1, <1>3, <1>11, <2>1, <2>2, CalmStep DEF MapBuffer, BeforeMap
<1>. QED BY <1>4, <1>5, <1>6, <1>7, <1>8, <1>9, <1>10, <1>11

\* The map that is read is the owners of that moment.
LEMMA MapStep ==
  ASSUME IInv, GetMap
  PROVE  IInv'
<1>1. owner \in [Pages -> Early] /\ stack = None /\ directory = None
  BY DEF IInv, Order, GetMap, BeforeMap
<1>2. map' = owner \/ map' = NoMap
  BY DEF GetMap
<1>3. TypeOK'
  <2>1. map' \in [Pages -> Owners] \cup {NoMap}
    BY <1>1, <1>2 DEF Early
  <2>. QED BY <2>1 DEF IInv, TypeOK, GetMap, env
<1>4. Order'
  BY <1>1, <1>2 DEF GetMap, Order, BeforeMap
<1>5. StackHeld' /\ Explained' /\ Refused'
  BY <1>1, <1>2 DEF GetMap, StackHeld, Explained, Refused, Entered
<1>. QED BY <1>3, <1>4, <1>5 DEF IInv

\* The stack is allocated behind the map's back.
LEMMA StackStep ==
  ASSUME IInv, TakeStack
  PROVE  IInv'
<1>. DEFINE n == StackBytes \div PageBytes
<1>1. /\ owner \in [Pages -> Early] /\ owner \in [Pages -> Owners]
      /\ stack = None /\ directory = None
  BY DEF IInv, Order, TypeOK, TakeStack
<1>2. n \in Nat \ {0}
  BY StackSize
<1>. HIDE DEF n
<1>3. PICK at \in Anywhere(owner, n) :
        /\ stack' = at
        /\ owner' = IF at = None THEN owner ELSE Grant(owner, at .. at + n - 1, "stack")
  BY Zenon DEF TakeStack, n
<1>4. CASE at = None
  <2>1. stack' = stack /\ owner' = owner
    BY <1>1, <1>3, <1>4
  <2>. QED BY <1>1, <2>1 DEF TakeStack, IInv, TypeOK, env, Order, StackHeld, Explained, Refused,
                             Entered, BeforeMap, StackAllocated, DirectoryUsed
<1>5. CASE at # None
  <2>1. at \in Starts(owner, n)
    BY <1>3, <1>5, Zenon DEF Anywhere
  <2>2. at \in Pages /\ at \in Int
    BY <1>1, <1>2, <2>1, StartsFacts DEF Pages
  <2>3. owner' = [p \in Pages |-> IF p \in at .. at + n - 1 THEN "stack" ELSE owner[p]]
    BY <1>1, <1>3, <1>5 DEF Grant
  <2>4. owner' \in [Pages -> Owners]
    BY <1>1, <2>3 DEF Owners
  <2>5. owner'[at] = "stack"
    BY <1>2, <2>2, <2>3
  <2>6. TypeOK'
    BY <1>3, <2>2, <2>4 DEF TakeStack, IInv, TypeOK, env
  <2>7. Order'
    BY <1>1 DEF TakeStack, IInv, Order, BeforeMap
  <2>8. StackHeld' /\ Refused'
    BY <1>3, <2>5 DEF TakeStack, StackHeld, Refused, Entered
  <2>9. Explained'
    <3>1. StackAllocated' = at .. at + n - 1
      BY <1>3, <1>5 DEF StackAllocated, n
    <3>2. ASSUME map # NoMap, NEW p \in Pages, map[p] = "free"
          PROVE  owner[p] = "free"
      BY <1>1, <3>2 DEF IInv, Explained, StackAllocated, DirectoryUsed
    <3>. QED BY <2>3, <3>1, <3>2 DEF TakeStack, Explained
  <2>. QED BY <2>6, <2>7, <2>8, <2>9 DEF IInv
<1>. QED BY <1>4, <1>5

\* So is the directory, away from the stack.
LEMMA DirectoryStep ==
  ASSUME IInv, TakeDirectory
  PROVE  IInv'
<1>1. owner \in [Pages -> Owners] /\ directory = None /\ stack \in Pages \cup {None}
  BY DEF IInv, Order, TypeOK, TakeDirectory
<1>2. dirPages' \in Nat \ {0}
  BY DirectorySizeType, SizesAssumption DEF TakeDirectory
<1>3. PICK at \in Anywhere(owner, dirPages') :
        /\ directory' = at
        /\ owner' = IF at = None THEN owner
                    ELSE Grant(owner, at .. at + dirPages' - 1, "directory")
  BY Zenon DEF TakeDirectory
<1>4. UNCHANGED <<env, loaded, error, room, buffer, map, stack, services>> /\ step' = "leave"
  BY DEF TakeDirectory
<1>5. CASE at = None
  <2>1. directory' = directory /\ owner' = owner
    BY <1>1, <1>3, <1>5
  <2>2. TypeOK'
    BY <1>2, <1>4, <2>1 DEF IInv, TypeOK, env
  <2>. QED BY <1>1, <1>4, <2>1, <2>2 DEF IInv, Order, StackHeld, Explained, Refused, Entered,
                                        BeforeMap, StackAllocated, DirectoryUsed
<1>6. CASE at # None
  <2>. DEFINE S == at .. at + dirPages' - 1
  <2>1. at \in Starts(owner, dirPages')
    BY <1>3, <1>6, Zenon DEF Anywhere
  <2>2. at \in Pages /\ \A p \in S : p \in Pages /\ owner[p] = "free"
    BY <1>1, <1>2, <2>1, StartsFacts
  <2>3. owner' = [p \in Pages |-> IF p \in S THEN "directory" ELSE owner[p]]
    BY <1>1, <1>3, <1>6 DEF Grant
  <2>4. DirectoryUsed' = S
    BY <1>3, <1>6 DEF DirectoryUsed
  <2>. HIDE DEF S
  <2>5. owner' \in [Pages -> Owners]
    BY <1>1, <2>3 DEF Owners
  <2>6. TypeOK'
    BY <1>2, <1>3, <1>4, <2>2, <2>5 DEF IInv, TypeOK, env
  <2>7. Order' /\ Refused'
    BY <1>4 DEF IInv, Order, BeforeMap, Refused, Entered
  <2>8. StackHeld'
    BY <1>1, <1>4, <2>2, <2>3 DEF IInv, StackHeld
  <2>9. Explained'
    BY <1>1, <1>4, <2>3, <2>4 DEF IInv, Explained, StackAllocated, DirectoryUsed
  <2>. QED BY <2>6, <2>7, <2>8, <2>9 DEF IInv
<1>. QED BY <1>5, <1>6

\* No map can be current once there is a stack.
LEMMA KeyIsStale ==
  ASSUME IInv, stack # None
  PROVE  ~CanExit
<1>1. stack \in Pages /\ owner[stack] = "stack"
  BY DEF IInv, TypeOK, StackHeld
<1>2. CASE map = NoMap
  <2>1. DOMAIN map = {} /\ DOMAIN owner = Pages
    BY <1>2 DEF NoMap, IInv, TypeOK
  <2>. QED BY <1>1, <2>1 DEF CanExit
<1>3. CASE map \in [Pages -> Early]
  BY <1>1, <1>3 DEF CanExit, Early
<1>. QED BY <1>2, <1>3 DEF IInv, Order

LEMMA LeaveStep ==
  ASSUME IInv, Leave \/ Return
  PROVE  IInv'
<1>1. UNCHANGED <<env, owner, loaded, error, room, buffer, map, stack, directory, dirPages>>
  BY DEF Leave, Return
<1>2. step' \in {"kernel", "wild", "returned"} /\ services' \in BOOLEAN
  BY DEF Leave, Return, IInv, TypeOK
<1>3. TypeOK'
  BY <1>1, <1>2 DEF IInv, TypeOK, env
<1>4. Order' /\ StackHeld' /\ Explained'
  BY <1>1, <1>2 DEF IInv, Order, BeforeMap, StackHeld, Explained, StackAllocated, DirectoryUsed
<1>5. Refused'
  BY <1>1, KeyIsStale DEF Leave, Return, Refused, Entered
<1>. QED BY <1>3, <1>4, <1>5 DEF IInv

LEMMA StepInv == IInv /\ [Next]_vars => IInv'
<1>. SUFFICES ASSUME IInv, [Next]_vars PROVE IInv'
  OBVIOUS
<1>1. CASE UNCHANGED vars
  BY <1>1 DEF IInv, vars, env, TypeOK, Order, StackHeld, Explained, Refused, Entered,
              StackAllocated, DirectoryUsed
<1>. QED BY <1>1, EarlyStep, MapStep, StackStep, DirectoryStep, LeaveStep DEF Next

-------------------------------------------------------------------------------
(* Theorems.                                                               *)

THEOREM Invariance == Spec => []IInv
<1>. QED BY InitInv, StepInv, PTL DEF Spec

\* The variables have their types.
THEOREM TypeCorrect == Spec => []TypeOK
<1>1. IInv => TypeOK
  BY DEF IInv
<1>. QED BY <1>1, Invariance, PTL

\* However the firmware places what it is asked for, the loader's call of
\* ExitBootServices is refused and the kernel starts beside the firmware.
THEOREM ExitAlwaysRefused == Spec => []ExitRefused
<1>1. IInv => ExitRefused
  BY DEF IInv, Refused, ExitRefused
<1>. QED BY <1>1, Invariance, PTL

\* memoryInit locks whatever the loader has taken and the map calls free.
THEOREM TakenPagesLocked == Spec => []UsedPagesKept
<1>1. IInv => UsedPagesKept
  <2>. SUFFICES ASSUME IInv, Entered, map # NoMap, NEW p \in Free(map),
                       owner[p] # "free" \/ p \in StackUsed
                PROVE  p \in LockedPages
    BY DEF UsedPagesKept
  <2>1. p \in Pages /\ map[p] = "free"
    BY DEF IInv, TypeOK, Free
  <2>2. stack \in Pages /\ directory \in Pages \cup {None} /\ dirPages \in Nat
    BY DEF IInv, TypeOK, Refused
  <2>3. p \in Int /\ stack \in Int /\ (directory # None => directory \in Int)
    BY <2>1, <2>2 DEF Pages
  <2>4. CASE p \in StackUsed
    BY <2>3, <2>4, StackDivision, StackSize DEF StackUsed, LockedPages
  <2>5. CASE owner[p] # "free"
    <3>1. p \in StackAllocated \/ p \in DirectoryUsed
      BY <2>1, <2>5 DEF IInv, Explained
    <3>2. CASE p \in StackAllocated
      BY <2>3, <3>2, StackSize DEF StackAllocated, LockedPages
    <3>3. CASE p \in DirectoryUsed
      BY <2>2, <2>3, <3>3 DEF DirectoryUsed, LockedPages
    <3>. QED BY <3>1, <3>2, <3>3
  <2>. QED BY <2>4, <2>5
<1>. QED BY <1>1, Invariance, PTL
-------------------------------------------------------------------------------
(* The bitmap.                                                             *)

StackPages == StackBytes \div PageBytes

\* The owners once the stack is allocated, if the map was read before.
AfterStack == IF stack = None THEN map ELSE Grant(map, stack .. stack + StackPages - 1, "stack")

\* Starts, whatever the firmware's policy is at the moment.
StartsBy(top, o, n) ==
  LET all == {p \in Free(o) : p .. p + n - 1 \subseteq Free(o)}
  IN  IF top THEN {p \in all : \A q \in all : q <= p} ELSE all

\* Stack and directory are where the firmware's policy puts them.
Placed ==
  map # NoMap =>
    /\ step = "stack" => owner = map
    /\ stack # None => stack \in StartsBy(topDown, map, StackPages)
    /\ step = "directory" => owner = AfterStack
    /\ directory # None => /\ dirPages \in Nat \ {0}
                           /\ directory \in StartsBy(topDown, AfterStack, dirPages)

LEMMA PolicyDecides == \A o, n : Starts(o, n) = StartsBy(topDown, o, n)
BY Zenon DEF Starts, StartsBy

LEMMA PlacedStep ==
  ASSUME IInv, Placed, [Next]_vars
  PROVE  Placed'
<1>1. UNCHANGED env
  BY Zenon DEF Next, vars, OpenKernel, Verify, LoadSegment, EndOfSegments, LoadFont, FindScreen,
               SizeMap, MapBuffer, GetMap, TakeStack, TakeDirectory, Leave, Return
<1>2. topDown' = topDown
  BY <1>1 DEF env
<1>3. CASE OpenKernel \/ Verify \/ LoadSegment \/ EndOfSegments \/ LoadFont \/ FindScreen
             \/ SizeMap \/ MapBuffer
  <2>1. step \in BeforeMap /\ map' = map
    BY <1>3 DEF OpenKernel, Verify, LoadSegment, EndOfSegments, LoadFont, FindScreen, SizeMap,
                MapBuffer, BeforeMap
  <2>2. map' = NoMap
    BY <2>1 DEF IInv, Order
  <2>. QED BY <2>2 DEF Placed
<1>4. CASE GetMap
  <2>1. stack = None /\ directory = None
    BY <1>4 DEF IInv, Order, GetMap, BeforeMap
  <2>. QED BY <1>4, <2>1 DEF GetMap, Placed
<1>5. CASE TakeStack
  <2>1. /\ directory' = None /\ map' = map /\ step' = "directory" /\ step = "stack"
        /\ stack' \in Anywhere(owner, StackPages)
        /\ owner' = IF stack' = None THEN owner
                    ELSE Grant(owner, stack' .. stack' + StackPages - 1, "stack")
    BY <1>5 DEF IInv, Order, TakeStack, BeforeMap, StackPages
  <2>2. SUFFICES ASSUME map # NoMap
                 PROVE  /\ stack' # None => stack' \in StartsBy(topDown', map', StackPages)
                        /\ owner' = AfterStack'
    BY <2>1 DEF Placed
  <2>3. owner = map
    BY <2>1, <2>2 DEF Placed
  <2>4. owner' = AfterStack'
    BY <2>1, <2>3, Zenon DEF AfterStack, Grant
  <2>5. stack' # None => stack' \in StartsBy(topDown, map, StackPages)
    BY <2>1, <2>3, PolicyDecides, Zenon DEF Anywhere
  <2>. QED BY <1>2, <2>1, <2>4, <2>5
<1>6. CASE TakeDirectory
  <2>1. /\ map' = map /\ stack' = stack /\ step' = "leave" /\ step = "directory"
        /\ directory' \in Anywhere(owner, dirPages')
    BY <1>6, Zenon DEF TakeDirectory
  <2>2. dirPages' \in Nat \ {0}
    BY <1>6, DirectorySizeType, SizesAssumption DEF TakeDirectory
  <2>3. SUFFICES ASSUME map # NoMap, directory' # None
                 PROVE  directory' \in StartsBy(topDown', AfterStack', dirPages')
    BY <1>2, <2>1, <2>2 DEF Placed
  <2>4. directory' \in StartsBy(topDown, owner, dirPages')
    BY <2>1, <2>3, PolicyDecides, Zenon DEF Anywhere
  <2>5. owner = AfterStack /\ AfterStack' = AfterStack
    BY <2>1, <2>3, Zenon DEF Placed, AfterStack, Grant
  <2>. QED BY <1>2, <2>4, <2>5
<1>7. CASE Leave \/ Return \/ UNCHANGED vars
  <2>1. /\ map' = map /\ stack' = stack /\ directory' = directory /\ dirPages' = dirPages
        /\ owner' = owner
        /\ step' = step \/ step' \in {"kernel", "wild", "returned"}
    BY <1>7 DEF Leave, Return, vars
  <2>2. AfterStack' = AfterStack
    BY <2>1, Zenon DEF AfterStack, Grant
  <2>. QED BY <1>2, <2>1, <2>2 DEF Placed
<1>. QED BY <1>3, <1>4, <1>5, <1>6, <1>7 DEF Next

-------------------------------------------------------------------------------
(* Largest and smallest.                                                   *)

LEMMA MinFacts ==
  ASSUME NEW S, S \subseteq Nat, S # {}
  PROVE  Min(S) \in S /\ \A y \in S : Min(S) <= y
<1>. DEFINE R == {ss \in Nat \X Nat : ss[1] < ss[2]}
<1>1. IsWellFoundedOn(R, Nat)
  BY NatLessThanWellFounded, Zenon DEF OpToRel
<1>2. PICK x \in S : \A y \in S : ~ (<<y, x>> \in R)
  <2>. HIDE DEF R
  <2>. QED BY <1>1, WFMin, Zenon
<1>3. \A y \in S : x <= y
  <2>. SUFFICES ASSUME NEW y \in S PROVE x <= y
    OBVIOUS
  <2>1. ~ (<<y, x>> \in R)
    BY <1>2
  <2>. QED BY <2>1
<1>. QED BY <1>3 DEF Min

\* A largest element is a smallest one of the distances from the bound.
LEMMA MaxFacts ==
  ASSUME NEW N \in Nat, NEW S, S \subseteq 0 .. N, S # {}
  PROVE  Max(S) \in S /\ \A y \in S : y <= Max(S)
<1>. DEFINE T == {N - y : y \in S}
<1>1. T \subseteq Nat /\ T # {}
  OBVIOUS
<1>2. Min(T) \in T /\ \A z \in T : Min(T) <= z
  <2>. HIDE DEF T
  <2>. QED BY <1>1, MinFacts
<1>3. PICK x \in S : Min(T) = N - x
  BY <1>2
<1>4. \A y \in S : x >= y
  <2>. SUFFICES ASSUME NEW y \in S PROVE x >= y
    OBVIOUS
  <2>1. N - y \in T
    OBVIOUS
  <2>2. N - x <= N - y
    BY <1>2, <1>3, <2>1
  <2>3. x \in Nat /\ y \in Nat
    OBVIOUS
  <2>. HIDE DEF T
  <2>. QED BY <2>2, <2>3
<1>. QED BY <1>4 DEF Max

LEMMA RunFacts ==
  ASSUME map \in [Pages -> Early], NEW p \in Pages
  PROVE  /\ RunLength(p) \in 0 .. MemPages
         /\ p .. p + RunLength(p) - 1 \subseteq Free(map)
<1>. DEFINE S == {n \in 0 .. MemPages : p .. p + n - 1 \subseteq Free(map)}
<1>1. 0 \in S
  BY SizesAssumption DEF Pages
<1>2. S \subseteq 0 .. MemPages /\ S # {} /\ MemPages \in Nat
  BY <1>1, SizesAssumption
<1>3. Max(S) \in S
  <2>. HIDE DEF S
  <2>. QED BY <1>2, MaxFacts
<1>. QED BY <1>3 DEF RunLength

\* There is a largest run.
LEMMA LargestFacts ==
  ASSUME map \in [Pages -> Early]
  PROVE  LargestSeg \in Pages
<1>. DEFINE S == {RunLength(p) : p \in Pages}
            W == {p \in Pages : \A q \in Pages : RunLength(q) <= RunLength(p)}
<1>1. S \subseteq 0 .. MemPages /\ MemPages \in Nat
  BY RunFacts, SizesAssumption
<1>2. 0 \in Pages
  BY SizesAssumption DEF Pages
<1>3. S # {}
  BY <1>2
<1>4. Max(S) \in S /\ \A y \in S : y <= Max(S)
  <2>. HIDE DEF S
  <2>. QED BY <1>1, <1>3, MaxFacts
<1>5. PICK p \in Pages : Max(S) = RunLength(p)
  BY <1>4
<1>6. p \in W
  BY <1>4, <1>5
<1>7. W \subseteq Nat /\ W # {}
  BY <1>6 DEF Pages
<1>8. Min(W) \in W
  <2>. HIDE DEF W
  <2>. QED BY <1>7, MinFacts
<1>. QED BY <1>8 DEF LargestSeg

\* Pages taken from the top are above every run that would have done.
LEMMA Highest ==
  ASSUME NEW o, NEW n \in Nat \ {0}, NEW at \in StartsBy(TRUE, o, n),
         NEW q \in Int, q .. q + n - 1 \subseteq Free(o)
  PROVE  q <= at
<1>1. q \in q .. q + n - 1
  OBVIOUS
<1>. QED BY <1>1 DEF StartsBy

THEOREM PlacedInvariance == Spec => []Placed
<1>1. Init => Placed
  BY DEF Init, Placed
<1>2. IInv /\ Placed /\ [Next]_vars => Placed'
  BY PlacedStep
<1>. QED BY <1>1, <1>2, Invariance, PTL DEF Spec

LEMMA BitmapSize == BitmapPages \in Nat \ {0}
<1>1. \A a \in Nat, b \in Nat \ {0} : a \div b \in Nat
  OBVIOUS
<1>2. MemPages \div 8 \in Nat /\ PageBytes \in Nat \ {0}
  BY SizesAssumption
<1>3. (MemPages \div 8) \div PageBytes \in Nat
  BY <1>1, <1>2, Zenon
<1>. QED BY <1>3 DEF BitmapPages

LEMMA StackReach ==
  /\ (StackBytes - 1) \div PageBytes \in Nat
  /\ (StackBytes - 1) \div PageBytes + 1 >= StackPages
  /\ (StackBytes - 1) \div PageBytes <= StackPages
BY SizesAssumption DEF StackPages

\* Allocated from the top, stack and directory are above the bitmap: the last
\* pages of the largest run, or those below the stack in it, would have done.
LEMMA AboveBitmap ==
  ASSUME IInv, Placed, Entered, map # NoMap, topDown,
         RunLength(LargestSeg) >= Cardinality(BitmapCleared)
                                   + Cardinality(StackUsed) + Cardinality(DirectoryUsed)
  PROVE  BitmapCleared \cap (StackUsed \cup DirectoryUsed) = {}
<1>. DEFINE L == LargestSeg
            R == RunLength(LargestSeg)
            B == BitmapPages
            n == StackPages
            u == (StackBytes - 1) \div PageBytes
<1>1. /\ map \in [Pages -> Early] /\ topDown = TRUE
      /\ stack \in Pages /\ directory \in Pages \cup {None} /\ stack # None
  BY NoneIsNoPage DEF IInv, TypeOK, Order, Refused
<1>2. L \in Nat /\ R \in Nat /\ L .. L + R - 1 \subseteq Free(map)
  BY <1>1, LargestFacts, RunFacts DEF Pages
<1>3. /\ B \in Nat \ {0} /\ n \in Nat \ {0} /\ u \in Nat
      /\ n <= u + 1 /\ stack \in Nat
  BY <1>1, BitmapSize, StackSize, StackReach DEF StackPages, Pages
<1>4. BitmapCleared = L .. L + B - 1 /\ StackUsed = stack .. stack + u
  BY DEF BitmapCleared, StackUsed
<1>. HIDE DEF L, R, B, n, u
<1>5. Cardinality(BitmapCleared) = B /\ Cardinality(StackUsed) = u + 1
  <2>1. L + B - 1 \in Int /\ stack + u \in Int
    BY <1>2, <1>3
  <2>. QED BY <1>2, <1>3, <1>4, <2>1, FS_Interval
<1>6. stack \in StartsBy(TRUE, map, n)
  BY <1>1 DEF Placed, n
<1>. DEFINE d == Cardinality(DirectoryUsed)
<1>7. d \in Nat /\ R >= B + u + 1 + d
  <2>1. d \in Nat
    <3>1. CASE directory = None
      BY <3>1, FS_EmptySet DEF DirectoryUsed
    <3>2. CASE directory # None
      <4>1. directory \in Int /\ dirPages \in Nat
        BY <1>1, <3>2 DEF Pages, IInv, TypeOK
      <4>2. DirectoryUsed = directory .. directory + dirPages - 1
        BY <3>2 DEF DirectoryUsed
      <4>3. IsFiniteSet(DirectoryUsed)
        BY <4>1, <4>2, FS_Interval
      <4>. QED BY <4>3, FS_CardinalityType
    <3>. QED BY <3>1, <3>2
  <2>2. R >= B + (u + 1) + d
    BY <1>5 DEF R
  <2>. HIDE DEF d
  <2>. QED BY <1>2, <1>3, <2>1, <2>2
<1>8. L + R - n <= stack
  <2>. HIDE DEF d
  <2>1. (L + R - n) .. (L + R - n) + n - 1 \subseteq L .. L + R - 1
    BY <1>2, <1>3, <1>7
  <2>2. L + R - n \in Int
    BY <1>2, <1>3
  <2>3. (L + R - n) .. (L + R - n) + n - 1 \subseteq Free(map)
    BY <1>2, <2>1
  <2>. QED BY <1>3, <1>6, <2>2, <2>3, Highest
<1>9. BitmapCleared \cap StackUsed = {}
  <2>. HIDE DEF d
  <2>. QED BY <1>2, <1>3, <1>4, <1>7, <1>8
<1>10. CASE directory = None
  BY <1>9, <1>10 DEF DirectoryUsed
<1>11. CASE directory # None
  <2>. DEFINE m == dirPages
  <2>1. /\ m \in Nat \ {0} /\ directory \in StartsBy(TRUE, AfterStack, m)
        /\ directory \in Nat
        /\ DirectoryUsed = directory .. directory + m - 1
    <3>1. m \in Nat \ {0} /\ directory \in StartsBy(TRUE, AfterStack, m)
      BY <1>1, <1>11, Zenon DEF Placed
    <3>2. directory \in Nat
      BY <1>1, <1>11 DEF Pages
    <3>3. DirectoryUsed = directory .. directory + m - 1
      BY <1>11, Zenon DEF DirectoryUsed
    <3>. QED BY <3>1, <3>2, <3>3, Zenon
  <2>2. d = m
    BY <2>1, FS_Interval
  <2>3. \A p \in Free(map) : (p < stack \/ p >= stack + n) => p \in Free(AfterStack)
    <3>1. AfterStack = [p \in Pages |-> IF p \in stack .. stack + n - 1 THEN "stack" ELSE map[p]]
      BY <1>1 DEF AfterStack, Grant, n
    <3>. QED BY <1>1, <1>3, <3>1 DEF Free
  <2>. HIDE DEF d, m
  <2>4. CASE stack >= L + R
    <3>1. (L + R - m) .. (L + R - m) + m - 1 \subseteq L .. L + R - 1
      BY <1>2, <1>3, <1>7, <2>1, <2>2
    <3>2. \A p \in (L + R - m) .. (L + R - m) + m - 1 : p < stack
      <4>1. \A p \in L .. L + R - 1 : p < stack
        BY <1>2, <1>3, <2>4
      <4>. QED BY <3>1, <4>1, Zenon
    <3>3. (L + R - m) .. (L + R - m) + m - 1 \subseteq Free(AfterStack)
      <4>1. \A p \in (L + R - m) .. (L + R - m) + m - 1 : p \in Free(map)
        BY <1>2, <3>1, Zenon
      <4>. QED BY <2>3, <3>2, <4>1, Zenon
    <3>4. L + R - m \in Int
      BY <1>2, <2>1
    <3>5. L + R - m <= directory
      BY <2>1, <3>3, <3>4, Highest
    <3>6. L + B - 1 < directory
      BY <1>2, <1>3, <1>7, <2>1, <2>2, <3>5
    <3>7. BitmapCleared \cap DirectoryUsed = {}
      BY <1>2, <1>3, <1>4, <2>1, <3>6
    <3>. QED BY <1>9, <3>7, Zenon
  <2>5. CASE stack < L + R
    <3>1. (stack - m) .. (stack - m) + m - 1 \subseteq L .. L + R - 1
      BY <1>2, <1>3, <1>7, <1>8, <2>1, <2>2, <2>5
    <3>2. \A p \in (stack - m) .. (stack - m) + m - 1 : p < stack
      BY <1>3, <2>1
    <3>3. (stack - m) .. (stack - m) + m - 1 \subseteq Free(AfterStack)
      BY <1>2, <2>3, <3>1, <3>2
    <3>4. stack - m \in Int
      BY <1>3, <2>1
    <3>5. stack - m <= directory
      BY <2>1, <3>3, <3>4, Highest
    <3>6. L + B - 1 < directory
      BY <1>2, <1>3, <1>7, <1>8, <2>1, <2>2, <3>5
    <3>7. BitmapCleared \cap DirectoryUsed = {}
      BY <1>2, <1>3, <1>4, <2>1, <3>6
    <3>. QED BY <1>9, <3>7, Zenon
  <2>. QED BY <1>2, <1>3, <2>4, <2>5
<1>. QED BY <1>10, <1>11

\* readMap's bitmap, cleared before anything is locked, is apart from stack
\* and directory when the firmware allocates from the top and the largest
\* segment has room for all three.
THEOREM BitmapClearsNothingTaken == Spec => []BitmapApart
<1>1. IInv /\ Placed => BitmapApart
  BY AboveBitmap DEF BitmapApart
<1>. QED BY <1>1, Invariance, PlacedInvariance, PTL

-------------------------------------------------------------------------------
(* The buffer for the map.                                                 *)

Edges(o) == {p \in DOMAIN o : p = 0 \/ Kind(o[p]) # Kind(o[p - 1])}

\* What the pages beside a set of pages are used for.
Beside(o, S) == {Kind(o[p]) : p \in {q \in Pages \ S : q + 1 \in S \/ q - 1 \in S}}

\* A run of the loader's pages has made the map longer.
Longer(o, S) == "conventional" \in Beside(o, S) /\ "loader" \notin Beside(o, S)

\* The buffer holds the map, unless taking it made the map longer.
Roomy ==
  /\ step = "buffer" => room = Descriptors(owner)
  /\ step = "map" => (room < Descriptors(owner) <=> Longer(owner, buffer))
  /\ step = "stack" => (map = NoMap <=> Longer(owner, buffer))

\* An edge is exchanged for another one at most.
LEMMA EdgeMoves ==
  ASSUME NEW S \in SUBSET Pages, NEW T, NEW a \in S, NEW b, T \subseteq (S \ {a}) \cup {b}
  PROVE  Cardinality(T) <= Cardinality(S)
<1>1. IsFiniteSet(S)
  <2>1. IsFiniteSet(Pages)
    BY FS_Interval, SizesAssumption DEF Pages
  <2>. QED BY <2>1, FS_Subset
<1>2. IsFiniteSet(S \ {a}) /\ Cardinality(S \ {a}) = Cardinality(S) - 1
  BY <1>1, FS_RemoveElement
<1>3. /\ IsFiniteSet((S \ {a}) \cup {b})
      /\ \/ Cardinality((S \ {a}) \cup {b}) = Cardinality(S \ {a})
         \/ Cardinality((S \ {a}) \cup {b}) = Cardinality(S \ {a}) + 1
  BY <1>2, FS_AddElement, Zenon
<1>4. /\ Cardinality(T) <= Cardinality((S \ {a}) \cup {b})
      /\ IsFiniteSet(T)
  BY <1>3, FS_Subset
<1>5. Cardinality(S) \in Nat /\ Cardinality(T) \in Nat /\ Cardinality(S \ {a}) \in Nat
  BY <1>1, <1>2, <1>4, FS_CardinalityType
<1>. QED BY <1>2, <1>3, <1>4, <1>5

\* A new run of pages makes a descriptor only between pages of another kind.
LEMMA PoolDescriptors ==
  ASSUME NEW o \in [Pages -> Early], NEW after \in Pooled(o)
  PROVE  Descriptors(o) < Descriptors(after)
           <=> Longer(after, {p \in Pages : after[p] # o[p]})
<1>. DEFINE S == {p \in Pages : after[p] # o[p]}
<1>1. Descriptors(o) \in Nat
  BY DescriptorsType DEF Early
<1>2. CASE after = o
  <2>1. S = {}
    BY <1>2
  <2>. HIDE DEF S
  <2>2. Beside(after, S) = {}
    BY <2>1 DEF Beside
  <2>. QED BY <1>1, <1>2, <2>2 DEF Longer, S
<1>3. CASE after # o
  <2>0. PICK n \in 1 .. PoolPages : \E p \in Starts(o, n) : after = Grant(o, p .. p + n - 1, "pool")
    BY <1>3, Zenon DEF Pooled
  <2>1. PICK p \in Starts(o, n) : after = Grant(o, p .. p + n - 1, "pool")
    BY <2>0
  <2>. DEFINE e == p + n
              E == Edges(o)
              F == Edges(after)
  <2>2. n \in Nat \ {0} /\ p \in Pages /\ \A q \in p .. e - 1 : q \in Pages /\ o[q] = "free"
    <3>1. n \in Nat \ {0}
      BY <2>1, SizesAssumption
    <3>2. o \in [Pages -> Owners]
      BY DEF Early
    <3>3. p \in Pages /\ \A q \in p .. p + n - 1 : q \in Pages /\ o[q] = "free"
      BY <2>1, <3>1, <3>2, StartsFacts, Zenon
    <3>4. p + n - 1 = e - 1
      BY <3>1, <3>3 DEF Pages
    <3>. QED BY <3>1, <3>3, <3>4
  <2>3. after = [q \in Pages |-> IF q \in p .. e - 1 THEN "pool" ELSE o[q]]
    <3>1. DOMAIN o = Pages
      OBVIOUS
    <3>2. p + n - 1 = e - 1
      BY <2>2 DEF Pages
    <3>. QED BY <2>1, <3>1, <3>2 DEF Grant
  <2>4. p \in Nat /\ e \in Nat /\ p < e /\ Pages \subseteq Nat
    BY <2>2 DEF Pages
  <2>5. S = p .. e - 1
    BY <2>2, <2>3
  <2>6. /\ \A q \in S : Kind(after[q]) = "loader" /\ Kind(o[q]) = "conventional"
        /\ \A q \in Pages \ S : Kind(after[q]) = Kind(o[q])
    BY <2>2, <2>3, <2>5 DEF Kind
  <2>7. /\ E = {q \in Pages : q = 0 \/ Kind(o[q]) # Kind(o[q - 1])}
        /\ F = {q \in Pages : q = 0 \/ Kind(after[q]) # Kind(after[q - 1])}
    BY <2>3, Zenon DEF Edges
  <2>8. \A q \in Pages : q # 0 => q - 1 \in Pages
    BY SizesAssumption DEF Pages
  <2>9. Descriptors(o) = Cardinality(E) /\ Descriptors(after) = Cardinality(F)
    BY Zenon DEF Descriptors, Edges
  <2>10. E \in SUBSET Pages /\ F \in SUBSET Pages
    BY <2>7
  <2>11. Cardinality(E) \in Nat /\ Cardinality(F) \in Nat /\ IsFiniteSet(E) /\ IsFiniteSet(F)
    <3>1. IsFiniteSet(Pages)
      BY FS_Interval, SizesAssumption DEF Pages
    <3>. QED BY <2>10, <3>1, FS_Subset, FS_CardinalityType
  <2>. HIDE DEF e, E, F, S
  <2>12. \A q \in Pages : q # p /\ q # e => (q \in E <=> q \in F)
    <3>. SUFFICES ASSUME NEW q \in Pages, q # p, q # e, q # 0
                  PROVE  q \in E <=> q \in F
      BY <2>7
    <3>1. q - 1 \in Pages /\ q \in Nat
      BY <2>4, <2>8
    <3>2. (q \in S /\ q - 1 \in S) \/ (q \notin S /\ q - 1 \notin S)
      BY <2>4, <2>5, <3>1
    <3>. QED BY <2>6, <2>7, <3>1, <3>2
  <2>. DEFINE L == Kind(o[p - 1])
              R == Kind(o[e])
              kinds == Beside(after, S)
  <2>13. /\ p \in S
         /\ p # 0 => p - 1 \in Pages \ S
         /\ e \in Pages => e \in Pages \ S /\ e - 1 \in S /\ e # 0 /\ e # p
    BY <2>2, <2>4, <2>5, <2>8
  <2>14. p \in E <=> (p = 0 \/ L # "conventional")
    BY <2>2, <2>6, <2>7, <2>13
  <2>15. p \in F <=> (p = 0 \/ L # "loader")
    BY <2>2, <2>6, <2>7, <2>13
  <2>16. e \in Pages => (e \in E <=> R # "conventional") /\ (e \in F <=> R # "loader")
    BY <2>6, <2>7, <2>13
  <2>17. \A k : k \in kinds <=> (p # 0 /\ k = L) \/ (e \in Pages /\ k = R)
    <3>1. {q \in Pages \ S : q + 1 \in S \/ q - 1 \in S} = {p - 1, e} \cap Pages
      <4>1. ASSUME NEW q \in Pages \ S, q + 1 \in S \/ q - 1 \in S
            PROVE  q \in {p - 1, e}
        BY <2>4, <2>5, <4>1
      <4>2. ASSUME NEW q \in {p - 1, e} \cap Pages
            PROVE  q \notin S /\ (q + 1 \in S \/ q - 1 \in S)
        BY <2>4, <2>5
      <4>. QED BY <4>1, <4>2
    <3>2. p - 1 \in Pages <=> p # 0
      BY <2>2, <2>4, <2>8
    <3>3. kinds = {Kind(after[q]) : q \in {p - 1, e} \cap Pages}
      BY <3>1, Zenon DEF Beside
    <3>4. /\ p # 0 => Kind(after[p - 1]) = L
          /\ e \in Pages => Kind(after[e]) = R
      BY <2>6, <2>13
    <3>. HIDE DEF L, R, kinds
    <3>. QED BY <3>2, <3>3, <3>4
  <2>. HIDE DEF L, R, kinds
  <2>18. ASSUME "conventional" \in kinds, "loader" \notin kinds
         PROVE  Cardinality(E) < Cardinality(F)
    <3>1. E \subseteq F
      <4>1. p \in F
        BY <2>15, <2>17, <2>18
      <4>2. e \in Pages => e \in F
        BY <2>16, <2>17, <2>18
      <4>. QED BY <2>10, <2>12, <4>1, <4>2
    <3>2. E # F
      <4>1. CASE p # 0 /\ L = "conventional"
        BY <2>14, <2>15, <4>1
      <4>2. CASE e \in Pages /\ R = "conventional"
        BY <2>16, <4>2
      <4>. QED BY <2>17, <2>18, <4>1, <4>2
    <3>. QED BY <2>11, <3>1, <3>2, FS_Subset
  <2>19. ASSUME "conventional" \notin kinds
         PROVE  Cardinality(F) <= Cardinality(E)
    <3>1. F \subseteq E
      <4>1. p \in E
        BY <2>14, <2>17, <2>19
      <4>2. e \in Pages => e \in E
        BY <2>16, <2>17, <2>19
      <4>. QED BY <2>10, <2>12, <4>1, <4>2
    <3>. QED BY <2>11, <3>1, FS_Subset
  <2>20. ASSUME "loader" \in kinds
         PROVE  Cardinality(F) <= Cardinality(E)
    <3>1. CASE p # 0 /\ L = "loader"
      <4>1. p \in E /\ p \notin F
        BY <2>14, <2>15, <3>1
      <4>2. F \subseteq (E \ {p}) \cup {e}
        BY <2>10, <2>12, <4>1
      <4>. QED BY <2>10, <4>1, <4>2, EdgeMoves
    <3>2. CASE e \in Pages /\ R = "loader"
      <4>1. e \in E /\ e \notin F
        BY <2>16, <3>2
      <4>2. F \subseteq (E \ {e}) \cup {p}
        BY <2>10, <2>12, <4>1
      <4>. QED BY <2>10, <4>1, <4>2, EdgeMoves
    <3>. QED BY <2>17, <2>20, <3>1, <3>2
  <2>21. Cardinality(E) < Cardinality(F) <=> Longer(after, S)
    BY <2>11, <2>18, <2>19, <2>20 DEF Longer, kinds
  <2>. QED BY <2>9, <2>21 DEF S
<1>. QED BY <1>2, <1>3

LEMMA RoomyStep ==
  ASSUME IInv, Roomy, [Next]_vars
  PROVE  Roomy'
<1>1. CASE SizeMap
  BY <1>1, Zenon DEF SizeMap, Roomy, Descriptors
<1>2. CASE MapBuffer
  <2>1. /\ owner \in [Pages -> Early] /\ owner' \in Pooled(owner) /\ room' = room
        /\ buffer' = {p \in Pages : owner'[p] # owner[p]}
        /\ room = Descriptors(owner) /\ step' = "map"
    BY <1>2 DEF MapBuffer, IInv, Order, BeforeMap, Roomy
  <2>2. Descriptors(owner) < Descriptors(owner') <=> Longer(owner', buffer')
    <3>1. Descriptors(owner) < Descriptors(owner')
            <=> Longer(owner', {p \in Pages : owner'[p] # owner[p]})
      BY <2>1, PoolDescriptors
    <3>. QED BY <2>1, <3>1
  <2>3. Descriptors(owner)' = Descriptors(owner') /\ (Longer(owner', buffer') <=> Longer(owner, buffer)')
    BY Zenon DEF Descriptors, Longer, Beside
  <2>. QED BY <2>1, <2>2, <2>3, Zenon DEF Roomy
<1>3. CASE GetMap
  <2>1. /\ owner \in [Pages -> Early] /\ step' = "stack" /\ owner' = owner /\ buffer' = buffer
        /\ map' = (IF Descriptors(owner) <= room THEN owner ELSE NoMap)
        /\ room < Descriptors(owner) <=> Longer(owner, buffer)
    BY <1>3 DEF GetMap, IInv, Order, BeforeMap, Roomy
  <2>2. owner # NoMap
    <3>1. 0 \in Pages
      BY SizesAssumption DEF Pages
    <3>. QED BY <2>1, <3>1 DEF NoMap
  <2>3. Descriptors(owner) \in Nat /\ room \in Nat
    BY DescriptorsType DEF IInv, TypeOK
  <2>4. map' = NoMap <=> Longer(owner, buffer)
    <3>1. map' = NoMap <=> ~ (Descriptors(owner) <= room)
      BY <2>1, <2>2
    <3>2. ~ (Descriptors(owner) <= room) <=> room < Descriptors(owner)
      BY <2>3
    <3>. QED BY <2>1, <3>1, <3>2, Zenon
  <2>5. Longer(owner, buffer)' <=> Longer(owner, buffer)
    BY <2>1, Zenon DEF Longer, Beside
  <2>. QED BY <2>1, <2>4, <2>5, Zenon DEF Roomy
<1>4. CASE OpenKernel \/ Verify \/ LoadSegment \/ EndOfSegments \/ LoadFont \/ FindScreen
             \/ TakeStack \/ TakeDirectory \/ Leave \/ Return
  <2>1. step' \notin {"buffer", "map", "stack"}
    BY <1>4 DEF OpenKernel, Verify, LoadSegment, EndOfSegments, LoadFont, FindScreen,
                TakeStack, TakeDirectory, Leave, Return
  <2>. QED BY <2>1, Zenon DEF Roomy
<1>5. CASE UNCHANGED vars
  <2>1. step' = step /\ room' = room /\ buffer' = buffer /\ owner' = owner /\ map' = map
    BY <1>5 DEF vars
  <2>2. Descriptors(owner)' = Descriptors(owner) /\ (Longer(owner, buffer)' <=> Longer(owner, buffer))
    BY <2>1, Zenon DEF Descriptors, Longer, Beside
  <2>. QED BY <2>1, <2>2, Zenon DEF Roomy
<1>. QED BY <1>1, <1>2, <1>3, <1>4, <1>5 DEF Next

\* The kernel is given no map exactly when the buffer for it, of however many
\* pages, has a free neighbour and none of the loader's.
THEOREM OnlyALoneBufferLosesTheMap == Spec => []MapLostByLoneBuffer
<1>1. Init => Roomy
  BY DEF Init, Roomy
<1>2. IInv /\ Roomy /\ [Next]_vars => Roomy'
  BY RoomyStep
<1>3. Roomy => MapLostByLoneBuffer
  BY Zenon DEF Roomy, Longer, Beside, MapLostByLoneBuffer
<1>. QED BY <1>1, <1>2, <1>3, Invariance, PTL DEF Spec

===============================================================================
