------------------------------- MODULE TerminalProofs -------------------------------
(***************************************************************************)
(* Proofs about the module Terminal, for a screen of any size, pools of    *)
(* any size that holds it, and any number of keys typed at any moment.     *)
(***************************************************************************)
EXTENDS Terminal, WellFoundedInduction, FunctionTheorems, FiniteSetTheorems, TLAPS

-------------------------------------------------------------------------------
(* The inductive invariant: the keys.                                      *)

NoKey == {NUL, Garbage}

\* A key waits in cell i.
Waits(i) == in[i] \notin Shown \cup NoKey

\* Handler reads cell i before it comes to cell j.
ReadBefore(i, j) == IF (i >= NextRead) <=> (j >= NextRead) THEN i < j ELSE i >= NextRead

\* A key is in one cell at most, and in the buffer or the cell behind it; what
\* memory held by chance is behind the cells that init clears.
Places ==
  /\ \A i \in Cells : in[i] \in 0 .. Len(keys) \cup {Garbage}
  /\ \A i \in Cells : in[i] \notin NoKey => i <= BufferSize
  /\ \A i \in Cells : in[i] = Garbage => i >= BufferSize - 1
  /\ \A i, j \in Cells : in[i] = in[j] /\ in[i] \notin NoKey => i = j

\* No key is shown twice.
Echoes ==
  /\ \A a \in DOMAIN echoed : echoed[a] \in 1 .. Len(keys)
  /\ \A a, b \in DOMAIN echoed : echoed[a] = echoed[b] => a = b

\* What handler has at hand: a key that it has not shown, until it has, and
\* then it clears that key's cell.
Hand ==
  /\ pc \in {"echo", "text", "command", "clear"} => ii \in Cells /\ in[ii] # NUL
  /\ pc = "advance" => ii \in Cells
  /\ pc \in {"echo", "text"} => in[ii] \notin Shown
  /\ \A i \in Cells : in[i] \in Shown => pc \in {"command", "clear"} /\ i = ii

\* A key that is neither shown nor lost is in a cell; when handler is about to
\* clear one that it has not shown, there was no room for that one.
Losses ==
  /\ lost \subseteq 1 .. Len(keys) /\ lost \cap Shown = {}
  /\ \A i \in Cells : in[i] \notin lost
  /\ \A k \in 1 .. Len(keys) : k \in Shown \/ k \in lost \/ \E i \in Cells : in[i] = k
  /\ pc \in {"command", "clear"} /\ in[ii] \notin Shown \cup {Garbage}
       => \A i \in 0 .. BufferSize - 1 : in[i] # NUL

\* The cells up to a waiting key are taken, from where handler is or from the
\* first one on.
Reached ==
  \A i \in Cells :
    Waits(i) =>
      \/ \A j \in 0 .. i : in[j] # NUL
      \/ i >= NextRead /\ \A j \in NextRead .. i : in[j] # NUL

\* Handler reads the keys in the order they were typed.
Ordered ==
  ~lapped =>
    /\ \A i, j \in Cells : Waits(i) /\ Waits(j) /\ ReadBefore(i, j) => in[i] < in[j]
    /\ \A a \in DOMAIN echoed, i \in Cells : Waits(i) => echoed[a] < in[i]
    /\ \A a, b \in DOMAIN echoed : a < b => echoed[a] < echoed[b]

\* scheduler.work is set before the main loop comes to its test.
Working ==
  /\ echoed # <<>> /\ ~schedWork => pc \in {"command", "clear", "advance"}
  /\ pc = "asleep" => ~schedWork

KeyInv == Places /\ Echoes /\ Hand /\ Losses /\ Reached /\ Ordered /\ Working

-------------------------------------------------------------------------------
(* The inductive invariant: the screen and the command.                    *)

\* Behind the end of the command there is no character of it, and nothing at
\* all as far as init cleared it.
CommandEnds ==
  /\ \A i \in Cells : i >= CommandEnd => command[i] \notin {"char", "newline"}
  /\ \A i \in Cells : CommandEnd <= i /\ i < BufferSize - 1 => command[i] = "nul"

\* What is in the command is on the screen, where handler stores it first.
TextCovers ==
  \/ TextEnd >= CommandEnd /\ (pc = "command" => TextEnd > CommandEnd)
  \/ TextEnd >= BufferSize - 1

\* The cells that handler has been through since it started over.
Through == IF pc \in {"command", "clear", "advance"} THEN ii + 1 ELSE ii

\* Each of them held a key, as far as init cleared them.
KeysThrough == Len(echoed) >= Through \/ Len(echoed) >= BufferSize - 1

\* Handler has found the ends.
Ends ==
  /\ pc \in {"echo", "text"} => TextEnd \in Cells
  /\ pc \in {"echo", "text", "command"} => CommandEnd \in Cells

\* The keys shown since the last Enter, and the characters of the command.
Since == {a \in DOMAIN echoed : \A b \in a .. Len(echoed) : keys[echoed[b]] # "newline"}
CommandChars == {i \in 0 .. CommandEnd - 1 : command[i] = "char"}

\* Handler has shown a key that is not in the command yet.
Ahead == pc = "command" /\ in[ii] # Garbage

\* Unless a key was replaced, the one at hand is as it was tested, and the
\* command has one character for each that was shown.
Counts ==
  ~replaced =>
    /\ \A i \in Cells : command[i] # "newline"
    /\ pc \in {"text", "command"} => CharOf(in[ii]) # "newline"
    /\ Cardinality(Since)
         = IF Ahead THEN Cardinality(CommandChars) + 1 ELSE Cardinality(CommandChars)

ScreenInv ==
  CommandEnds /\ TextCovers /\ KeysThrough /\ Ends /\ Counts /\ NoFaultBeforeFull

-------------------------------------------------------------------------------
(* Scans.                                                                  *)

LEMMA LeastIsMinimum ==
  ASSUME NEW S, S \subseteq Nat, S # {}
  PROVE  /\ Least(S) \in S
         /\ \A y \in S : Least(S) <= y
<1>. DEFINE R == {ss \in Nat \X Nat : ss[1] < ss[2]}
<1>1. IsWellFoundedOn(R, Nat)
  BY NatLessThanWellFounded, Zenon DEF OpToRel
<1>2. PICK x \in S : \A y \in S : ~ (<<y, x>> \in R)
  <2>. HIDE DEF R
  <2>. QED BY <1>1, WFMin, Zenon
<1>3. \A y \in S : x <= y
  <2>. SUFFICES ASSUME NEW y \in S PROVE x <= y
    OBVIOUS
  <2>1. ~ (<<y, x>> \in R)
    BY <1>2
  <2>. QED BY <2>1
<1>. QED BY <1>3 DEF Least

LEMMA Sizes ==
  /\ BufferSize \in Nat /\ BufferSize > 1 /\ PoolSize \in Nat /\ PoolSize > BufferSize
  /\ Width \in Nat \ {0} /\ Height \in Nat \ {0}
  /\ MaxKeys \in Nat /\ Garbage \in Nat /\ Garbage = MaxKeys + 1 /\ NUL = 0
<1>1. Width * Height \in Nat
  BY SizesAssumption
<1>. QED BY <1>1, SizesAssumption DEF BufferSize, Garbage, NUL

\* The interrupt's scan: the cells before its slot are taken.
LEMMA SlotFacts ==
  ASSUME in \in [Cells -> 0 .. Garbage]
  PROVE  /\ Slot \in 0 .. BufferSize /\ Slot \in Cells
         /\ \A i \in 0 .. Slot - 1 : in[i] # NUL
         /\ Slot # BufferSize => in[Slot] = NUL
<1>. DEFINE S == {i \in 0 .. BufferSize : in[i] = NUL} \cup {BufferSize}
<1>1. S \subseteq Nat /\ S # {} /\ S \subseteq 0 .. BufferSize
  BY Sizes
<1>2. Slot = Least(S)
  BY DEF Slot
<1>. HIDE DEF S
<1>3. Slot \in S /\ \A y \in S : Slot <= y
  BY <1>1, <1>2, LeastIsMinimum
<1>4. Slot \in 0 .. BufferSize
  BY <1>1, <1>3
<1>5. ASSUME NEW i \in 0 .. Slot - 1 PROVE in[i] # NUL
  <2>1. i \in 0 .. BufferSize /\ ~ (Slot <= i)
    BY <1>4, Sizes
  <2>. QED BY <2>1, <1>3 DEF S
<1>. QED BY <1>3, <1>4, <1>5, Sizes DEF S, Cells

-------------------------------------------------------------------------------
(* Sequences.                                                              *)

LEMMA AppendFacts ==
  ASSUME NEW S, NEW s \in Seq(S), NEW e \in S
  PROVE  /\ Append(s, e) \in Seq(S) /\ Len(Append(s, e)) = Len(s) + 1 /\ Len(s) \in Nat
         /\ DOMAIN s = 1 .. Len(s) /\ DOMAIN Append(s, e) = 1 .. Len(s) + 1
         /\ \A a \in 1 .. Len(s) : Append(s, e)[a] = s[a]
         /\ Append(s, e)[Len(s) + 1] = e
OBVIOUS

\* One more key is shown.
LEMMA ShownGrows ==
  ASSUME TypeOK, NEW k \in 1 .. MaxKeys, echoed' = Append(echoed, k)
  PROVE  /\ Shown' = Shown \cup {k}
         /\ echoed' # <<>>
         /\ DOMAIN echoed = 1 .. Len(echoed) /\ Len(echoed) \in Nat
         /\ DOMAIN echoed' = 1 .. Len(echoed) + 1
         /\ \A a \in 1 .. Len(echoed) : echoed'[a] = echoed[a]
         /\ echoed'[Len(echoed) + 1] = k
<1>1. echoed \in Seq(1 .. MaxKeys)
  BY DEF TypeOK
<1>2. /\ DOMAIN echoed = 1 .. Len(echoed) /\ Len(echoed) \in Nat
      /\ DOMAIN echoed' = 1 .. Len(echoed) + 1
      /\ \A a \in 1 .. Len(echoed) : echoed'[a] = echoed[a]
      /\ echoed'[Len(echoed) + 1] = k
  BY <1>1, AppendFacts
<1>3. Shown' = Shown \cup {k}
  BY <1>2 DEF Shown
<1>4. echoed' # <<>>
  BY <1>1
<1>. QED BY <1>2, <1>3, <1>4

-------------------------------------------------------------------------------
(* Types.                                                                  *)

LEMMA InitFacts ==
  ASSUME Init
  PROVE  /\ text \in [Cells -> TextCells] /\ command \in [Cells -> {"nul", "garbage"}]
         /\ in \in [Cells -> {NUL, Garbage}]
         /\ \A i \in Cells : i < BufferSize - 1 => command[i] = "nul" /\ in[i] = NUL
         /\ ii = 0 /\ pc = "poll" /\ schedWork = FALSE /\ keys = <<>> /\ echoed = <<>>
         /\ lost = {} /\ lapped = FALSE /\ replaced = FALSE
<1>1. PICK dirty \in SUBSET {"text", "command", "in"} :
        LET Cleared(b, i) == i < BufferSize - 1 \/ b \notin dirty
        IN  /\ text = [i \in Cells |->
                         IF Cleared("text", i) THEN "nul" ELSE "garbage"]
            /\ command = [i \in Cells |->
                            IF Cleared("command", i) THEN "nul" ELSE "garbage"]
            /\ in = [i \in Cells |-> IF Cleared("in", i) THEN NUL ELSE Garbage]
  BY Zenon DEF Init
<1>2. text \in [Cells -> TextCells]
  BY <1>1 DEF TextCells
<1>3. command \in [Cells -> {"nul", "garbage"}] /\ in \in [Cells -> {NUL, Garbage}]
  BY <1>1
<1>4. \A i \in Cells : i < BufferSize - 1 => command[i] = "nul" /\ in[i] = NUL
  BY <1>1
<1>5. /\ ii = 0 /\ pc = "poll" /\ schedWork = FALSE /\ keys = <<>> /\ echoed = <<>>
      /\ lost = {} /\ lapped = FALSE /\ replaced = FALSE
  BY Zenon DEF Init
<1>. QED BY <1>2, <1>3, <1>4, <1>5

LEMMA InitType == Init => TypeOK
<1>. SUFFICES ASSUME Init PROVE TypeOK
  OBVIOUS
<1>1. text \in [Cells -> TextCells] /\ command \in [Cells -> {"nul", "char", "newline", "garbage"}]
  BY InitFacts
<1>2. in \in [Cells -> 0 .. Garbage] /\ ii \in 0 .. PoolSize
  BY InitFacts, Sizes
<1>3. keys \in Seq(Chars) /\ Len(keys) = 0 /\ echoed \in Seq(1 .. MaxKeys)
  BY InitFacts
<1>. QED BY <1>1, <1>2, <1>3, InitFacts, Sizes DEF TypeOK

\* The key at hand.
LEMMA HandType ==
  ASSUME TypeOK, Places, Hand, pc \in {"echo", "text", "command", "clear"}
  PROVE  /\ ii \in Cells /\ in[ii] \in 1 .. Len(keys) \cup {Garbage}
         /\ in[ii] # Garbage => in[ii] \in 1 .. MaxKeys /\ CharOf(in[ii]) \in Chars
         /\ in[ii] = Garbage => CharOf(in[ii]) = "garbage"
         /\ Len(keys) \in Nat /\ Len(keys) <= MaxKeys
<1>1. keys \in Seq(Chars) /\ Len(keys) \in Nat /\ Len(keys) <= MaxKeys
  BY DEF TypeOK
<1>2. ii \in Cells /\ in[ii] \in 1 .. Len(keys) \cup {Garbage}
  BY <1>1, Sizes DEF Hand, Places
<1>3. \A k \in 1 .. Len(keys) : k \in 1 .. MaxKeys /\ k # Garbage /\ keys[k] \in Chars
  BY <1>1, Sizes
<1>. QED BY <1>1, <1>2, <1>3 DEF CharOf

LEMMA KeyTypedType ==
  ASSUME TypeOK, NEW c \in Chars, KeyTyped(c)
  PROVE  TypeOK'
<1>1. keys \in Seq(Chars) /\ Len(keys) \in Nat /\ Len(keys) <= MaxKeys
  BY DEF TypeOK
<1>2. in \in [Cells -> 0 .. Garbage] /\ Slot \in Cells
  BY SlotFacts DEF TypeOK
<1>3. keys' = Append(keys, c) /\ Len(keys) < MaxKeys
  BY DEF KeyTyped
<1>4. keys' \in Seq(Chars) /\ Len(keys)' = Len(keys) + 1 /\ Len(keys)' <= MaxKeys
  BY <1>1, <1>3, Sizes
<1>5. in' \in [Cells -> 0 .. Garbage]
  <2>1. Len(keys) + 1 \in 0 .. Garbage
    BY <1>1, <1>3, Sizes
  <2>. QED BY <1>2, <2>1 DEF KeyTyped
<1>6. lost' \subseteq 1 .. MaxKeys
  <2>1. \A x \in 0 .. Garbage : x \notin NoKey => x \in 1 .. MaxKeys
    BY Sizes DEF NoKey
  <2>. QED BY <1>2, <2>1 DEF KeyTyped, TypeOK, NoKey
<1>7. pc' \in {"poll", "echo", "text", "command", "clear", "advance", "idle", "asleep", "fault"}
  BY DEF KeyTyped, Wake, TypeOK
<1>8. /\ UNCHANGED <<text, command, ii, schedWork, echoed>>
      /\ lapped' \in BOOLEAN /\ replaced' \in BOOLEAN
  BY DEF KeyTyped, screenVars, TypeOK
<1>. QED BY <1>4, <1>5, <1>6, <1>7, <1>8 DEF TypeOK

LEMMA EchoType ==
  ASSUME TypeOK, Places, Hand, StoreText \/ EchoNewline
  PROVE  TypeOK'
<1>1. pc \in {"echo", "text"}
  BY DEF StoreText, EchoNewline
<1>3. text' \in [Cells -> TextCells] /\ command' \in [Cells -> {"nul", "char", "newline", "garbage"}]
  <2>1. CASE StoreText
    <3>1. CharOf(in[ii]) \in {"char", "newline", "garbage"}
      BY <1>1, HandType DEF Chars
    <3>. QED BY <2>1, <3>1 DEF StoreText, TypeOK, TextCells
  <2>2. CASE EchoNewline
    <3>1. text' = ScreenAfterEnter
            /\ command' = [i \in Cells |-> IF i < ClearEnd THEN "nul" ELSE command[i]]
      BY <2>2 DEF EchoNewline
    <3>. QED BY <3>1 DEF ScreenAfterEnter, TypeOK, TextCells
  <2>. QED BY <2>1, <2>2
<1>4. echoed' \in Seq(1 .. MaxKeys)
  <2>1. CASE in[ii] = Garbage
    <3>1. echoed' = echoed
      BY <2>1, <1>1, HandType DEF StoreText, EchoNewline
    <3>. QED BY <3>1 DEF TypeOK
  <2>2. CASE in[ii] # Garbage
    <3>1. in[ii] \in 1 .. MaxKeys /\ echoed' = Append(echoed, in[ii])
      BY <2>2, <1>1, HandType DEF StoreText, EchoNewline
    <3>. QED BY <3>1, AppendFacts DEF TypeOK
  <2>. QED BY <2>1, <2>2
<1>5. /\ pc' \in {"command", "clear"} /\ UNCHANGED <<in, ii, schedWork, keys, lost, lapped>>
      /\ replaced' \in BOOLEAN
  BY DEF StoreText, EchoNewline, keyVars, TypeOK
<1>. QED BY <1>3, <1>4, <1>5 DEF TypeOK

LEMMA StoreCommandType ==
  ASSUME TypeOK, Places, Hand, StoreCommand
  PROVE  TypeOK'
<1>1. CharOf(in[ii]) \in {"char", "newline", "garbage"}
  BY HandType DEF StoreCommand, Chars
<1>2. command' \in [Cells -> {"nul", "char", "newline", "garbage"}] /\ pc' = "clear"
  BY <1>1 DEF StoreCommand, TypeOK
<1>3. UNCHANGED <<text, in, ii, schedWork, keys, lost, lapped, replaced, echoed>>
  BY DEF StoreCommand, keyVars
<1>. QED BY <1>2, <1>3 DEF TypeOK

LEMMA LoopType ==
  ASSUME TypeOK, Hand,
         \/ FindKey \/ FindNone \/ RunPastPool \/ EnterFault \/ TestChar \/ ClearCell
         \/ Advance \/ GoOn \/ DecideToSleep \/ OtherScanCode
  PROVE  TypeOK'
<1>1. CASE \/ FindKey \/ RunPastPool \/ EnterFault \/ TestChar \/ GoOn \/ DecideToSleep
           \/ OtherScanCode
  <2>1. pc' \in {"poll", "echo", "text", "command", "clear", "advance", "idle", "asleep", "fault"}
    BY <1>1 DEF FindKey, RunPastPool, EnterFault, TestChar, GoOn, DecideToSleep, OtherScanCode,
                Fault, Wake, TypeOK
  <2>2. UNCHANGED <<text, command, in, ii, schedWork, keys, lost, lapped, replaced, echoed>>
    BY <1>1, Zenon DEF FindKey, RunPastPool, EnterFault, TestChar, GoOn, DecideToSleep,
                       OtherScanCode, Fault, screenVars, keyVars
  <2>. QED BY <2>1, <2>2 DEF TypeOK
<1>2. CASE FindNone
  <2>1. ii' \in 0 .. PoolSize
    BY <1>2, Sizes DEF FindNone
  <2>. QED BY <1>2, <2>1 DEF FindNone, screenVars, keyVars, TypeOK
<1>3. CASE Advance
  <2>1. ii' \in 0 .. PoolSize
    BY <1>3, Sizes DEF Advance, Hand, Cells
  <2>. QED BY <1>3, <2>1 DEF Advance, screenVars, keyVars, TypeOK
<1>4. CASE ClearCell
  <2>1. ii \in Cells /\ in[ii] # NUL
    BY <1>4 DEF ClearCell, Hand
  <2>2. in' \in [Cells -> 0 .. Garbage] /\ in[ii] \in 0 .. Garbage
    BY <1>4, <2>1, Sizes DEF ClearCell, TypeOK
  <2>3. lost' \subseteq 1 .. MaxKeys
    <3>1. in[ii] \notin {Garbage} => in[ii] \in 1 .. MaxKeys
      BY <2>1, <2>2, Sizes
    <3>. QED BY <1>4, <3>1 DEF ClearCell, TypeOK
  <2>. QED BY <1>4, <2>2, <2>3 DEF ClearCell, screenVars, TypeOK
<1>. QED BY <1>1, <1>2, <1>3, <1>4

-------------------------------------------------------------------------------
(* The keys, when nothing is stored, shown or cleared.                     *)

LEMMA InitKeys == Init => KeyInv
<1>. SUFFICES ASSUME Init PROVE KeyInv
  OBVIOUS
<1>1. /\ \A i \in Cells : in[i] \in NoKey
      /\ \A i \in Cells : in[i] = Garbage => i >= BufferSize - 1
      /\ \A i \in Cells : in[i] \in 0 .. Len(keys) \cup {Garbage}
  <2>1. Len(keys) = 0
    BY InitFacts
  <2>2. \A i \in Cells : ~ (i < BufferSize - 1) => i >= BufferSize - 1
    BY Sizes DEF Cells
  <2>3. NUL # Garbage /\ NUL \in 0 .. 0
    BY Sizes
  <2>. QED BY <2>1, <2>2, <2>3, InitFacts DEF NoKey
<1>2. pc = "poll" /\ schedWork = FALSE /\ lost = {} /\ echoed = <<>> /\ Len(keys) = 0
  BY InitFacts
<1>3. DOMAIN echoed = {} /\ Shown = {}
  BY <1>2 DEF Shown
<1>4. Places /\ Echoes
  BY <1>1, <1>3 DEF Places, Echoes
<1>5. Hand /\ Losses
  BY <1>1, <1>2, <1>3 DEF Hand, Losses
<1>6. \A i \in Cells : ~ Waits(i)
  BY <1>1 DEF Waits
<1>7. Reached /\ Ordered
  BY <1>3, <1>6, Zenon DEF Reached, Ordered
<1>8. Working
  BY <1>2 DEF Working
<1>. QED BY <1>4, <1>5, <1>7, <1>8 DEF KeyInv

LEMMA NextReadType ==
  ASSUME TypeOK
  PROVE  NextRead \in Nat /\ ii \in Nat /\ Cells \subseteq Nat /\ Len(keys) \in Nat
           /\ Len(keys) <= MaxKeys /\ DOMAIN echoed = 1 .. Len(echoed) /\ Len(echoed) \in Nat
BY Sizes DEF TypeOK, NextRead, Cells

\* The main loop goes on without touching the keys.
Moves ==
  \/ FindKey \/ FindNone \/ RunPastPool \/ EnterFault \/ TestChar \/ Advance \/ GoOn
  \/ DecideToSleep \/ OtherScanCode \/ UNCHANGED vars

LEMMA MovesFacts ==
  ASSUME Moves \/ StoreCommand
  PROVE  /\ UNCHANGED <<text, in, keys, lost, lapped, replaced, echoed>>
         /\ Moves => command' = command
         /\ pc' = "clear" => pc \in {"command", "clear"} /\ ii' = ii
         /\ pc' = "command" => pc = "command" /\ ii' = ii
         /\ pc' = "text" => pc \in {"echo", "text"} /\ ii' = ii
         /\ pc' = "echo" => /\ pc \in {"poll", "echo"} /\ ii' = ii
                            /\ pc = "poll" => ii < PoolSize /\ in[ii] # NUL
         /\ pc' = "advance" => pc = "advance" /\ ii' = ii
         /\ pc \in {"command", "clear"} => pc' \in {"command", "clear"}
<1>1. /\ UNCHANGED <<text, in, keys, lost, lapped, replaced, echoed>>
      /\ Moves => command' = command
  BY Zenon DEF Moves, FindKey, FindNone, RunPastPool, EnterFault, TestChar, StoreCommand, Advance,
               GoOn, DecideToSleep, OtherScanCode, Fault, screenVars, keyVars, vars
<1>2. /\ pc' = "clear" => pc \in {"command", "clear"} /\ ii' = ii
      /\ pc' = "command" => pc = "command" /\ ii' = ii
      /\ pc' = "text" => pc \in {"echo", "text"} /\ ii' = ii
      /\ pc' = "echo" => /\ pc \in {"poll", "echo"} /\ ii' = ii
                         /\ pc = "poll" => ii < PoolSize /\ in[ii] # NUL
      /\ pc' = "advance" => pc = "advance" /\ ii' = ii
      /\ pc \in {"command", "clear"} => pc' \in {"command", "clear"}
  BY DEF Moves, FindKey, FindNone, RunPastPool, EnterFault, TestChar, StoreCommand, Advance, GoOn,
         DecideToSleep, OtherScanCode, Fault, Wake, vars
<1>. QED BY <1>1, <1>2

\* Handler goes on where it was, or starts over at a cell without a key.
LEMMA MovesNextRead ==
  ASSUME TypeOK, Moves \/ StoreCommand
  PROVE  \/ NextRead' = NextRead
         \/ NextRead' = 0 /\ in[NextRead] = NUL
<1>1. CASE FindNone
  BY <1>1 DEF FindNone, NextRead
<1>2. CASE Advance
  BY <1>2 DEF Advance, NextRead
<1>3. CASE \/ FindKey \/ RunPastPool \/ EnterFault \/ TestChar \/ StoreCommand \/ GoOn
           \/ DecideToSleep \/ OtherScanCode
  BY <1>3 DEF FindKey, RunPastPool, EnterFault, TestChar, StoreCommand, GoOn, DecideToSleep,
              OtherScanCode, Fault, Wake, NextRead
<1>4. CASE UNCHANGED vars
  BY <1>4 DEF vars, NextRead
<1>. QED BY <1>1, <1>2, <1>3, <1>4 DEF Moves

LEMMA MovesKeys ==
  ASSUME TypeOK, KeyInv, Moves \/ StoreCommand
  PROVE  KeyInv'
<1>1. UNCHANGED <<in, keys, lost, lapped, echoed>>
  BY MovesFacts
<1>2. Shown' = Shown /\ \A i : Waits(i)' <=> Waits(i)
  BY <1>1 DEF Shown, Waits
<1>3. Places' /\ Echoes'
  BY <1>1, Zenon DEF KeyInv, Places, Echoes
<1>4. Hand'
  <2>1. pc' \in {"echo", "text", "command", "clear"} => ii' \in Cells /\ in[ii'] # NUL
    BY MovesFacts, NextReadType, Sizes DEF KeyInv, Hand, Cells
  <2>2. pc' = "advance" => ii' \in Cells
    BY MovesFacts DEF KeyInv, Hand
  <2>3. ASSUME pc' \in {"echo", "text"} PROVE in[ii'] \notin Shown
    <3>1. ii' = ii /\ pc \in {"poll", "echo", "text"} /\ ii \in Cells
      BY <2>1, <2>3, MovesFacts
    <3>. QED BY <3>1 DEF KeyInv, Hand
  <2>4. \A i \in Cells : in[i] \in Shown => pc' \in {"command", "clear"} /\ i = ii'
    BY MovesFacts DEF KeyInv, Hand
  <2>. QED BY <1>1, <1>2, <2>1, <2>2, <2>3, <2>4 DEF Hand
<1>5. Losses'
  BY <1>1, <1>2, MovesFacts DEF KeyInv, Losses
<1>6. Working'
  <2>1. /\ schedWork' = schedWork \/ schedWork' = TRUE
        /\ pc \in {"command", "clear", "advance"}
             => pc' \in {"command", "clear", "advance"} \/ schedWork' = TRUE
        /\ pc' = "asleep" => ~schedWork'
    BY DEF KeyInv, Working, Moves, FindKey, FindNone, RunPastPool, EnterFault, TestChar,
           StoreCommand, Advance, GoOn, DecideToSleep, OtherScanCode, Fault, Wake, vars
  <2>. QED BY <1>1, <2>1 DEF KeyInv, Working
<1>7. CASE NextRead' = NextRead
  <2>1. Reached' /\ Ordered'
    BY <1>1, <1>2, <1>7 DEF KeyInv, Reached, Ordered, ReadBefore
  <2>. QED BY <1>3, <1>4, <1>5, <1>6, <2>1 DEF KeyInv
<1>8. CASE NextRead' = 0 /\ in[NextRead] = NUL
  <2>1. ASSUME NEW i \in Cells, Waits(i)
        PROVE  i < NextRead /\ \A j \in 0 .. i : in[j] # NUL
    <3>1. CASE \A j \in 0 .. i : in[j] # NUL
      <4>1. NextRead \notin 0 .. i
        BY <3>1, <1>8
      <4>. QED BY <3>1, <4>1, NextReadType
    <3>2. CASE i >= NextRead /\ \A j \in NextRead .. i : in[j] # NUL
      <4>1. NextRead \in NextRead .. i
        BY <3>2, NextReadType
      <4>. QED BY <3>2, <4>1, <1>8
    <3>. QED BY <2>1, <3>1, <3>2 DEF KeyInv, Reached
  <2>2. Reached'
    BY <1>1, <1>2, <2>1, Zenon DEF Reached
  <2>3. \A i, j \in Cells :
          Waits(i) /\ Waits(j) /\ ReadBefore(i, j)' => ReadBefore(i, j)
    <3>1. SUFFICES ASSUME NEW i \in Cells, NEW j \in Cells, Waits(i), Waits(j), ReadBefore(i, j)'
                   PROVE  ReadBefore(i, j)
      OBVIOUS
    <3>2. i < NextRead /\ j < NextRead
      BY <2>1, <3>1
    <3>3. i < j
      BY <3>1, <1>8, NextReadType DEF ReadBefore
    <3>. QED BY <3>2, <3>3, NextReadType DEF ReadBefore
  <2>4. Ordered'
    BY <1>1, <1>2, <2>3 DEF KeyInv, Ordered
  <2>. QED BY <1>3, <1>4, <1>5, <1>6, <2>2, <2>4 DEF KeyInv
<1>. QED BY <1>7, <1>8, MovesNextRead

-------------------------------------------------------------------------------
(* The keys, when handler shows one.                                       *)

\* Nothing but what is shown and where the main loop is changes.
LEMMA EchoFacts ==
  ASSUME TypeOK, KeyInv, StoreText \/ EchoNewline
  PROVE  /\ pc \in {"echo", "text"} /\ pc' \in {"command", "clear"}
         /\ UNCHANGED <<in, ii, schedWork, keys, lost, lapped>>
         /\ NextRead = ii /\ NextRead' = ii
         /\ ii \in Cells /\ in[ii] \notin NoKey \ {Garbage} /\ in[ii] \notin Shown
         /\ in[ii] = Garbage => echoed' = echoed
         /\ in[ii] # Garbage => /\ echoed' = Append(echoed, in[ii]) /\ Waits(ii)
                                /\ in[ii] \in 1 .. Len(keys) /\ in[ii] \in 1 .. MaxKeys
<1>1. /\ pc \in {"echo", "text"} /\ pc' \in {"command", "clear"}
      /\ UNCHANGED <<in, ii, schedWork, keys, lost, lapped>>
  BY DEF StoreText, EchoNewline, keyVars
<1>2. NextRead = ii /\ NextRead' = ii
  BY <1>1 DEF NextRead
<1>3. ii \in Cells /\ in[ii] # NUL /\ in[ii] \notin Shown
  BY <1>1 DEF KeyInv, Hand
<1>4. /\ in[ii] \in 1 .. Len(keys) \cup {Garbage}
      /\ in[ii] # Garbage => in[ii] \in 1 .. MaxKeys
      /\ in[ii] = Garbage => CharOf(in[ii]) = "garbage"
  BY <1>1, HandType DEF KeyInv
<1>5. in[ii] = Garbage => echoed' = echoed
  BY <1>4 DEF StoreText, EchoNewline
<1>6. in[ii] # Garbage => echoed' = Append(echoed, in[ii])
  BY DEF StoreText, EchoNewline
<1>7. in[ii] # Garbage => Waits(ii)
  BY <1>3 DEF Waits, NoKey
<1>. QED BY <1>1, <1>2, <1>3, <1>4, <1>5, <1>6, <1>7 DEF NoKey

LEMMA EchoKeys ==
  ASSUME TypeOK, KeyInv, StoreText \/ EchoNewline
  PROVE  KeyInv'
<1>1. /\ pc \in {"echo", "text"} /\ pc' \in {"command", "clear"}
      /\ UNCHANGED <<in, ii, schedWork, keys, lost, lapped>>
      /\ NextRead = ii /\ NextRead' = ii /\ ii \in Cells /\ in[ii] \notin Shown
  BY EchoFacts
<1>2. CASE in[ii] = Garbage
  <2>1. echoed' = echoed /\ in[ii] # NUL
    BY <1>2, EchoFacts, Sizes
  <2>2. Shown' = Shown /\ \A i : Waits(i)' <=> Waits(i)
    BY <1>1, <2>1 DEF Shown, Waits
  <2>3. Places' /\ Echoes'
    BY <1>1, <2>1, Zenon DEF KeyInv, Places, Echoes
  <2>4. Hand'
    BY <1>1, <2>1, <2>2 DEF KeyInv, Hand
  <2>5. Losses'
    BY <1>1, <1>2, <2>2 DEF KeyInv, Losses
  <2>6. Reached' /\ Ordered'
    BY <1>1, <2>1, <2>2 DEF KeyInv, Reached, Ordered, ReadBefore
  <2>7. Working'
    BY <1>1 DEF Working
  <2>. QED BY <2>3, <2>4, <2>5, <2>6, <2>7 DEF KeyInv
<1>3. CASE in[ii] # Garbage
  <2>. DEFINE k == in[ii]
              n == Len(echoed)
  <2>1. /\ echoed' = Append(echoed, k) /\ Waits(ii) /\ k \in 1 .. Len(keys) /\ k \in 1 .. MaxKeys
        /\ k \notin NoKey
    BY <1>3, EchoFacts, Sizes DEF NoKey
  <2>2. /\ Shown' = Shown \cup {k}
        /\ DOMAIN echoed = 1 .. n /\ n \in Nat /\ DOMAIN echoed' = 1 .. n + 1
        /\ \A a \in 1 .. n : echoed'[a] = echoed[a]
        /\ echoed'[n + 1] = k
    BY <2>1, ShownGrows
  <2>3. \A i \in Cells : in[i] = k => i = ii
    BY <1>1, <2>1 DEF KeyInv, Places
  <2>4. \A i \in Cells : Waits(i)' <=> Waits(i) /\ i # ii
    BY <1>1, <2>2, <2>3 DEF Waits
  <2>5. \A a \in DOMAIN echoed : echoed[a] \in Shown
    BY DEF Shown
  <2>. HIDE DEF k, n
  <2>6. Places'
    BY <1>1, Zenon DEF KeyInv, Places
  <2>7. Echoes'
    <3>1. \A a \in 1 .. n : echoed'[a] \in 1 .. Len(keys) /\ echoed'[a] # k
      BY <1>1, <2>2, <2>5 DEF KeyInv, Echoes, k
    <3>2. \A a \in 1 .. n + 1 : a \in 1 .. n \/ a = n + 1
      BY <2>2
    <3>3. \A a \in DOMAIN echoed' : echoed'[a] \in 1 .. Len(keys)
      BY <2>1, <2>2, <3>1, <3>2
    <3>4. \A a, b \in DOMAIN echoed' : echoed'[a] = echoed'[b] => a = b
      BY <2>2, <3>1, <3>2 DEF KeyInv, Echoes
    <3>. QED BY <1>1, <3>3, <3>4 DEF Echoes
  <2>8. Hand'
    BY <1>1, <2>1, <2>2, <2>3 DEF KeyInv, Hand, k, NoKey
  <2>9. Losses'
    BY <1>1, <2>2 DEF KeyInv, Losses, k
  <2>10. Reached'
    BY <1>1, <2>4 DEF KeyInv, Reached
  <2>11. Ordered'
    <3>1. SUFFICES ASSUME ~lapped
                   PROVE  /\ \A i, j \in Cells :
                               Waits(i)' /\ Waits(j)' /\ ReadBefore(i, j)' => in[i] < in[j]
                          /\ \A a \in DOMAIN echoed', i \in Cells : Waits(i)' => echoed'[a] < in[i]
                          /\ \A a, b \in DOMAIN echoed' : a < b => echoed'[a] < echoed'[b]
      BY <1>1 DEF Ordered
    <3>2. \A a \in 1 .. n + 1 : a \in 1 .. n \/ a = n + 1
      BY <2>2
    <3>3. \A i, j \in Cells : ReadBefore(i, j)' <=> ReadBefore(i, j)
      BY <1>1 DEF ReadBefore
    <3>4. \A i, j \in Cells : Waits(i)' /\ Waits(j)' /\ ReadBefore(i, j)' => in[i] < in[j]
      BY <2>4, <3>1, <3>3 DEF KeyInv, Ordered
    <3>5. \A i \in Cells : i # ii => ReadBefore(ii, i)
      BY <1>1, NextReadType DEF ReadBefore
    <3>6. \A i \in Cells : Waits(i)' => k < in[i]
      BY <1>1, <2>1, <2>4, <3>1, <3>5 DEF KeyInv, Ordered, k
    <3>7. \A a \in 1 .. n, i \in Cells : Waits(i)' => echoed'[a] < in[i]
      BY <2>2, <2>4, <3>1 DEF KeyInv, Ordered
    <3>8. \A a \in 1 .. n : echoed'[a] < k
      BY <1>1, <2>1, <2>2, <3>1 DEF KeyInv, Ordered, k
    <3>9. \A a, b \in 1 .. n : a < b => echoed'[a] < echoed'[b]
      BY <2>2, <3>1 DEF KeyInv, Ordered
    <3>10. \A a, b \in 1 .. n + 1 : a < b => a \in 1 .. n
      BY <2>2
    <3>11. \A a, b \in DOMAIN echoed' : a < b => echoed'[a] < echoed'[b]
      BY <2>2, <3>2, <3>8, <3>9, <3>10
    <3>12. \A a \in DOMAIN echoed', i \in Cells : Waits(i)' => echoed'[a] < in[i]
      BY <2>2, <3>2, <3>6, <3>7
    <3>. QED BY <3>4, <3>11, <3>12
  <2>12. Working'
    BY <1>1 DEF Working
  <2>. QED BY <2>6, <2>7, <2>8, <2>9, <2>10, <2>11, <2>12 DEF KeyInv
<1>. QED BY <1>2, <1>3

-------------------------------------------------------------------------------
(* The keys, when handler clears a cell.                                   *)

LEMMA ClearKeys ==
  ASSUME TypeOK, KeyInv, ClearCell
  PROVE  KeyInv'
<1>1. /\ pc = "clear" /\ pc' = "advance" /\ ii' = ii
      /\ UNCHANGED <<schedWork, keys, lapped, echoed>>
      /\ in' = [in EXCEPT ![ii] = NUL]
      /\ lost' = lost \cup ({in[ii]} \ (Shown \cup {Garbage}))
  BY DEF ClearCell
<1>2. /\ ii \in Cells /\ in[ii] # NUL
      /\ \A i \in Cells : in'[i] = IF i = ii THEN NUL ELSE in[i]
  BY <1>1 DEF KeyInv, Hand, TypeOK
<1>3. NextRead = ii /\ NextRead' = ii + 1 /\ ii \in Nat
  BY <1>1, NextReadType DEF NextRead
<1>4. Shown' = Shown
  BY <1>1 DEF Shown
<1>5. \A i \in Cells : Waits(i)' <=> Waits(i) /\ i # ii
  BY <1>1, <1>2, <1>4 DEF Waits, NoKey
<1>6. \A x \in lost' : x \in lost \/ (x = in[ii] /\ x \notin Shown \cup NoKey)
  BY <1>1, <1>2 DEF NoKey
<1>7. NUL \notin 1 .. Len(keys) /\ NUL # Garbage
  BY Sizes
<1>8. Places'
  <2>1. NUL \in 0 .. Len(keys)
    BY NextReadType, Sizes
  <2>. QED BY <1>1, <1>2, <1>7, <2>1 DEF KeyInv, Places, NoKey
<1>9. Echoes'
  BY <1>1, Zenon DEF KeyInv, Echoes
<1>10. Shown \subseteq 1 .. Len(keys)
  BY DEF KeyInv, Echoes, Shown
<1>11. Hand'
  <2>1. ASSUME NEW i \in Cells, in'[i] \in Shown PROVE FALSE
    <3>1. i # ii /\ in[i] \in Shown
      BY <2>1, <1>2, <1>7, <1>10
    <3>. QED BY <3>1 DEF KeyInv, Hand
  <2>. QED BY <1>1, <1>2, <1>4, <2>1 DEF Hand
<1>12. Losses'
  <2>1. \A x \in 0 .. Len(keys) \cup {Garbage} : x \notin NoKey => x \in 1 .. Len(keys)
    BY NextReadType, Sizes DEF NoKey
  <2>2. lost' \subseteq 1 .. Len(keys) /\ lost' \cap Shown = {}
    <3>1. in[ii] \notin NoKey => in[ii] \in 1 .. Len(keys)
      BY <1>2, <2>1 DEF KeyInv, Places
    <3>. QED BY <3>1, <1>6 DEF KeyInv, Losses
  <2>3. \A i \in Cells : in'[i] \notin lost'
    <3>1. SUFFICES ASSUME NEW i \in Cells, in'[i] \in lost' PROVE FALSE
      OBVIOUS
    <3>2. CASE i = ii
      BY <3>1, <3>2, <1>2, <1>7, <2>2
    <3>3. CASE i # ii
      <4>1. in[i] \in lost'
        BY <3>1, <3>3, <1>2
      <4>2. in[i] \notin lost
        BY DEF KeyInv, Losses
      <4>3. in[i] = in[ii] /\ in[i] \notin NoKey
        BY <4>1, <4>2, <1>6
      <4>. QED BY <4>3, <3>3, <1>2 DEF KeyInv, Places
    <3>. QED BY <3>2, <3>3
  <2>4. ASSUME NEW k \in 1 .. Len(keys)
        PROVE  k \in Shown \/ k \in lost' \/ \E i \in Cells : in'[i] = k
    <3>1. CASE k \in Shown \/ k \in lost
      BY <3>1, <1>1
    <3>2. CASE \E i \in Cells : in[i] = k
      <4>1. PICK i \in Cells : in[i] = k
        BY <3>2
      <4>2. CASE i = ii
        <5>1. k # Garbage
          BY NextReadType, Sizes
        <5>. QED BY <4>1, <4>2, <5>1, <1>1
      <4>3. CASE i # ii
        BY <4>1, <4>3, <1>2
      <4>. QED BY <4>2, <4>3
    <3>. QED BY <3>1, <3>2 DEF KeyInv, Losses
  <2>. QED BY <1>1, <1>4, <2>2, <2>3, <2>4 DEF Losses
<1>13. Reached'
  <2>1. SUFFICES ASSUME NEW i \in Cells, Waits(i), i # ii
                 PROVE  \/ \A j \in 0 .. i : in'[j] # NUL
                        \/ i >= ii + 1 /\ \A j \in ii + 1 .. i : in'[j] # NUL
    BY <1>3, <1>5 DEF Reached
  <2>2. i \in Nat /\ \A j \in 0 .. i : j \in Cells
    BY NextReadType, Sizes DEF Cells
  <2>3. CASE i < ii
    <3>1. \A j \in 0 .. i : in[j] # NUL /\ j # ii
      BY <2>1, <2>2, <2>3, <1>3 DEF KeyInv, Reached
    <3>. QED BY <3>1, <2>2, <1>2
  <2>4. CASE i > ii
    <3>1. \A j \in ii .. i : in[j] # NUL
      BY <2>1, <2>2, <2>4, <1>3 DEF KeyInv, Reached
    <3>2. \A j \in ii + 1 .. i : j \in 0 .. i /\ j # ii /\ j \in ii .. i
      BY <1>3, <2>2
    <3>3. i >= ii + 1
      BY <2>2, <2>4, <1>3
    <3>. QED BY <3>1, <3>2, <3>3, <2>2, <1>2
  <2>. QED BY <2>1, <2>2, <2>3, <2>4, <1>3
<1>14. Ordered'
  <2>1. ASSUME NEW i \in Cells, NEW j \in Cells, i # ii, j # ii, ReadBefore(i, j)'
        PROVE  ReadBefore(i, j)
    <3>1. i \in Nat /\ j \in Nat
      BY NextReadType
    <3>. QED BY <2>1, <3>1, <1>3 DEF ReadBefore
  <2>. QED BY <1>1, <1>2, <1>5, <2>1 DEF KeyInv, Ordered
<1>15. Working'
  BY <1>1 DEF Working
<1>. QED BY <1>8, <1>9, <1>11, <1>12, <1>13, <1>14, <1>15 DEF KeyInv

-------------------------------------------------------------------------------
(* The keys, when the interrupt stores one.                                *)

LEMMA TypedKeys ==
  ASSUME TypeOK, KeyInv, NEW c \in Chars, KeyTyped(c)
  PROVE  KeyInv'
<1>. DEFINE s == Slot
            n == Len(keys) + 1
<1>1. /\ pc' = Wake(pc) /\ UNCHANGED <<ii, schedWork, echoed>>
      /\ in' = [in EXCEPT ![s] = n]
      /\ keys' = Append(keys, c) /\ Len(keys) < MaxKeys
      /\ lost' = lost \cup ({in[s]} \ (Shown \cup {NUL, Garbage}))
      /\ lapped' = (lapped \/ (NextRead <= s /\ \E j \in 0 .. NextRead - 1 : in[j] # NUL))
  BY DEF KeyTyped
<1>2. /\ s \in Cells /\ s \in 0 .. BufferSize
      /\ \A i \in 0 .. s - 1 : in[i] # NUL
      /\ s # BufferSize => in[s] = NUL
      /\ \A i \in Cells : in'[i] = IF i = s THEN n ELSE in[i]
  BY <1>1, SlotFacts DEF TypeOK
<1>3. Len(keys)' = n /\ n \in 1 .. MaxKeys /\ 1 .. n = 1 .. Len(keys) \cup {n}
        /\ n \notin 0 .. Len(keys) \cup {Garbage} /\ n \notin NoKey
  <2>1. keys \in Seq(Chars) /\ Len(keys) \in Nat
    BY DEF TypeOK
  <2>. QED BY <2>1, <1>1, Sizes DEF NoKey
<1>4. pc' \in {"echo", "text", "command", "clear", "advance"} => pc' = pc
  BY <1>1 DEF Wake
<1>5. NextRead' = NextRead /\ NextRead \in Nat
  BY <1>1, NextReadType DEF Wake, NextRead
<1>6. Shown' = Shown /\ Shown \subseteq 1 .. Len(keys) /\ n \notin Shown
  BY <1>1, <1>3 DEF Shown, KeyInv, Echoes
<1>7. \A i \in Cells : Waits(i)' <=> (i = s \/ Waits(i))
  BY <1>2, <1>3, <1>6 DEF Waits
<1>8. Len(keys) \in Nat /\ Len(keys) < MaxKeys
  BY <1>1, NextReadType
<1>. HIDE DEF s, n
\* When the slot's cell is taken, all of them are.
<1>9. in[s] # NUL => s = BufferSize /\ \A i \in 0 .. BufferSize : in[i] # NUL
  <2>1. \A i \in 0 .. BufferSize : i \in 0 .. BufferSize - 1 \/ i = BufferSize
    BY Sizes
  <2>. QED BY <1>2, <2>1
<1>10. Places'
  <2>1. \A i \in Cells : in'[i] \in 0 .. n \cup {Garbage}
    BY <1>2, <1>3, <1>8 DEF KeyInv, Places
  <2>2. \A i \in Cells : in'[i] \notin NoKey => i <= BufferSize
    BY <1>2, Sizes DEF KeyInv, Places
  <2>3. \A i \in Cells : in'[i] = Garbage => i >= BufferSize - 1
    BY <1>2, <1>3 DEF KeyInv, Places
  <2>4. \A i, j \in Cells : in'[i] = in'[j] /\ in'[i] \notin NoKey => i = j
    BY <1>2, <1>3 DEF KeyInv, Places
  <2>. QED BY <1>3, <2>1, <2>2, <2>3, <2>4 DEF Places
<1>11. Echoes'
  BY <1>1, <1>3 DEF KeyInv, Echoes
<1>12. Hand'
  <2>1. \A i \in Cells : in'[i] = NUL => in[i] = NUL
    BY <1>2, <1>3 DEF NoKey
  <2>2. \A i \in Cells : in'[i] \in Shown => in[i] \in Shown
    BY <1>2, <1>6
  <2>3. \A i \in Cells : in[i] \in Shown => pc \in {"command", "clear"} /\ i = ii
    BY DEF KeyInv, Hand
  <2>4. pc \in {"command", "clear"} => pc' \in {"command", "clear"}
    BY <1>1 DEF Wake
  <2>5. \A i \in Cells : in'[i] \in Shown' => pc' \in {"command", "clear"} /\ i = ii'
    BY <1>1, <1>6, <2>2, <2>3, <2>4
  <2>6. pc' \in {"echo", "text", "command", "clear"} => ii' \in Cells /\ in'[ii'] # NUL
    BY <1>1, <1>4, <2>1 DEF KeyInv, Hand
  <2>7. pc' = "advance" => ii' \in Cells
    BY <1>1, <1>4 DEF KeyInv, Hand
  <2>8. pc' \in {"echo", "text"} => in'[ii'] \notin Shown'
    BY <1>1, <1>2, <1>4, <1>6 DEF KeyInv, Hand
  <2>. QED BY <2>5, <2>6, <2>7, <2>8, Zenon DEF Hand
<1>13. Losses'
  <2>1. \A x \in lost' : x \in lost \/ (x = in[s] /\ x \notin Shown \cup NoKey)
    BY <1>1 DEF NoKey, s
  <2>2. \A x \in 0 .. Len(keys) \cup {Garbage} : x \notin NoKey => x \in 1 .. Len(keys)
    BY NextReadType, Sizes DEF NoKey
  <2>3. lost' \subseteq 1 .. Len(keys) /\ lost' \cap Shown = {}
    <3>1. in[s] \notin NoKey => in[s] \in 1 .. Len(keys)
      BY <1>2, <2>2 DEF KeyInv, Places
    <3>. QED BY <3>1, <2>1 DEF KeyInv, Losses
  <2>4. \A i \in Cells : in'[i] \notin lost'
    <3>1. SUFFICES ASSUME NEW i \in Cells, in'[i] \in lost' PROVE FALSE
      OBVIOUS
    <3>2. i # s /\ in[i] \in lost'
      BY <3>1, <1>2, <1>3, <2>3
    <3>3. in[i] \notin lost
      BY DEF KeyInv, Losses
    <3>4. in[i] = in[s] /\ in[i] \notin NoKey
      BY <3>2, <3>3, <2>1
    <3>. QED BY <3>2, <3>4, <1>2 DEF KeyInv, Places
  <2>5. ASSUME NEW k \in 1 .. n
        PROVE  k \in Shown \/ k \in lost' \/ \E i \in Cells : in'[i] = k
    <3>1. CASE k = n
      BY <3>1, <1>2
    <3>2. CASE k # n
      <4>1. k \in 1 .. Len(keys) /\ k \notin NoKey
        BY <3>2, <1>3, <1>8, Sizes DEF NoKey
      <4>2. CASE k \in Shown \/ k \in lost
        BY <4>2, <1>1
      <4>3. CASE \E i \in Cells : in[i] = k
        <5>1. PICK i \in Cells : in[i] = k
          BY <4>3
        <5>. QED BY <5>1, <4>1, <1>1, <1>2 DEF s, NoKey
      <4>. QED BY <4>1, <4>2, <4>3 DEF KeyInv, Losses
    <3>. QED BY <3>1, <3>2
  <2>6. ASSUME pc' \in {"command", "clear"}, in'[ii] \notin Shown \cup {Garbage}
        PROVE  \A i \in 0 .. BufferSize - 1 : in'[i] # NUL
    <3>1. pc \in {"command", "clear"} /\ ii \in Cells /\ in[ii] # NUL
      BY <2>6, <1>4 DEF KeyInv, Hand
    <3>2. \A i \in 0 .. BufferSize - 1 : i \in Cells /\ i \in 0 .. BufferSize
      BY Sizes DEF Cells
    <3>3. \A i \in 0 .. BufferSize - 1 : in[i] # NUL
      <4>1. CASE ii = s
        BY <4>1, <3>1, <3>2, <1>9
      <4>2. CASE ii # s
        BY <4>2, <2>6, <3>1, <1>2 DEF KeyInv, Losses
      <4>. QED BY <4>1, <4>2
    <3>. QED BY <3>2, <3>3, <1>2, <1>3 DEF NoKey
  <2>7. lost' \subseteq 1 .. n
    BY <2>3, <1>3
  <2>. QED BY <1>1, <1>3, <1>6, <2>3, <2>4, <2>5, <2>6, <2>7 DEF Losses
<1>14. Reached'
  <2>1. \A j \in Cells : in[j] # NUL => in'[j] # NUL
    BY <1>2, <1>3 DEF NoKey
  <2>2. SUFFICES ASSUME NEW i \in Cells, i = s \/ Waits(i)
                 PROVE  \/ \A j \in 0 .. i : in'[j] # NUL
                        \/ i >= NextRead /\ \A j \in NextRead .. i : in'[j] # NUL
    BY <1>5, <1>7 DEF Reached
  <2>3. \A j \in 0 .. i : j \in Cells
    BY Sizes DEF Cells
  <2>4. CASE i = s
    <3>1. \A j \in 0 .. i : j = s \/ j \in 0 .. s - 1
      BY <2>4, Sizes, NextReadType
    <3>. QED BY <2>1, <2>3, <2>4, <3>1, <1>2, <1>3 DEF NoKey
  <2>5. CASE Waits(i)
    <3>1. \A j \in NextRead .. i : j \in 0 .. i
      BY <1>5
    <3>. QED BY <2>1, <2>3, <2>5, <3>1 DEF KeyInv, Reached
  <2>. QED BY <2>2, <2>4, <2>5
<1>15. Ordered'
  <2>1. SUFFICES ASSUME ~lapped'
                 PROVE  /\ \A i, j \in Cells :
                             Waits(i)' /\ Waits(j)' /\ ReadBefore(i, j)' => in'[i] < in'[j]
                        /\ \A a \in DOMAIN echoed, i \in Cells : Waits(i)' => echoed[a] < in'[i]
                        /\ \A a, b \in DOMAIN echoed : a < b => echoed[a] < echoed[b]
    BY <1>1 DEF Ordered
  <2>2. ~lapped /\ ~ (NextRead <= s /\ \E j \in 0 .. NextRead - 1 : in[j] # NUL)
    BY <2>1, <1>1 DEF s
  <2>3. \A i \in Cells : Waits(i) => in[i] < n /\ in[i] # NUL
    <3>1. \A i \in Cells : Waits(i) => in[i] \in 0 .. Len(keys) /\ in[i] # NUL
      BY DEF KeyInv, Places, Waits, NoKey
    <3>. QED BY <3>1, <1>8 DEF n
  \* No key that waits is read after the one in the slot.
  <2>4. ASSUME NEW j \in Cells, j # s, Waits(j), ReadBefore(s, j) PROVE FALSE
    <3>1. j \in Nat /\ s \in Nat /\ j <= BufferSize /\ in[j] # NUL
      BY <1>2, <2>3, <2>4, NextReadType DEF KeyInv, Places, Waits
    <3>2. CASE (s >= NextRead) <=> (j >= NextRead)
      <4>1. s < j
        BY <2>4, <3>2 DEF ReadBefore
      <4>2. in[s] = NUL
        BY <4>1, <3>1, <1>2, Sizes
      <4>3. s \in 0 .. j /\ (j >= NextRead => s \in NextRead .. j)
        BY <4>1, <3>1, <3>2, <1>5
      <4>. QED BY <2>4, <4>2, <4>3 DEF KeyInv, Reached
    <3>3. CASE ~ ((s >= NextRead) <=> (j >= NextRead))
      <4>1. s >= NextRead /\ ~ (j >= NextRead)
        BY <2>4, <3>3, Zenon DEF ReadBefore
      <4>2. NextRead <= s /\ j \in 0 .. NextRead - 1
        BY <4>1, <3>1, <1>5
      <4>. QED BY <4>2, <3>1, <2>2
    <3>. QED BY <3>2, <3>3
  <2>5. \A i, j \in Cells : ReadBefore(i, j)' <=> ReadBefore(i, j)
    BY <1>5 DEF ReadBefore
  <2>6. ASSUME NEW i \in Cells, NEW j \in Cells, Waits(i)', Waits(j)', ReadBefore(i, j)
        PROVE  in'[i] < in'[j]
    <3>1. CASE i = s /\ j = s
      BY <2>6, <3>1, NextReadType DEF ReadBefore
    <3>2. CASE i = s /\ j # s
      BY <2>4, <2>6, <3>2, <1>7
    <3>3. CASE i # s /\ j = s
      BY <2>3, <2>6, <3>3, <1>2, <1>7
    <3>4. CASE i # s /\ j # s
      BY <2>2, <2>6, <3>4, <1>2, <1>7 DEF KeyInv, Ordered
    <3>. QED BY <3>1, <3>2, <3>3, <3>4
  <2>7. ASSUME NEW a \in DOMAIN echoed, NEW i \in Cells, Waits(i)' PROVE echoed[a] < in'[i]
    <3>1. CASE i = s
      <4>1. echoed[a] \in 1 .. Len(keys)
        BY DEF KeyInv, Echoes
      <4>2. echoed[a] < n
        BY <4>1, <1>8 DEF n
      <4>. QED BY <4>2, <3>1, <1>2
    <3>2. CASE i # s
      BY <2>2, <2>7, <3>2, <1>2, <1>7 DEF KeyInv, Ordered
    <3>. QED BY <3>1, <3>2
  <2>. QED BY <2>2, <2>5, <2>6, <2>7 DEF KeyInv, Ordered
<1>16. Working'
  BY <1>1 DEF KeyInv, Working, Wake
<1>. QED BY <1>10, <1>11, <1>12, <1>13, <1>14, <1>15, <1>16 DEF KeyInv

-------------------------------------------------------------------------------
(* The ends of the text and of the command.                                *)

EndOf(b) == Least({i \in Cells : b[i] = "nul"} \cup {PoolSize})

LEMMA EndFacts ==
  ASSUME NEW b
  PROVE  /\ EndOf(b) \in 0 .. PoolSize /\ EndOf(b) \in Nat
         /\ EndOf(b) # PoolSize => EndOf(b) \in Cells /\ b[EndOf(b)] = "nul"
         /\ \A i \in Cells : b[i] = "nul" => EndOf(b) <= i
<1>. DEFINE S == {i \in Cells : b[i] = "nul"} \cup {PoolSize}
<1>1. S \subseteq Nat /\ S # {}
  BY Sizes DEF Cells
<1>2. EndOf(b) = Least(S)
  BY DEF EndOf
<1>. HIDE DEF S
<1>3. EndOf(b) \in S /\ \A y \in S : EndOf(b) <= y
  BY <1>1, <1>2, LeastIsMinimum
<1>. QED BY <1>3, Sizes DEF S, Cells

LEMMA EndsAreEnds ==
  /\ TextEnd = EndOf(text) /\ TextEnd' = EndOf(text')
  /\ CommandEnd = EndOf(command) /\ CommandEnd' = EndOf(command')
BY DEF TextEnd, CommandEnd, EndOf

LEMMA EndTypes ==
  /\ TextEnd \in 0 .. PoolSize /\ TextEnd \in Nat /\ TextEnd' \in Nat
  /\ CommandEnd \in 0 .. PoolSize /\ CommandEnd \in Nat /\ CommandEnd' \in Nat
BY EndsAreEnds, EndFacts

\* Storing something at the end moves the end on, by one if there is NUL.
LEMMA EndMoves ==
  ASSUME NEW V, NEW b \in [Cells -> V], EndOf(b) \in Cells, NEW v, v # "nul",
         NEW d, d = [b EXCEPT ![EndOf(b)] = v]
  PROVE  /\ EndOf(d) > EndOf(b)
         /\ EndOf(b) + 1 \in Cells /\ b[EndOf(b) + 1] = "nul" => EndOf(d) = EndOf(b) + 1
<1>. DEFINE e == EndOf(b)
            f == EndOf(d)
<1>1. \A i \in Cells : d[i] = IF i = e THEN v ELSE b[i]
  OBVIOUS
<1>2. /\ e \in Cells /\ e \in Nat /\ e # PoolSize
      /\ \A i \in Cells : b[i] = "nul" => e <= i
  BY EndFacts, Sizes DEF Cells
<1>3. /\ f \in 0 .. PoolSize /\ f \in Nat
      /\ f # PoolSize => f \in Cells /\ d[f] = "nul"
      /\ \A i \in Cells : d[i] = "nul" => f <= i
  BY EndFacts, Zenon
<1>. HIDE DEF e, f
<1>4. f > e
  <2>1. CASE f = PoolSize
    BY <2>1, <1>2, Sizes DEF Cells
  <2>2. CASE f # PoolSize
    <3>1. f # e /\ b[f] = "nul"
      BY <2>2, <1>1, <1>2, <1>3
    <3>. QED BY <2>2, <3>1, <1>2, <1>3
  <2>. QED BY <2>1, <2>2
<1>5. ASSUME e + 1 \in Cells, b[e + 1] = "nul" PROVE f = e + 1
  <2>1. e + 1 # e
    BY <1>2
  <2>2. d[e + 1] = "nul"
    BY <2>1, <1>1, <1>5
  <2>3. f <= e + 1
    BY <2>2, <1>3, <1>5
  <2>. QED BY <2>3, <1>2, <1>3, <1>4
<1>. QED BY <1>4, <1>5 DEF e, f

\* The rest of the command's pool.
LEMMA ClearEndFacts ==
  /\ ClearEnd \in Nat /\ ClearEnd >= BufferSize
  /\ ClearEnd # PoolSize => ClearEnd \in Cells /\ command[ClearEnd] = "nul"
  /\ ClearEnd = PoolSize => command[PoolSize - 1] # "nul"
<1>. DEFINE S == {i \in BufferSize .. PoolSize - 1 : command[i] = "nul"} \cup {PoolSize}
<1>1. S \subseteq Nat /\ S # {}
  BY Sizes
<1>2. ClearEnd = Least(S)
  BY DEF ClearEnd
<1>. HIDE DEF S
<1>3. ClearEnd \in S /\ \A y \in S : ClearEnd <= y
  BY <1>1, <1>2, LeastIsMinimum
<1>4. ClearEnd \in Nat /\ ClearEnd >= BufferSize
  BY <1>3, Sizes DEF S
<1>5. ClearEnd # PoolSize => ClearEnd \in Cells /\ command[ClearEnd] = "nul"
  BY <1>3, Sizes DEF S, Cells
<1>6. ClearEnd = PoolSize => command[PoolSize - 1] # "nul"
  <2>1. PoolSize - 1 \in BufferSize .. PoolSize - 1 /\ ~ (PoolSize <= PoolSize - 1)
    BY Sizes
  <2>. QED BY <2>1, <1>3 DEF S
<1>. QED BY <1>4, <1>5, <1>6

\* The end of the row that Enter fills.
LEMMA RowEnd ==
  ASSUME NEW t \in Nat
  PROVE  /\ (t \div Width + 1) * Width \in Nat
         /\ (t \div Width + 1) * Width > t
         /\ t < BufferSize => (t \div Width + 1) * Width <= BufferSize
<1>. DEFINE q == t \div Width
<1>1. Width \in Nat /\ Width > 0 /\ Height \in Nat
  BY Sizes
<1>2. q \in Nat
  BY <1>1
<1>3. t % Width \in 0 .. Width - 1 /\ t = (Width * q) + (t % Width)
  BY <1>1
<1>. HIDE DEF q
<1>4. /\ Width * q \in Nat /\ (q + 1) * Width = (Width * q) + Width
      /\ Width * q <= t
  BY <1>1, <1>2, <1>3
<1>5. (q + 1) * Width > t /\ (q + 1) * Width \in Nat
  BY <1>1, <1>3, <1>4
<1>6. ASSUME t < BufferSize PROVE (q + 1) * Width <= BufferSize
  <2>1. Width * q < Width * Height
    <3>1. Width * q < BufferSize
      BY <1>4, <1>6, Sizes
    <3>. QED BY <3>1 DEF BufferSize
  <2>2. q < Height
    <3>1. SUFFICES ASSUME q >= Height PROVE FALSE
      BY <1>1, <1>2
    <3>2. Width * q >= Width * Height
      BY <3>1, <1>1, <1>2
    <3>. QED BY <3>2, <2>1, <1>1, <1>2
  <2>3. (q + 1) * Width <= Height * Width
    BY <2>2, <1>1, <1>2
  <2>. QED BY <2>3, <1>1 DEF BufferSize
<1>. QED BY <1>5, <1>6 DEF q

LEMMA PadEndFacts ==
  ASSUME TextEnd > 0
  PROVE  /\ PadEnd \in Nat
         /\ PadEnd < TextEnd + 1 => /\ PadEnd = TextEnd
                                    /\ text[TextEnd - 1] = "newline" \/ TextEnd % Width = 0
         /\ PadEnd > PoolSize => TextEnd >= BufferSize
<1>1. CASE text[TextEnd - 1] = "newline" \/ TextEnd % Width = 0
  <2>1. PadEnd = TextEnd
    BY <1>1, Zenon DEF PadEnd
  <2>. QED BY <1>1, <2>1, EndTypes, Sizes
<1>2. CASE ~ (text[TextEnd - 1] = "newline" \/ TextEnd % Width = 0)
  <2>1. PadEnd = (TextEnd \div Width + 1) * Width
    BY <1>2, Zenon DEF PadEnd
  <2>2. /\ PadEnd \in Nat /\ PadEnd > TextEnd
        /\ TextEnd < BufferSize => PadEnd <= BufferSize
    BY <2>1, EndTypes, RowEnd
  <2>. QED BY <2>2, EndTypes, Sizes
<1>. QED BY <1>1, <1>2

-------------------------------------------------------------------------------
(* The screen and the command.                                             *)

LEMMA CountsSince == Counts => CommandSinceEnter
BY DEF Counts, Ahead, CommandSinceEnter, Since, CommandChars

LEMMA SinceFinite ==
  ASSUME TypeOK
  PROVE  /\ IsFiniteSet(CommandChars) /\ IsFiniteSet(Since)
         /\ CommandEnd \notin CommandChars /\ Len(echoed) + 1 \notin Since
         /\ CommandChars \subseteq Cells
<1>1. CommandEnd \in 0 .. PoolSize /\ PoolSize \in Nat
  BY EndTypes, Sizes
<1>2. CommandChars \subseteq 0 .. CommandEnd - 1 /\ CommandEnd \notin CommandChars
        /\ CommandChars \subseteq Cells
  BY <1>1 DEF CommandChars, Cells
<1>3. IsFiniteSet(0 .. CommandEnd - 1)
  BY <1>1, FS_Interval
<1>4. Len(echoed) \in Nat /\ Since \subseteq 1 .. Len(echoed) /\ Len(echoed) + 1 \notin Since
  BY NextReadType DEF Since
<1>5. IsFiniteSet(1 .. Len(echoed))
  BY <1>4, FS_Interval
<1>. QED BY <1>2, <1>3, <1>4, <1>5, FS_Subset

LEMMA InitScreen == Init => ScreenInv
<1>. SUFFICES ASSUME Init PROVE ScreenInv
  OBVIOUS
<1>1. /\ command \in [Cells -> {"nul", "garbage"}]
      /\ \A i \in Cells : i < BufferSize - 1 => command[i] = "nul"
      /\ ii = 0 /\ pc = "poll" /\ echoed = <<>>
  BY InitFacts
<1>2. /\ \A i \in Cells : command[i] # "char"
      /\ DOMAIN echoed = {} /\ Len(echoed) = 0
  BY <1>1
<1>3. CommandEnds
  BY <1>1, <1>2 DEF CommandEnds
<1>4. TextCovers
  <2>1. 0 \in Cells /\ 0 < BufferSize - 1
    BY Sizes DEF Cells
  <2>2. CommandEnd <= 0
    BY <2>1, <1>1, EndFacts, EndsAreEnds
  <2>. QED BY <2>2, <1>1, EndTypes DEF TextCovers
<1>5. KeysThrough /\ Ends
  BY <1>1, <1>2 DEF KeysThrough, Through, Ends
<1>6. Counts
  <2>1. CommandChars \subseteq Cells
    BY InitType, SinceFinite
  <2>2. CommandChars = {} /\ Since = {}
    BY <2>1, <1>2 DEF CommandChars, Since
  <2>3. \A i \in Cells : command[i] # "newline"
    BY <1>1
  <2>. QED BY <2>2, <2>3, <1>1 DEF Counts, Ahead
<1>7. NoFaultBeforeFull
  BY <1>1 DEF NoFaultBeforeFull
<1>. QED BY <1>3, <1>4, <1>5, <1>6, <1>7 DEF ScreenInv

\* A key that is shown is not on the list of what was typed after it.
LEMMA SinceGrows ==
  ASSUME TypeOK, NEW k \in 1 .. MaxKeys, echoed' = Append(echoed, k), keys' = keys
  PROVE  Since' = IF keys[k] = "newline" THEN {} ELSE Since \cup {Len(echoed) + 1}
<1>. DEFINE n == Len(echoed)
<1>1. /\ DOMAIN echoed = 1 .. n /\ n \in Nat /\ DOMAIN echoed' = 1 .. n + 1
      /\ \A a \in 1 .. n : echoed'[a] = echoed[a]
      /\ echoed'[n + 1] = k
  BY ShownGrows
<1>2. Len(echoed') = n + 1
  <2>1. echoed \in Seq(1 .. MaxKeys)
    BY DEF TypeOK
  <2>. QED BY <2>1, AppendFacts
<1>. HIDE DEF n
<1>3. Since = {a \in 1 .. n : \A b \in a .. n : keys[echoed[b]] # "newline"}
  BY <1>1 DEF Since, n
<1>4. Since' = {a \in 1 .. n + 1 : \A b \in a .. n + 1 : keys[echoed'[b]] # "newline"}
  BY <1>1, <1>2, Zenon DEF Since
<1>5. \A a \in 1 .. n + 1 : n + 1 \in a .. n + 1
  BY <1>1
<1>6. CASE keys[k] = "newline"
  BY <1>1, <1>4, <1>5, <1>6
<1>7. CASE keys[k] # "newline"
  <2>1. \A a \in 1 .. n : a \in 1 .. n + 1 /\ a .. n \subseteq 1 .. n /\ a .. n \subseteq a .. n + 1
    BY <1>1
  <2>2. \A a \in 1 .. n + 1 : \A b \in a .. n + 1 : b = n + 1 \/ (b \in a .. n /\ b \in 1 .. n)
    BY <1>1
  <2>3. ASSUME NEW a \in 1 .. n
        PROVE  a \in Since <=> a \in Since'
    <3>1. a \in Since <=> \A b \in a .. n : keys[echoed[b]] # "newline"
      BY <1>3
    <3>2. a \in Since' <=> \A b \in a .. n + 1 : keys[echoed'[b]] # "newline"
      BY <2>1, <1>4
    <3>3. \A b \in a .. n : keys[echoed'[b]] = keys[echoed[b]]
      BY <2>1, <1>1
    <3>4. \A b \in a .. n + 1 : b = n + 1 \/ b \in a .. n
      BY <2>1, <2>2
    <3>. QED BY <3>1, <3>2, <3>3, <3>4, <2>1, <1>1, <1>7
  <2>4. n + 1 \in Since'
    <3>1. n + 1 \in 1 .. n + 1 /\ \A b \in n + 1 .. n + 1 : b = n + 1
      BY <1>1
    <3>. QED BY <3>1, <1>1, <1>4, <1>7
  <2>5. Since \subseteq 1 .. n /\ Since' \subseteq 1 .. n \cup {n + 1}
    BY <1>1, <1>3, <1>4
  <2>. QED BY <2>3, <2>4, <2>5, <1>7 DEF n
<1>. QED BY <1>6, <1>7

\* The character shown goes to the text first.
LEMMA StoreTextScreen ==
  ASSUME TypeOK, KeyInv, ScreenInv, StoreText
  PROVE  ScreenInv'
<1>. DEFINE v == CharOf(in[ii])
            n == Len(echoed)
<1>1. /\ pc = "text" /\ pc' = "command" /\ UNCHANGED <<command, in, ii, keys, replaced>>
      /\ text' = [text EXCEPT ![TextEnd] = v]
  BY DEF StoreText, keyVars
<1>2. TextEnd \in Cells /\ CommandEnd \in Cells
  BY <1>1 DEF ScreenInv, Ends
<1>3. v # "nul"
  BY <1>1, HandType DEF KeyInv, Chars
<1>4. text \in [Cells -> TextCells] /\ n \in Nat /\ ii \in Nat
  BY NextReadType DEF TypeOK
<1>. HIDE DEF v, n
<1>5. /\ TextEnd' > TextEnd /\ TextEnd \in Nat /\ TextEnd' \in Nat
      /\ CommandEnd' = CommandEnd /\ CommandEnd \in Nat
  BY <1>1, <1>2, <1>3, <1>4, EndMoves, EndsAreEnds, EndTypes
<1>6. CommandEnds'
  BY <1>1, <1>5 DEF ScreenInv, CommandEnds
<1>7. TextCovers'
  BY <1>5, Sizes DEF ScreenInv, TextCovers
<1>8. Counts'
  <2>. SUFFICES ASSUME ~replaced
                PROVE  /\ CharOf(in[ii])' # "newline"
                       /\ Cardinality(Since')
                            = IF in[ii] # Garbage THEN Cardinality(CommandChars') + 1
                              ELSE Cardinality(CommandChars')
    BY <1>1 DEF ScreenInv, Counts, Ahead
  <2>1. /\ CharOf(in[ii]) # "newline" /\ CharOf(in[ii])' = CharOf(in[ii])
        /\ Cardinality(Since) = Cardinality(CommandChars)
    BY <1>1 DEF ScreenInv, Counts, Ahead, CharOf
  <2>2. CommandChars' = CommandChars
    BY <1>1, <1>5 DEF CommandChars
  <2>3. CASE in[ii] = Garbage
    <3>1. echoed' = echoed
      BY <2>3, EchoFacts
    <3>2. Since' = Since
      BY <3>1, <1>1 DEF Since
    <3>. QED BY <2>1, <2>2, <2>3, <3>2
  <2>4. CASE in[ii] # Garbage
    <3>1. echoed' = Append(echoed, in[ii]) /\ in[ii] \in 1 .. MaxKeys
      BY <2>4, EchoFacts
    <3>2. keys[in[ii]] # "newline"
      BY <2>1, <2>4 DEF CharOf
    <3>3. Since' = Since \cup {n + 1}
      BY <3>1, <3>2, <1>1, SinceGrows DEF n
    <3>4. Cardinality(Since') = Cardinality(Since) + 1
      BY <3>3, SinceFinite, FS_AddElement DEF n
    <3>. QED BY <2>1, <2>2, <2>4, <3>4
  <2>. QED BY <2>1, <2>3, <2>4
<1>9. KeysThrough'
  <2>1. Through = ii /\ Through' = ii + 1
    BY <1>1 DEF Through
  <2>2. CASE in[ii] = Garbage
    <3>1. echoed' = echoed /\ ii >= BufferSize - 1
      BY <2>2, EchoFacts DEF KeyInv, Places
    <3>2. n >= BufferSize - 1
      BY <2>1, <3>1, <1>4, Sizes DEF ScreenInv, KeysThrough, n
    <3>. QED BY <3>1, <3>2 DEF KeysThrough, n
  <2>3. CASE in[ii] # Garbage
    <3>1. Len(echoed') = n + 1
      <4>1. echoed' = Append(echoed, in[ii]) /\ echoed \in Seq(1 .. MaxKeys)
              /\ in[ii] \in 1 .. MaxKeys
        BY <2>3, EchoFacts DEF TypeOK
      <4>. QED BY <4>1, AppendFacts DEF n
    <3>. QED BY <2>1, <3>1, <1>4, Sizes DEF ScreenInv, KeysThrough, n
  <2>. QED BY <2>2, <2>3
<1>10. Ends' /\ NoFaultBeforeFull'
  BY <1>1, <1>2, <1>5 DEF Ends, NoFaultBeforeFull
<1>. QED BY <1>6, <1>7, <1>8, <1>9, <1>10 DEF ScreenInv

\* Then what is in the cell goes to the command.
LEMMA StoreCommandScreen ==
  ASSUME TypeOK, KeyInv, ScreenInv, StoreCommand
  PROVE  ScreenInv'
<1>. DEFINE v == CharOf(in[ii])
<1>1. /\ pc = "command" /\ pc' = "clear" /\ UNCHANGED <<text, in, ii, keys, replaced, echoed>>
      /\ command' = [command EXCEPT ![CommandEnd] = v]
  BY DEF StoreCommand, keyVars
<1>2. CommandEnd \in Cells
  BY <1>1 DEF ScreenInv, Ends
<1>3. v \in {"char", "newline", "garbage"} /\ (v = "garbage" <=> in[ii] = Garbage)
  BY <1>1, HandType DEF KeyInv, Chars
<1>4. command \in [Cells -> {"nul", "char", "newline", "garbage"}]
  BY DEF TypeOK
<1>5. ~replaced => v # "newline"
  BY <1>1 DEF ScreenInv, Counts
<1>. HIDE DEF v
<1>6. /\ CommandEnd' > CommandEnd /\ CommandEnd \in Nat /\ CommandEnd' \in Nat
      /\ CommandEnd + 1 < BufferSize - 1 => CommandEnd' = CommandEnd + 1
  <2>1. /\ CommandEnd' > CommandEnd /\ CommandEnd \in Nat /\ CommandEnd' \in Nat
        /\ (CommandEnd + 1 \in Cells /\ command[CommandEnd + 1] = "nul")
             => CommandEnd' = CommandEnd + 1
    BY <1>1, <1>2, <1>3, <1>4, EndMoves, EndsAreEnds, EndTypes
  <2>2. ASSUME CommandEnd + 1 < BufferSize - 1
        PROVE  CommandEnd + 1 \in Cells /\ command[CommandEnd + 1] = "nul"
    <3>1. CommandEnd + 1 \in Cells /\ CommandEnd <= CommandEnd + 1
      BY <2>1, <2>2, Sizes DEF Cells
    <3>. QED BY <3>1, <2>2 DEF ScreenInv, CommandEnds
  <2>. QED BY <2>1, <2>2
<1>7. \A i \in Cells : command'[i] = IF i = CommandEnd THEN v ELSE command[i]
  BY <1>1, <1>4
<1>8. CommandEnds'
  <2>1. \A i \in Cells : i >= CommandEnd' => i >= CommandEnd /\ i # CommandEnd
    BY <1>6 DEF Cells
  <2>2. \A i \in Cells : CommandEnd' <= i => CommandEnd <= i /\ i # CommandEnd
    BY <1>6 DEF Cells
  <2>. QED BY <2>1, <2>2, <1>7 DEF ScreenInv, CommandEnds
<1>9. TextCovers'
  <2>1. TextEnd' = TextEnd /\ TextEnd \in Nat
    BY <1>1, EndsAreEnds, EndTypes
  <2>2. TextEnd > CommandEnd \/ TextEnd >= BufferSize - 1
    BY <1>1 DEF ScreenInv, TextCovers
  <2>. QED BY <2>1, <2>2, <1>1, <1>6, Sizes DEF TextCovers
<1>10. CommandChars' = IF v = "char" THEN CommandChars \cup {CommandEnd} ELSE CommandChars
  <2>. DEFINE e == CommandEnd
              f == CommandEnd'
  <2>1. e \in Nat /\ f \in 0 .. PoolSize /\ f > e
    BY <1>6, EndFacts, EndsAreEnds
  <2>2. \A i : i \in CommandChars' <=> i \in 0 .. f - 1 /\ command'[i] = "char"
    BY DEF CommandChars
  <2>3. \A i : i \in CommandChars <=> i \in 0 .. e - 1 /\ command[i] = "char"
    BY DEF CommandChars
  <2>4. \A i \in Cells : i >= e => command[i] # "char"
    BY DEF ScreenInv, CommandEnds
  <2>5. \A i \in Cells : command'[i] = IF i = e THEN v ELSE command[i]
    BY <1>7
  <2>. HIDE DEF e, f
  <2>6. \A i \in 0 .. f - 1 : i \in Cells
    BY <2>1, Sizes DEF Cells
  <2>7. \A i \in 0 .. f - 1 : (i \in 0 .. e - 1 /\ i # e) \/ i = e \/ (i >= e /\ i # e)
    BY <2>1
  <2>8. e \in 0 .. f - 1 /\ \A i \in 0 .. e - 1 : i \in 0 .. f - 1 /\ i # e
    BY <2>1
  <2>9. \A i : i \in CommandChars' <=> i \in CommandChars \/ (i = e /\ v = "char")
    BY <2>2, <2>3, <2>4, <2>5, <2>6, <2>7, <2>8
  <2>. QED BY <2>9 DEF e
<1>11. Counts'
  <2>. SUFFICES ASSUME ~replaced
                PROVE  /\ \A i \in Cells : command'[i] # "newline"
                       /\ Cardinality(Since') = Cardinality(CommandChars')
    BY <1>1 DEF Counts, Ahead
  <2>1. \A i \in Cells : command'[i] # "newline"
    BY <1>5, <1>7 DEF ScreenInv, Counts
  <2>2. Since' = Since
    BY <1>1 DEF Since
  <2>3. CASE in[ii] = Garbage
    <3>1. Cardinality(Since) = Cardinality(CommandChars)
      BY <2>3 DEF ScreenInv, Counts, Ahead
    <3>2. CommandChars' = CommandChars
      BY <2>3, <1>3, <1>10
    <3>. QED BY <2>1, <2>2, <3>1, <3>2
  <2>4. CASE in[ii] # Garbage
    <3>1. Cardinality(Since) = Cardinality(CommandChars) + 1
      BY <2>4, <1>1 DEF ScreenInv, Counts, Ahead
    <3>2. CommandChars' = CommandChars \cup {CommandEnd}
      BY <2>4, <1>3, <1>5, <1>10
    <3>3. Cardinality(CommandChars') = Cardinality(CommandChars) + 1
      BY <3>2, SinceFinite, FS_AddElement
    <3>. QED BY <2>1, <2>2, <3>1, <3>3
  <2>. QED BY <2>3, <2>4
<1>12. KeysThrough'
  BY <1>1 DEF ScreenInv, KeysThrough, Through
<1>13. Ends' /\ NoFaultBeforeFull'
  BY <1>1 DEF Ends, NoFaultBeforeFull
<1>. QED BY <1>8, <1>9, <1>11, <1>12, <1>13 DEF ScreenInv

LEMMA EchoNewlineScreen ==
  ASSUME TypeOK, KeyInv, ScreenInv, EchoNewline
  PROVE  ScreenInv'
<1>. DEFINE n == Len(echoed)
<1>1. /\ pc = "echo" /\ pc' = "clear" /\ UNCHANGED <<in, ii, keys>> /\ replaced' = FALSE
      /\ command' = [i \in Cells |-> IF i < ClearEnd THEN "nul" ELSE command[i]]
      /\ CharOf(in[ii]) = "newline" /\ ~ EnterFaults
      /\ echoed' = Append(echoed, in[ii])
  BY DEF EchoNewline, keyVars
<1>2. in[ii] # Garbage /\ in[ii] \in 1 .. MaxKeys /\ keys[in[ii]] = "newline"
  BY <1>1, HandType DEF KeyInv, CharOf
<1>3. n \in Nat /\ ii \in Nat
  BY NextReadType
<1>. HIDE DEF n
<1>4. /\ ClearEnd \in Cells /\ command[ClearEnd] = "nul" /\ ClearEnd \in Nat
      /\ ClearEnd >= BufferSize
  BY <1>1, ClearEndFacts DEF EnterFaults
<1>5. CommandEnd <= ClearEnd /\ CommandEnd \in Nat
  BY <1>4, EndFacts, EndsAreEnds
<1>6. \A i \in Cells : command'[i] \notin {"char", "newline"}
  <2>1. \A i \in Cells : i < ClearEnd \/ i >= CommandEnd
    BY <1>4, <1>5 DEF Cells
  <2>. QED BY <2>1, <1>1 DEF ScreenInv, CommandEnds
<1>7. CommandEnds'
  <2>1. \A i \in Cells : i < BufferSize - 1 => i < ClearEnd
    BY <1>4, Sizes DEF Cells
  <2>. QED BY <2>1, <1>1, <1>6 DEF CommandEnds
<1>8. CommandEnd' <= 0
  <2>1. 0 \in Cells /\ 0 < ClearEnd
    BY <1>4, Sizes DEF Cells
  <2>2. command'[0] = "nul"
    BY <2>1, <1>1
  <2>. QED BY <2>1, <2>2, EndFacts, EndsAreEnds
<1>9. TextCovers'
  BY <1>1, <1>8, EndTypes DEF TextCovers
<1>10. Counts'
  <2>1. Since' = {}
    BY <1>1, <1>2, SinceGrows
  <2>2. CommandChars' = {}
    <3>. DEFINE f == CommandEnd'
    <3>1. f \in Nat /\ f <= 0
      BY <1>8, EndTypes
    <3>2. CommandChars' \subseteq 0 .. f - 1
      BY DEF CommandChars
    <3>. HIDE DEF f
    <3>. QED BY <3>1, <3>2
  <2>. QED BY <2>1, <2>2, <1>1, <1>6 DEF Counts, Ahead
<1>11. KeysThrough'
  <2>1. Through = ii /\ Through' = ii + 1
    BY <1>1 DEF Through
  <2>2. Len(echoed') = n + 1
    <3>1. echoed \in Seq(1 .. MaxKeys)
      BY DEF TypeOK
    <3>. QED BY <3>1, <1>1, <1>2, AppendFacts DEF n
  <2>. QED BY <2>1, <2>2, <1>3, Sizes DEF ScreenInv, KeysThrough, n
<1>12. Ends' /\ NoFaultBeforeFull'
  BY <1>1 DEF Ends, NoFaultBeforeFull
<1>. QED BY <1>7, <1>9, <1>10, <1>11, <1>12 DEF ScreenInv

\* The terminal faults only where NoFaultBeforeFull says.
LEMMA FaultScreen ==
  ASSUME TypeOK, ScreenInv, RunPastPool \/ EnterFault
  PROVE  NoFaultBeforeFull'
<1>1. UNCHANGED <<text, command, in, ii, echoed>>
  BY DEF RunPastPool, EnterFault, Fault, screenVars
<1>2. TextEnd' = TextEnd /\ TextEnd \in Nat
  BY <1>1, EndsAreEnds, EndTypes
<1>3. CASE RunPastPool
  <2>1. CASE ii = PoolSize
    <3>1. pc = "poll"
      BY <1>3 DEF RunPastPool
    <3>2. Len(echoed) >= BufferSize - 1
      BY <2>1, <3>1, Sizes, NextReadType DEF ScreenInv, KeysThrough, Through
    <3>. QED BY <1>1, <2>1, <3>2 DEF NoFaultBeforeFull
  <2>2. CASE TextEnd = PoolSize \/ CommandEnd = PoolSize
    <3>1. TextEnd >= BufferSize - 1
      BY <2>2, Sizes, EndTypes DEF ScreenInv, TextCovers
    <3>. QED BY <1>2, <3>1 DEF NoFaultBeforeFull
  <2>. QED BY <1>3, <2>1, <2>2 DEF RunPastPool
<1>4. CASE EnterFault
  <2>1. pc = "echo" /\ EnterFaults
    BY <1>4 DEF EnterFault
  <2>2. CommandEnd \in Cells
    BY <2>1 DEF ScreenInv, Ends
  <2>3. CASE TextEnd = 0
    BY <1>2, <2>3 DEF NoFaultBeforeFull
  <2>4. CASE TextEnd > 0 /\ PadEnd > PoolSize
    <3>1. TextEnd >= BufferSize - 1
      BY <2>4, PadEndFacts, Sizes, EndTypes
    <3>. QED BY <1>2, <3>1 DEF NoFaultBeforeFull
  <2>5. CASE ClearEnd = PoolSize
    <3>1. PoolSize - 1 \in Cells /\ PoolSize - 1 >= CommandEnd
      BY <2>2, Sizes DEF Cells
    <3>2. command[PoolSize - 1] \notin {"char", "newline", "nul"}
      BY <2>5, <3>1, ClearEndFacts DEF ScreenInv, CommandEnds
    <3>3. command[PoolSize - 1] = "garbage"
      BY <3>1, <3>2 DEF TypeOK
    <3>. QED BY <1>1, <3>3 DEF NoFaultBeforeFull
  <2>. QED BY <2>1, <2>3, <2>4, <2>5 DEF EnterFaults
<1>. QED BY <1>3, <1>4

\* Every other step leaves the screen, the command and what was shown alone.
LEMMA ScreenStays ==
  ASSUME TypeOK, KeyInv, ScreenInv, Moves \/ ClearCell \/ \E c \in Chars : KeyTyped(c)
  PROVE  ScreenInv'
<1>1. UNCHANGED <<text, command, echoed>>
  BY MovesFacts DEF ClearCell, KeyTyped, screenVars
<1>2. /\ TextEnd' = TextEnd /\ CommandEnd' = CommandEnd
      /\ TextEnd \in Nat /\ CommandEnd \in Nat
  BY <1>1, EndsAreEnds, EndTypes
<1>3. CommandEnds' /\ TextCovers'
  <2>1. pc' = "command" => pc = "command"
    BY MovesFacts DEF ClearCell, KeyTyped, Wake
  <2>. QED BY <2>1, <1>1, <1>2 DEF ScreenInv, CommandEnds, TextCovers
<1>4. KeysThrough'
  <2>1. Through \in Nat /\ Len(echoed) \in Nat
    BY NextReadType DEF Through
  <2>2. Through' = Through \/ Through' = 0
    <3>1. CASE ClearCell
      BY <3>1 DEF ClearCell, Through
    <3>2. ASSUME NEW c \in Chars, KeyTyped(c) PROVE Through' = Through
      BY <3>2 DEF KeyTyped, Wake, Through
    <3>3. CASE FindNone
      BY <3>3 DEF FindNone, Through
    <3>4. CASE Advance
      BY <3>4 DEF Advance, Through
    <3>5. CASE \/ FindKey \/ RunPastPool \/ EnterFault \/ TestChar \/ GoOn \/ DecideToSleep
               \/ OtherScanCode
      BY <3>5 DEF FindKey, RunPastPool, EnterFault, TestChar, GoOn, DecideToSleep, OtherScanCode,
                  Fault, Wake, Through
    <3>6. CASE UNCHANGED vars
      BY <3>6 DEF vars, Through
    <3>. QED BY <3>1, <3>2, <3>3, <3>4, <3>5, <3>6 DEF Moves
  <2>. QED BY <2>1, <2>2, <1>1 DEF ScreenInv, KeysThrough
<1>5. Ends'
  <2>1. pc' = "echo" => pc = "echo" \/ FindKey
    BY DEF Moves, FindNone, RunPastPool, EnterFault, TestChar, Advance, GoOn, DecideToSleep,
           OtherScanCode, Fault, Wake, vars, ClearCell, KeyTyped
  <2>3. /\ pc' = "text" => pc \in {"echo", "text"}
        /\ pc' = "command" => pc = "command"
    BY MovesFacts DEF ClearCell, KeyTyped, Wake
  <2>2. FindKey => TextEnd \in Cells /\ CommandEnd \in Cells
    BY EndTypes, Sizes DEF FindKey, Cells
  <2>. QED BY <1>2, <2>1, <2>2, <2>3 DEF ScreenInv, Ends
<1>6. Counts'
  <2>1. \A a \in DOMAIN echoed : \A b \in a .. Len(echoed) :
          b \in DOMAIN echoed /\ keys'[echoed[b]] = keys[echoed[b]]
    <3>1. \A a \in DOMAIN echoed : \A b \in a .. Len(echoed) : b \in DOMAIN echoed
      BY NextReadType
    <3>2. \A k \in 1 .. Len(keys) : keys'[k] = keys[k]
      <4>1. ASSUME NEW c \in Chars, KeyTyped(c)
            PROVE  \A k \in 1 .. Len(keys) : keys'[k] = keys[k]
        <5>1. keys \in Seq(Chars) /\ keys' = Append(keys, c)
          BY <4>1 DEF KeyTyped, TypeOK
        <5>. QED BY <5>1, AppendFacts
      <4>2. Moves \/ ClearCell => keys' = keys
        BY MovesFacts DEF ClearCell
      <4>. QED BY <4>1, <4>2
    <3>3. \A b \in DOMAIN echoed : echoed[b] \in 1 .. Len(keys)
      BY DEF KeyInv, Echoes
    <3>. QED BY <3>1, <3>2, <3>3
  <2>2. Since' = Since
    BY <1>1, <2>1 DEF Since
  <2>3. CommandChars' = CommandChars
    BY <1>1, <1>2 DEF CommandChars
  <2>4. ASSUME pc' \in {"text", "command"}, ~replaced'
        PROVE  /\ ~replaced /\ in'[ii'] = in[ii]
               /\ pc' = "command" => pc = "command"
               /\ CharOf(in[ii])' # "newline"
    <3>1. CASE Moves
      <4>1. UNCHANGED <<in, keys, replaced>>
        BY <3>1, MovesFacts
      <4>2. ii' = ii /\ (pc' = "command" => pc = "command")
        BY <2>4, <3>1, MovesFacts
      <4>3. CharOf(in[ii]) # "newline"
        <5>1. CASE pc \in {"text", "command"}
          BY <2>4, <4>1, <5>1 DEF ScreenInv, Counts
        <5>2. CASE pc \notin {"text", "command"}
          BY <2>4, <3>1, <5>2 DEF Moves, FindKey, FindNone, RunPastPool, EnterFault, TestChar,
                                  Advance, GoOn, DecideToSleep, OtherScanCode, Fault, Wake, vars
        <5>. QED BY <5>1, <5>2
      <4>. QED BY <2>4, <4>1, <4>2, <4>3 DEF CharOf
    <3>2. ASSUME NEW c \in Chars, KeyTyped(c)
          PROVE  /\ ~replaced /\ in'[ii'] = in[ii]
                 /\ pc' = "command" => pc = "command"
                 /\ CharOf(in[ii])' # "newline"
      <4>1. pc' = pc /\ ii' = ii
        BY <2>4, <3>2 DEF KeyTyped, Wake
      <4>2. ~replaced /\ Slot # ii
        BY <2>4, <3>2, <4>1 DEF KeyTyped
      <4>3. in'[ii] = in[ii] /\ ii \in Cells
        BY <2>4, <3>2, <4>1, <4>2 DEF KeyTyped, KeyInv, Hand, TypeOK
      <4>4. CharOf(in[ii]) # "newline"
        BY <2>4, <4>1, <4>2 DEF ScreenInv, Counts
      <4>5. in[ii] # Garbage => keys'[in[ii]] = keys[in[ii]]
        <5>1. in[ii] # Garbage => in[ii] \in 1 .. Len(keys)
          BY <2>4, <4>1, HandType DEF KeyInv
        <5>2. keys \in Seq(Chars) /\ keys' = Append(keys, c)
          BY <3>2 DEF KeyTyped, TypeOK
        <5>. QED BY <5>1, <5>2, AppendFacts
      <4>6. CharOf(in[ii])' = CharOf(in[ii])
        BY <4>1, <4>3, <4>5 DEF CharOf
      <4>. QED BY <4>1, <4>2, <4>3, <4>4, <4>6
    <3>3. CASE ClearCell
      BY <2>4, <3>3 DEF ClearCell
    <3>. QED BY <3>1, <3>2, <3>3
  <2>5. ~replaced' => ~replaced
    BY MovesFacts DEF ClearCell, KeyTyped
  <2>6. ASSUME ~replaced' PROVE Ahead' <=> Ahead
    <3>1. CASE pc' = "command"
      BY <2>4, <2>6, <3>1 DEF Ahead
    <3>2. CASE pc' # "command"
      <4>1. pc # "command"
        BY <3>2 DEF Moves, FindKey, FindNone, RunPastPool, EnterFault, TestChar, Advance, GoOn,
                    DecideToSleep, OtherScanCode, Fault, Wake, vars, ClearCell, KeyTyped
      <4>. QED BY <3>2, <4>1 DEF Ahead
    <3>. QED BY <3>1, <3>2
  <2>7. SUFFICES ASSUME ~replaced'
                 PROVE  /\ \A i \in Cells : command'[i] # "newline"
                        /\ pc' \in {"text", "command"} => CharOf(in[ii])' # "newline"
                        /\ Cardinality(Since')
                             = IF Ahead' THEN Cardinality(CommandChars') + 1
                               ELSE Cardinality(CommandChars')
    BY DEF Counts
  <2>8. /\ \A i \in Cells : command[i] # "newline"
        /\ Cardinality(Since)
             = IF Ahead THEN Cardinality(CommandChars) + 1 ELSE Cardinality(CommandChars)
    BY <2>5, <2>7 DEF ScreenInv, Counts
  <2>. QED BY <1>1, <2>2, <2>3, <2>4, <2>6, <2>7, <2>8
<1>7. NoFaultBeforeFull'
  <2>1. CASE RunPastPool \/ EnterFault
    BY <2>1, FaultScreen
  <2>2. CASE UNCHANGED vars
    <3>1. UNCHANGED <<pc, ii>>
      BY <2>2 DEF vars
    <3>. QED BY <1>1, <1>2, <3>1 DEF ScreenInv, NoFaultBeforeFull
  <2>3. CASE ~ (RunPastPool \/ EnterFault \/ UNCHANGED vars)
    <3>1. pc' # "fault"
      BY <2>3 DEF Moves, FindKey, FindNone, TestChar, Advance, GoOn, DecideToSleep, OtherScanCode, Wake,
                  ClearCell, KeyTyped
    <3>. QED BY <3>1 DEF NoFaultBeforeFull
  <2>. QED BY <2>1, <2>2, <2>3
<1>. QED BY <1>3, <1>4, <1>5, <1>6, <1>7 DEF ScreenInv

-------------------------------------------------------------------------------
(* The invariant.                                                          *)

IInv == TypeOK /\ KeyInv /\ ScreenInv

LEMMA InitInv == Init => IInv
BY InitType, InitKeys, InitScreen DEF IInv

LEMMA NextInv == IInv /\ [Next]_vars => IInv'
<1>. SUFFICES ASSUME TypeOK, KeyInv, ScreenInv, [Next]_vars PROVE TypeOK' /\ KeyInv' /\ ScreenInv'
  BY DEF IInv
<1>1. CASE StoreText
  BY <1>1, EchoType, EchoKeys, StoreTextScreen DEF KeyInv
<1>2. CASE EchoNewline
  BY <1>2, EchoType, EchoKeys, EchoNewlineScreen DEF KeyInv
<1>3. CASE ClearCell
  BY <1>3, LoopType, ClearKeys, ScreenStays DEF KeyInv
<1>4. ASSUME NEW c \in Chars, KeyTyped(c) PROVE TypeOK' /\ KeyInv' /\ ScreenInv'
  BY <1>4, KeyTypedType, TypedKeys, ScreenStays
<1>5. CASE Moves
  <2>1. TypeOK'
    <3>1. CASE UNCHANGED vars
      BY <3>1 DEF vars, TypeOK
    <3>. QED BY <1>5, <3>1, LoopType DEF Moves, KeyInv
  <2>. QED BY <1>5, <2>1, MovesKeys, ScreenStays
<1>6. CASE StoreCommand
  BY <1>6, StoreCommandType, MovesKeys, StoreCommandScreen DEF KeyInv
<1>. QED BY <1>1, <1>2, <1>3, <1>4, <1>5, <1>6 DEF Next, MainLoop, Interrupt, Moves

\* The main loop and the interrupt keep the invariant.
THEOREM AlwaysIInv == Spec => []IInv
<1>1. Init => IInv
  BY InitInv
<1>2. IInv /\ [Next]_vars => IInv'
  BY NextInv
<1>. QED BY <1>1, <1>2, PTL DEF Spec

-------------------------------------------------------------------------------
(* What follows from the invariant.                                        *)

LEMMA PendingIsWaiting ==
  \A i \in Cells : Waits(i) <=> in[i] \in Pending
BY DEF Waits, Pending, NoKey

LEMMA ShownOnce ==
  ASSUME TypeOK, Echoes
  PROVE  Cardinality(Shown) = Len(echoed)
<1>. DEFINE n == Len(echoed)
<1>1. echoed \in Seq(1 .. MaxKeys) /\ n \in Nat /\ DOMAIN echoed = 1 .. n
  BY DEF TypeOK
<1>2. echoed \in [1 .. n -> Shown] /\ \A x \in Shown : \E a \in 1 .. n : echoed[a] = x
  BY <1>1 DEF Shown
<1>3. \A a, b \in 1 .. n : echoed[a] = echoed[b] => a = b
  BY <1>1 DEF Echoes
<1>. HIDE DEF n
<1>4. echoed \in Bijection(1 .. n, Shown)
  BY <1>2, <1>3, Fun_IsBij, Zenon
<1>5. ExistsBijection(1 .. n, Shown)
  BY <1>4 DEF ExistsBijection
<1>. QED BY <1>1, <1>5, FS_CountingElements DEF n

LEMMA InvAccounts == IInv => KeysAccounted
<1>. SUFFICES ASSUME IInv PROVE KeysAccounted
  OBVIOUS
<1>1. /\ \A k \in 1 .. Len(keys) : k \in Shown \/ k \in lost \/ \E i \in Cells : in[i] = k
      /\ lost \subseteq 1 .. Len(keys) /\ lost \cap Shown = {}
      /\ \A i \in Cells : in[i] \notin lost
  BY DEF IInv, KeyInv, Losses
<1>2. \A k \in 1 .. Len(keys) : k \notin {NUL, Garbage}
  BY NextReadType, Sizes DEF IInv
<1>3. Shown \subseteq 1 .. Len(keys)
  BY DEF IInv, KeyInv, Echoes, Shown
<1>4. Pending \subseteq 1 .. Len(keys)
  <2>1. \A x \in 0 .. Len(keys) \cup {Garbage} : x \notin {NUL, Garbage} => x \in 1 .. Len(keys)
    BY NextReadType, Sizes DEF IInv
  <2>. QED BY <2>1 DEF IInv, KeyInv, Places, Pending
<1>5. \A k \in 1 .. Len(keys) : k \in Pending \cup Shown \cup lost
  BY <1>1, <1>2 DEF Pending
<1>6. Pending \cap lost = {}
  BY <1>1 DEF Pending
<1>7. Cardinality(Shown) = Len(echoed)
  BY ShownOnce DEF IInv, KeyInv
<1>. QED BY <1>1, <1>3, <1>4, <1>5, <1>6, <1>7 DEF KeysAccounted

LEMMA InvReaches == IInv => NothingStranded
BY PendingIsWaiting DEF IInv, KeyInv, Reached, NothingStranded

LEMMA InvOrders == IInv => InOrderUnlessLapped
<1>. SUFFICES ASSUME IInv, ~lapped
              PROVE  /\ \A a, b \in DOMAIN echoed : a < b => echoed[a] < echoed[b]
                     /\ \A a \in Shown, k \in Pending : a < k
  BY DEF InOrderUnlessLapped
<1>1. /\ \A a, b \in DOMAIN echoed : a < b => echoed[a] < echoed[b]
      /\ \A a \in DOMAIN echoed, i \in Cells : Waits(i) => echoed[a] < in[i]
  BY DEF IInv, KeyInv, Ordered
<1>2. \A k \in Pending : \E i \in Cells : in[i] = k /\ Waits(i)
  BY DEF Pending, Waits, NoKey
<1>3. \A x \in Shown : \E a \in DOMAIN echoed : echoed[a] = x
  BY DEF Shown
<1>. QED BY <1>1, <1>2, <1>3

LEMMA InvSleeps == IInv => SleepsOnlyAtFirst
BY DEF IInv, KeyInv, Working, SleepsOnlyAtFirst

\* Every variable keeps its type: no buffer is written outside its pool.
THEOREM TypesKept == Spec => []TypeOK
<1>1. IInv => TypeOK
  BY DEF IInv
<1>. QED BY <1>1, AlwaysIInv, PTL

\* Interrupt and main loop lose no key between them and show none twice: each is
\* waiting, shown or overwritten.
THEOREM EveryKeyAccounted == Spec => []KeysAccounted
BY InvAccounts, AlwaysIInv, PTL

\* Handler reaches every key that waits, by the cells that are taken.
THEOREM NoKeyStranded == Spec => []NothingStranded
BY InvReaches, AlwaysIInv, PTL

\* Keys are shown in the order they were typed, unless one is put where handler
\* reads it before older ones.
THEOREM KeysInOrder == Spec => []InOrderUnlessLapped
BY InvOrders, AlwaysIInv, PTL

\* The processor sleeps on a waiting key only before the first one is shown.
THEOREM SleepsAtFirst == Spec => []SleepsOnlyAtFirst
BY InvSleeps, AlwaysIInv, PTL

\* The command is what was shown since the last Enter, unless the interrupt
\* replaced a key between handler's test of it and the two stores.
THEOREM CommandKept == Spec => []CommandSinceEnter
<1>1. IInv => CommandSinceEnter
  BY CountsSince DEF IInv, ScreenInv
<1>. QED BY <1>1, AlwaysIInv, PTL

\* The terminal faults only on an Enter before any character, on a full text, or
\* behind a buffer that was full of keys.
THEOREM FaultsOnlyWhenFull == Spec => []NoFaultBeforeFull
<1>1. IInv => NoFaultBeforeFull
  BY DEF IInv, ScreenInv
<1>. QED BY <1>1, AlwaysIInv, PTL

\* A key is overwritten only when every cell of the input buffer is taken: by the
\* interrupt, or by handler when it clears a cell that was full again.
THEOREM LossesWhenFull == Spec => LossOnlyWhenFull
<1>1. IInv /\ [Next]_vars => [lost' # lost => \A i \in 0 .. BufferSize - 1 : in[i] # NUL]_vars
  <2>1. SUFFICES ASSUME IInv, Next, lost' # lost
                 PROVE  \A i \in 0 .. BufferSize - 1 : in[i] # NUL
    OBVIOUS
  <2>2. CASE ClearCell
    <3>1. pc = "clear" /\ lost' = lost \cup ({in[ii]} \ (Shown \cup {Garbage}))
      BY <2>2 DEF ClearCell
    <3>2. in[ii] \notin Shown \cup {Garbage}
      BY <2>1, <3>1
    <3>. QED BY <2>1, <3>1, <3>2 DEF IInv, KeyInv, Losses
  <2>3. ASSUME NEW c \in Chars, KeyTyped(c)
        PROVE  \A i \in 0 .. BufferSize - 1 : in[i] # NUL
    <3>1. lost' = lost \cup ({in[Slot]} \ (Shown \cup {NUL, Garbage}))
      BY <2>3 DEF KeyTyped
    <3>2. in[Slot] # NUL
      BY <2>1, <3>1
    <3>. QED BY <2>1, <3>2, SlotFacts DEF IInv, TypeOK
  <2>4. Moves \/ StoreCommand => lost' = lost
    BY MovesFacts
  <2>5. StoreText \/ EchoNewline => lost' = lost
    BY DEF StoreText, EchoNewline, keyVars
  <2>. QED BY <2>1, <2>2, <2>3, <2>4, <2>5 DEF Next, MainLoop, Interrupt, Moves
<1>. QED BY <1>1, AlwaysIInv, PTL DEF Spec, LossOnlyWhenFull

\* What is on the screen stays: a step adds to the end of the text, and changes
\* only the last character of a full row, on Enter.
THEOREM ScreenKept == Spec => ShownCharsStay
<1>. DEFINE Stays == \A i \in 0 .. TextEnd - 1 :
                       \/ text'[i] = text[i]
                       \/ text'[i] = "newline" /\ i = TextEnd - 1 /\ TextEnd % Width = 0
<1>1. IInv /\ [Next]_vars => [Stays]_vars
  <2>1. SUFFICES ASSUME IInv, Next, NEW i \in 0 .. TextEnd - 1
                 PROVE  \/ text'[i] = text[i]
                        \/ text'[i] = "newline" /\ i = TextEnd - 1 /\ TextEnd % Width = 0
    OBVIOUS
  <2>2. i \in Nat /\ i < TextEnd /\ TextEnd \in Nat /\ TextEnd > 0
    BY EndTypes
  <2>3. i \in Cells /\ text \in [Cells -> TextCells]
    BY <2>1, EndTypes, Sizes DEF Cells, IInv, TypeOK
  <2>4. CASE StoreText
    <3>1. text' = [text EXCEPT ![TextEnd] = CharOf(in[ii])] /\ i # TextEnd
      BY <2>2, <2>4 DEF StoreText
    <3>. QED BY <2>3, <3>1
  <2>5. CASE EchoNewline
    <3>1. text'[i] = IF i = PadEnd - 1 THEN "newline"
                     ELSE IF i \in TextEnd .. PadEnd - 1 THEN "blank"
                     ELSE text[i]
      BY <2>3, <2>5 DEF EchoNewline, ScreenAfterEnter
    <3>2. i \notin TextEnd .. PadEnd - 1
      BY <2>2
    <3>3. CASE i = PadEnd - 1
      <4>1. PadEnd < TextEnd + 1
        BY <2>2, <3>3, PadEndFacts
      <4>2. PadEnd = TextEnd /\ (text[TextEnd - 1] = "newline" \/ TextEnd % Width = 0)
        BY <2>2, <4>1, PadEndFacts
      <4>. QED BY <3>1, <3>3, <4>2
    <3>. QED BY <3>1, <3>2, <3>3
  <2>6. Moves \/ StoreCommand \/ ClearCell => text' = text
    BY MovesFacts DEF ClearCell, screenVars
  <2>7. (\E c \in Chars : KeyTyped(c)) => text' = text
    BY DEF KeyTyped, screenVars
  <2>. QED BY <2>1, <2>4, <2>5, <2>6, <2>7 DEF Next, MainLoop, Interrupt, Moves
<1>. QED BY <1>1, AlwaysIInv, PTL DEF Spec, ShownCharsStay

===============================================================================
