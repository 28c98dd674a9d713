-------------------------------- MODULE Terminal --------------------------------
(***************************************************************************)
(* The terminal of src/kernel/src/terminal/terminal.cpp, run by the main   *)
(* loop of main.cpp, and the keyboard interrupt of hid/keyboard.cpp that   *)
(* fills its input buffer at any moment.                                   *)
(*                                                                         *)
(* Only `in' is shared: the main loop's accesses to it are separate steps, *)
(* everything it does between two of them is one; the three reads of a key *)
(* that is shown are three steps.  Keys are numbered in the order they are *)
(* typed, keys[k] is what key k types.  `out' stays empty, because print   *)
(* of libs/io.cpp stops before the first character of every string that    *)
(* has one: the half of handler that copies it to the screen, and the      *)
(* message of runCommand's failure, have no effect.                        *)
(***************************************************************************)
EXTENDS Integers, Sequences, FiniteSets

CONSTANTS
  Width, Height,   \* of the screen, in characters
  PoolSize,        \* bytes of a buffer's pool: whole pages, more than are used
  MaxKeys          \* bound: keys typed

BufferSize == Width * Height

ASSUME SizesAssumption ==
  /\ Width \in Nat \ {0} /\ Height \in Nat \ {0} /\ BufferSize > 1
  /\ PoolSize \in Nat /\ PoolSize > BufferSize
  /\ MaxKeys \in Nat

NUL == 0
Garbage == MaxKeys + 1       \* as a cell of `in': what memory held by chance

Chars == {"char", "newline"}
TextCells == {"nul", "char", "blank", "newline", "garbage"}

Cells == 0 .. PoolSize - 1

VARIABLES
  text,        \* textBuffer
  command,     \* commandBuffer
  in,          \* the input buffer: numbers of keys
  ii,          \* where handler reads `in' next
  pc,          \* where the main loop is
  schedWork,   \* scheduler.work
  keys,        \* history: the keys typed
  echoed,      \* history: the keys handler has shown, in that order
  lost,        \* history: keys overwritten before they were shown
  lapped,      \* history: a key went where handler reads it before older ones
  replaced     \* history: since Enter, one went where handler was storing another

vars == <<text, command, in, ii, pc, schedWork, keys, echoed, lost, lapped, replaced>>
screenVars == <<text, command>>
keyVars == <<keys, lost, lapped, replaced>>

Least(S) == CHOOSE x \in S : \A y \in S : x <= y

\* The index at which a scan for NUL stops; PoolSize stands for the page
\* behind the pool, which is not mapped.
TextEnd == Least({i \in Cells : text[i] = "nul"} \cup {PoolSize})
CommandEnd == Least({i \in Cells : command[i] = "nul"} \cup {PoolSize})

CharOf(k) == IF k = Garbage THEN "garbage" ELSE keys[k]

-------------------------------------------------------------------------------

\* Terminal::init: the pools are not cleared when they are allocated, and the
\* loops that clear the buffers leave out the last cell.
Init ==
  /\ \E dirty \in SUBSET {"text", "command", "in"} :
       LET Cleared(b, i) == i < BufferSize - 1 \/ b \notin dirty
       IN  /\ text = [i \in Cells |->
                        IF Cleared("text", i) THEN "nul" ELSE "garbage"]
           /\ command = [i \in Cells |->
                           IF Cleared("command", i) THEN "nul" ELSE "garbage"]
           /\ in = [i \in Cells |-> IF Cleared("in", i) THEN NUL ELSE Garbage]
  /\ ii = 0
  /\ pc = "poll"
  /\ schedWork = FALSE
  /\ keys = <<>>
  /\ echoed = <<>>
  /\ lost = {}
  /\ lapped = FALSE
  /\ replaced = FALSE

-------------------------------------------------------------------------------
(* The keyboard interrupt.                                                 *)

Shown == {echoed[k] : k \in DOMAIN echoed}

\* Mutant of Slot: the scan begins where handler reads, not at the start.
SlotFromRead == Least({i \in ii .. BufferSize : in[i] = NUL} \cup {BufferSize})

\* The first cell that is NUL, or the one after the buffer.
Slot == Least({i \in 0 .. BufferSize : in[i] = NUL} \cup {BufferSize})

\* The cell that handler looks at next.
NextRead == IF pc = "advance" THEN ii + 1 ELSE ii

\* After hlt the processor goes on with the main loop.
Wake(p) == IF p = "asleep" THEN "poll" ELSE p

\* handleKeyboard for a scan code that stands for a character.
KeyTyped(c) ==
  /\ pc # "fault"
  /\ Len(keys) < MaxKeys
  /\ keys' = Append(keys, c)
  /\ in' = [in EXCEPT ![Slot] = Len(keys) + 1]
  /\ lost' = lost \cup ({in[Slot]} \ (Shown \cup {NUL, Garbage}))
  /\ lapped' = (lapped \/ (NextRead <= Slot /\ \E j \in 0 .. NextRead - 1 : in[j] # NUL))
  /\ replaced' = (replaced \/ (pc \in {"text", "command"} /\ Slot = ii))
  /\ pc' = Wake(pc)
  /\ UNCHANGED <<screenVars, ii, schedWork, echoed>>

\* handleKeyboard for any other scan code, while the processor sleeps.
OtherScanCode ==
  /\ pc = "asleep"
  /\ pc' = Wake(pc)
  /\ UNCHANGED <<screenVars, in, ii, schedWork, keyVars, echoed>>

-------------------------------------------------------------------------------
(* The main loop: Terminal::handler, and hlt when there is no work.        *)

Fault == pc' = "fault" /\ UNCHANGED <<screenVars, in, ii, schedWork, keyVars, echoed>>

\* handler finds a key at ii, and the ends of the text and of the command.
FindKey ==
  /\ pc = "poll" /\ ii < PoolSize /\ in[ii] # NUL
  /\ TextEnd < PoolSize /\ CommandEnd < PoolSize
  /\ pc' = "echo"
  /\ UNCHANGED <<screenVars, in, ii, schedWork, keyVars, echoed>>

\* Mutant of FindNone: handler goes on to the next cell.
FindNoneAdvancing ==
  /\ pc = "poll" /\ ii < PoolSize /\ in[ii] = NUL
  /\ ii' = ii + 1
  /\ pc' = "idle"
  /\ UNCHANGED <<screenVars, in, schedWork, keyVars, echoed>>

\* Mutant of FindNone: handler waits where it is.
FindNoneStaying ==
  /\ pc = "poll" /\ ii < PoolSize /\ in[ii] = NUL
  /\ pc' = "idle"
  /\ UNCHANGED <<screenVars, in, ii, schedWork, keyVars, echoed>>

\* It finds none and starts over.
FindNone ==
  /\ pc = "poll" /\ ii < PoolSize /\ in[ii] = NUL
  /\ ii' = 0
  /\ pc' = "idle"
  /\ UNCHANGED <<screenVars, in, schedWork, keyVars, echoed>>

\* It reads past the end of one of the pools: page fault, panic.
RunPastPool ==
  /\ pc = "poll"
  /\ \/ ii = PoolSize
     \/ ii < PoolSize /\ in[ii] # NUL /\ (TextEnd = PoolSize \/ CommandEnd = PoolSize)
  /\ Fault

\* Mutant of PadEnd: the row is not filled.
PadEndNever == TextEnd

\* Enter fills the row with blanks, up to its end; not a row that is full, and
\* not after another Enter.
PadEnd == IF text[TextEnd - 1] = "newline" \/ TextEnd % Width = 0
          THEN TextEnd
          ELSE (TextEnd \div Width + 1) * Width

\* The loop that clears the command stops at the first NUL behind the buffer.
ClearEnd == Least({i \in BufferSize .. PoolSize - 1 : command[i] = "nul"}
                    \cup {PoolSize})

EnterFaults == \/ TextEnd = 0   \* textBuffer[-1] is read
               \/ TextEnd > 0 /\ PadEnd > PoolSize
               \/ ClearEnd = PoolSize

ScreenAfterEnter ==
  [i \in Cells |-> IF i = PadEnd - 1 THEN "newline"
                   ELSE IF i \in TextEnd .. PadEnd - 1 THEN "blank"
                   ELSE text[i]]

\* Mutant of EchoNewline: the command is filled with blanks, as the row is.
EchoNewlineBlanking ==
  /\ pc = "echo" /\ CharOf(in[ii]) = "newline" /\ ~ EnterFaults
  /\ text' = ScreenAfterEnter
  /\ command' = [i \in Cells |-> IF i < ClearEnd THEN "blank" ELSE command[i]]
  /\ echoed' = Append(echoed, in[ii])
  /\ replaced' = FALSE
  /\ pc' = "clear"
  /\ UNCHANGED <<in, ii, schedWork, keys, lost, lapped>>

\* Mutant of EchoNewline: the command is not cleared.
EchoNewlineKeeping ==
  /\ pc = "echo" /\ CharOf(in[ii]) = "newline" /\ ~ EnterFaults
  /\ text' = ScreenAfterEnter
  /\ echoed' = Append(echoed, in[ii])
  /\ replaced' = FALSE
  /\ pc' = "clear"
  /\ UNCHANGED <<command, in, ii, schedWork, keys, lost, lapped>>

EchoNewline ==
  /\ pc = "echo" /\ CharOf(in[ii]) = "newline" /\ ~ EnterFaults
  /\ text' = ScreenAfterEnter
  /\ command' = [i \in Cells |-> IF i < ClearEnd THEN "nul" ELSE command[i]]
  /\ echoed' = Append(echoed, in[ii])
  /\ replaced' = FALSE
  /\ pc' = "clear"
  /\ UNCHANGED <<in, ii, schedWork, keys, lost, lapped>>

EnterFault ==
  /\ pc = "echo" /\ CharOf(in[ii]) = "newline" /\ EnterFaults
  /\ Fault

TestChar ==
  /\ pc = "echo" /\ CharOf(in[ii]) # "newline"
  /\ pc' = "text"
  /\ UNCHANGED <<screenVars, in, ii, schedWork, keyVars, echoed>>

\* textBuffer[ti] = in[ii], which the interrupt may have changed since the test.
StoreText ==
  /\ pc = "text"
  /\ text' = [text EXCEPT ![TextEnd] = CharOf(in[ii])]
  /\ echoed' = IF in[ii] = Garbage THEN echoed ELSE Append(echoed, in[ii])
  /\ pc' = "command"
  /\ UNCHANGED <<command, in, ii, schedWork, keyVars>>

\* commandBuffer[ci] = in[ii], read once more.
StoreCommand ==
  /\ pc = "command"
  /\ command' = [command EXCEPT ![CommandEnd] = CharOf(in[ii])]
  /\ pc' = "clear"
  /\ UNCHANGED <<text, in, ii, schedWork, keyVars, echoed>>

\* Mutant of ClearCell: ii has already been incremented.
ClearNextCell ==
  /\ pc = "clear"
  /\ in' = [in EXCEPT ![ii + 1] = NUL]
  /\ lost' = lost \cup ({in[ii]} \ (Shown \cup {Garbage}))
  /\ pc' = "advance"
  /\ UNCHANGED <<screenVars, ii, schedWork, keys, lapped, replaced, echoed>>

\* in[ii] = NULL, whatever has been put there since it was read.
ClearCell ==
  /\ pc = "clear"
  /\ in' = [in EXCEPT ![ii] = NUL]
  /\ lost' = lost \cup ({in[ii]} \ (Shown \cup {Garbage}))
  /\ pc' = "advance"
  /\ UNCHANGED <<screenVars, ii, schedWork, keys, lapped, replaced, echoed>>

\* Mutant of Advance: after a key handler starts over.
AdvanceToStart ==
  /\ pc = "advance"
  /\ ii' = 0
  /\ schedWork' = TRUE
  /\ pc' = "idle"
  /\ UNCHANGED <<screenVars, in, keyVars, echoed>>

\* Mutant of Advance: the work of this round is not remembered.
AdvanceForgetting ==
  /\ pc = "advance"
  /\ ii' = ii + 1
  /\ pc' = "idle"
  /\ UNCHANGED <<screenVars, in, schedWork, keyVars, echoed>>

\* ii++, and handler reports work; scheduler.work is never reset.
Advance ==
  /\ pc = "advance"
  /\ ii' = ii + 1
  /\ schedWork' = TRUE
  /\ pc' = "idle"
  /\ UNCHANGED <<screenVars, in, keyVars, echoed>>

\* The end of the main loop's body; hlt comes after the test.
GoOn ==
  /\ pc = "idle" /\ schedWork
  /\ pc' = "poll"
  /\ UNCHANGED <<screenVars, in, ii, schedWork, keyVars, echoed>>

DecideToSleep ==
  /\ pc = "idle" /\ ~schedWork
  /\ pc' = "asleep"
  /\ UNCHANGED <<screenVars, in, ii, schedWork, keyVars, echoed>>

MainLoop ==
  \/ FindKey \/ FindNone \/ RunPastPool
  \/ EchoNewline \/ EnterFault \/ TestChar \/ StoreText \/ StoreCommand
  \/ ClearCell \/ Advance \/ GoOn \/ DecideToSleep

Interrupt == OtherScanCode \/ \E c \in Chars : KeyTyped(c)

Next == MainLoop \/ Interrupt

Spec == Init /\ [][Next]_vars

\* The main loop is the only thread: it runs whenever no interrupt does.
FairSpec == Spec /\ WF_vars(MainLoop)

-------------------------------------------------------------------------------

TypeOK ==
  /\ text \in [Cells -> TextCells]
  /\ command \in [Cells -> {"nul", "char", "newline", "garbage"}]
  /\ in \in [Cells -> 0 .. Garbage]
  /\ ii \in 0 .. PoolSize
  /\ pc \in {"poll", "echo", "text", "command", "clear", "advance", "idle", "asleep",
             "fault"}
  /\ schedWork \in BOOLEAN
  /\ keys \in Seq(Chars) /\ Len(keys) <= MaxKeys
  /\ echoed \in Seq(1 .. MaxKeys)
  /\ lost \subseteq 1 .. MaxKeys
  /\ lapped \in BOOLEAN /\ replaced \in BOOLEAN

\* The keys that wait in the input buffer.
Pending == {in[i] : i \in Cells} \ (Shown \cup {NUL, Garbage})

\* Every key typed is waiting, shown or overwritten, one of the three, and no
\* key is shown twice: interrupt and main loop lose nothing between them.
KeysAccounted ==
  /\ 1 .. Len(keys) = Pending \cup Shown \cup lost
  /\ Shown \cap lost = {} /\ Pending \cap lost = {}
  /\ Cardinality(Shown) = Len(echoed)

\* A key is overwritten only when every cell of the input buffer is taken.
LossOnlyWhenFull ==
  [][lost' # lost => \A i \in 0 .. BufferSize - 1 : in[i] # NUL]_vars

\* A waiting key is reached by handler: the cells from ii on up to it are
\* taken, or, once handler starts over, the cells from the first on are.
NothingStranded ==
  \A i \in Cells :
    in[i] \in Pending =>
      \/ \A j \in 0 .. i : in[j] # NUL
      \/ i >= NextRead /\ \A j \in NextRead .. i : in[j] # NUL

\* Keys are shown in the order they were typed, until one is put at ii or
\* behind it while older ones wait before ii: only then is a key overtaken.
InOrderUnlessLapped ==
  ~lapped =>
    /\ \A a, b \in DOMAIN echoed : a < b => echoed[a] < echoed[b]
    /\ \A a \in Shown, k \in Pending : a < k

\* What is on the screen stays: a step adds to the end of the text, and changes
\* a character only when Enter meets a full row, whose last one it replaces.
ShownCharsStay ==
  [][\A i \in 0 .. TextEnd - 1 :
       \/ text'[i] = text[i]
       \/ text'[i] = "newline" /\ i = TextEnd - 1 /\ TextEnd % Width = 0]_vars

\* The command is what was shown since the last Enter, and no newline, unless the
\* interrupt replaced a key that handler had tested and was about to store.
CommandSinceEnter ==
  LET since == {a \in DOMAIN echoed :
                  \A b \in a .. Len(echoed) : keys[echoed[b]] # "newline"}
  IN  ~replaced /\ pc # "command" =>
        /\ \A i \in Cells : command[i] # "newline"
        /\ Cardinality({i \in 0 .. CommandEnd - 1 : command[i] = "char"})
             = Cardinality(since)

\* Unless the tail of the command's pool held no zero byte, the terminal only
\* faults when Enter comes before any character, when the text fills its buffer,
\* or when handler has read on behind a buffer that was full of keys.
NoFaultBeforeFull ==
  pc = "fault" /\ command[PoolSize - 1] # "garbage"
    => \/ TextEnd = 0 \/ TextEnd >= BufferSize - 1
       \/ ii = PoolSize /\ Len(echoed) >= BufferSize - 1

\* The processor sleeps on a waiting key only before the first key is shown:
\* from then on scheduler.work keeps the main loop awake.
SleepsOnlyAtFirst == pc = "asleep" /\ Pending # {} => echoed = <<>>

\* From the first key on, what is typed is shown in the end, or overwritten,
\* or the terminal faults.
Drained == schedWork /\ Pending # {} ~> Pending = {} \/ pc = "fault"

\* "Handle in and out": handling input does not fault.
HandlesInput == pc # "fault"
===============================================================================
