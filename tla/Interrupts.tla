------------------------------- MODULE Interrupts -------------------------------
(***************************************************************************)
(* interuptInit of src/kernel/src/kernelFunc.cpp with setGate, remapPIC    *)
(* and the handlers of src/kernel/src/interrupts/interrupts.cpp, after     *)
(* memoryInit has loaded cr3, until terminal.init has given the keyboard's *)
(* handler a buffer.                                                       *)
(*                                                                         *)
(* External: the two interrupt controllers (8259), the timer, the keyboard *)
(* controller with its one output byte, and the processor's way from a     *)
(* vector to a handler.  Nothing clears the interrupt flag: until sti it   *)
(* is what the firmware left.                                              *)
(***************************************************************************)
EXTENDS Integers, Sequences, FiniteSets, FiniteSetsExt

CONSTANTS
  FirmwareBases,   \* pairs: the vectors where the firmware has put the chips
  FirmwareMasks,   \* pairs: its masks
  MaxKeys          \* bound: bytes from the keyboard

ASSUME FirmwareAssumption ==
  /\ FirmwareBases \subseteq (0 .. 248) \X (0 .. 248)
  /\ FirmwareMasks \subseteq (0 .. 255) \X (0 .. 255)
  /\ MaxKeys \in Nat

Chips == 1 .. 2      \* PIC1 and PIC2
Timer == 0           \* the lines of PIC1
KeyLine == 1
Cascade == 2
MouseLine == 4       \* of PIC2: line 12

VARIABLES
  pc,         \* the statement that is executed next
  cpu,        \* "main", in the keyboard's handler, or stopped
  flag,       \* the interrupt flag
  idt,        \* whose descriptor table is loaded
  gates,      \* the vectors that have a gate in the kernel's table
  leftover,   \* whether the table's page held something before
  chip,       \* the controllers
  saved,      \* a1 and a2
  output,     \* the keyboard controller's byte: from the keyboard or the mouse
  typed,      \* how many bytes the keyboard has sent
  mouse,      \* whether the firmware has switched on the mouse
  missed      \* whether a byte waited while its line's edge was forgotten

table == <<idt, gates, leftover>>
world == <<output, typed, mouse>>
vars == <<pc, cpu, flag, table, chip, saved, world, missed>>

-------------------------------------------------------------------------------
(* A controller (external).  icw is the initialisation word that it waits  *)
(* for on its data port, 0 when the data port is its mask.                 *)

Command(c) == [c EXCEPT !.icw = 2, !.mask = 0, !.irr = {}, !.isr = {}]

Data(c, byte) ==
  CASE c.icw = 0 -> [c EXCEPT !.mask = byte]
    [] c.icw = 2 -> [c EXCEPT !.base = byte, !.icw = 3]
    [] c.icw = 3 -> [c EXCEPT !.icw = 4]
    [] c.icw = 4 -> [c EXCEPT !.icw = 0]

Bit == <<1, 2, 4, 8, 16, 32, 64, 128>>
Masked(c, l) == (c.mask \div Bit[l + 1]) % 2 = 1

\* The lines of c that are asked for in L and may interrupt.
Pending(c, L) == {l \in L : ~Masked(c, l) /\ \A s \in c.isr : l < s}

SlavePending == Pending(chip[2], chip[2].irr)
MasterPending ==
  Pending(chip[1], chip[1].irr \cup {l \in {Cascade} : SlavePending # {}})

Serve(c, l) == [c EXCEPT !.isr = @ \cup {l}, !.irr = @ \ {l}]

-------------------------------------------------------------------------------
(* What interuptInit does, statement by statement, and from terminal.init  *)
(* the statement that sets terminal.in.                                    *)

\* Mutant of RemapPIC: the master's vectors stay among the exceptions.
RemapPICLow ==
  << <<"in", 1>>, <<"in", 2>>, <<"command", 1>>, <<"command", 2>>,
     <<"data", 1, 8>>, <<"data", 2, 40>>, <<"data", 1, 4>>, <<"data", 2, 2>>,
     <<"data", 1, 1>>, <<"data", 2, 1>>, <<"restore", 1>>, <<"restore", 2>> >>

RemapPIC ==
  << <<"in", 1>>, <<"in", 2>>, <<"command", 1>>, <<"command", 2>>,
     <<"data", 1, 32>>, <<"data", 2, 40>>, <<"data", 1, 4>>, <<"data", 2, 2>>,
     <<"data", 1, 1>>, <<"data", 2, 1>>, <<"restore", 1>>, <<"restore", 2>> >>

SetGates == << <<"gate", 14>>, <<"gate", 8>>, <<"gate", 13>>, <<"gate", 33>> >>

\* Mutant of Script: the keyboard's line stays masked.
ScriptKeyMasked == SetGates \o << <<"lidt">> >> \o RemapPIC
                     \o << <<"data", 1, 251>>, <<"data", 2, 239>>, <<"sti">>, <<"input">> >>

Script == SetGates \o << <<"lidt">> >> \o RemapPIC
            \o << <<"data", 1, 249>>, <<"data", 2, 239>>, <<"sti">>, <<"input">> >>

Init ==
  /\ pc = 1 /\ cpu = "main" /\ flag \in BOOLEAN
  /\ idt = "firmware" /\ gates = {} /\ leftover \in BOOLEAN
  /\ output \in {"empty", "key", "mouse"} /\ mouse \in BOOLEAN
  /\ output = "mouse" => mouse
  /\ \E b \in FirmwareBases, m \in FirmwareMasks :
       chip = [c \in Chips |->
         [base |-> b[c], mask |-> m[c], isr |-> {}, icw |-> 0,
          irr |-> IF c = 1 /\ output = "key" THEN {KeyLine}
                  ELSE IF c = 2 /\ output = "mouse" THEN {MouseLine} ELSE {}]]
  /\ saved = [c \in Chips |-> 0]
  /\ typed = 0 /\ missed = FALSE

\* The next statement is an s, and the processor gets to it.
At(s) ==
  /\ cpu = "main" /\ pc <= Len(Script) /\ Script[pc][1] = s
  /\ pc' = pc + 1

SetGate ==
  /\ At("gate")
  /\ gates' = gates \cup {Script[pc][2]}
  /\ UNCHANGED <<cpu, flag, idt, leftover, chip, saved, world, missed>>

LoadIdt ==
  /\ At("lidt")
  /\ idt' = "kernel"
  /\ UNCHANGED <<cpu, flag, gates, leftover, chip, saved, world, missed>>

ReadMask ==
  /\ At("in")
  /\ LET c == Script[pc][2] IN saved' = [saved EXCEPT ![c] = chip[c].mask]
  /\ UNCHANGED <<cpu, flag, table, chip, world, missed>>

\* ICW1: the mask is cleared, and edges that were seen are forgotten.
WriteCommand ==
  /\ At("command")
  /\ LET c == Script[pc][2]
     IN  /\ chip' = [chip EXCEPT ![c] = Command(@)]
         /\ missed' = (missed \/ output = <<"key", "mouse">>[c])
  /\ UNCHANGED <<cpu, flag, table, saved, world>>

WriteData ==
  /\ \/ /\ At("data")
        /\ LET s == Script[pc] IN chip' = [chip EXCEPT ![s[2]] = Data(@, s[3])]
     \/ /\ At("restore")
        /\ LET c == Script[pc][2] IN chip' = [chip EXCEPT ![c] = Data(@, saved[c])]
  /\ UNCHANGED <<cpu, flag, table, saved, world, missed>>

EnableInterrupts ==
  /\ At("sti")
  /\ flag' = TRUE
  /\ UNCHANGED <<cpu, table, chip, saved, world, missed>>

\* in = getPool(bufferSize), main's fifth call after interuptInit.
SetInput ==
  /\ At("input")
  /\ UNCHANGED <<cpu, flag, table, chip, saved, world, missed>>

Boot ==
  \/ SetGate \/ LoadIdt \/ ReadMask \/ WriteCommand \/ WriteData
  \/ EnableInterrupts \/ SetInput

MasksSet == pc > Len(Script) - 3   \* the master's
InputReady == pc > Len(Script)

-------------------------------------------------------------------------------
(* Interrupts.                                                             *)

\* What the processor may do with vector v.  The firmware's table is not
\* mapped any more.  setGate leaves the stack field of a gate as it was, and
\* gates that are not set are whatever the page held.  A gate that is not
\* present ends in a double fault.
Entry(v) ==
  IF idt = "firmware" \/ 8 \notin gates THEN {"reset"}
  ELSE {IF v = 33 /\ v \in gates THEN "read" ELSE "panic"}
         \cup {o \in {"wild"} : leftover}

Interrupt ==
  /\ cpu = "main" /\ flag /\ MasterPending # {}
  /\ LET l == Min(MasterPending)
     IN  IF l # Cascade
         THEN /\ cpu' \in Entry(chip[1].base + l)
              /\ chip' = [chip EXCEPT ![1] = Serve(@, l)]
         ELSE /\ cpu' \in Entry(chip[2].base + Min(SlavePending))
              /\ chip' = [chip EXCEPT ![1] = Serve(@, l), ![2] = Serve(@, Min(SlavePending))]
  /\ flag' = FALSE
  /\ UNCHANGED <<pc, table, saved, world, missed>>

\* keyboardHandler reads the byte, and handles it (modules Keyboard and
\* Terminal).  While terminal.in is not set, a key that gives a character is
\* stored through NULL, where the kernel is linked to: over its own first byte,
\* or the first zero after it.  Other bytes change nothing but the flags.
ReadByte ==
  /\ cpu = "read"
  /\ output' = "empty"
  /\ cpu' \in {"end"} \cup {o \in {"wild"} : ~InputReady}
  /\ UNCHANGED <<pc, flag, table, chip, saved, typed, mouse, missed>>

\* and ends the interrupt: the line of the highest rank is no longer served.
EndMaster ==
  /\ cpu = "end"
  /\ chip' = [chip EXCEPT ![1].isr = {l \in @ : \E k \in @ : k < l}]
  /\ cpu' = "main" /\ flag' = TRUE
  /\ UNCHANGED <<pc, table, saved, world, missed>>

-------------------------------------------------------------------------------
(* The world (external).                                                   *)

Raise(c, l) == chip' = [chip EXCEPT ![c].irr = @ \cup {l}]

Tick ==
  /\ Raise(1, Timer)
  /\ UNCHANGED <<pc, cpu, flag, table, saved, world, missed>>

PressKey ==
  /\ output = "empty" /\ typed < MaxKeys
  /\ output' = "key" /\ typed' = typed + 1
  /\ Raise(1, KeyLine)
  /\ UNCHANGED <<pc, cpu, flag, table, saved, mouse, missed>>

MoveMouse ==
  /\ output = "empty" /\ mouse
  /\ output' = "mouse"
  /\ Raise(2, MouseLine)
  /\ UNCHANGED <<pc, cpu, flag, table, saved, typed, mouse, missed>>

Next == Boot \/ Interrupt \/ ReadByte \/ EndMaster \/ Tick \/ PressKey \/ MoveMouse

\* The processor goes on, and looks at its interrupt line while it does.
Fairness == WF_vars(Boot) /\ WF_vars(Interrupt) /\ WF_vars(ReadByte \/ EndMaster)

Spec == Init /\ [][Next]_vars /\ Fairness

-------------------------------------------------------------------------------
(* Properties.                                                             *)

Stopped == cpu \in {"panic", "reset", "wild"}

\* An interrupt stops the kernel only for one of four reasons: it came before
\* the master's mask was set, with the firmware's interrupt flag; the page of
\* the table was not empty; the mouse, whose line is not masked and whose
\* vector has no gate; or a key before terminal.init, which has no buffer yet.
StopsOnlyBy ==
  Stopped => \/ ~MasksSet \/ leftover \/ MouseLine \in chip[2].isr
             \/ ~InputReady /\ KeyLine \in chip[1].isr

\* A byte in the keyboard controller is read in the end, unless the kernel is
\* stopped, or the byte waited when remapPIC reset its controller: then its
\* edge is forgotten, no other can come, and the keyboard is dead.
BytesRead == output # "empty" ~> output = "empty" \/ Stopped \/ missed
===============================================================================
