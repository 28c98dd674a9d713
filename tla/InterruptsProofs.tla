----------------------------- MODULE InterruptsProofs -----------------------------
(***************************************************************************)
(* Proofs about the module Interrupts, for every state that the firmware   *)
(* may leave the controllers and the interrupt flag in, and for any number *)
(* of keys: what can stop the kernel while it programs the controllers.    *)
(***************************************************************************)
EXTENDS Interrupts, SequenceTheorems, TLAPS

\* The script, statement by statement.
LEMMA ScriptIs ==
  /\ Len(Script) = 21
  /\ Script[1] = <<"gate", 14>> /\ Script[2] = <<"gate", 8>>
  /\ Script[3] = <<"gate", 13>> /\ Script[4] = <<"gate", 33>>
  /\ Script[5] = <<"lidt">>
  /\ Script[6] = <<"in", 1>> /\ Script[7] = <<"in", 2>>
  /\ Script[8] = <<"command", 1>> /\ Script[9] = <<"command", 2>>
  /\ Script[10] = <<"data", 1, 32>> /\ Script[11] = <<"data", 2, 40>>
  /\ Script[12] = <<"data", 1, 4>> /\ Script[13] = <<"data", 2, 2>>
  /\ Script[14] = <<"data", 1, 1>> /\ Script[15] = <<"data", 2, 1>>
  /\ Script[16] = <<"restore", 1>> /\ Script[17] = <<"restore", 2>>
  /\ Script[18] = <<"data", 1, 249>> /\ Script[19] = <<"data", 2, 239>>
  /\ Script[20] = <<"sti">> /\ Script[21] = <<"input">>
<1>. DEFINE masks == << <<"data", 1, 249>>, <<"data", 2, 239>>, <<"sti">>, <<"input">> >>
            load == << <<"lidt">> >>
            Statement == {SetGates[i] : i \in 1 .. 4} \cup {RemapPIC[i] : i \in 1 .. 12}
                           \cup {masks[i] : i \in 1 .. 4} \cup { <<"lidt">> }
            first == SetGates \o load
            second == first \o RemapPIC
<1>1. Len(SetGates) = 4 /\ Len(RemapPIC) = 12 /\ Len(masks) = 4 /\ Len(load) = 1
  BY DEF SetGates, RemapPIC
<1>2. SetGates \in Seq(Statement) /\ load \in Seq(Statement) /\ masks \in Seq(Statement)
  BY DEF SetGates
<1>3. RemapPIC \in Seq(Statement)
  <2>1. \A i \in 1 .. 12 : RemapPIC[i] \in Statement
    OBVIOUS
  <2>2. \E g : RemapPIC = [i \in 1 .. 12 |-> g[i]]
    BY DEF RemapPIC
  <2>. HIDE DEF Statement
  <2>. QED BY <2>1, <2>2
<1>4. Script = second \o masks /\ load[1] = <<"lidt">>
  BY DEF Script
<1>5. masks[1] = <<"data", 1, 249>> /\ masks[2] = <<"data", 2, 239>> /\ masks[3] = <<"sti">> /\ masks[4] = <<"input">>
  OBVIOUS
<1>. HIDE DEF Statement, load, masks
<1>7. /\ first \in Seq(Statement) /\ Len(first) = 5
      /\ \A i \in 1 .. 4 : first[i] = SetGates[i]
      /\ \A i \in 1 .. 1 : first[4 + i] = load[i]
  <2>1. /\ SetGates \o load \in Seq(Statement) /\ Len(SetGates \o load) = Len(SetGates) + Len(load)
        /\ \A i \in 1 .. Len(SetGates) + Len(load) : (SetGates \o load)[i] =
             IF i <= Len(SetGates) THEN SetGates[i] ELSE load[i - Len(SetGates)]
    BY <1>2, ConcatProperties, Zenon
  <2>2. first = SetGates \o load
    BY Zenon DEF first
  <2>. HIDE DEF first
  <2>3. /\ first \in Seq(Statement) /\ Len(first) = Len(SetGates) + Len(load)
        /\ \A i \in 1 .. Len(SetGates) + Len(load) :
             first[i] = IF i <= Len(SetGates) THEN SetGates[i] ELSE load[i - Len(SetGates)]
    BY <2>1, <2>2, Zenon
  <2>. QED BY <1>1, <2>3
<1>. HIDE DEF first
<1>8. /\ second \in Seq(Statement) /\ Len(second) = 17
      /\ \A i \in 1 .. 5 : second[i] = first[i]
      /\ \A i \in 1 .. 12 : second[5 + i] = RemapPIC[i]
  <2>1. /\ first \o RemapPIC \in Seq(Statement) /\ Len(first \o RemapPIC) = Len(first) + Len(RemapPIC)
        /\ \A i \in 1 .. Len(first) + Len(RemapPIC) : (first \o RemapPIC)[i] =
             IF i <= Len(first) THEN first[i] ELSE RemapPIC[i - Len(first)]
    BY <1>3, <1>7, ConcatProperties, Zenon
  <2>2. second = first \o RemapPIC
    BY Zenon DEF second
  <2>. HIDE DEF second
  <2>3. /\ second \in Seq(Statement) /\ Len(second) = Len(first) + Len(RemapPIC)
        /\ \A i \in 1 .. Len(first) + Len(RemapPIC) :
             second[i] = IF i <= Len(first) THEN first[i] ELSE RemapPIC[i - Len(first)]
    BY <2>1, <2>2, Zenon
  <2>. QED BY <1>1, <1>7, <2>3
<1>. HIDE DEF second
<1>9. /\ Len(Script) = 21
      /\ \A i \in 1 .. 17 : Script[i] = second[i]
      /\ \A i \in 1 .. 4 : Script[17 + i] = masks[i]
  <2>1. /\ second \o masks \in Seq(Statement) /\ Len(second \o masks) = Len(second) + Len(masks)
        /\ \A i \in 1 .. Len(second) + Len(masks) : (second \o masks)[i] =
             IF i <= Len(second) THEN second[i] ELSE masks[i - Len(second)]
    <3>1. second \in Seq(Statement) /\ masks \in Seq(Statement)
      BY <1>2, <1>8
    <3>. QED BY <3>1, ConcatProperties, Zenon
  <2>2. /\ Script \in Seq(Statement) /\ Len(Script) = Len(second) + Len(masks)
        /\ \A i \in 1 .. Len(second) + Len(masks) :
             Script[i] = IF i <= Len(second) THEN second[i] ELSE masks[i - Len(second)]
    BY <1>4, <2>1, Zenon
  <2>. QED BY <1>1, <1>8, <2>2
<1>10. /\ \A i \in 1 .. 4 : Script[i] = SetGates[i]
       /\ Script[5] = load[1]
       /\ \A i \in 1 .. 12 : Script[5 + i] = RemapPIC[i]
  BY <1>7, <1>8, <1>9
<1>11. /\ Script[1] = SetGates[1] /\ Script[2] = SetGates[2] /\ Script[3] = SetGates[3]
       /\ Script[4] = SetGates[4]
  BY <1>10
<1>12. /\ Script[6] = RemapPIC[1] /\ Script[7] = RemapPIC[2] /\ Script[8] = RemapPIC[3]
       /\ Script[9] = RemapPIC[4] /\ Script[10] = RemapPIC[5] /\ Script[11] = RemapPIC[6]
       /\ Script[12] = RemapPIC[7] /\ Script[13] = RemapPIC[8] /\ Script[14] = RemapPIC[9]
       /\ Script[15] = RemapPIC[10] /\ Script[16] = RemapPIC[11] /\ Script[17] = RemapPIC[12]
  BY <1>10
<1>13. Script[18] = masks[1] /\ Script[19] = masks[2] /\ Script[20] = masks[3]
       /\ Script[21] = masks[4]
  BY <1>9
<1>14. /\ SetGates[1] = <<"gate", 14>> /\ SetGates[2] = <<"gate", 8>>
       /\ SetGates[3] = <<"gate", 13>> /\ SetGates[4] = <<"gate", 33>>
  BY DEF SetGates
<1>15. /\ RemapPIC[1] = <<"in", 1>> /\ RemapPIC[2] = <<"in", 2>>
       /\ RemapPIC[3] = <<"command", 1>> /\ RemapPIC[4] = <<"command", 2>>
       /\ RemapPIC[5] = <<"data", 1, 32>> /\ RemapPIC[6] = <<"data", 2, 40>>
       /\ RemapPIC[7] = <<"data", 1, 4>> /\ RemapPIC[8] = <<"data", 2, 2>>
       /\ RemapPIC[9] = <<"data", 1, 1>> /\ RemapPIC[10] = <<"data", 2, 1>>
       /\ RemapPIC[11] = <<"restore", 1>> /\ RemapPIC[12] = <<"restore", 2>>
  BY DEF RemapPIC
<1>16. Len(Script) = 21
  BY <1>9
<1>17. Script[5] = <<"lidt">>
  <2>1. Script[5] = load[1]
    BY <1>10
  <2>. QED BY <1>4, <2>1, Zenon
<1>18. /\ Script[1] = <<"gate", 14>> /\ Script[2] = <<"gate", 8>>
       /\ Script[3] = <<"gate", 13>> /\ Script[4] = <<"gate", 33>>
  BY <1>11, <1>14
<1>19. /\ Script[6] = <<"in", 1>> /\ Script[7] = <<"in", 2>>
       /\ Script[8] = <<"command", 1>> /\ Script[9] = <<"command", 2>>
       /\ Script[10] = <<"data", 1, 32>> /\ Script[11] = <<"data", 2, 40>>
       /\ Script[12] = <<"data", 1, 4>> /\ Script[13] = <<"data", 2, 2>>
       /\ Script[14] = <<"data", 1, 1>> /\ Script[15] = <<"data", 2, 1>>
       /\ Script[16] = <<"restore", 1>> /\ Script[17] = <<"restore", 2>>
  BY <1>12, <1>15
<1>20. /\ Script[18] = <<"data", 1, 249>> /\ Script[19] = <<"data", 2, 239>>
       /\ Script[20] = <<"sti">> /\ Script[21] = <<"input">>
  BY <1>5, <1>13
<1>. QED BY <1>16, <1>17, <1>18, <1>19, <1>20, Zenon

\* Which statements are of which kind.
LEMMA StatementsOf ==
  ASSUME NEW p \in 1 .. 21
  PROVE  /\ Script[p][1] = "gate" => p \in 1 .. 4
         /\ Script[p][1] = "lidt" => p = 5
         /\ Script[p][1] = "in" => p \in 6 .. 7 /\ Script[p][2] \in Chips
         /\ Script[p][1] = "command" => p \in 8 .. 9 /\ Script[p][2] = p - 7
         /\ Script[p][1] = "restore" => p \in 16 .. 17 /\ Script[p][2] = p - 15
         /\ Script[p][1] = "sti" => p = 20
         /\ Script[p][1] = "input" => p = 21
         /\ Script[p][1] = "data" => /\ p \in (10 .. 15) \cup {18, 19}
                                     /\ Script[p][2] = (p % 2) + 1
<1>1. CASE p \in 1 .. 4
  <2>1. p = 1 \/ p = 2 \/ p = 3 \/ p = 4
    BY <1>1
  <2>2. CASE p = 1
    BY <2>2, ScriptIs
  <2>3. CASE p = 2
    BY <2>3, ScriptIs
  <2>4. CASE p = 3
    BY <2>4, ScriptIs
  <2>5. CASE p = 4
    BY <2>5, ScriptIs
  <2>. QED BY <2>1, <2>2, <2>3, <2>4, <2>5
<1>2. CASE p \in 5 .. 7
  <2>1. p = 5 \/ p = 6 \/ p = 7
    BY <1>2
  <2>2. CASE p = 5
    BY <2>2, ScriptIs DEF Chips
  <2>3. CASE p = 6
    BY <2>3, ScriptIs DEF Chips
  <2>4. CASE p = 7
    BY <2>4, ScriptIs DEF Chips
  <2>. QED BY <2>1, <2>2, <2>3, <2>4
<1>3. CASE p \in 8 .. 9
  <2>1. p = 8 \/ p = 9
    BY <1>3
  <2>2. CASE p = 8
    BY <2>2, ScriptIs
  <2>3. CASE p = 9
    BY <2>3, ScriptIs
  <2>. QED BY <2>1, <2>2, <2>3
<1>4. CASE p \in 10 .. 12
  <2>1. p = 10 \/ p = 11 \/ p = 12
    BY <1>4
  <2>2. CASE p = 10
    BY <2>2, ScriptIs
  <2>3. CASE p = 11
    BY <2>3, ScriptIs
  <2>4. CASE p = 12
    BY <2>4, ScriptIs
  <2>. QED BY <2>1, <2>2, <2>3, <2>4
<1>5. CASE p \in 13 .. 15
  <2>1. p = 13 \/ p = 14 \/ p = 15
    BY <1>5
  <2>2. CASE p = 13
    BY <2>2, ScriptIs
  <2>3. CASE p = 14
    BY <2>3, ScriptIs
  <2>4. CASE p = 15
    BY <2>4, ScriptIs
  <2>. QED BY <2>1, <2>2, <2>3, <2>4
<1>6. CASE p \in 16 .. 17
  <2>1. p = 16 \/ p = 17
    BY <1>6
  <2>2. CASE p = 16
    BY <2>2, ScriptIs
  <2>3. CASE p = 17
    BY <2>3, ScriptIs
  <2>. QED BY <2>1, <2>2, <2>3
<1>7. CASE p \in 18 .. 21
  <2>1. p = 18 \/ p = 19 \/ p = 20 \/ p = 21
    BY <1>7
  <2>2. CASE p = 18
    BY <2>2, ScriptIs
  <2>3. CASE p = 19
    BY <2>3, ScriptIs
  <2>4. CASE p = 20
    BY <2>4, ScriptIs
  <2>5. CASE p = 21
    BY <2>5, ScriptIs
  <2>. QED BY <2>1, <2>2, <2>3, <2>4, <2>5
<1>. QED BY <1>1, <1>2, <1>3, <1>4, <1>5, <1>6, <1>7

-------------------------------------------------------------------------------
(* The inductive invariant.                                                *)

Byte == 0 .. 255
Lines == 0 .. 7
Controller == [base : Byte, mask : Byte, isr : SUBSET Lines, icw : {0, 2, 3, 4},
               irr : SUBSET Lines]

Typed ==
  /\ pc \in 1 .. 22
  /\ cpu \in {"main", "read", "end", "panic", "reset", "wild"}
  /\ chip \in [Chips -> Controller]
  /\ saved \in [Chips -> Byte]

\* Timer, keyboard and mouse are all that ask for an interrupt.
Asked == chip[1].irr \subseteq {Timer, KeyLine} /\ chip[2].irr \subseteq {MouseLine}

\* What the script has done to the table and to the master.
Programmed ==
  /\ pc > 2 => 8 \in gates
  /\ pc > 4 => 33 \in gates
  /\ pc > 5 => idt = "kernel"
  /\ chip[1].icw = IF pc \in 9 .. 10 THEN 2 ELSE IF pc \in 11 .. 12 THEN 3
                   ELSE IF pc \in 13 .. 14 THEN 4 ELSE 0
  /\ pc > 10 => chip[1].base = 32
  /\ pc > 18 => chip[1].mask = 249

\* The keyboard's handler runs for the keyboard or, if its vector were 33, the
\* mouse.
Reading ==
  cpu = "read" /\ MasksSet => KeyLine \in chip[1].isr \/ MouseLine \in chip[2].isr

IInv == Typed /\ Asked /\ Programmed /\ Reading /\ StopsOnlyBy

-------------------------------------------------------------------------------
(* The controllers.                                                        *)

LEMMA SlaveLine ==
  ASSUME IInv
  PROVE  SlavePending = {} \/ (SlavePending = {MouseLine} /\ Min(SlavePending) = MouseLine)
<1>1. SlavePending \subseteq {MouseLine}
  BY DEF IInv, Asked, SlavePending, Pending
<1>2. Min({MouseLine}) = MouseLine
  BY DEF Min, MouseLine
<1>. QED BY <1>1, <1>2

\* The line that the master chooses is pending.
LEMMA MasterLine ==
  ASSUME IInv, MasterPending # {}
  PROVE  /\ Min(MasterPending) \in MasterPending
         /\ Min(MasterPending) \in {Timer, KeyLine, Cascade}
         /\ Min(MasterPending) = Cascade => SlavePending # {}
<1>1. MasterPending \subseteq 0 .. 2
  BY DEF IInv, Asked, MasterPending, Pending, Timer, KeyLine, Cascade
<1>2. \E x \in MasterPending : \A y \in MasterPending : x =< y
  <2>1. CASE 0 \in MasterPending
    BY <1>1, <2>1
  <2>2. CASE 0 \notin MasterPending /\ 1 \in MasterPending
    BY <1>1, <2>2
  <2>3. CASE 0 \notin MasterPending /\ 1 \notin MasterPending
    <3>1. PICK x \in MasterPending : TRUE
      OBVIOUS
    <3>2. \A y \in MasterPending : y = 2
      BY <1>1, <2>3
    <3>. QED BY <3>1, <3>2
  <2>. QED BY <2>1, <2>2, <2>3
<1>3. Min(MasterPending) \in MasterPending
  BY <1>2, Zenon DEF Min
<1>4. Cascade \in MasterPending => SlavePending # {}
  BY DEF IInv, Asked, MasterPending, Pending, Timer, KeyLine, Cascade
<1>5. Min(MasterPending) \in 0 .. 2
  BY <1>1, <1>3
<1>6. Min(MasterPending) \in {Timer, KeyLine, Cascade}
  <2>. DEFINE l == Min(MasterPending)
  <2>1. l \in 0 .. 2
    BY <1>5
  <2>. HIDE DEF l
  <2>2. l \in {Timer, KeyLine, Cascade}
    BY <2>1 DEF Timer, KeyLine, Cascade
  <2>. QED BY <2>2 DEF l
<1>. QED BY <1>3, <1>4, <1>6, Zenon

\* With the kernel's mask the timer is not served.
LEMMA TimerMasked ==
  ASSUME chip[1].mask = 249
  PROVE  Timer \notin MasterPending
<1>1. Bit[Timer + 1] = 1
  BY DEF Bit, Timer
<1>2. Masked(chip[1], Timer)
  BY <1>1 DEF Masked
<1>. QED BY <1>2, Zenon DEF MasterPending, Pending

LEMMA DataType ==
  ASSUME NEW c \in Controller, NEW byte \in Byte
  PROVE  Data(c, byte) \in Controller
<1>1. CASE c.icw = 0
  BY <1>1 DEF Data, Controller
<1>2. CASE c.icw = 2
  BY <1>2 DEF Data, Controller
<1>3. CASE c.icw = 3
  BY <1>3 DEF Data, Controller
<1>4. CASE c.icw = 4
  BY <1>4 DEF Data, Controller
<1>. QED BY <1>1, <1>2, <1>3, <1>4 DEF Controller

LEMMA DataFacts ==
  ASSUME NEW c \in Controller, NEW byte \in Byte
  PROVE  /\ Data(c, byte).irr = c.irr /\ Data(c, byte).isr = c.isr
         /\ c.icw = 0 => /\ Data(c, byte).icw = 0 /\ Data(c, byte).base = c.base
                         /\ Data(c, byte).mask = byte
         /\ c.icw = 2 => Data(c, byte).icw = 3 /\ Data(c, byte).base = byte
         /\ c.icw = 3 => Data(c, byte).icw = 4 /\ Data(c, byte).base = c.base
         /\ c.icw = 4 => Data(c, byte).icw = 0 /\ Data(c, byte).base = c.base
<1>1. CASE c.icw = 0
  <2>1. Data(c, byte) = [c EXCEPT !.mask = byte]
    BY <1>1 DEF Data
  <2>. QED BY <1>1, <2>1 DEF Controller
<1>2. CASE c.icw = 2
  <2>1. Data(c, byte) = [c EXCEPT !.base = byte, !.icw = 3]
    BY <1>2 DEF Data
  <2>. QED BY <1>2, <2>1 DEF Controller
<1>3. CASE c.icw = 3
  <2>1. Data(c, byte) = [c EXCEPT !.icw = 4]
    BY <1>3 DEF Data
  <2>. QED BY <1>3, <2>1 DEF Controller
<1>4. CASE c.icw = 4
  <2>1. Data(c, byte) = [c EXCEPT !.icw = 0]
    BY <1>4 DEF Data
  <2>. QED BY <1>4, <2>1 DEF Controller
<1>5. c.icw \in {0, 2, 3, 4}
  BY DEF Controller
<1>. QED BY <1>1, <1>2, <1>3, <1>4, <1>5

-------------------------------------------------------------------------------
(* The steps.                                                              *)

LEMMA InitInv == Init => IInv
<1>. SUFFICES ASSUME Init PROVE IInv
  OBVIOUS
<1>1. PICK b \in FirmwareBases, k \in FirmwareMasks :
        chip = [c \in Chips |->
          [base |-> b[c], mask |-> k[c], isr |-> {}, icw |-> 0,
           irr |-> IF c = 1 /\ output = "key" THEN {KeyLine}
                   ELSE IF c = 2 /\ output = "mouse" THEN {MouseLine} ELSE {}]]
  BY DEF Init
<1>2. \A c \in Chips : b[c] \in Byte /\ k[c] \in Byte
  BY FirmwareAssumption DEF Chips, Byte
<1>3. chip \in [Chips -> Controller]
  BY <1>1, <1>2 DEF Controller, Lines, KeyLine, MouseLine
<1>4. Asked
  BY <1>1 DEF Asked, Chips
<1>5. chip[1].icw = 0
  BY <1>1 DEF Chips
<1>6. Typed
  BY <1>3 DEF Init, Typed, Byte
<1>. QED BY <1>4, <1>5, <1>6 DEF Init, IInv, Programmed, Reading, StopsOnlyBy, Stopped

\* A step that leaves the script, the table and what is programmed as they are.
LEMMA AsideStep ==
  ASSUME IInv, UNCHANGED <<pc, table, saved>>,
         chip' \in [Chips -> Controller], Asked',
         \A f \in {"icw", "base", "mask"} : chip'[1][f] = chip[1][f],
         \/ cpu' \in {"main", "end"}
         \/ cpu' = cpu /\ \A c \in Chips : chip'[c].isr = chip[c].isr
  PROVE  IInv'
<1>1. Typed'
  BY DEF IInv, Typed
<1>2. Programmed'
  BY DEF IInv, Programmed, table
<1>3. StopsOnlyBy'
  BY DEF IInv, StopsOnlyBy, Stopped, MasksSet, InputReady, table, Chips
<1>4. Reading'
  BY DEF IInv, Reading, MasksSet, Chips
<1>. QED BY <1>1, <1>2, <1>3, <1>4 DEF IInv

\* A statement of the script, which runs when nothing has stopped the kernel.
LEMMA ScriptStep ==
  ASSUME IInv, pc' = pc + 1, cpu = "main", cpu' = cpu, pc \in 1 .. 21,
         chip' \in [Chips -> Controller], saved' \in [Chips -> Byte], Asked', Programmed'
  PROVE  IInv'
<1>1. Typed'
  BY DEF IInv, Typed
<1>2. StopsOnlyBy' /\ Reading'
  BY DEF StopsOnlyBy, Stopped, Reading
<1>. QED BY <1>1, <1>2 DEF IInv

LEMMA AtFacts ==
  ASSUME IInv, NEW s, At(s)
  PROVE  /\ cpu = "main" /\ pc \in 1 .. 21 /\ pc' = pc + 1 /\ Script[pc][1] = s
         /\ chip \in [Chips -> Controller] /\ saved \in [Chips -> Byte]
         /\ 1 \in Chips /\ 2 \in Chips
BY ScriptIs DEF At, IInv, Typed, Chips

LEMMA PlainStatement ==
  ASSUME IInv, SetGate \/ LoadIdt \/ ReadMask \/ EnableInterrupts \/ SetInput
  PROVE  IInv'
<1>1. CASE SetGate
  <2>1. At("gate") /\ gates' = gates \cup {Script[pc][2]}
        /\ UNCHANGED <<cpu, idt, leftover, chip, saved>>
    BY <1>1 DEF SetGate
  <2>2. /\ cpu = "main" /\ pc \in 1 .. 21 /\ pc' = pc + 1 /\ Script[pc][1] = "gate"
        /\ chip \in [Chips -> Controller] /\ saved \in [Chips -> Byte]
    BY <2>1, AtFacts
  <2>3. pc \in 1 .. 4
    BY <2>2, StatementsOf
  <2>4. pc = 2 => 8 \in gates'
    BY <2>1, ScriptIs
  <2>5. pc = 4 => 33 \in gates'
    BY <2>1, ScriptIs
  <2>6. Programmed'
    BY <2>1, <2>2, <2>3, <2>4, <2>5 DEF IInv, Programmed
  <2>7. Asked'
    BY <2>1 DEF IInv, Asked
  <2>. QED BY <2>1, <2>2, <2>6, <2>7, ScriptStep
<1>2. CASE LoadIdt
  <2>1. At("lidt") /\ idt' = "kernel" /\ UNCHANGED <<cpu, gates, leftover, chip, saved>>
    BY <1>2 DEF LoadIdt
  <2>2. /\ cpu = "main" /\ pc \in 1 .. 21 /\ pc' = pc + 1 /\ Script[pc][1] = "lidt"
        /\ chip \in [Chips -> Controller] /\ saved \in [Chips -> Byte]
    BY <2>1, AtFacts
  <2>3. pc = 5
    BY <2>2, StatementsOf
  <2>4. Programmed' /\ Asked'
    BY <2>1, <2>2, <2>3 DEF IInv, Programmed, Asked
  <2>. QED BY <2>1, <2>2, <2>4, ScriptStep
<1>3. CASE ReadMask
  <2>1. /\ At("in") /\ UNCHANGED <<cpu, table, chip>>
        /\ saved' = [saved EXCEPT ![Script[pc][2]] = chip[Script[pc][2]].mask]
    BY <1>3 DEF ReadMask
  <2>2. /\ cpu = "main" /\ pc \in 1 .. 21 /\ pc' = pc + 1 /\ Script[pc][1] = "in"
        /\ chip \in [Chips -> Controller] /\ saved \in [Chips -> Byte]
    BY <2>1, AtFacts
  <2>3. pc \in 6 .. 7 /\ Script[pc][2] \in Chips
    BY <2>2, StatementsOf
  <2>4. saved' \in [Chips -> Byte]
    BY <2>1, <2>2, <2>3 DEF Controller
  <2>5. Programmed' /\ Asked'
    BY <2>1, <2>2, <2>3 DEF IInv, Programmed, Asked, table
  <2>. QED BY <2>1, <2>2, <2>4, <2>5, ScriptStep
<1>4. CASE EnableInterrupts
  <2>1. At("sti") /\ UNCHANGED <<cpu, table, chip, saved>>
    BY <1>4 DEF EnableInterrupts
  <2>2. /\ cpu = "main" /\ pc \in 1 .. 21 /\ pc' = pc + 1 /\ Script[pc][1] = "sti"
        /\ chip \in [Chips -> Controller] /\ saved \in [Chips -> Byte]
    BY <2>1, AtFacts
  <2>3. pc = 20
    BY <2>2, StatementsOf
  <2>4. Programmed' /\ Asked'
    BY <2>1, <2>2, <2>3 DEF IInv, Programmed, Asked, table
  <2>. QED BY <2>1, <2>2, <2>4, ScriptStep
<1>5. CASE SetInput
  <2>1. At("input") /\ UNCHANGED <<cpu, table, chip, saved>>
    BY <1>5 DEF SetInput
  <2>2. /\ cpu = "main" /\ pc \in 1 .. 21 /\ pc' = pc + 1 /\ Script[pc][1] = "input"
        /\ chip \in [Chips -> Controller] /\ saved \in [Chips -> Byte]
    BY <2>1, AtFacts
  <2>3. pc = 21
    BY <2>2, StatementsOf
  <2>4. Programmed' /\ Asked'
    BY <2>1, <2>2, <2>3 DEF IInv, Programmed, Asked, table
  <2>. QED BY <2>1, <2>2, <2>4, ScriptStep
<1>. QED BY <1>1, <1>2, <1>3, <1>4, <1>5

\* ICW1 makes the master wait for its vectors.
LEMMA CommandStep ==
  ASSUME IInv, WriteCommand
  PROVE  IInv'
<1>1. /\ At("command") /\ UNCHANGED <<cpu, table, saved>>
      /\ chip' = [chip EXCEPT ![Script[pc][2]] = Command(@)]
  BY DEF WriteCommand
<1>2. /\ cpu = "main" /\ pc \in 1 .. 21 /\ pc' = pc + 1 /\ Script[pc][1] = "command"
      /\ chip \in [Chips -> Controller] /\ saved \in [Chips -> Byte]
      /\ 1 \in Chips /\ 2 \in Chips
  BY <1>1, AtFacts
<1>. DEFINE c == Script[pc][2]
<1>3. pc \in 8 .. 9 /\ c = pc - 7
  BY <1>2, StatementsOf
<1>4. c \in Chips
  BY <1>3 DEF Chips
<1>5. chip' = [chip EXCEPT ![c] = Command(chip[c])]
  BY <1>1
<1>. HIDE DEF c
<1>6. /\ Command(chip[c]) \in Controller /\ Command(chip[c]).irr = {}
      /\ Command(chip[c]).icw = 2
  <2>1. chip[c] \in Controller
    BY <1>2, <1>4
  <2>2. {} \in SUBSET Lines /\ 0 \in Byte
    BY DEF Byte
  <2>3. ASSUME NEW r \in Controller
        PROVE  Command(r) \in Controller
    BY <2>2, <2>3 DEF Command, Controller
  <2>4. ASSUME NEW r \in Controller
        PROVE  Command(r).irr = {} /\ Command(r).icw = 2
    BY <2>4 DEF Command, Controller
  <2>. QED BY <2>1, <2>3, <2>4
<1>7. chip' \in [Chips -> Controller]
  BY <1>2, <1>4, <1>5, <1>6
<1>8. Asked'
  BY <1>2, <1>4, <1>5, <1>6 DEF IInv, Asked
<1>9. Programmed'
  <2>1. CASE pc = 8
    <3>1. c = 1
      BY <1>3, <2>1
    <3>2. chip'[1].icw = 2
      BY <1>2, <1>5, <1>6, <3>1
    <3>. QED BY <1>1, <1>2, <2>1, <3>2 DEF IInv, Programmed, table
  <2>2. CASE pc = 9
    <3>1. c = 2
      BY <1>3, <2>2
    <3>2. chip'[1] = chip[1]
      BY <1>2, <1>5, <3>1
    <3>. QED BY <1>1, <1>2, <2>2, <3>2 DEF IInv, Programmed, table
  <2>. QED BY <1>3, <2>1, <2>2
<1>. QED BY <1>1, <1>2, <1>7, <1>8, <1>9, ScriptStep

\* The words on the data ports: the master's vectors, and in the end its mask.
LEMMA DataStep ==
  ASSUME IInv, WriteData
  PROVE  IInv'
<1>1. PICK s \in {"data", "restore"} : /\ At(s)
                                       /\ s = "data" => chip' = [chip EXCEPT ![Script[pc][2]] = Data(@, Script[pc][3])]
                                       /\ s = "restore" => chip' = [chip EXCEPT ![Script[pc][2]] = Data(@, saved[Script[pc][2]])]
  BY DEF WriteData
<1>2. UNCHANGED <<cpu, table, saved>>
  BY DEF WriteData
<1>3. /\ cpu = "main" /\ pc \in 1 .. 21 /\ pc' = pc + 1 /\ Script[pc][1] = s
      /\ chip \in [Chips -> Controller] /\ saved \in [Chips -> Byte]
      /\ 1 \in Chips /\ 2 \in Chips
  BY <1>1, AtFacts
<1>. DEFINE c == Script[pc][2]
            byte == IF s = "data" THEN Script[pc][3] ELSE saved[c]
<1>4. /\ pc \in 10 .. 19
      /\ c = (pc % 2) + 1
      /\ s = "data" <=> pc \in (10 .. 15) \cup {18, 19}
  <2>1. s = "data" => pc \in (10 .. 15) \cup {18, 19} /\ c = (pc % 2) + 1
    BY <1>3, StatementsOf
  <2>2. s = "restore" => pc \in 16 .. 17 /\ c = pc - 15
    BY <1>3, StatementsOf
  <2>. HIDE DEF c
  <2>3. pc \in 16 .. 17 => pc - 15 = (pc % 2) + 1
    OBVIOUS
  <2>. QED BY <2>1, <2>2, <2>3
<1>5. c \in Chips
  <2>. HIDE DEF c
  <2>. QED BY <1>4 DEF Chips
<1>6. chip' = [chip EXCEPT ![c] = Data(chip[c], byte)]
  BY <1>1
<1>7. byte \in Byte
  <2>1. CASE s = "restore"
    BY <1>3, <1>5, <2>1
  <2>2. CASE s = "data"
    <3>1. pc = 10 \/ pc = 11 \/ pc = 12 \/ pc = 13 \/ pc = 14 \/ pc = 15 \/ pc = 18 \/ pc = 19
      BY <1>4, <2>2
    <3>2. Script[pc][3] \in Byte
      BY <3>1, ScriptIs DEF Byte
    <3>. QED BY <2>2, <3>2
  <2>. QED BY <2>1, <2>2
<1>8. /\ pc = 10 => byte = 32
      /\ pc = 18 => byte = 249
  <2>1. pc \in {10, 18} => s = "data"
    BY <1>4
  <2>2. (pc = 10 => Script[pc][3] = 32) /\ (pc = 18 => Script[pc][3] = 249)
    BY ScriptIs
  <2>. QED BY <2>1, <2>2
<1>. HIDE DEF c, byte
<1>. DEFINE d == Data(chip[c], byte)
<1>9. d \in Controller
  BY <1>3, <1>5, <1>7, DataType
<1>10. d.irr = chip[c].irr
  BY <1>3, <1>5, <1>7, DataFacts
<1>11. ASSUME c = 1
       PROVE  /\ (chip[1].icw = 0) => (d.icw = 0 /\ d.base = chip[1].base /\ d.mask = byte)
              /\ (chip[1].icw = 2) => (d.icw = 3 /\ d.base = byte)
              /\ (chip[1].icw = 3) => (d.icw = 4 /\ d.base = chip[1].base)
              /\ (chip[1].icw = 4) => (d.icw = 0 /\ d.base = chip[1].base)
  BY <1>3, <1>5, <1>7, <1>11, DataFacts
<1>. HIDE DEF d
<1>12. chip' = [chip EXCEPT ![c] = d]
  BY <1>6 DEF d
<1>13. chip' \in [Chips -> Controller]
  BY <1>3, <1>5, <1>9, <1>12
<1>14. Asked'
  BY <1>3, <1>5, <1>10, <1>12 DEF IInv, Asked
<1>15. Programmed'
  <2>1. CASE c = 2
    <3>1. chip'[1] = chip[1] /\ pc \in {11, 13, 15, 17, 19}
      BY <1>3, <1>4, <1>12, <2>1
    <3>. QED BY <1>2, <1>3, <3>1 DEF IInv, Programmed, table
  <2>2. CASE c = 1
    <3>1. chip'[1] = d /\ pc \in {10, 12, 14, 16, 18}
      BY <1>3, <1>4, <1>12, <2>2
    <3>2. /\ pc > 2 => 8 \in gates
          /\ pc > 4 => 33 \in gates
          /\ pc > 5 => idt = "kernel"
      BY DEF IInv, Programmed
    <3>3. chip[1].icw = IF pc = 10 THEN 2 ELSE IF pc = 12 THEN 3 ELSE IF pc = 14 THEN 4 ELSE 0
      BY <3>1 DEF IInv, Programmed
    <3>4. pc > 10 => chip[1].base = 32
      BY DEF IInv, Programmed
    <3>5. chip'[1].icw = IF pc = 10 THEN 3 ELSE IF pc = 12 THEN 4 ELSE 0
      BY <1>11, <2>2, <3>1, <3>3
    <3>6. chip'[1].base = 32
      BY <1>8, <1>11, <2>2, <3>1, <3>3, <3>4
    <3>7. pc = 18 => chip'[1].mask = 249
      BY <1>8, <1>11, <2>2, <3>1, <3>3
    <3>. QED BY <1>2, <1>3, <3>1, <3>2, <3>5, <3>6, <3>7 DEF IInv, Programmed, table
  <2>. QED BY <1>5, <2>1, <2>2 DEF Chips
<1>. QED BY <1>2, <1>3, <1>13, <1>14, <1>15, ScriptStep

\* With its table, its vectors and its masks in place, the kernel takes an
\* interrupt of the keyboard, or one of the mouse.
LEMMA InterruptStep ==
  ASSUME IInv, Interrupt
  PROVE  IInv'
<1>. DEFINE l == Min(MasterPending)
            sl == Min(SlavePending)
<1>1. /\ cpu = "main" /\ MasterPending # {} /\ UNCHANGED <<pc, table, saved>>
      /\ l # Cascade => /\ cpu' \in Entry(chip[1].base + l)
                        /\ chip' = [chip EXCEPT ![1] = Serve(chip[1], l)]
      /\ l = Cascade => /\ cpu' \in Entry(chip[2].base + sl)
                        /\ chip' = [chip EXCEPT ![1] = Serve(chip[1], l),
                                                ![2] = Serve(chip[2], sl)]
  BY DEF Interrupt
<1>2. l \in MasterPending /\ l \in {Timer, KeyLine, Cascade}
      /\ (l = Cascade => sl = MouseLine)
  BY <1>1, MasterLine, SlaveLine
<1>3. chip \in [Chips -> Controller] /\ 1 \in Chips /\ 2 \in Chips
  BY DEF IInv, Typed, Chips
<1>. HIDE DEF l, sl
<1>4. \A c \in Chips, n \in Lines :
        LET s == Serve(chip[c], n)
        IN  /\ s \in Controller /\ s.irr \subseteq chip[c].irr /\ n \in s.isr
            /\ s.icw = chip[c].icw /\ s.base = chip[c].base /\ s.mask = chip[c].mask
  BY <1>3 DEF Serve, Controller
<1>5. l \in Lines /\ MouseLine \in Lines
  BY <1>2 DEF Lines, Timer, KeyLine, Cascade, MouseLine
<1>6. /\ chip' \in [Chips -> Controller] /\ Asked'
      /\ chip'[1].icw = chip[1].icw /\ chip'[1].base = chip[1].base
      /\ chip'[1].mask = chip[1].mask
      /\ l = Cascade => MouseLine \in chip'[2].isr
      /\ l \in chip'[1].isr
  <2>1. CASE l # Cascade
    BY <1>1, <1>3, <1>4, <1>5, <2>1 DEF IInv, Asked
  <2>2. CASE l = Cascade
    <3>1. chip' = [chip EXCEPT ![1] = Serve(chip[1], l), ![2] = Serve(chip[2], MouseLine)]
      BY <1>1, <1>2, <2>2
    <3>. QED BY <1>3, <1>4, <1>5, <3>1 DEF IInv, Asked
  <2>. QED BY <2>1, <2>2
<1>7. cpu' \in {"read", "panic", "reset", "wild"}
  BY <1>1 DEF Entry
<1>8. Typed' /\ Programmed'
  BY <1>1, <1>6, <1>7 DEF IInv, Typed, Programmed, table
<1>9. pc > 18 /\ l # Cascade => l = KeyLine /\ (leftover \/ cpu' = "read")
  <2>. SUFFICES ASSUME pc > 18, l # Cascade
                PROVE  l = KeyLine /\ (leftover \/ cpu' = "read")
    OBVIOUS
  <2>1. /\ 8 \in gates /\ 33 \in gates /\ idt = "kernel"
        /\ chip[1].base = 32 /\ chip[1].mask = 249
    BY DEF IInv, Typed, Programmed
  <2>2. l = KeyLine
    BY <1>2, <2>1, TimerMasked
  <2>3. cpu' \in Entry(33)
    BY <1>1, <2>1, <2>2 DEF KeyLine
  <2>. QED BY <2>1, <2>2, <2>3 DEF Entry
<1>10. pc' = pc /\ leftover' = leftover /\ (MasksSet' <=> pc > 18)
  <2>1. pc' = pc /\ leftover' = leftover /\ pc \in 1 .. 22
    BY <1>1 DEF table, IInv, Typed
  <2>. QED BY <2>1, ScriptIs DEF MasksSet
<1>11. StopsOnlyBy'
  BY <1>6, <1>9, <1>10, Zenon DEF StopsOnlyBy, Stopped
<1>12. Reading'
  BY <1>6, <1>9, <1>10, Zenon DEF Reading
<1>. QED BY <1>6, <1>8, <1>11, <1>12 DEF IInv

LEMMA OtherStep ==
  ASSUME IInv, ReadByte \/ EndMaster \/ Tick \/ PressKey \/ MoveMouse
  PROVE  IInv'
<1>1. chip \in [Chips -> Controller] /\ 1 \in Chips /\ 2 \in Chips
  BY DEF IInv, Typed, Chips
<1>2. CASE ReadByte
  <2>1. /\ UNCHANGED <<pc, table, chip, saved>> /\ cpu = "read"
        /\ cpu' = "end" \/ (cpu' = "wild" /\ ~InputReady)
    BY <1>2 DEF ReadByte
  <2>2. CASE cpu' = "end"
    BY <1>1, <2>1, <2>2, AsideStep DEF IInv, Asked
  <2>3. CASE cpu' = "wild" /\ ~InputReady
    <3>1. MasksSet' = MasksSet /\ InputReady' = InputReady
      BY <2>1 DEF MasksSet, InputReady
    <3>2. Typed' /\ Asked' /\ Programmed'
      BY <2>1, <2>3 DEF IInv, Typed, Asked, Programmed, table
    <3>3. StopsOnlyBy' /\ Reading'
      BY <2>1, <2>3, <3>1 DEF IInv, Reading, StopsOnlyBy
    <3>. QED BY <3>2, <3>3 DEF IInv
  <2>. QED BY <2>1, <2>2, <2>3
<1>3. CASE EndMaster
  <2>1. /\ UNCHANGED <<pc, table, saved>> /\ cpu' = "main"
        /\ chip' = [chip EXCEPT ![1].isr = {n \in @ : \E k \in @ : k < n}]
    BY <1>3 DEF EndMaster
  <2>2. /\ chip' \in [Chips -> Controller] /\ Asked'
        /\ \A f \in {"icw", "base", "mask"} : chip'[1][f] = chip[1][f]
    BY <1>1, <2>1 DEF Controller, IInv, Asked
  <2>. QED BY <2>1, <2>2, AsideStep
<1>4. CASE Tick \/ PressKey \/ MoveMouse
  <2>1. PICK c \in Chips, n \in Lines :
          /\ chip' = [chip EXCEPT ![c].irr = @ \cup {n}]
          /\ (c = 1 /\ n \in {Timer, KeyLine}) \/ (c = 2 /\ n = MouseLine)
    BY <1>1, <1>4 DEF Tick, PressKey, MoveMouse, Raise, Lines, Timer, KeyLine, MouseLine
  <2>2. UNCHANGED <<pc, cpu, table, saved>>
    BY <1>4 DEF Tick, PressKey, MoveMouse
  <2>3. /\ chip' \in [Chips -> Controller] /\ \A k \in Chips : chip'[k].isr = chip[k].isr
        /\ \A f \in {"icw", "base", "mask"} : chip'[1][f] = chip[1][f]
    BY <1>1, <2>1 DEF Controller
  <2>4. Asked'
    BY <1>1, <2>1 DEF IInv, Asked, Controller
  <2>. QED BY <2>2, <2>3, <2>4, AsideStep
<1>. QED BY <1>2, <1>3, <1>4

LEMMA StepInv == IInv /\ [Next]_vars => IInv'
<1>. SUFFICES ASSUME IInv, [Next]_vars PROVE IInv'
  OBVIOUS
<1>1. CASE UNCHANGED vars
  <2>1. UNCHANGED <<pc, table, saved, chip, cpu>>
    BY <1>1 DEF vars
  <2>. QED BY <2>1, AsideStep DEF IInv, Typed, Asked
<1>. QED BY <1>1, PlainStatement, CommandStep, DataStep, InterruptStep, OtherStep DEF Next, Boot

-------------------------------------------------------------------------------
(* Theorems.                                                               *)

THEOREM AlwaysIInv == Spec => []IInv
<1>. QED BY InitInv, StepInv, PTL DEF Spec

\* Whatever the firmware left in the controllers, and whenever timer, keyboard
\* and mouse interrupt, the kernel is stopped only before the master's mask is
\* set, by a table that was not empty, by the mouse, or by a key before
\* terminal.init has set terminal.in.
THEOREM StopsForFourReasons == Spec => []StopsOnlyBy
<1>1. IInv => StopsOnlyBy
  BY DEF IInv
<1>. QED BY <1>1, AlwaysIInv, PTL

===============================================================================
