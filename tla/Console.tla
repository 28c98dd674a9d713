-------------------------------- MODULE Console ---------------------------------
(***************************************************************************)
(* What the kernel writes at the cursor `cur' of                           *)
(* src/kernel/src/basicRenderer.cpp: the log of _start (main.cpp), and the *)
(* messages of panic (kernelFunc.cpp) and of getPage.  The screen is a     *)
(* grid of cells; drawing a character adds it to the cell, since glyphs    *)
(* only set pixels.  Strings count by their length.                        *)
(***************************************************************************)
EXTENDS Cursor, Sequences, FiniteSets

CONSTANTS
  Columns, Rows,     \* of the screen
  Lengths,           \* of the strings that are printed
  LengthWrap,        \* 256: print counts the characters in a byte
  PanicColumns,      \* the columns that panic clears: 25
  MaxStrings         \* bound: strings printed

ASSUME ConsoleAssumption ==
  /\ Columns \in Nat \ {0} /\ Rows \in Nat \ {0} /\ Columns < Wrap /\ Rows < Wrap
  /\ Lengths \subseteq Nat
  /\ LengthWrap \in Nat \ {0} /\ PanicColumns \in Nat /\ MaxStrings \in Nat

Cells == (0 .. Columns - 1) \X (0 .. Rows - 1)
Blank == [c \in Cells |-> <<>>]

VARIABLES
  cur,       \* the cursor
  drawn,     \* the strings whose characters are drawn in a cell
  strings,   \* the strings so far: how each was printed, and its length
  stage,     \* "log"; "reset" while the terminal is set up; "terminal"
  panicked   \* how the kernel gave up, if it has

consoleVars == <<cur, drawn, strings, stage, panicked>>

-------------------------------------------------------------------------------

ConsoleInit ==
  /\ cur = [x |-> 0, y |-> 0, xm |-> Columns - 1, ym |-> Rows - 1]
  /\ drawn = Blank
  /\ strings = <<>> /\ stage = "log" /\ panicked = "no"

At(c) == <<c.x, c.y>>

\* printChar at the cursor of the screen s, for string number k.
PutChar(s, k) ==
  LET c == IF s.cur.x > s.cur.xm THEN NewLine(s.cur) ELSE s.cur
  IN  [cur |-> Right(c), drawn |-> [s.drawn EXCEPT ![At(c)] = Append(@, k)]]

\* n characters, one after the other: printString.
PutString(s, k, n) ==
  LET after[i \in 0 .. n] == IF i = 0 THEN s ELSE PutChar(after[i - 1], k)
  IN  after[n]

\* Mutant of Fitted: a string may end where the next row begins.
FittedLate(c, n) == IF c.xm - c.x + 2 < n % LengthWrap THEN NewLine(c) ELSE c

\* print starts a new row for a string that does not fit, by a count that wraps.
Fitted(c, n) == IF (c.xm - c.x) % Wrap < n % LengthWrap THEN NewLine(c) ELSE c

Show(s, how, n) ==
  LET after == PutString(s, Len(strings) + 1, n)
  IN  /\ cur' = after.cur /\ drawn' = after.drawn
      /\ strings' = Append(strings, [how |-> how, length |-> n])

Running == panicked = "no" /\ Len(strings) < MaxStrings

\* A column of the log, separated strings of different lengths.
PrintFitted ==
  /\ Running /\ stage = "log"
  /\ \E n \in Lengths : Show([cur |-> Fitted(cur, n), drawn |-> drawn], "print", n)
  /\ UNCHANGED <<stage, panicked>>

PrintString ==
  /\ Running /\ stage = "log"
  /\ \E n \in Lengths : Show([cur |-> cur, drawn |-> drawn], "printString", n)
  /\ UNCHANGED <<stage, panicked>>

\* After the log, and after each page of a pool: of the interrupt table's
\* before the cursor is reset, of the terminal's behind that.
StartLine ==
  /\ Running /\ stage # "terminal" /\ NewLine(cur) # cur
  /\ cur' = NewLine(cur)
  /\ UNCHANGED <<drawn, strings, stage, panicked>>

\* Before terminal.init, with the log still on the screen.
ResetCursor ==
  /\ Running /\ stage = "log"
  /\ cur' = Reset(cur) /\ stage' = "reset"
  /\ UNCHANGED <<drawn, strings, panicked>>

\* Behind it, wherever the cursor is: the terminal draws at a cursor of its own.
ClearScreen ==
  /\ Running /\ stage = "reset"
  /\ drawn' = Blank /\ stage' = "terminal"
  /\ UNCHANGED <<cur, strings, panicked>>

\* Mutant of Panic: the cursor stays where it is.
PanicInPlace ==
  /\ panicked = "no"
  /\ \E n \in Lengths :
       Show([cur |-> cur,
             drawn |-> [c \in Cells |-> IF c[1] < PanicColumns /\ c[2] = 0 THEN <<>> ELSE drawn[c]]],
            "panic", n)
  /\ panicked' = "panic" /\ UNCHANGED stage

\* panic clears the start of the first row for its message.
Panic ==
  /\ panicked = "no"
  /\ \E n \in Lengths :
       Show([cur |-> Reset(cur),
             drawn |-> [c \in Cells |-> IF c[1] < PanicColumns /\ c[2] = 0 THEN <<>> ELSE drawn[c]]],
            "panic", n)
  /\ panicked' = "panic" /\ UNCHANGED stage

\* getPage clears the screen for its message; all pools are made before the
\* terminal runs.
OutOfRam ==
  /\ panicked = "no" /\ stage # "terminal"
  /\ \E n \in Lengths : Show([cur |-> Reset(cur), drawn |-> Blank], "panic", n)
  /\ panicked' = "ram" /\ UNCHANGED stage

ConsoleNext ==
  \/ PrintFitted \/ PrintString \/ StartLine \/ ResetCursor \/ ClearScreen
  \/ Panic \/ OutOfRam

ConsoleSpec == ConsoleInit /\ [][ConsoleNext]_consoleVars

-------------------------------------------------------------------------------
(* Properties.                                                             *)

RowsOf(k) == {c[2] : c \in {d \in Cells : k \in {drawn[d][i] : i \in DOMAIN drawn[d]}}}

\* The log can be read: only in the last row are characters drawn over each
\* other, since nothing scrolls, and print never breaks a string that fits in
\* a row and whose length fits in its count.
LogReadable ==
  /\ panicked = "no" => \A c \in Cells : Len(drawn[c]) > 1 => c[2] = Rows - 1
  /\ \A k \in DOMAIN strings :
       strings[k].how = "print" /\ strings[k].length <= Columns /\ strings[k].length < LengthWrap
         => Cardinality(RowsOf(k)) <= 1

\* The message of a panic is drawn over nothing if it fits into what was
\* cleared for it.
PanicLegible ==
  LET room == CASE panicked = "no" -> 0
                [] panicked = "ram" -> Columns * Rows
                [] panicked = "panic" -> IF PanicColumns < Columns THEN PanicColumns ELSE Columns
  IN  panicked # "no" /\ strings[Len(strings)].length <= room
        => \A c \in Cells : drawn[c] # <<>> /\ drawn[c][Len(drawn[c])] = Len(strings)
                              => Len(drawn[c]) = 1
===============================================================================
