-------------------------------- MODULE Keyboard --------------------------------
(***************************************************************************)
(* The decoder of src/kernel/src/hid/keyboard.cpp: handleKeyboard is       *)
(* called with one byte of the keyboard's scan code set 1 at a time and    *)
(* keeps in three flags what the bytes before it meant.  Where it puts the *)
(* characters it finds is the subject of the module Terminal.              *)
(*                                                                         *)
(* The keyboard itself is external: it sends what handleKeyboard is        *)
(* written to receive.                                                     *)
(***************************************************************************)
EXTENDS Integers, Sequences

CONSTANTS
  Keys,        \* the scan codes of the plain keys of the keyboard
  Extended,    \* the second bytes of the keys that send the prefix e0 first
  MaxBacklog,  \* bound: bytes that wait to be read when a key is touched
  BehindBytes  \* what the byte behind the array ascii may be in a build

LeftShift == 42
RightShift == 54
Enter == 28
BackSpace == 14
Spacebar == 57
CapsLock == 58    \* the keyboard's, the code has no name for it
Prefix == 224

Shifts == {LeftShift, RightShift}
Arrows == {72, 80, 75, 77}
Released(code) == code + 128

\* Characters are their codes, as bytes; 0 is none.
Byte == 0 .. 255
NoChar == 0
Newline == 10
Space == 32

\* No plain key has the code 96: its release would be the prefix.
ASSUME KeysAssumption ==
  /\ Keys \subseteq (0 .. 127) \ (Shifts \cup {Prefix - 128})
  /\ Extended \subseteq 0 .. 127
  /\ MaxBacklog \in Nat
  /\ BehindBytes \subseteq Byte

\* The array ascii, for the scan codes 0 to 57.
Ascii ==
  <<  0,   0,  49,  50,  51,  52,  53,  54,  55,  56,
     57,  48,  45,  61,   0,   0, 113, 119, 101, 114,
    116, 121, 117, 105, 111, 112,  91,  93,   0,   0,
     97, 115, 100, 102, 103, 104, 106, 107, 108,  59,
     39,  96,   0,  92, 122, 120,  99, 118,  98, 110,
    109,  44,  46,  47,   0,  42,   0,  32 >>

VARIABLES
  leftShiftDown, rightShiftDown, mod,   \* the flags of handleKeyboard
  behind,    \* the byte behind the array, fixed by the build
  stored,    \* the character that the last byte read put into terminal.in
  due,       \* the character that it should have put there
  held,      \* the shift keys that are down
  seen,      \* the shift keys that have sent something since the start
  wire       \* what the keyboard has sent and no interrupt has read: each
             \* byte with the character that is due when it is read

vars == <<leftShiftDown, rightShiftDown, mod, behind, stored, due, held, seen, wire>>
keyboard == <<held, seen>>

ShiftDown == leftShiftDown \/ rightShiftDown

-------------------------------------------------------------------------------
(* lookup.                                                                 *)

\* The bound lets through the code one behind the array.
Plain(code) == IF code < Len(Ascii) THEN Ascii[code + 1] ELSE behind

\* How far the shifted character is from the plain one.
Offset(code) ==
  LET c == Plain(code)
  IN  CASE c = 48 -> -7      \* 0
        [] c = 50 -> 14      \* 2
        [] c = 54 -> 40      \* 6
        [] c = 56 -> -14     \* 8
        [] c = 96 -> 30      \* back quote
        [] c = 59 -> -1      \* semicolon
        [] c = 39 -> -17     \* quote
        [] OTHER  -> IF code < 7 THEN -16 ELSE IF code < 11 THEN -17 ELSE -32

\* Mutant of Lookup: the difference is kept in a wider integer.
LookupUnwrapped(code, uppercase) ==
  IF code > 58 THEN NoChar
  ELSE IF uppercase THEN Plain(code) + Offset(code) ELSE Plain(code)

Lookup(code, uppercase) ==
  IF code > 58 THEN NoChar
  ELSE IF uppercase THEN (Plain(code) + Offset(code)) % 256 ELSE Plain(code)

-------------------------------------------------------------------------------
(* The keyboard: what it sends, and which character is due for it.         *)

\* The upper character on the keycap of a US keyboard, for the letters, the
\* digits, back quote and semicolon.  lookup has no cases for the others, and
\* the one it has for the quote gives 22, which is no character.
ShiftedKeycap ==
  [c \in (97 .. 122) \cup (48 .. 57) \cup {59, 96} |->
     CASE c \in 97 .. 122 -> c - 32
       [] c = 48 -> 41 [] c = 49 -> 33 [] c = 50 -> 64 [] c = 51 -> 35
       [] c = 52 -> 36 [] c = 53 -> 37 [] c = 54 -> 94 [] c = 55 -> 38
       [] c = 56 -> 42 [] c = 57 -> 40 [] c = 59 -> 58 [] c = 96 -> 126]

\* No claim is made: another shifted key, the key one behind
\* the array, or any key while a shift key held since before the
\* start has sent nothing yet.
Undecided == -1

KeyChar(code) ==
  IF code = Enter THEN Newline
  ELSE IF code = Spacebar THEN Space
  ELSE IF code = BackSpace \/ code > CapsLock THEN NoChar
  ELSE IF code = CapsLock \/ held \ seen # {} THEN Undecided
  ELSE LET c == Ascii[code + 1]
       IN  IF held = {} THEN c
           ELSE IF c \in DOMAIN ShiftedKeycap THEN ShiftedKeycap[c]
           ELSE Undecided

\* Bytes that type nothing.
Silent(bytes) == [i \in DOMAIN bytes |-> [byte |-> bytes[i], due |-> NoChar]]

Send(packets) == wire' = wire \o packets

Ready == Len(wire) <= MaxBacklog

\* A key that is held down sends its code again: Press needs no release.
Press(code) ==
  /\ Ready
  /\ Send(<<[byte |-> code, due |-> KeyChar(code)]>>)
  /\ UNCHANGED keyboard

Release(code) ==
  /\ Ready
  /\ Send(Silent(<<Released(code)>>))
  /\ UNCHANGED keyboard

PressShift(shift) ==
  /\ Ready
  /\ Send(Silent(<<shift>>))
  /\ held' = held \cup {shift} /\ seen' = seen \cup {shift}

ReleaseShift(shift) ==
  /\ Ready
  /\ shift \in held
  /\ Send(Silent(<<Released(shift)>>))
  /\ held' = held \ {shift} /\ seen' = seen \cup {shift}

\* The keyboard pretends that a shift key that is down is released before
\* such a key goes down and pressed again after it went up.
PressExtended(code) ==
  /\ Ready
  /\ \/ held = {} /\ Send(Silent(<<Prefix, code>>))
     \/ \E shift \in held : Send(Silent(<<Prefix, Released(shift), Prefix, code>>))
  /\ UNCHANGED keyboard

ReleaseExtended(code) ==
  /\ Ready
  /\ \/ held = {} /\ Send(Silent(<<Prefix, Released(code)>>))
     \/ \E shift \in held : Send(Silent(<<Prefix, Released(code), Prefix, shift>>))
  /\ UNCHANGED keyboard

Touch ==
  /\ \/ \E code \in Keys : Press(code) \/ Release(code)
     \/ \E shift \in Shifts : PressShift(shift) \/ ReleaseShift(shift)
     \/ \E code \in Extended : PressExtended(code) \/ ReleaseExtended(code)
  /\ UNCHANGED <<leftShiftDown, rightShiftDown, mod, behind, stored, due>>

-------------------------------------------------------------------------------
(* handleKeyboard.                                                         *)

\* The byte after the prefix, whatever it is, has no effect.
SecondByte(code) ==
  /\ mod
  /\ mod' = FALSE /\ stored' = NoChar
  /\ UNCHANGED <<leftShiftDown, rightShiftDown>>

\* Mutant of PrefixByte: the prefix is ignored like any unknown code.
PrefixByteIgnored(code) ==
  /\ ~mod /\ code = Prefix
  /\ stored' = NoChar
  /\ UNCHANGED <<leftShiftDown, rightShiftDown, mod>>

PrefixByte(code) ==
  /\ ~mod /\ code = Prefix
  /\ mod' = TRUE /\ stored' = NoChar
  /\ UNCHANGED <<leftShiftDown, rightShiftDown>>

ShiftPressed(code) ==
  /\ ~mod /\ code \in Shifts
  /\ leftShiftDown' = (code = LeftShift \/ leftShiftDown)
  /\ rightShiftDown' = (code = RightShift \/ rightShiftDown)
  /\ stored' = NoChar
  /\ UNCHANGED mod

\* Mutant of OtherByte: one release clears both flags.
OtherByteOneFlag(code) ==
  /\ ~mod /\ code \notin Shifts \cup {Prefix}
  /\ leftShiftDown' = (leftShiftDown /\ code \notin {Released(s) : s \in Shifts})
  /\ rightShiftDown' = (rightShiftDown /\ code \notin {Released(s) : s \in Shifts})
  /\ stored' = Lookup(code, ShiftDown')
  /\ UNCHANGED mod

\* Every other code.  The release of a shift key clears its flag and goes on
\* to lookup; a character that lookup does not know is not stored.
OtherByte(code) ==
  /\ ~mod /\ code \notin Shifts \cup {Prefix}
  /\ leftShiftDown' = (leftShiftDown /\ code # Released(LeftShift))
  /\ rightShiftDown' = (rightShiftDown /\ code # Released(RightShift))
  /\ stored' = CASE code = Enter -> Newline
                 [] code = Spacebar -> Space
                 [] code = BackSpace -> NoChar
                 [] OTHER -> Lookup(code, ShiftDown')
  /\ UNCHANGED mod

\* The keyboard interrupt reads one byte.
keyboardHandler ==
  /\ wire # <<>>
  /\ LET code == Head(wire).byte
     IN  SecondByte(code) \/ PrefixByte(code) \/ ShiftPressed(code) \/ OtherByte(code)
  /\ due' = Head(wire).due
  /\ wire' = Tail(wire)
  /\ UNCHANGED <<behind, held, seen>>

-------------------------------------------------------------------------------
Init ==
  /\ leftShiftDown = FALSE /\ rightShiftDown = FALSE /\ mod = FALSE
  /\ behind \in BehindBytes
  /\ stored = NoChar /\ due = NoChar
  /\ held \in SUBSET Shifts      \* a key may be down while the system starts
  /\ seen = {}
  /\ wire = <<>>

Next == Touch \/ keyboardHandler

Spec == Init /\ [][Next]_vars

-------------------------------------------------------------------------------
(* Properties.                                                             *)

\* Flags are Booleans, and what is stored is a byte.
TypeOK ==
  /\ {leftShiftDown, rightShiftDown, mod} \subseteq BOOLEAN
  /\ stored \in Byte
  /\ due \in Byte \cup {Undecided}
  /\ held \subseteq Shifts /\ seen \subseteq Shifts
  /\ \A i \in DOMAIN wire : wire[i].byte \in Byte

\* handleKeyboard keeps in step with the keyboard: once every byte is read, it
\* does not wait for a second byte, which would swallow the next key, and its
\* flags say which of the shift keys that were touched are down, although
\* the keys with a prefix send releases and presses of the shift keys, too.
ShiftTracks ==
  wire = <<>> =>
    /\ ~mod
    /\ leftShiftDown <=> LeftShift \in held \cap seen
    /\ rightShiftDown <=> RightShift \in held \cap seen

\* Each byte stores the character on the keycap that was up when the key was
\* pressed, however late it is read; releases, keys with a prefix and keys
\* without a character store nothing.
StoresWhatIsTyped == due = Undecided \/ stored = due
===============================================================================
