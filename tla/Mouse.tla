--------------------------------- MODULE Mouse ----------------------------------
(***************************************************************************)
(* The mouse of src/kernel/src/hid/mouse.cpp: handleMouse puts the bytes   *)
(* that the mouse sends together into packets, processMPacket moves the    *)
(* pointer.  No code calls the two yet; they are modelled as written to be *)
(* called, handleMouse by the interrupt of line 12, at any moment, and     *)
(* processMPacket by the main loop.  The mouse itself is external.         *)
(***************************************************************************)
EXTENDS Cursor, Sequences

CONSTANTS
  FlagBytes, MoveBytes,   \* what a mouse may send as first, and as other bytes
  PointerMax,             \* xm and ym of the pointer, which no code sets
  MaxBytes                \* bound: bytes sent

XSign == 16
YSign == 32
XOFlow == 64
YOFlow == 128

ASSUME MouseAssumption ==
  /\ FlagBytes \subseteq 0 .. 255 /\ MoveBytes \subseteq 0 .. 255
  /\ PointerMax \in Nat /\ PointerMax + 511 < Wrap
  /\ MaxBytes \in Nat

VARIABLES
  mCycle, mReady,
  mPacket,     \* three bytes, each with its number in what the mouse sent
  pointer,     \* the cursor `mouse'
  working,     \* where processMPacket is, with the flags it has read
  sent         \* how many bytes the mouse has sent

mouseVars == <<mCycle, mReady, mPacket, pointer, working, sent>>

NoByte == [byte |-> 0, at |-> -1]
Idle == [at |-> "idle", flags |-> NoByte]

MouseInit ==
  /\ mCycle = 0 /\ mReady = FALSE
  /\ mPacket = [i \in 0 .. 2 |-> NoByte]
  /\ pointer = [x |-> 0, y |-> 0, xm |-> PointerMax, ym |-> PointerMax]
  /\ working = Idle
  /\ sent = 0

\* Mutant of HandleMouse: a packet that waits is overwritten.
HandleMouseAnyway(data) ==
  /\ mPacket' = [mPacket EXCEPT ![mCycle] = data]
  /\ mCycle' = (mCycle + 1) % 3
  /\ mReady' = (mReady \/ mCycle = 2)

\* handleMouse.  While a packet waits, bytes are dropped.  A first byte would
\* be dropped without its fixed bit, but data & 0b1000 == 0 is data & 0.
HandleMouse(data) ==
  IF mReady THEN UNCHANGED <<mPacket, mCycle, mReady>>
  ELSE /\ mPacket' = [mPacket EXCEPT ![mCycle] = data]
       /\ mCycle' = (mCycle + 1) % 3
       /\ mReady' = (mCycle = 2)

MouseByte ==
  /\ sent < MaxBytes
  /\ \E b \in IF sent % 3 = 0 THEN FlagBytes ELSE MoveBytes :
       HandleMouse([byte |-> b, at |-> sent])
  /\ sent' = sent + 1
  /\ UNCHANGED <<pointer, working>>

\* processMPacket reads the flags,
ReadFlags ==
  /\ working = Idle /\ mReady
  /\ working' = [at |-> "moving", flags |-> mPacket[0]]
  /\ UNCHANGED <<mCycle, mReady, mPacket, pointer, sent>>

Has(flags, bit) == (flags \div bit) % 2 = 1

\* xMov or yMov, from its byte, sign and overflow.
Movement(byte, neg, over) ==
  IF neg THEN -(256 - byte) - (IF over THEN 255 ELSE 0)
         ELSE byte + (IF over THEN 255 ELSE 0)

\* and then the movement, moves the pointer, and lets the packet go.
MovePointer ==
  /\ working.at = "moving"
  /\ LET f == working.flags.byte
     IN  pointer' = Move(pointer, Movement(mPacket[1].byte, Has(f, XSign), Has(f, XOFlow)),
                                  -Movement(mPacket[2].byte, Has(f, YSign), Has(f, YOFlow)))
  /\ mReady' = FALSE /\ working' = Idle
  /\ UNCHANGED <<mCycle, mPacket, sent>>

MouseNext == MouseByte \/ ReadFlags \/ MovePointer

MouseSpec == MouseInit /\ [][MouseNext]_mouseVars

-------------------------------------------------------------------------------
(* Properties.                                                             *)

\* A packet that is used is three bytes that the mouse sent one after the
\* other, even if bytes arrive while it waits and while it is used: what is
\* dropped lies between packets.  (They need not be the mouse's packet: when
\* the number of dropped bytes is not a multiple of three, all later packets
\* begin in the middle.)
PacketsWhole ==
  /\ mReady => \A i \in 0 .. 2 : mPacket[i].at = mPacket[0].at + i
  /\ working.at = "moving" => working.flags = mPacket[0]

\* What the bytes say, as nine-bit numbers.
Signed(byte, neg) == IF neg THEN byte - 256 ELSE byte

\* Along each axis the pointer moves by what a packet without overflow says,
\* the vertical axis pointing up, or, if that leads off the screen, not at all.
MovesAllOrNothing ==
  [][LET f == working.flags.byte
         dx == Signed(mPacket[1].byte, Has(f, XSign))
         dy == -Signed(mPacket[2].byte, Has(f, YSign))
         Goes(now, d, later) == later = IF now + d \in 0 .. PointerMax THEN now + d ELSE now
     IN  mReady /\ ~mReady' /\ ~Has(f, XOFlow) /\ ~Has(f, YOFlow) =>
           Goes(pointer.x, dx, pointer'.x) /\ Goes(pointer.y, dy, pointer'.y)]_mouseVars
===============================================================================
