--------------------------- MODULE InputOutputProofs ---------------------------
(***************************************************************************)
(* Proofs about what the user sees and touches: the modules Keyboard, for  *)
(* every set of keys, any number of bytes that wait to be read and         *)
(* whatever is behind the array; Mouse; Console, for a screen of any size  *)
(* and strings of any length; and Strings, for any numbers of 64 bits and  *)
(* buffers that hold them.                                                 *)
(***************************************************************************)
EXTENDS Keyboard, Mouse, Console, Strings,
        SequenceTheorems, WellFoundedInduction, FiniteSetTheorems, TLAPS

-------------------------------------------------------------------------------
(* Counting up.                                                            *)

\* A set of numbers up to n that holds 0, and each number's successor, holds n.
LEMMA CountingUp ==
  ASSUME NEW n \in Nat, NEW S, 0 \in S, \A i \in 0 .. n - 1 : i \in S => i + 1 \in S
  PROVE  \A i \in 0 .. n : i \in S
<1>. DEFINE T == {i \in 0 .. n : i \notin S}
            R == {ss \in Nat \X Nat : ss[1] < ss[2]}
<1>1. SUFFICES ASSUME T # {} PROVE FALSE
  OBVIOUS
<1>2. IsWellFoundedOn(R, Nat)
  BY NatLessThanWellFounded, Zenon DEF OpToRel
<1>3. T \subseteq Nat
  OBVIOUS
<1>4. PICK x \in T : \A y \in T : ~ (<<y, x>> \in R)
  <2>. HIDE DEF R, T
  <2>. QED BY <1>1, <1>2, <1>3, WFMin, Zenon
<1>5. x \in 1 .. n
  OBVIOUS
<1>6. x - 1 \in T
  <2>1. x - 1 \in 0 .. n - 1 /\ (x - 1) + 1 = x
    BY <1>5
  <2>. QED BY <2>1
<1>7. <<x - 1, x>> \in R
  BY <1>5
<1>. QED BY <1>4, <1>6, <1>7

-------------------------------------------------------------------------------
(* lookup and the keycaps.                                                 *)

\* What the array holds.
LEMMA AsciiBytes ==
  ASSUME NEW code \in 0 .. 57
  PROVE  Ascii[code + 1] \in Byte
BY DEF Ascii, Byte

LEMMA AsciiLength == Len(Ascii) = 58
BY DEF Ascii

\* What is on a keycap beside the plain character is a character too.
LEMMA KeycapByte ==
  ASSUME NEW x \in DOMAIN ShiftedKeycap
  PROVE  ShiftedKeycap[x] \in Byte
<1>. DEFINE y == ShiftedKeycap[x]
<1>1. /\ x \in (97 .. 122) \cup (48 .. 57) \cup {59, 96}
      /\ y = CASE x \in 97 .. 122 -> x - 32
               [] x = 48 -> 41 [] x = 49 -> 33 [] x = 50 -> 64 [] x = 51 -> 35
               [] x = 52 -> 36 [] x = 53 -> 37 [] x = 54 -> 94 [] x = 55 -> 38
               [] x = 56 -> 42 [] x = 57 -> 40 [] x = 59 -> 58 [] x = 96 -> 126
  BY DEF ShiftedKeycap
<1>. HIDE DEF y
<1>2. CASE x \in 97 .. 122
  <2>1. y = x - 32
    BY <1>1, <1>2
  <2>. QED BY <1>2, <2>1 DEF Byte, y
<1>3. CASE x \in 48 .. 57
  <2>1. y \in {41, 33, 64, 35, 36, 37, 94, 38, 42, 40}
    BY <1>1, <1>3
  <2>. QED BY <2>1 DEF Byte, y
<1>4. CASE x \in {59, 96}
  <2>1. y \in {58, 126}
    BY <1>1, <1>4
  <2>. QED BY <2>1 DEF Byte, y
<1>. QED BY <1>1, <1>2, <1>3, <1>4

LEMMA LookupUpper ==
  ASSUME NEW code \in 0 .. 57, Ascii[code + 1] \in DOMAIN ShiftedKeycap
  PROVE  Lookup(code, TRUE) = ShiftedKeycap[Ascii[code + 1]]
<1>. DEFINE c == Ascii[code + 1]
<1>1. /\ c \in (97 .. 122) \cup (48 .. 57) \cup {59, 96}
      /\ ShiftedKeycap[c] = CASE c \in 97 .. 122 -> c - 32
                              [] c = 48 -> 41 [] c = 49 -> 33 [] c = 50 -> 64 [] c = 51 -> 35
                              [] c = 52 -> 36 [] c = 53 -> 37 [] c = 54 -> 94 [] c = 55 -> 38
                              [] c = 56 -> 42 [] c = 57 -> 40 [] c = 59 -> 58 [] c = 96 -> 126
  BY DEF ShiftedKeycap
<1>2. Plain(code) = c
  BY AsciiLength DEF Plain
<1>3. c \in 48 .. 57 => code = IF c = 48 THEN 11 ELSE c - 47
  BY DEF Ascii
<1>4. c \in 97 .. 122 => code \in 16 .. 50
  BY DEF Ascii
<1>. HIDE DEF c
<1>5. Lookup(code, TRUE) = (c + Offset(code)) % 256
  BY <1>2 DEF Lookup
<1>6. Offset(code) = CASE c = 48 -> -7 [] c = 50 -> 14 [] c = 54 -> 40 [] c = 56 -> -14
                       [] c = 96 -> 30 [] c = 59 -> -1 [] c = 39 -> -17
                       [] OTHER -> IF code < 7 THEN -16 ELSE IF code < 11 THEN -17 ELSE -32
  BY <1>2 DEF Offset
<1>7. \A x \in 0 .. 255 : x % 256 = x
  OBVIOUS
<1>8. CASE c \in 97 .. 122
  <2>1. Offset(code) = -32
    BY <1>4, <1>6, <1>8
  <2>2. ShiftedKeycap[c] = c - 32
    BY <1>1, <1>8
  <2>3. c + Offset(code) = ShiftedKeycap[c] /\ ShiftedKeycap[c] \in 0 .. 255
    BY <1>8, <2>1, <2>2
  <2>4. ShiftedKeycap[c] % 256 = ShiftedKeycap[c]
    BY <1>7, <2>3
  <2>5. Lookup(code, TRUE) = ShiftedKeycap[c]
    BY <1>5, <2>3, <2>4, Zenon
  <2>. QED BY <2>5 DEF c
<1>9. CASE c \in 48 .. 57
  <2>1. Offset(code) = IF c = 48 THEN -7 ELSE IF c = 50 THEN 14 ELSE IF c = 54 THEN 40
                       ELSE IF c = 56 THEN -14 ELSE IF c < 54 THEN -16 ELSE -17
    BY <1>3, <1>6, <1>9
  <2>2. ShiftedKeycap[c] = IF c = 48 THEN 41 ELSE IF c = 50 THEN 64 ELSE IF c = 54 THEN 94
                           ELSE IF c = 56 THEN 42 ELSE IF c < 54 THEN c - 16 ELSE c - 17
    BY <1>1, <1>9
  <2>3. c + Offset(code) = ShiftedKeycap[c] /\ ShiftedKeycap[c] \in 0 .. 255
    BY <1>9, <2>1, <2>2
  <2>4. ShiftedKeycap[c] % 256 = ShiftedKeycap[c]
    BY <1>7, <2>3
  <2>5. Lookup(code, TRUE) = ShiftedKeycap[c]
    BY <1>5, <2>3, <2>4, Zenon
  <2>. QED BY <2>5 DEF c
<1>10. CASE c \in {59, 96}
  <2>1. Offset(code) = IF c = 96 THEN 30 ELSE -1
    BY <1>6, <1>10
  <2>2. ShiftedKeycap[c] = IF c = 96 THEN 126 ELSE 58
    BY <1>1, <1>10
  <2>3. c + Offset(code) = ShiftedKeycap[c] /\ ShiftedKeycap[c] \in 0 .. 255
    BY <1>10, <2>1, <2>2
  <2>4. ShiftedKeycap[c] % 256 = ShiftedKeycap[c]
    BY <1>7, <2>3
  <2>5. Lookup(code, TRUE) = ShiftedKeycap[c]
    BY <1>5, <2>3, <2>4, Zenon
  <2>. QED BY <2>5 DEF c
<1>. QED BY <1>1, <1>8, <1>9, <1>10 DEF c

LEMMA LookupPlain ==
  ASSUME NEW code \in 0 .. 57
  PROVE  Lookup(code, FALSE) = Ascii[code + 1]
<1>1. Plain(code) = Ascii[code + 1]
  BY AsciiLength DEF Plain
<1>2. ~ (code > 58)
  OBVIOUS
<1>. QED BY <1>1, <1>2, Zenon DEF Lookup

\* What is stored is a byte.
LEMMA LookupByte ==
  ASSUME NEW code \in Byte, NEW uppercase \in BOOLEAN, behind \in Byte
  PROVE  Lookup(code, uppercase) \in Byte
<1>1. CASE code > 58
  BY <1>1 DEF Lookup, Byte, NoChar
<1>2. CASE code <= 58
  <2>. DEFINE c == Plain(code)
              d == Offset(code)
  <2>1. c \in 0 .. 255
    <3>1. CASE code = 58
      BY <3>1, AsciiLength DEF Plain, Byte
    <3>2. CASE code # 58
      <4>1. code \in 0 .. 57
        BY <1>2, <3>2 DEF Byte
      <4>2. c = Ascii[code + 1]
        BY <4>1, AsciiLength DEF Plain
      <4>3. c \in Byte
        BY <4>1, <4>2, AsciiBytes
      <4>. QED BY <4>3 DEF Byte
    <3>. QED BY <3>1, <3>2
  <2>2. d \in Int
    BY DEF Offset
  <2>3. Lookup(code, uppercase) = IF uppercase THEN (c + d) % 256 ELSE c
    BY <1>2 DEF Lookup, Byte
  <2>. HIDE DEF c, d
  <2>4. c + d \in Int
    BY <2>1, <2>2
  <2>5. \A x \in Int : x % 256 \in 0 .. 255
    OBVIOUS
  <2>. QED BY <2>1, <2>3, <2>4, <2>5 DEF Byte
<1>. QED BY <1>1, <1>2 DEF Byte

-------------------------------------------------------------------------------
(* The inductive invariant: reading what is on the wire.                   *)

Packets == [byte : Byte, due : Byte \cup {Undecided}]
Flags == [left : BOOLEAN, right : BOOLEAN, mod : BOOLEAN]

\* The flags as they are, and as they should be once everything is read.
Now == [left |-> leftShiftDown, right |-> rightShiftDown, mod |-> mod]
HeldFlags == [left |-> LeftShift \in held \cap seen, right |-> RightShift \in held \cap seen,
         mod |-> FALSE]

\* The flags after a byte.
After(s, code) ==
  IF s.mod THEN [s EXCEPT !.mod = FALSE]
  ELSE IF code = Prefix THEN [s EXCEPT !.mod = TRUE]
  ELSE [left  |-> code = LeftShift \/ (s.left /\ code # Released(LeftShift)),
        right |-> code = RightShift \/ (s.right /\ code # Released(RightShift)),
        mod   |-> FALSE]

\* A byte that stores nothing, one that stands for a key of the array, and one
\* whose character is the one that is due.
Mute(s, code) == s.mod \/ code \in Shifts \cup {BackSpace} \/ code > CapsLock
Key(s, code) == ~s.mod /\ code \in (0 .. 57) \ (Shifts \cup {Enter, Spacebar, BackSpace})
Sound(s, p) ==
  \/ p.due = Undecided
  \/ Mute(s, p.byte) /\ p.due = NoChar
  \/ ~s.mod /\ p.byte = Enter /\ p.due = Newline
  \/ ~s.mod /\ p.byte = Spacebar /\ p.due = Space
  \/ Key(s, p.byte) /\ ~s.left /\ ~s.right /\ p.due = Ascii[p.byte + 1]
  \/ /\ Key(s, p.byte) /\ (s.left \/ s.right)
     /\ Ascii[p.byte + 1] \in DOMAIN ShiftedKeycap
     /\ p.due = ShiftedKeycap[Ascii[p.byte + 1]]

\* The bytes w take the flags from a to z, and each finds flags that give the
\* character that is due: f[i] are the flags after i of them.
Reads(w, f) ==
  \A i \in 1 .. Len(w) : f[i] = After(f[i - 1], w[i].byte) /\ Sound(f[i - 1], w[i])
Leads(w, a, z) ==
  \E f \in [0 .. Len(w) -> Flags] : Reads(w, f) /\ f[0] = a /\ f[Len(w)] = z

IInv ==
  /\ TypeOK
  /\ behind \in Byte /\ wire \in Seq(Packets)
  /\ Leads(wire, Now, HeldFlags)
  /\ StoresWhatIsTyped

-------------------------------------------------------------------------------
(* Reading.                                                                *)

LEMMA AfterType ==
  ASSUME NEW s \in Flags, NEW code
  PROVE  After(s, code) \in Flags
BY DEF After, Flags

\* The first byte is read.
LEMMA LeadsTail ==
  ASSUME NEW w \in Seq(Packets), w # <<>>, NEW a, NEW z, Leads(w, a, z)
  PROVE  /\ Leads(Tail(w), After(a, Head(w).byte), z)
         /\ Sound(a, Head(w)) /\ Head(w) \in Packets /\ Tail(w) \in Seq(Packets)
<1>1. PICK f \in [0 .. Len(w) -> Flags] : Reads(w, f) /\ f[0] = a /\ f[Len(w)] = z
  BY Zenon DEF Leads
<1>. DEFINE n == Len(w)
            v == Tail(w)
            g == [i \in 0 .. n - 1 |-> f[i + 1]]
<1>2. /\ n \in Nat /\ n >= 1 /\ Head(w) = w[1] /\ Head(w) \in Packets
      /\ v \in Seq(Packets) /\ Len(v) = n - 1
      /\ \A i \in 1 .. n - 1 : v[i] = w[i + 1]
  OBVIOUS
<1>3. \A i \in 1 .. n : f[i] = After(f[i - 1], w[i].byte) /\ Sound(f[i - 1], w[i])
  BY <1>1 DEF Reads
<1>. HIDE DEF n, v
<1>4. f[1] = After(a, Head(w).byte) /\ Sound(a, Head(w))
  <2>1. 1 \in 1 .. n /\ 1 - 1 = 0
    BY <1>2
  <2>. QED BY <2>1, <1>1, <1>2, <1>3
<1>5. g \in [0 .. Len(v) -> Flags] /\ g[0] = f[1] /\ g[Len(v)] = z
  BY <1>1, <1>2 DEF n
<1>6. ASSUME NEW i \in 1 .. Len(v)
      PROVE  g[i] = After(g[i - 1], v[i].byte) /\ Sound(g[i - 1], v[i])
  <2>1. i + 1 \in 1 .. n /\ i \in 1 .. n - 1 /\ (i + 1) - 1 = i /\ i \in 0 .. n - 1
          /\ i - 1 \in 0 .. n - 1 /\ (i - 1) + 1 = i
    BY <1>2
  <2>2. f[i + 1] = After(f[i], w[i + 1].byte) /\ Sound(f[i], w[i + 1])
    BY <2>1, <1>3
  <2>3. g[i] = f[i + 1] /\ g[i - 1] = f[i] /\ v[i] = w[i + 1]
    BY <2>1, <1>2
  <2>. QED BY <2>2, <2>3
<1>. HIDE DEF g
<1>7. Leads(v, After(a, Head(w).byte), z)
  BY <1>4, <1>5, <1>6 DEF Leads, Reads
<1>. QED BY <1>2, <1>4, <1>7 DEF v

-------------------------------------------------------------------------------
(* Sending.                                                                *)

\* More bytes are put on the wire.
LEMMA LeadsConcat ==
  ASSUME NEW w \in Seq(Packets), NEW v \in Seq(Packets), NEW a, NEW y, NEW z,
         Leads(w, a, y), Leads(v, y, z)
  PROVE  Leads(w \o v, a, z) /\ w \o v \in Seq(Packets)
<1>1. PICK f \in [0 .. Len(w) -> Flags] : Reads(w, f) /\ f[0] = a /\ f[Len(w)] = y
  BY Zenon DEF Leads
<1>2. PICK g \in [0 .. Len(v) -> Flags] : Reads(v, g) /\ g[0] = y /\ g[Len(v)] = z
  BY Zenon DEF Leads
<1>. DEFINE m == Len(w)
            n == Len(v)
            u == w \o v
            h == [i \in 0 .. m + n |-> IF i <= m THEN f[i] ELSE g[i - m]]
<1>3. m \in Nat /\ n \in Nat
  OBVIOUS
<1>4. /\ u \in Seq(Packets) /\ Len(u) = m + n
      /\ \A i \in 1 .. m + n : u[i] = IF i <= m THEN w[i] ELSE v[i - m]
  BY ConcatProperties
<1>5. \A i \in 1 .. m : f[i] = After(f[i - 1], w[i].byte) /\ Sound(f[i - 1], w[i])
  BY <1>1 DEF Reads
<1>6. \A i \in 1 .. n : g[i] = After(g[i - 1], v[i].byte) /\ Sound(g[i - 1], v[i])
  BY <1>2 DEF Reads
<1>. HIDE DEF m, n, u
<1>7. h \in [0 .. m + n -> Flags]
  <2>1. \A i \in 0 .. m + n : IF i <= m THEN i \in 0 .. m ELSE i - m \in 0 .. n
    BY <1>3
  <2>. QED BY <2>1, <1>1, <1>2 DEF m, n
<1>8. \A i \in 0 .. m + n : h[i] = IF i <= m THEN f[i] ELSE g[i - m]
  OBVIOUS
<1>. HIDE DEF h
<1>9. h[0] = a /\ h[m + n] = z
  <2>1. 0 \in 0 .. m + n /\ 0 <= m /\ m + n \in 0 .. m + n /\ (m + n) - m = n
          /\ (m + n <= m => n = 0 /\ m + n = m)
    BY <1>3
  <2>. QED BY <2>1, <1>1, <1>2, <1>8 DEF m, n
<1>10. ASSUME NEW i \in 1 .. m + n
       PROVE  h[i] = After(h[i - 1], u[i].byte) /\ Sound(h[i - 1], u[i])
  <2>1. i \in 0 .. m + n /\ i - 1 \in 0 .. m + n
    BY <1>3
  <2>2. CASE i <= m
    <3>1. i \in 1 .. m /\ i - 1 <= m
      BY <2>2, <1>3
    <3>2. h[i] = f[i] /\ h[i - 1] = f[i - 1] /\ u[i] = w[i]
      BY <2>1, <2>2, <3>1, <1>4, <1>8
    <3>. QED BY <3>1, <3>2, <1>5
  <2>3. CASE ~ (i <= m)
    <3>1. i - m \in 1 .. n /\ (i - 1) - m = (i - m) - 1
      BY <2>3, <1>3
    <3>2. h[i] = g[i - m] /\ u[i] = v[i - m]
      BY <2>1, <2>3, <1>4, <1>8
    <3>3. h[i - 1] = g[(i - m) - 1]
      <4>1. CASE i - 1 <= m
        <5>1. i - 1 = m /\ (i - m) - 1 = 0
          BY <4>1, <2>3, <1>3
        <5>. QED BY <5>1, <4>1, <2>1, <1>1, <1>2, <1>8 DEF m
      <4>2. CASE ~ (i - 1 <= m)
        BY <4>2, <2>1, <3>1, <1>8
      <4>. QED BY <4>1, <4>2
    <3>. QED BY <3>1, <3>2, <3>3, <1>6
  <2>. QED BY <2>2, <2>3
<1>11. Leads(u, a, z)
  BY <1>4, <1>7, <1>9, <1>10 DEF Leads, Reads
<1>. QED BY <1>4, <1>11 DEF u

\* One byte.
LEMMA LeadsOne ==
  ASSUME NEW p \in Packets, NEW a \in Flags, Sound(a, p)
  PROVE  Leads(<<p>>, a, After(a, p.byte)) /\ <<p>> \in Seq(Packets)
<1>. DEFINE f == [i \in 0 .. 1 |-> IF i = 0 THEN a ELSE After(a, p.byte)]
<1>1. Len(<<p>>) = 1 /\ <<p>>[1] = p /\ <<p>> \in Seq(Packets)
  OBVIOUS
<1>2. f \in [0 .. 1 -> Flags] /\ f[0] = a /\ f[1] = After(a, p.byte)
  BY AfterType
<1>. HIDE DEF f
<1>3. \A i \in 1 .. 1 : f[i] = After(f[i - 1], <<p>>[i].byte) /\ Sound(f[i - 1], <<p>>[i])
  <2>1. \A i \in 1 .. 1 : i = 1 /\ i - 1 = 0
    OBVIOUS
  <2>. QED BY <2>1, <1>1, <1>2
<1>. QED BY <1>1, <1>2, <1>3 DEF Leads, Reads

\* Bytes that type nothing.
LEMMA LeadsSilent ==
  ASSUME NEW bytes \in Seq(Byte), NEW f \in [0 .. Len(bytes) -> Flags],
         \A i \in 1 .. Len(bytes) : f[i] = After(f[i - 1], bytes[i]) /\ Mute(f[i - 1], bytes[i])
  PROVE  Leads(Silent(bytes), f[0], f[Len(bytes)]) /\ Silent(bytes) \in Seq(Packets)
<1>. DEFINE v == Silent(bytes)
<1>1. v = [i \in 1 .. Len(bytes) |-> [byte |-> bytes[i], due |-> NoChar]]
  BY DEF Silent
<1>2. \A i \in 1 .. Len(bytes) : [byte |-> bytes[i], due |-> NoChar] \in Packets
  <2>1. NoChar \in Byte
    BY DEF Byte, NoChar
  <2>2. \A i \in 1 .. Len(bytes) : bytes[i] \in Byte
    OBVIOUS
  <2>. QED BY <2>1, <2>2 DEF Packets
<1>3. v \in Seq(Packets) /\ Len(v) = Len(bytes)
  BY <1>1, <1>2
<1>4. \A i \in 1 .. Len(v) : v[i].byte = bytes[i] /\ v[i].due = NoChar
  BY <1>1, <1>3
<1>. HIDE DEF v
<1>5. Reads(v, f)
  BY <1>3, <1>4 DEF Reads, Sound
<1>6. Leads(v, f[0], f[Len(bytes)])
  BY <1>3, <1>5 DEF Leads
<1>. QED BY <1>3, <1>6 DEF v

\* The prefix makes the byte after it say nothing.
LEMMA LeadsPrefixed ==
  ASSUME NEW b \in Byte, NEW c \in Byte, NEW a \in Flags, ~a.mod
  PROVE  /\ Leads(Silent(<<Prefix, b>>), a, a)
         /\ Silent(<<Prefix, b>>) \in Seq(Packets)
         /\ Leads(Silent(<<Prefix, b, Prefix, c>>), a, a)
         /\ Silent(<<Prefix, b, Prefix, c>>) \in Seq(Packets)
<1>. DEFINE e == [a EXCEPT !.mod = TRUE]
            f == [i \in 0 .. 2 |-> IF i = 1 THEN e ELSE a]
            g == [i \in 0 .. 4 |-> IF i \in {1, 3} THEN e ELSE a]
            v == <<Prefix, b>>
            w == <<Prefix, b, Prefix, c>>
<1>1. Prefix \in Byte /\ Prefix > CapsLock
  BY DEF Prefix, Byte, CapsLock
<1>2. e \in Flags /\ After(a, Prefix) = e /\ Mute(a, Prefix)
        /\ \A x : After(e, x) = a /\ Mute(e, x)
  BY <1>1 DEF Flags, After, Mute
<1>3. v \in Seq(Byte) /\ Len(v) = 2 /\ v[1] = Prefix /\ v[2] = b
  BY <1>1
<1>4. w \in Seq(Byte) /\ Len(w) = 4 /\ w[1] = Prefix /\ w[2] = b /\ w[3] = Prefix /\ w[4] = c
  BY <1>1
<1>. HIDE DEF e, v, w
<1>5. f \in [0 .. 2 -> Flags] /\ f[0] = a /\ f[1] = e /\ f[2] = a
  BY <1>2
<1>6. g \in [0 .. 4 -> Flags] /\ g[0] = a /\ g[1] = e /\ g[2] = a /\ g[3] = e /\ g[4] = a
  BY <1>2
<1>. HIDE DEF f, g
<1>7. \A i \in 1 .. 2 : f[i] = After(f[i - 1], v[i]) /\ Mute(f[i - 1], v[i])
  <2>1. \A i \in 1 .. 2 : (i = 1 /\ i - 1 = 0) \/ (i = 2 /\ i - 1 = 1)
    OBVIOUS
  <2>. QED BY <2>1, <1>2, <1>3, <1>5
<1>8. \A i \in 1 .. 4 : g[i] = After(g[i - 1], w[i]) /\ Mute(g[i - 1], w[i])
  <2>1. \A i \in 1 .. 4 : \/ i = 1 /\ i - 1 = 0
                          \/ i = 2 /\ i - 1 = 1
                          \/ i = 3 /\ i - 1 = 2
                          \/ i = 4 /\ i - 1 = 3
    OBVIOUS
  <2>. QED BY <2>1, <1>2, <1>4, <1>6
<1>9. Leads(Silent(v), a, a) /\ Silent(v) \in Seq(Packets)
  BY <1>3, <1>5, <1>7, LeadsSilent
<1>10. Leads(Silent(w), a, a) /\ Silent(w) \in Seq(Packets)
  BY <1>4, <1>6, <1>8, LeadsSilent
<1>. QED BY <1>9, <1>10 DEF v, w

-------------------------------------------------------------------------------
(* The invariant.                                                          *)

LEMMA CodeFacts ==
  /\ LeftShift = 42 /\ RightShift = 54 /\ Enter = 28 /\ BackSpace = 14 /\ Spacebar = 57
  /\ CapsLock = 58 /\ Prefix = 224 /\ Shifts = {42, 54} /\ Byte = 0 .. 255
  /\ Released(LeftShift) = 170 /\ Released(RightShift) = 182
BY DEF LeftShift, RightShift, Enter, BackSpace, Spacebar, CapsLock, Prefix, Shifts, Byte, Released

LEMMA FlagTypes ==
  ASSUME TypeOK
  PROVE  /\ Now \in Flags /\ HeldFlags \in Flags /\ ~HeldFlags.mod
         /\ leftShiftDown \in BOOLEAN /\ rightShiftDown \in BOOLEAN /\ mod \in BOOLEAN
BY DEF TypeOK, Now, HeldFlags, Flags

LEMMA InitInv == Init => IInv
<1>. SUFFICES ASSUME Init PROVE IInv
  OBVIOUS
<1>1. TypeOK
  <2>1. DOMAIN wire = {} /\ NoChar \in Byte
    BY DEF Init, NoChar, Byte
  <2>. QED BY <2>1 DEF Init, TypeOK
<1>2. behind \in Byte /\ wire \in Seq(Packets) /\ StoresWhatIsTyped
  BY KeysAssumption DEF Init, StoresWhatIsTyped
<1>3. Leads(wire, Now, HeldFlags)
  <2>. DEFINE f == [i \in 0 .. 0 |-> Now]
  <2>1. wire = <<>> /\ Now = HeldFlags
    <3>1. seen = {} /\ wire = <<>> /\ leftShiftDown = FALSE /\ rightShiftDown = FALSE
            /\ mod = FALSE
      BY DEF Init
    <3>2. (LeftShift \in held \cap seen) = FALSE /\ (RightShift \in held \cap seen) = FALSE
      BY <3>1
    <3>. QED BY <3>1, <3>2, Zenon DEF Now, HeldFlags
  <2>2. f \in [0 .. 0 -> Flags] /\ f[0] = Now
    BY <1>1, FlagTypes
  <2>. HIDE DEF f
  <2>3. Reads(<<>>, f)
    BY DEF Reads
  <2>. QED BY <2>1, <2>2, <2>3 DEF Leads
<1>. QED BY <1>1, <1>2, <1>3 DEF IInv

\* handleKeyboard's flags are the ones that follow, and it stores a byte, which is
\* the character that is due.
LEMMA HandlerFacts ==
  ASSUME TypeOK, behind \in Byte, NEW p \in Packets,
         LET code == p.byte
         IN  SecondByte(code) \/ PrefixByte(code) \/ ShiftPressed(code) \/ OtherByte(code)
  PROVE  /\ Now' = After(Now, p.byte)
         /\ {leftShiftDown', rightShiftDown', mod'} \subseteq BOOLEAN
         /\ stored' \in Byte
         /\ Sound(Now, p) => p.due = Undecided \/ stored' = p.due
<1>. DEFINE code == p.byte
<1>1. code \in Byte /\ p.due \in Byte \cup {Undecided}
  BY DEF Packets
<1>. HIDE DEF code
<1>2. SecondByte(code) \/ PrefixByte(code) \/ ShiftPressed(code) \/ OtherByte(code)
  BY DEF code
<1>3. leftShiftDown \in BOOLEAN /\ rightShiftDown \in BOOLEAN /\ mod \in BOOLEAN
  BY FlagTypes
<1>4. NoChar = 0 /\ Newline = 10 /\ Space = 32 /\ NoChar \in Byte /\ Newline \in Byte
        /\ Space \in Byte
  BY DEF NoChar, Newline, Space, Byte
<1>. DEFINE Goal == /\ Now' = After(Now, code)
                    /\ {leftShiftDown', rightShiftDown', mod'} \subseteq BOOLEAN
                    /\ stored' \in Byte
                    /\ Sound(Now, p) => p.due = Undecided \/ stored' = p.due
<1>. SUFFICES Goal
  BY DEF code
<1>5. CASE SecondByte(code)
  <2>1. mod /\ mod' = FALSE /\ stored' = NoChar /\ leftShiftDown' = leftShiftDown
          /\ rightShiftDown' = rightShiftDown
    BY <1>5 DEF SecondByte
  <2>2. Now' = After(Now, code)
    BY <2>1 DEF Now, After
  <2>3. Now.mod
    BY <2>1 DEF Now
  <2>. QED BY <2>1, <2>2, <2>3, <1>3, <1>4 DEF Sound, Key
<1>6. CASE PrefixByte(code)
  <2>1. ~mod /\ mod' = TRUE /\ stored' = NoChar /\ leftShiftDown' = leftShiftDown
          /\ rightShiftDown' = rightShiftDown /\ code = 224
    BY <1>6, CodeFacts DEF PrefixByte
  <2>2. Now' = After(Now, code)
    BY <2>1, CodeFacts DEF Now, After
  <2>. QED BY <2>1, <2>2, <1>3, <1>4, CodeFacts DEF Sound, Key, code
<1>7. CASE ShiftPressed(code)
  <2>1. ~mod /\ mod' = mod /\ stored' = NoChar /\ code \in {42, 54}
          /\ leftShiftDown' = (code = 42 \/ leftShiftDown)
          /\ rightShiftDown' = (code = 54 \/ rightShiftDown)
    BY <1>7, CodeFacts DEF ShiftPressed
  <2>2. Now' = After(Now, code)
    <3>1. leftShiftDown' = (code = LeftShift \/ (leftShiftDown /\ code # Released(LeftShift)))
            /\ rightShiftDown' = (code = RightShift
                                  \/ (rightShiftDown /\ code # Released(RightShift)))
      BY <2>1, <1>3, CodeFacts
    <3>2. code # Prefix
      BY <2>1, CodeFacts
    <3>3. mod' = FALSE /\ ~Now.mod /\ Now.left = leftShiftDown /\ Now.right = rightShiftDown
      BY <2>1, <1>3 DEF Now
    <3>. QED BY <3>1, <3>2, <3>3, Zenon DEF Now, After
  <2>. QED BY <2>1, <2>2, <1>3, <1>4, CodeFacts DEF Sound, Key, code
<1>8. CASE OtherByte(code)
  <2>1. ~mod /\ mod' = mod /\ code \notin {42, 54, 224}
          /\ leftShiftDown' = (leftShiftDown /\ code # 170)
          /\ rightShiftDown' = (rightShiftDown /\ code # 182)
    BY <1>8, CodeFacts DEF OtherByte
  <2>2. stored' = CASE code = 28 -> Newline [] code = 57 -> Space [] code = 14 -> NoChar
                    [] OTHER -> Lookup(code, leftShiftDown' \/ rightShiftDown')
    BY <1>8, CodeFacts DEF OtherByte, ShiftDown
  <2>3. Now' = After(Now, code)
    <3>1. leftShiftDown' = (code = LeftShift \/ (leftShiftDown /\ code # Released(LeftShift)))
            /\ rightShiftDown' = (code = RightShift
                                  \/ (rightShiftDown /\ code # Released(RightShift)))
      BY <2>1, <1>3, CodeFacts
    <3>2. code # Prefix
      BY <2>1, CodeFacts
    <3>3. mod' = FALSE /\ ~Now.mod /\ Now.left = leftShiftDown /\ Now.right = rightShiftDown
      BY <2>1, <1>3 DEF Now
    <3>. QED BY <3>1, <3>2, <3>3, Zenon DEF Now, After
  <2>4. {leftShiftDown', rightShiftDown', mod'} \subseteq BOOLEAN
    BY <2>1, <1>3
  <2>5. stored' \in Byte
    <3>1. Lookup(code, leftShiftDown' \/ rightShiftDown') \in Byte
      BY <1>1, <2>4, LookupByte
    <3>. QED BY <2>2, <3>1, <1>4
  <2>6. ASSUME Sound(Now, p), p.due # Undecided PROVE stored' = p.due
    <3>1. Now.mod = mod /\ Now.left = leftShiftDown /\ Now.right = rightShiftDown
      BY DEF Now
    <3>2. CASE Mute(Now, code) /\ p.due = NoChar
      <4>1. code = 14 \/ code > 58
        BY <2>1, <3>1, <3>2, CodeFacts DEF Mute
      <4>2. code > 58 => Lookup(code, leftShiftDown' \/ rightShiftDown') = NoChar
        BY DEF Lookup
      <4>. QED BY <2>2, <3>2, <4>1, <4>2
    <3>3. CASE code = 28 /\ p.due = Newline
      BY <2>2, <3>3
    <3>4. CASE code = 57 /\ p.due = Space
      BY <2>2, <3>4
    <3>5. CASE Key(Now, code)
      <4>1. code \in 0 .. 57 /\ code \notin {28, 57, 14}
        BY <3>5, CodeFacts DEF Key
      <4>2. leftShiftDown' = leftShiftDown /\ rightShiftDown' = rightShiftDown
        BY <2>1, <4>1, <1>3
      <4>3. stored' = Lookup(code, leftShiftDown \/ rightShiftDown)
        BY <2>2, <4>1, <4>2
      <4>4. CASE leftShiftDown \/ rightShiftDown
        <5>1. (leftShiftDown \/ rightShiftDown) = TRUE
          BY <4>4
        <5>2. Ascii[code + 1] \in DOMAIN ShiftedKeycap
                /\ p.due = ShiftedKeycap[Ascii[code + 1]]
          BY <2>6, <3>1, <3>5, <4>1, <4>4, CodeFacts DEF Sound, Key, Mute, code
        <5>. QED BY <4>1, <4>3, <5>1, <5>2, LookupUpper
      <4>5. CASE ~ (leftShiftDown \/ rightShiftDown)
        <5>1. (leftShiftDown \/ rightShiftDown) = FALSE
          BY <4>5
        <5>2. p.due = Ascii[code + 1]
          BY <2>6, <3>1, <3>5, <4>1, <4>5, CodeFacts DEF Sound, Key, Mute, code
        <5>. QED BY <4>1, <4>3, <5>1, <5>2, LookupPlain
      <4>. QED BY <4>4, <4>5
    <3>. QED BY <2>6, <3>2, <3>3, <3>4, <3>5, CodeFacts DEF Sound, code
  <2>. QED BY <2>3, <2>4, <2>5, <2>6
<1>. QED BY <1>2, <1>5, <1>6, <1>7, <1>8

LEMMA HandlerInv == IInv /\ keyboardHandler => IInv'
<1>. SUFFICES ASSUME IInv, keyboardHandler PROVE IInv'
  OBVIOUS
<1>. DEFINE p == Head(wire)
<1>1. TypeOK /\ behind \in Byte /\ wire \in Seq(Packets) /\ Leads(wire, Now, HeldFlags)
  BY DEF IInv
<1>2. /\ wire # <<>>
      /\ LET code == p.byte
         IN  SecondByte(code) \/ PrefixByte(code) \/ ShiftPressed(code) \/ OtherByte(code)
      /\ due' = p.due /\ wire' = Tail(wire) /\ behind' = behind /\ held' = held /\ seen' = seen
  BY DEF keyboardHandler
<1>3. /\ Leads(wire', After(Now, p.byte), HeldFlags) /\ wire' \in Seq(Packets)
      /\ Sound(Now, p) /\ p \in Packets
  BY <1>1, <1>2, LeadsTail
<1>. HIDE DEF p
<1>4. /\ Now' = After(Now, p.byte)
      /\ {leftShiftDown', rightShiftDown', mod'} \subseteq BOOLEAN
      /\ stored' \in Byte
      /\ p.due = Undecided \/ stored' = p.due
  BY <1>1, <1>2, <1>3, HandlerFacts
<1>5. HeldFlags' = HeldFlags
  BY <1>2 DEF HeldFlags
<1>6. TypeOK'
  <2>1. \A i \in DOMAIN wire' : wire'[i] \in Packets
    BY <1>3
  <2>2. p.due \in Byte \cup {Undecided}
    BY <1>3 DEF Packets
  <2>. QED BY <1>1, <1>2, <1>4, <2>1, <2>2 DEF TypeOK, Packets
<1>7. Leads(wire', Now', HeldFlags')
  BY <1>3, <1>4, <1>5
<1>8. StoresWhatIsTyped'
  BY <1>2, <1>4 DEF StoresWhatIsTyped
<1>. QED BY <1>1, <1>2, <1>3, <1>6, <1>7, <1>8 DEF IInv

\* More is put on the wire.
LEMMA SendInv ==
  ASSUME IInv, NEW packets \in Seq(Packets), Leads(packets, HeldFlags, HeldFlags'), Send(packets),
         held' \subseteq Shifts, seen' \subseteq Shifts,
         UNCHANGED <<leftShiftDown, rightShiftDown, mod, behind, stored, due>>
  PROVE  IInv'
<1>1. TypeOK /\ behind \in Byte /\ wire \in Seq(Packets) /\ Leads(wire, Now, HeldFlags)
        /\ StoresWhatIsTyped
  BY DEF IInv
<1>2. wire' = wire \o packets
  BY DEF Send
<1>3. Leads(wire', Now, HeldFlags') /\ wire' \in Seq(Packets)
  BY <1>1, <1>2, LeadsConcat
<1>4. Now' = Now
  BY DEF Now
<1>5. TypeOK'
  <2>1. \A i \in DOMAIN wire' : wire'[i] \in Packets
    BY <1>3
  <2>. QED BY <1>1, <2>1 DEF TypeOK, Packets
<1>6. StoresWhatIsTyped'
  BY <1>1 DEF StoresWhatIsTyped
<1>7. Leads(wire', Now', HeldFlags')
  BY <1>3, <1>4
<1>. QED BY <1>1, <1>3, <1>5, <1>6, <1>7 DEF IInv

LEMMA LeadsSilentOne ==
  ASSUME NEW b \in Byte, NEW a \in Flags, Mute(a, b)
  PROVE  Leads(Silent(<<b>>), a, After(a, b)) /\ Silent(<<b>>) \in Seq(Packets)
<1>. DEFINE f == [i \in 0 .. 1 |-> IF i = 0 THEN a ELSE After(a, b)]
            v == <<b>>
<1>1. v \in Seq(Byte) /\ Len(v) = 1 /\ v[1] = b
  OBVIOUS
<1>2. f \in [0 .. 1 -> Flags] /\ f[0] = a /\ f[1] = After(a, b)
  BY AfterType
<1>. HIDE DEF f, v
<1>3. \A i \in 1 .. 1 : f[i] = After(f[i - 1], v[i]) /\ Mute(f[i - 1], v[i])
  <2>1. \A i \in 1 .. 1 : i = 1 /\ i - 1 = 0
    OBVIOUS
  <2>. QED BY <2>1, <1>1, <1>2
<1>4. Leads(Silent(v), a, After(a, b)) /\ Silent(v) \in Seq(Packets)
  BY <1>1, <1>2, <1>3, LeadsSilent
<1>. QED BY <1>4 DEF v

\* What is not a shift key leaves the flags alone.
LEMMA DownStays ==
  ASSUME TypeOK, NEW code \in Byte \ {42, 54, 170, 182, 224}
  PROVE  After(HeldFlags, code) = HeldFlags
<1>1. /\ code # LeftShift /\ code # Released(LeftShift) /\ code # RightShift
      /\ code # Released(RightShift) /\ code # Prefix
  BY CodeFacts
<1>2. HeldFlags \in Flags /\ ~HeldFlags.mod
  BY FlagTypes
<1>3. HeldFlags = [left |-> HeldFlags.left, right |-> HeldFlags.right, mod |-> FALSE]
  BY DEF HeldFlags
<1>4. /\ HeldFlags.left \in BOOLEAN /\ HeldFlags.right \in BOOLEAN
      /\ (code = LeftShift \/ (HeldFlags.left /\ code # Released(LeftShift))) = HeldFlags.left
      /\ (code = RightShift \/ (HeldFlags.right /\ code # Released(RightShift))) = HeldFlags.right
  BY <1>1, <1>2 DEF Flags
<1>5. After(HeldFlags, code) = [left |-> HeldFlags.left, right |-> HeldFlags.right, mod |-> FALSE]
  BY <1>1, <1>2, <1>4, Zenon DEF After
<1>. QED BY <1>3, <1>5

\* The character on the keycap is the one that lookup should find.
LEMMA PressRight ==
  ASSUME TypeOK, NEW code \in 0 .. 127, code \notin Shifts
  PROVE  /\ [byte |-> code, due |-> KeyChar(code)] \in Packets
         /\ Sound(HeldFlags, [byte |-> code, due |-> KeyChar(code)])
<1>. DEFINE p == [byte |-> code, due |-> KeyChar(code)]
            d == KeyChar(code)
<1>1. p.byte = code /\ p.due = d
  OBVIOUS
<1>2. code \in Byte /\ NoChar \in Byte /\ Newline \in Byte /\ Space \in Byte
  BY DEF Byte, NoChar, Newline, Space
<1>3. ~HeldFlags.mod
  BY FlagTypes
<1>. SUFFICES d \in Byte \cup {Undecided} /\ Sound(HeldFlags, p)
  BY <1>2 DEF Packets
<1>. HIDE DEF p
<1>4. CASE code = Enter
  <2>1. d = Newline
    <3>1. code # Spacebar /\ code # BackSpace /\ ~ (code > CapsLock) /\ code # CapsLock
      BY <1>4, CodeFacts
    <3>. QED BY <1>4, <3>1, Zenon DEF KeyChar
  <2>. QED BY <2>1, <1>1, <1>2, <1>3, <1>4 DEF Sound
<1>5. CASE code = Spacebar
  <2>1. d = Space
    <3>1. code # Enter /\ code # BackSpace /\ ~ (code > CapsLock) /\ code # CapsLock
      BY <1>5, CodeFacts
    <3>. QED BY <1>5, <3>1, Zenon DEF KeyChar
  <2>. QED BY <2>1, <1>1, <1>2, <1>3, <1>5 DEF Sound
<1>6. CASE code = BackSpace \/ code > CapsLock
  <2>1. d = NoChar
    <3>1. code # Enter /\ code # Spacebar /\ code # CapsLock
      BY <1>6, CodeFacts
    <3>. QED BY <1>6, <3>1, Zenon DEF KeyChar
  <2>. QED BY <2>1, <1>1, <1>2, <1>3, <1>6 DEF Sound, Mute
<1>7. CASE code = CapsLock \/ held \ seen # {}
  <2>1. d = Undecided \/ code \in {Enter, Spacebar, BackSpace} \/ code > CapsLock
    BY <1>7 DEF KeyChar
  <2>. QED BY <2>1, <1>1, <1>4, <1>5, <1>6 DEF Sound
<1>8. CASE /\ code \notin {Enter, Spacebar, BackSpace, CapsLock} /\ ~ (code > CapsLock)
           /\ held \ seen = {}
  <2>. DEFINE c == Ascii[code + 1]
  <2>1. d = IF held = {} THEN c
            ELSE IF c \in DOMAIN ShiftedKeycap THEN ShiftedKeycap[c]
            ELSE Undecided
    BY <1>8 DEF KeyChar
  <2>2. code \in 0 .. 57 /\ Key(HeldFlags, code)
    BY <1>3, <1>8, CodeFacts DEF Key
  <2>3. (HeldFlags.left \/ HeldFlags.right) <=> held # {}
    BY <1>8 DEF HeldFlags, TypeOK, Shifts
  <2>4. c \in Byte
    BY <2>2, AsciiBytes
  <2>5. c \in DOMAIN ShiftedKeycap => ShiftedKeycap[c] \in Byte
    BY KeycapByte
  <2>. HIDE DEF c, d
  <2>6. d \in Byte \cup {Undecided}
    BY <2>1, <2>4, <2>5
  <2>7. Sound(HeldFlags, p)
    <3>1. CASE d = Undecided
      BY <3>1, <1>1 DEF Sound
    <3>2. CASE held = {} /\ d = c
      BY <3>2, <1>1, <2>2, <2>3 DEF Sound, c
    <3>3. CASE held # {} /\ c \in DOMAIN ShiftedKeycap /\ d = ShiftedKeycap[c]
      BY <3>3, <1>1, <2>2, <2>3 DEF Sound, c
    <3>. QED BY <2>1, <3>1, <3>2, <3>3
  <2>. QED BY <2>6, <2>7 DEF d
<1>. QED BY <1>4, <1>5, <1>6, <1>7, <1>8

-------------------------------------------------------------------------------
(* The keyboard sends what handleKeyboard keeps in step with.              *)

LEMMA TouchInv == IInv /\ Touch => IInv'
<1>. SUFFICES ASSUME IInv, Touch PROVE IInv'
  OBVIOUS
<1>1. TypeOK /\ held \subseteq Shifts /\ seen \subseteq Shifts
  BY DEF IInv, TypeOK
<1>2. UNCHANGED <<leftShiftDown, rightShiftDown, mod, behind, stored, due>>
  BY DEF Touch
<1>3. HeldFlags \in Flags /\ ~HeldFlags.mod
  BY <1>1, FlagTypes
\* A plain key.
<1>4. ASSUME NEW code \in Keys, Press(code) PROVE IInv'
  <2>. DEFINE p == [byte |-> code, due |-> KeyChar(code)]
  <2>1. code \in 0 .. 127 /\ code \notin Shifts /\ code \in Byte \ {42, 54, 170, 182, 224}
    BY KeysAssumption, CodeFacts
  <2>2. p \in Packets /\ Sound(HeldFlags, p) /\ p.byte = code
    BY <1>1, <2>1, PressRight
  <2>3. Send(<<p>>) /\ UNCHANGED <<held, seen>>
    BY <1>4 DEF Press, keyboard
  <2>. HIDE DEF p
  <2>4. Leads(<<p>>, HeldFlags, HeldFlags) /\ <<p>> \in Seq(Packets)
    BY <1>1, <1>3, <2>1, <2>2, LeadsOne, DownStays
  <2>5. HeldFlags' = HeldFlags
    BY <2>3 DEF HeldFlags
  <2>. QED BY <1>1, <1>2, <2>3, <2>4, <2>5, SendInv
<1>5. ASSUME NEW code \in Keys, Release(code) PROVE IInv'
  <2>. DEFINE b == Released(code)
  <2>1. b \in Byte \ {42, 54, 170, 182, 224} /\ b > 58
    BY KeysAssumption, CodeFacts DEF Released
  <2>2. Send(Silent(<<b>>)) /\ UNCHANGED <<held, seen>>
    BY <1>5 DEF Release, keyboard
  <2>. HIDE DEF b
  <2>3. Mute(HeldFlags, b)
    BY <2>1, CodeFacts DEF Mute
  <2>4. Leads(Silent(<<b>>), HeldFlags, HeldFlags) /\ Silent(<<b>>) \in Seq(Packets)
    BY <1>1, <1>3, <2>1, <2>3, LeadsSilentOne, DownStays
  <2>5. HeldFlags' = HeldFlags
    BY <2>2 DEF HeldFlags
  <2>. QED BY <1>1, <1>2, <2>2, <2>4, <2>5, SendInv
\* A shift key.
<1>6. ASSUME NEW s \in Shifts, PressShift(s) PROVE IInv'
  <2>1. s \in Byte /\ s \in {42, 54}
    BY CodeFacts
  <2>2. Send(Silent(<<s>>)) /\ held' = held \cup {s} /\ seen' = seen \cup {s}
    BY <1>6 DEF PressShift
  <2>3. Mute(HeldFlags, s)
    BY <2>1, CodeFacts DEF Mute
  <2>4. Leads(Silent(<<s>>), HeldFlags, After(HeldFlags, s)) /\ Silent(<<s>>) \in Seq(Packets)
    BY <1>3, <2>1, <2>3, LeadsSilentOne
  <2>5. HeldFlags' = After(HeldFlags, s)
    <3>1. s # Prefix /\ s # Released(LeftShift) /\ s # Released(RightShift)
      BY <2>1, CodeFacts
    <3>2. (LeftShift \in held' \cap seen')
            = (s = LeftShift \/ (LeftShift \in held \cap seen /\ s # Released(LeftShift)))
      BY <2>2, <3>1
    <3>3. (RightShift \in held' \cap seen')
            = (s = RightShift \/ (RightShift \in held \cap seen /\ s # Released(RightShift)))
      BY <2>2, <3>1
    <3>4. HeldFlags.left = (LeftShift \in held \cap seen) /\ HeldFlags.right = (RightShift \in held \cap seen)
      BY DEF HeldFlags
    <3>. QED BY <1>3, <3>1, <3>2, <3>3, <3>4, Zenon DEF After, HeldFlags
  <2>6. held' \subseteq Shifts /\ seen' \subseteq Shifts
    BY <1>1, <2>2
  <2>. QED BY <1>2, <2>2, <2>4, <2>5, <2>6, SendInv
<1>7. ASSUME NEW s \in Shifts, ReleaseShift(s) PROVE IInv'
  <2>. DEFINE b == Released(s)
  <2>1. b \in Byte /\ b > 58 /\ b \in {170, 182} /\ b # Prefix /\ b # LeftShift /\ b # RightShift
          /\ (b = Released(LeftShift) <=> s = LeftShift)
          /\ (b = Released(RightShift) <=> s = RightShift)
    BY CodeFacts DEF Released
  <2>2. Send(Silent(<<b>>)) /\ held' = held \ {s} /\ seen' = seen \cup {s}
    BY <1>7 DEF ReleaseShift
  <2>. HIDE DEF b
  <2>3. Mute(HeldFlags, b)
    BY <2>1, CodeFacts DEF Mute
  <2>4. Leads(Silent(<<b>>), HeldFlags, After(HeldFlags, b)) /\ Silent(<<b>>) \in Seq(Packets)
    BY <1>3, <2>1, <2>3, LeadsSilentOne
  <2>5. HeldFlags' = After(HeldFlags, b)
    <3>1. (LeftShift \in held' \cap seen')
            = (b = LeftShift \/ (LeftShift \in held \cap seen /\ b # Released(LeftShift)))
      BY <2>1, <2>2
    <3>2. (RightShift \in held' \cap seen')
            = (b = RightShift \/ (RightShift \in held \cap seen /\ b # Released(RightShift)))
      BY <2>1, <2>2
    <3>3. HeldFlags.left = (LeftShift \in held \cap seen) /\ HeldFlags.right = (RightShift \in held \cap seen)
      BY DEF HeldFlags
    <3>. QED BY <1>3, <2>1, <3>1, <3>2, <3>3, Zenon DEF After, HeldFlags
  <2>6. held' \subseteq Shifts /\ seen' \subseteq Shifts
    BY <1>1, <2>2
  <2>. QED BY <1>2, <2>2, <2>4, <2>5, <2>6, SendInv
\* A key with a prefix.
<1>8. ASSUME NEW code \in Extended, PressExtended(code) \/ ReleaseExtended(code) PROVE IInv'
  <2>1. /\ code \in Byte /\ Released(code) \in Byte
        /\ \A s \in Shifts : s \in Byte /\ Released(s) \in Byte
    BY KeysAssumption, CodeFacts DEF Released
  <2>2. \E packets \in Seq(Packets) : Leads(packets, HeldFlags, HeldFlags) /\ Send(packets)
    <3>1. CASE PressExtended(code)
      <4>1. CASE Send(Silent(<<Prefix, code>>))
        BY <1>3, <2>1, <4>1, LeadsPrefixed
      <4>2. ASSUME NEW s \in held, Send(Silent(<<Prefix, Released(s), Prefix, code>>))
            PROVE  \E packets \in Seq(Packets) : Leads(packets, HeldFlags, HeldFlags) /\ Send(packets)
        BY <1>1, <1>3, <2>1, <4>2, LeadsPrefixed
      <4>. QED BY <3>1, <4>1, <4>2 DEF PressExtended
    <3>2. CASE ReleaseExtended(code)
      <4>1. CASE Send(Silent(<<Prefix, Released(code)>>))
        BY <1>3, <2>1, <4>1, LeadsPrefixed
      <4>2. ASSUME NEW s \in held, Send(Silent(<<Prefix, Released(code), Prefix, s>>))
            PROVE  \E packets \in Seq(Packets) : Leads(packets, HeldFlags, HeldFlags) /\ Send(packets)
        BY <1>1, <1>3, <2>1, <4>2, LeadsPrefixed
      <4>. QED BY <3>2, <4>1, <4>2 DEF ReleaseExtended
    <3>. QED BY <1>8, <3>1, <3>2
  <2>3. UNCHANGED <<held, seen>>
    BY <1>8 DEF PressExtended, ReleaseExtended, keyboard
  <2>4. HeldFlags' = HeldFlags
    BY <2>3 DEF HeldFlags
  <2>. QED BY <1>1, <1>2, <2>2, <2>3, <2>4, SendInv
<1>. QED BY <1>4, <1>5, <1>6, <1>7, <1>8 DEF Touch

\* What is on the wire always leads to the flags that the shift keys call for.
THEOREM AlwaysInStep == Spec => []IInv
<1>1. Init => IInv
  BY InitInv
<1>2. IInv /\ [Next]_vars => IInv'
  <2>1. ASSUME IInv, UNCHANGED vars PROVE IInv'
    <3>1. Now' = Now /\ HeldFlags' = HeldFlags
      BY <2>1 DEF vars, Now, HeldFlags
    <3>2. TypeOK'
      BY <2>1 DEF vars, IInv, TypeOK
    <3>3. StoresWhatIsTyped'
      BY <2>1 DEF vars, IInv, StoresWhatIsTyped
    <3>4. behind' = behind /\ wire' = wire
      BY <2>1 DEF vars
    <3>. QED BY <2>1, <3>1, <3>2, <3>3, <3>4 DEF IInv
  <2>. QED BY <2>1, TouchInv, HandlerInv DEF Next
<1>. QED BY <1>1, <1>2, PTL DEF Spec

\* Flags are Booleans, and what handleKeyboard stores is a byte, whatever byte is
\* behind the array.
THEOREM TypesKept == Spec => []TypeOK
<1>1. IInv => TypeOK
  BY DEF IInv
<1>. QED BY <1>1, AlwaysInStep, PTL

\* Once every byte is read, handleKeyboard waits for no second byte, and its flags
\* say which of the shift keys that were touched are down.
THEOREM FlagsFollowShiftKeys == Spec => []ShiftTracks
<1>1. IInv => ShiftTracks
  <2>1. SUFFICES ASSUME IInv, wire = <<>>
                 PROVE  /\ ~mod
                        /\ leftShiftDown <=> LeftShift \in held \cap seen
                        /\ rightShiftDown <=> RightShift \in held \cap seen
    BY DEF ShiftTracks
  <2>2. Leads(<<>>, Now, HeldFlags)
    BY <2>1 DEF IInv
  <2>3. Now = HeldFlags
    BY <2>2 DEF Leads
  <2>4. leftShiftDown = (LeftShift \in held \cap seen)
          /\ rightShiftDown = (RightShift \in held \cap seen) /\ mod = FALSE
    <3>1. Now.left = HeldFlags.left /\ Now.right = HeldFlags.right /\ Now.mod = HeldFlags.mod
      BY <2>3
    <3>2. Now.left = leftShiftDown /\ Now.right = rightShiftDown /\ Now.mod = mod
      BY DEF Now
    <3>3. HeldFlags.left = (LeftShift \in held \cap seen)
            /\ HeldFlags.right = (RightShift \in held \cap seen) /\ HeldFlags.mod = FALSE
      BY DEF HeldFlags
    <3>. QED BY <3>1, <3>2, <3>3
  <2>. QED BY <2>4
<1>. QED BY <1>1, AlwaysInStep, PTL

\* Each byte stores the character on the keycap that was up when its key was
\* pressed, however late it is read.
THEOREM StoresTheKeycap == Spec => []StoresWhatIsTyped
<1>1. IInv => StoresWhatIsTyped
  BY DEF IInv
<1>. QED BY <1>1, AlwaysInStep, PTL

-------------------------------------------------------------------------------
(* The mouse: packets are whole, the pointer stays on the screen, and moves *)
(* by what the packet says or not at all.                                  *)

ByteValues == 0 .. 255
Bytes == [byte : ByteValues, at : Int]

MouseTypeOK ==
  /\ mCycle \in 0 .. 2 /\ mReady \in BOOLEAN
  /\ mPacket \in [0 .. 2 -> Bytes]
  /\ working \in [at : {"idle", "moving"}, flags : Bytes]
  /\ sent \in Nat

Positions == 0 .. PointerMax
Visible == [x : Positions, y : Positions, xm : {PointerMax}, ym : {PointerMax}]

\* The pointer is where it can be seen.
OnScreen == pointer \in Visible

\* Where a movement leads along one axis.
Goes(now, d) == IF now + d \in Positions THEN now + d ELSE now

\* The movements that a packet can ask for along one axis.
Movements == -511 .. 511

\* The bytes of a packet that is not complete are the last ones sent.
Collecting ==
  ~mReady => \A i \in 0 .. 2 : i < mCycle => mPacket[i].at = sent - mCycle + i

\* A packet that waits is whole, and the next one has not begun.
Waiting ==
  mReady => /\ mCycle = 0
            /\ \A i \in 0 .. 2 : mPacket[i].at = mPacket[0].at + i

\* processMPacket works on the packet that waits.
Working == working.at = "moving" => mReady /\ working.flags = mPacket[0]

MouseInv == MouseTypeOK /\ OnScreen /\ Collecting /\ Waiting /\ Working

-------------------------------------------------------------------------------
(* The pointer.                                                            *)

\* Adding a movement modulo Wrap stays within the limit exactly when adding it
\* as a signed number does, and then gives the same.
Agree(at, d) ==
  /\ (at + d) % Wrap <= PointerMax <=> at + d \in Positions
  /\ at + d \in Positions => (at + d) % Wrap = at + d

LEMMA SignedMove ==
  ASSUME NEW at \in Positions, NEW d \in Movements
  PROVE  Agree(at, d)
<1>. USE DEF Positions, Movements, Agree
<1>. /\ Wrap \in Nat \ {0} /\ PointerMax \in Nat /\ PointerMax + 511 < Wrap
  BY WrapAssumption, MouseAssumption
<1>1. CASE at + d < 0
  <2>1. (at + d) % Wrap = (at + d + Wrap) % Wrap
    BY <1>1
  <2>2. (at + d + Wrap) % Wrap = at + d + Wrap
    BY <1>1
  <2>. QED BY <1>1, <2>1, <2>2
<1>2. CASE at + d >= 0
  <2>1. (at + d) % Wrap = at + d
    BY <1>2
  <2>. QED BY <1>2, <2>1
<1>. QED BY <1>1, <1>2

\* A movement read from a byte is small, and the nine-bit number that the byte
\* and its sign are, unless there was an overflow.
LEMMA MovementSmall ==
  ASSUME NEW byte \in ByteValues, NEW neg, NEW over
  PROVE  /\ Movement(byte, neg, over) \in Movements
         /\ -Movement(byte, neg, over) \in Movements
         /\ ~over => Movement(byte, neg, over) = Signed(byte, neg)
<1>. USE DEF ByteValues, Movements
<1>1. CASE neg /\ over
  BY <1>1 DEF Movement
<1>2. CASE neg /\ ~over
  BY <1>2 DEF Movement, Signed
<1>3. CASE ~neg /\ over
  BY <1>3 DEF Movement
<1>4. CASE ~neg /\ ~over
  BY <1>4 DEF Movement, Signed
<1>. QED BY <1>1, <1>2, <1>3, <1>4

\* Move keeps the pointer on the screen, and on each axis adds the movement or
\* leaves it out.
LEMMA MoveOnScreen ==
  ASSUME OnScreen, NEW dx \in Movements, NEW dy \in Movements
  PROVE  LET after == Move(pointer, dx, dy)
         IN  /\ after \in Visible
             /\ after.x = Goes(pointer.x, dx) /\ after.y = Goes(pointer.y, dy)
<1>1. /\ pointer.x \in Positions /\ pointer.y \in Positions
      /\ pointer.xm = PointerMax /\ pointer.ym = PointerMax
  BY DEF OnScreen, Visible
<1>2. Agree(pointer.x, dx)
  BY <1>1, SignedMove
<1>3. Agree(pointer.y, dy)
  BY <1>1, SignedMove
<1>4. Move(pointer, dx, dy) =
        [x |-> Goes(pointer.x, dx), y |-> Goes(pointer.y, dy), xm |-> PointerMax, ym |-> PointerMax]
  <2>. DEFINE gx == Goes(pointer.x, dx)
              gy == Goes(pointer.y, dy)
  <2>1. PICK a, b : pointer = [x |-> a, y |-> b, xm |-> PointerMax, ym |-> PointerMax]
    BY DEF OnScreen, Visible
  <2>2. gx = IF (pointer.x + dx) % Wrap <= pointer.xm THEN (pointer.x + dx) % Wrap ELSE pointer.x
    BY <1>1, <1>2 DEF Goes, Agree
  <2>3. gy = IF (pointer.y + dy) % Wrap <= pointer.ym THEN (pointer.y + dy) % Wrap ELSE pointer.y
    BY <1>1, <1>3 DEF Goes, Agree
  <2>. HIDE DEF gx, gy
  <2>4. Move(pointer, dx, dy) = [pointer EXCEPT !.x = gx, !.y = gy]
    BY <2>2, <2>3, Zenon DEF Move
  <2>5. [pointer EXCEPT !.x = gx, !.y = gy] =
          [x |-> gx, y |-> gy, xm |-> PointerMax, ym |-> PointerMax]
    <3>. DEFINE half == [x |-> gx, y |-> b, xm |-> PointerMax, ym |-> PointerMax]
    <3>1. [pointer EXCEPT !.x = gx] = half
      BY <2>1
    <3>2. [pointer EXCEPT !.x = gx, !.y = gy] = [half EXCEPT !.y = gy]
      BY <3>1, Zenon
    <3>3. [half EXCEPT !.y = gy] = [x |-> gx, y |-> gy, xm |-> PointerMax, ym |-> PointerMax]
      OBVIOUS
    <3>. QED BY <3>2, <3>3, Zenon
  <2>. QED BY <2>4, <2>5 DEF gx, gy
<1>5. Goes(pointer.x, dx) \in Positions /\ Goes(pointer.y, dy) \in Positions
  BY <1>1 DEF Goes
<1>. QED BY <1>4, <1>5 DEF Visible

-------------------------------------------------------------------------------
(* The invariant.                                                          *)

LEMMA MouseInitInv == MouseInit => MouseInv
<1>. SUFFICES ASSUME MouseInit PROVE MouseInv
  OBVIOUS
<1>1. MouseTypeOK
  <2>1. NoByte \in Bytes
    BY DEF NoByte, Bytes, ByteValues
  <2>2. Idle \in [at : {"idle", "moving"}, flags : Bytes]
    BY <2>1 DEF Idle
  <2>3. mPacket \in [0 .. 2 -> Bytes]
    BY <2>1 DEF MouseInit
  <2>4. mCycle \in 0 .. 2 /\ sent \in Nat
    BY DEF MouseInit
  <2>5. mReady \in BOOLEAN /\ working \in [at : {"idle", "moving"}, flags : Bytes]
    BY <2>2 DEF MouseInit
  <2>. QED BY <2>3, <2>4, <2>5 DEF MouseTypeOK
<1>2. OnScreen
  BY MouseAssumption DEF MouseInit, OnScreen, Visible, Positions
<1>3. Collecting /\ Waiting /\ Working
  BY DEF MouseInit, Collecting, Waiting, Working, Idle
<1>. QED BY <1>1, <1>2, <1>3 DEF MouseInv

\* A byte is dropped while a packet waits, and becomes the next byte of the
\* packet otherwise.
LEMMA ByteStep == MouseInv /\ MouseByte => MouseInv'
<1>. SUFFICES ASSUME MouseInv, MouseByte PROVE MouseInv'
  OBVIOUS
<1>. USE DEF MouseInv
<1>1. PICK b \in FlagBytes \cup MoveBytes : HandleMouse([byte |-> b, at |-> sent])
  BY DEF MouseByte
<1>2. [byte |-> b, at |-> sent] \in Bytes
  BY MouseAssumption DEF MouseTypeOK, Bytes, ByteValues
<1>3. OnScreen'
  BY DEF MouseByte, OnScreen
<1>4. CASE mReady
  BY <1>1, <1>3, <1>4 DEF MouseByte, HandleMouse, MouseTypeOK, Collecting, Waiting, Working
<1>5. CASE ~mReady
  <2>1. /\ mPacket' = [mPacket EXCEPT ![mCycle] = [byte |-> b, at |-> sent]]
        /\ mCycle' = (mCycle + 1) % 3 /\ mReady' = (mCycle = 2)
        /\ sent' = sent + 1 /\ working' = working
    BY <1>1, <1>5 DEF MouseByte, HandleMouse
  <2>2. mCycle' = IF mCycle = 2 THEN 0 ELSE mCycle + 1
    BY <2>1 DEF MouseTypeOK
  <2>3. MouseTypeOK'
    BY <1>2, <2>1, <2>2 DEF MouseTypeOK
  <2>4. \A i \in 0 .. 2 : i <= mCycle => mPacket'[i].at = sent - mCycle + i
    BY <1>5, <2>1 DEF Collecting, MouseTypeOK
  <2>5. mCycle \in 0 .. 2 /\ sent \in Nat
    BY DEF MouseTypeOK
  <2>6. Collecting'
    <3>1. SUFFICES ASSUME mCycle # 2, NEW i \in 0 .. 2, i < mCycle'
                   PROVE  mPacket'[i].at = sent' - mCycle' + i
      BY <2>1 DEF Collecting
    <3>2. mPacket'[i].at = sent - mCycle + i
      BY <2>2, <2>4, <2>5, <3>1
    <3>. QED BY <2>1, <2>2, <2>5, <3>1, <3>2
  <2>7. Waiting'
    <3>1. SUFFICES ASSUME mCycle = 2
                   PROVE  mCycle' = 0 /\ \A i \in 0 .. 2 : mPacket'[i].at = mPacket'[0].at + i
      BY <2>1 DEF Waiting
    <3>2. \A i \in 0 .. 2 : mPacket'[i].at = sent - 2 + i
      BY <2>4, <3>1
    <3>. QED BY <2>2, <2>5, <3>1, <3>2
  <2>8. Working'
    BY <1>5, <2>1 DEF Working
  <2>. QED BY <1>3, <2>3, <2>6, <2>7, <2>8
<1>. QED BY <1>4, <1>5

LEMMA FlagsStep == MouseInv /\ ReadFlags => MouseInv'
<1>. SUFFICES ASSUME MouseInv, ReadFlags PROVE MouseInv'
  OBVIOUS
<1>. USE DEF MouseInv
<1>1. MouseTypeOK' /\ OnScreen'
  BY DEF ReadFlags, MouseTypeOK, OnScreen
<1>2. Collecting' /\ Waiting' /\ Working'
  BY DEF ReadFlags, Collecting, Waiting, Working
<1>. QED BY <1>1, <1>2

\* The step that moves the pointer, with the packet that waits.
LEMMA MoveStep ==
  ASSUME MouseInv, MovePointer
  PROVE  LET f == working.flags.byte
             dx == Movement(mPacket[1].byte, Has(f, XSign), Has(f, XOFlow))
             dy == -Movement(mPacket[2].byte, Has(f, YSign), Has(f, YOFlow))
         IN  /\ pointer' \in Visible
             /\ pointer'.x = Goes(pointer.x, dx) /\ pointer'.y = Goes(pointer.y, dy)
<1>. DEFINE f == working.flags.byte
            dx == Movement(mPacket[1].byte, Has(f, XSign), Has(f, XOFlow))
            up == Movement(mPacket[2].byte, Has(f, YSign), Has(f, YOFlow))
<1>1. mPacket[1].byte \in ByteValues /\ mPacket[2].byte \in ByteValues
  BY DEF MouseInv, MouseTypeOK, Bytes
<1>2. dx \in Movements
  BY <1>1, MovementSmall
<1>3. -up \in Movements
  BY <1>1, MovementSmall
<1>4. pointer' = Move(pointer, dx, -up)
  BY Zenon DEF MovePointer
<1>. HIDE DEF f, dx, up
<1>5. /\ pointer' \in Visible
      /\ pointer'.x = Goes(pointer.x, dx) /\ pointer'.y = Goes(pointer.y, -up)
  BY <1>2, <1>3, <1>4, MoveOnScreen DEF MouseInv
<1>. QED BY <1>5, Zenon DEF dx, up, f

LEMMA PointerStep == MouseInv /\ MovePointer => MouseInv'
<1>. SUFFICES ASSUME MouseInv, MovePointer PROVE MouseInv'
  OBVIOUS
<1>1. OnScreen'
  BY MoveStep DEF OnScreen
<1>2. MouseTypeOK'
  <2>1. mReady' = FALSE /\ working' = Idle /\ mCycle' = mCycle /\ mPacket' = mPacket /\ sent' = sent
    BY DEF MovePointer
  <2>2. Idle \in [at : {"idle", "moving"}, flags : Bytes]
    BY DEF Idle, NoByte, Bytes, ByteValues
  <2>. QED BY <2>1, <2>2 DEF MouseInv, MouseTypeOK
<1>3. Collecting' /\ Waiting' /\ Working'
  BY DEF MouseInv, MovePointer, MouseTypeOK, Collecting, Waiting, Working, Idle
<1>. QED BY <1>1, <1>2, <1>3 DEF MouseInv

LEMMA StepInv == MouseInv /\ [MouseNext]_mouseVars => MouseInv'
<1>. SUFFICES ASSUME MouseInv, [MouseNext]_mouseVars PROVE MouseInv'
  OBVIOUS
<1>1. CASE UNCHANGED mouseVars
  BY <1>1 DEF MouseInv, mouseVars, MouseTypeOK, OnScreen, Collecting, Waiting, Working
<1>. QED BY <1>1, ByteStep, FlagsStep, PointerStep DEF MouseNext

-------------------------------------------------------------------------------
(* Theorems.                                                               *)

\* Whatever a mouse sends and whenever it is processed, this holds (MouseSpec).
THEOREM Invariance == MouseSpec => []MouseInv
<1>. QED BY MouseInitInv, StepInv, PTL DEF MouseSpec

\* Packets are three bytes sent one after the other, whatever bytes a mouse
\* sends and whenever they are handled and processed.
THEOREM PacketsStayWhole == MouseSpec => []PacketsWhole
<1>1. MouseInv => PacketsWhole
  BY DEF MouseInv, Waiting, Working, PacketsWhole
<1>. QED BY <1>1, Invariance, PTL

\* The pointer never leaves the screen, of any size.
THEOREM PointerOnScreen == MouseSpec => []OnScreen
<1>1. MouseInv => OnScreen
  BY DEF MouseInv
<1>. QED BY <1>1, Invariance, PTL

\* When a packet is let go, the pointer has moved by what the packet says, or
\* not at all along an axis where that leads off the screen.
THEOREM PointerFollowsPackets == MouseSpec => MovesAllOrNothing
<1>. DEFINE f == working.flags.byte
            dx == Signed(mPacket[1].byte, Has(f, XSign))
            dy == -Signed(mPacket[2].byte, Has(f, YSign))
            Moved == mReady /\ ~mReady' /\ ~Has(f, XOFlow) /\ ~Has(f, YOFlow) =>
                       pointer'.x = Goes(pointer.x, dx) /\ pointer'.y = Goes(pointer.y, dy)
<1>1. MouseInv /\ MovePointer => Moved
  <2>. SUFFICES ASSUME MouseInv, MovePointer, ~Has(f, XOFlow), ~Has(f, YOFlow)
                PROVE  pointer'.x = Goes(pointer.x, dx) /\ pointer'.y = Goes(pointer.y, dy)
    OBVIOUS
  <2>1. Movement(mPacket[1].byte, Has(f, XSign), Has(f, XOFlow)) =
          Signed(mPacket[1].byte, Has(f, XSign))
    <3>1. mPacket[1].byte \in ByteValues
      BY DEF MouseInv, MouseTypeOK, Bytes
    <3>. QED BY <3>1, MovementSmall
  <2>2. Movement(mPacket[2].byte, Has(f, YSign), Has(f, YOFlow)) =
          Signed(mPacket[2].byte, Has(f, YSign))
    <3>1. mPacket[2].byte \in ByteValues
      BY DEF MouseInv, MouseTypeOK, Bytes
    <3>. QED BY <3>1, MovementSmall
  <2>. QED BY <2>1, <2>2, MoveStep
<1>2. MouseByte \/ ReadFlags \/ UNCHANGED mouseVars => Moved
  BY DEF MouseByte, HandleMouse, ReadFlags, mouseVars
<1>3. MouseInv /\ [MouseNext]_mouseVars => Moved
  BY <1>1, <1>2 DEF MouseNext
<1>. QED BY <1>3, Invariance, PTL DEF MouseSpec, MovesAllOrNothing, Goes, Positions

\* What PutString goes through.
Steps(after, s, k, n) ==
  after = [i \in 0 .. n |-> IF i = 0 THEN s ELSE PutChar(after[i - 1], k)]

LEMMA StepsExist ==
  ASSUME NEW s, NEW k, NEW n \in Nat
  PROVE  \E after : Steps(after, s, k, n)
<1>. DEFINE S == {i \in 0 .. n : \E after : Steps(after, s, k, i)}
<1>1. 0 \in S
  <2>. DEFINE g == [i \in 0 .. 0 |-> s]
  <2>1. Steps(g, s, k, 0)
    BY DEF Steps
  <2>. QED BY <2>1
<1>2. ASSUME NEW j \in 0 .. n - 1, j \in S PROVE j + 1 \in S
  <2>1. PICK g : Steps(g, s, k, j)
    BY <1>2
  <2>. DEFINE h == [i \in 0 .. j + 1 |-> IF i = j + 1 THEN PutChar(g[j], k) ELSE g[i]]
  <2>2. Steps(h, s, k, j + 1)
    <3>1. ASSUME NEW i \in 0 .. j + 1
          PROVE  h[i] = IF i = 0 THEN s ELSE PutChar(h[i - 1], k)
      <4>1. CASE i = j + 1
        <5>1. h[i] = PutChar(g[j], k) /\ h[i - 1] = g[j] /\ i # 0
          BY <4>1
        <5>. QED BY <5>1
      <4>2. CASE i # j + 1 /\ i # 0
        <5>1. i \in 0 .. j /\ i - 1 \in 0 .. j
          BY <4>2
        <5>2. h[i] = g[i] /\ h[i - 1] = g[i - 1]
          BY <4>2, <5>1
        <5>3. g[i] = PutChar(g[i - 1], k)
          BY <2>1, <4>2, <5>1 DEF Steps
        <5>. QED BY <4>2, <5>2, <5>3
      <4>3. CASE i # j + 1 /\ i = 0
        <5>1. h[i] = g[i] /\ g[i] = s
          BY <2>1, <4>3 DEF Steps
        <5>. QED BY <4>3, <5>1
      <4>. QED BY <4>1, <4>2, <4>3
    <3>2. h = [i \in 0 .. j + 1 |-> h[i]]
      OBVIOUS
    <3>. HIDE DEF h
    <3>. QED BY <3>1, <3>2 DEF Steps
  <2>. QED BY <2>2
<1>3. n \in 0 .. n
  OBVIOUS
<1>4. n \in S
  <2>. HIDE DEF S
  <2>. QED BY <1>1, <1>2, <1>3, CountingUp
<1>. QED BY <1>4

LEMMA PutStringSteps ==
  ASSUME NEW s, NEW k, NEW n \in Nat
  PROVE  \E after :
           /\ PutString(s, k, n) = after[n]
           /\ after[0] = s
           /\ \A i \in 0 .. n - 1 : after[i + 1] = PutChar(after[i], k)
<1>. DEFINE after == CHOOSE g : g = [i \in 0 .. n |-> IF i = 0 THEN s ELSE PutChar(g[i - 1], k)]
<1>1. PutString(s, k, n) = after[n]
  BY DEF PutString
<1>2. Steps(after, s, k, n)
  <2>0. PICK g : Steps(g, s, k, n)
    BY StepsExist, Zenon
  <2>1. g = [i \in 0 .. n |-> IF i = 0 THEN s ELSE PutChar(g[i - 1], k)]
    BY <2>0, Zenon DEF Steps
  <2>2. after = [i \in 0 .. n |-> IF i = 0 THEN s ELSE PutChar(after[i - 1], k)]
    BY <2>1, Zenon
  <2>. HIDE DEF after
  <2>. QED BY <2>2, Zenon DEF Steps
<1>3. after[0] = s
  <2>. HIDE DEF after
  <2>. QED BY <1>2 DEF Steps
<1>4. ASSUME NEW i \in 0 .. n - 1 PROVE after[i + 1] = PutChar(after[i], k)
  <2>. HIDE DEF after
  <2>1. i + 1 \in 0 .. n /\ i + 1 # 0 /\ (i + 1) - 1 = i
    OBVIOUS
  <2>2. after[i + 1] = PutChar(after[(i + 1) - 1], k)
    BY <1>2, <2>1 DEF Steps
  <2>. QED BY <2>1, <2>2
<1>. HIDE DEF after
<1>. QED BY <1>1, <1>3, <1>4, Zenon

-------------------------------------------------------------------------------
(* A character.                                                            *)

CursorPlaces ==
  [x : 0 .. Columns - 1, y : 0 .. Rows - 1, xm : {Columns - 1}, ym : {Rows - 1}]
Grids == [Cells -> Seq(Nat)]
Screens == [cur : CursorPlaces, drawn : Grids]

\* Numbers below the width of a coordinate are what they are.
LEMMA NextSmall ==
  ASSUME NEW n \in Nat, NEW limit \in Nat, n < limit - 1, limit < Wrap
  PROVE  (n + 1) % Wrap = n + 1
BY WrapAssumption

LEMMA DownFacts ==
  ASSUME NEW c \in CursorPlaces
  PROVE  Down(c) = [c EXCEPT !.y = IF c.y = Rows - 1 THEN c.y ELSE c.y + 1]
<1>1. c.y \in 0 .. Rows - 1 /\ c.ym = Rows - 1 /\ Rows \in Nat \ {0} /\ Rows < Wrap
  BY ConsoleAssumption DEF CursorPlaces
<1>2. c.y # Rows - 1 => (c.y + 1) % Wrap = c.y + 1
  <2>. DEFINE y == c.y
  <2>. HIDE DEF y
  <2>1. y \in Nat /\ (y # Rows - 1 => y < Rows - 1)
    BY <1>1 DEF y
  <2>2. y # Rows - 1 => (y + 1) % Wrap = y + 1
    BY <1>1, <2>1, NextSmall
  <2>. QED BY <2>2 DEF y
<1>3. c = [c EXCEPT !.y = c.y]
  BY DEF CursorPlaces
<1>. QED BY <1>1, <1>2, <1>3 DEF Down

LEMMA RightFacts ==
  ASSUME NEW c \in CursorPlaces
  PROVE  /\ Right(c) \in CursorPlaces
         /\ Right(c).x = IF c.x < Columns - 1 THEN c.x + 1 ELSE 0
         /\ Right(c).y = IF c.x < Columns - 1 \/ c.y = Rows - 1 THEN c.y ELSE c.y + 1
<1>1. /\ c.x \in 0 .. Columns - 1 /\ c.y \in 0 .. Rows - 1 /\ c.xm = Columns - 1
      /\ Columns \in Nat \ {0} /\ Rows \in Nat \ {0} /\ Columns < Wrap
  BY ConsoleAssumption DEF CursorPlaces
<1>2. CASE c.x # Columns - 1
  <2>1. (c.x + 1) % Wrap = c.x + 1
    <3>. DEFINE x == c.x
    <3>. HIDE DEF x
    <3>1. x \in Nat /\ x < Columns - 1
      BY <1>1, <1>2 DEF x
    <3>2. (x + 1) % Wrap = x + 1
      BY <1>1, <3>1, NextSmall
    <3>. QED BY <3>2 DEF x
  <2>2. Right(c) = [c EXCEPT !.x = c.x + 1]
    BY <1>1, <1>2, <2>1 DEF Right
  <2>3. c.x < Columns - 1 /\ c.x + 1 \in 0 .. Columns - 1
    BY <1>1, <1>2
  <2>. QED BY <1>1, <2>2, <2>3 DEF CursorPlaces
<1>3. CASE c.x = Columns - 1
  <2>1. Right(c) = [Down(c) EXCEPT !.x = 0]
    BY <1>1, <1>3 DEF Right
  <2>2. Right(c) = [c EXCEPT !.y = IF c.y = Rows - 1 THEN c.y ELSE c.y + 1, !.x = 0]
    BY <2>1, DownFacts
  <2>3. (IF c.y = Rows - 1 THEN c.y ELSE c.y + 1) \in 0 .. Rows - 1 /\ 0 \in 0 .. Columns - 1
    BY <1>1
  <2>4. Right(c) \in CursorPlaces
    BY <2>2, <2>3 DEF CursorPlaces
  <2>5. Right(c).x = 0 /\ Right(c).y = IF c.y = Rows - 1 THEN c.y ELSE c.y + 1
    BY <2>2 DEF CursorPlaces
  <2>. QED BY <1>1, <1>3, <2>4, <2>5
<1>. QED BY <1>2, <1>3

LEMMA NewLineFacts ==
  ASSUME NEW c \in CursorPlaces
  PROVE  /\ NewLine(c) \in CursorPlaces
         /\ NewLine(c).x = 0
         /\ NewLine(c).y = IF c.y = Rows - 1 THEN c.y ELSE c.y + 1
<1>. DEFINE d == [c EXCEPT !.x = 0]
<1>1. /\ c.x \in 0 .. Columns - 1 /\ c.y \in 0 .. Rows - 1 /\ c.ym = Rows - 1
      /\ Columns \in Nat \ {0} /\ Rows \in Nat \ {0}
  BY ConsoleAssumption DEF CursorPlaces
<1>2. d \in CursorPlaces /\ d.y = c.y /\ d.x = 0
  BY <1>1 DEF CursorPlaces
<1>3. NewLine(c) = Down(d)
  BY <1>1 DEF NewLine
<1>. HIDE DEF d
<1>4. NewLine(c) = [d EXCEPT !.y = IF c.y = Rows - 1 THEN c.y ELSE c.y + 1]
  BY <1>2, <1>3, DownFacts
<1>. QED BY <1>1, <1>2, <1>4 DEF CursorPlaces

LEMMA ResetFacts ==
  ASSUME NEW c \in CursorPlaces
  PROVE  Reset(c) \in CursorPlaces /\ Reset(c).x = 0 /\ Reset(c).y = 0
<1>1. 0 \in 0 .. Columns - 1 /\ 0 \in 0 .. Rows - 1
  BY ConsoleAssumption
<1>2. Reset(c) = [[c EXCEPT !.x = 0] EXCEPT !.y = 0]
  BY DEF Reset, CursorPlaces
<1>. QED BY <1>1, <1>2 DEF CursorPlaces

\* The cursor's cell, and a character drawn there.
LEMMA PutCharFacts ==
  ASSUME NEW s \in Screens, NEW k \in Nat
  PROVE  /\ PutChar(s, k) \in Screens
         /\ PutChar(s, k).cur = Right(s.cur)
         /\ At(s.cur) \in Cells
         /\ \A c \in Cells :
              PutChar(s, k).drawn[c] = IF c = At(s.cur) THEN Append(s.drawn[c], k) ELSE s.drawn[c]
<1>1. /\ s.cur \in CursorPlaces /\ s.drawn \in Grids
      /\ s.cur.x \in 0 .. Columns - 1 /\ s.cur.xm = Columns - 1 /\ s.cur.y \in 0 .. Rows - 1
      /\ Columns \in Nat \ {0}
  BY ConsoleAssumption DEF Screens, CursorPlaces
<1>2. ~ (s.cur.x > s.cur.xm)
  BY <1>1
<1>3. PutChar(s, k) = [cur |-> Right(s.cur),
                       drawn |-> [s.drawn EXCEPT ![At(s.cur)] = Append(@, k)]]
  BY <1>2 DEF PutChar
<1>4. At(s.cur) \in Cells
  BY <1>1 DEF At, Cells
<1>5. Right(s.cur) \in CursorPlaces
  BY <1>1, RightFacts
<1>6. [s.drawn EXCEPT ![At(s.cur)] = Append(@, k)] \in Grids
  BY <1>1, <1>4 DEF Grids
<1>7. PutChar(s, k) \in Screens
  BY <1>3, <1>5, <1>6 DEF Screens
<1>8. \A c \in Cells :
        PutChar(s, k).drawn[c] = IF c = At(s.cur) THEN Append(s.drawn[c], k) ELSE s.drawn[c]
  BY <1>1, <1>3, <1>4 DEF Grids
<1>. QED BY <1>3, <1>4, <1>7, <1>8

-------------------------------------------------------------------------------
(* A string.                                                               *)

\* The strings that have drawn into a cell with content q.
Numbers(q) == {q[i] : i \in DOMAIN q}

LEMMA NumbersAppend ==
  ASSUME NEW q \in Seq(Nat), NEW k \in Nat
  PROVE  Numbers(Append(q, k)) = Numbers(q) \cup {k}
<1>. DEFINE r == Append(q, k)
<1>1. /\ DOMAIN q = 1 .. Len(q) /\ Len(q) \in Nat /\ DOMAIN r = 1 .. Len(q) + 1
      /\ \A i \in 1 .. Len(q) : r[i] = q[i]
      /\ r[Len(q) + 1] = k
  OBVIOUS
<1>. HIDE DEF r
<1>2. DOMAIN r = DOMAIN q \cup {Len(q) + 1}
  BY <1>1
<1>3. Numbers(r) \subseteq Numbers(q) \cup {k}
  <2>. SUFFICES ASSUME NEW i \in DOMAIN r PROVE r[i] \in Numbers(q) \cup {k}
    BY DEF Numbers
  <2>1. CASE i \in DOMAIN q
    BY <1>1, <2>1 DEF Numbers
  <2>2. CASE i = Len(q) + 1
    BY <1>1, <2>2
  <2>. QED BY <1>2, <2>1, <2>2
<1>4. Numbers(q) \subseteq Numbers(r)
  <2>. SUFFICES ASSUME NEW i \in DOMAIN q PROVE q[i] \in Numbers(r)
    BY DEF Numbers
  <2>1. i \in DOMAIN r /\ r[i] = q[i]
    BY <1>1, <1>2
  <2>. QED BY <2>1, Zenon DEF Numbers
<1>5. k \in Numbers(r)
  <2>1. Len(q) + 1 \in DOMAIN r /\ r[Len(q) + 1] = k
    BY <1>1, <1>2
  <2>. QED BY <2>1, Zenon DEF Numbers
<1>. QED BY <1>3, <1>4, <1>5 DEF r

LEMMA CellFacts ==
  ASSUME NEW s \in Screens, NEW c \in Cells
  PROVE  /\ s.cur \in CursorPlaces /\ s.drawn[c] \in Seq(Nat)
         /\ s.cur.x \in 0 .. Columns - 1 /\ s.cur.y \in 0 .. Rows - 1
         /\ c[1] \in 0 .. Columns - 1 /\ c[2] \in 0 .. Rows - 1
         /\ c = At(s.cur) <=> (c[1] = s.cur.x /\ c[2] = s.cur.y)
         /\ Columns \in Nat \ {0} /\ Rows \in Nat \ {0}
<1>1. Columns \in Nat \ {0} /\ Rows \in Nat \ {0}
  BY ConsoleAssumption
<1>2. c[1] \in 0 .. Columns - 1 /\ c[2] \in 0 .. Rows - 1 /\ c = <<c[1], c[2]>>
  BY DEF Cells
<1>3. s.cur \in CursorPlaces /\ s.drawn[c] \in Seq(Nat)
  BY DEF Screens, Grids
<1>4. s.cur.x \in 0 .. Columns - 1 /\ s.cur.y \in 0 .. Rows - 1
  BY <1>3 DEF CursorPlaces
<1>5. c = At(s.cur) <=> (c[1] = s.cur.x /\ c[2] = s.cur.y)
  BY <1>2 DEF At
<1>. QED BY <1>1, <1>2, <1>3, <1>4, <1>5

\* What is drawn lies in front of the cursor, each character in its own cell,
\* but for the last row.
Filled(s) ==
  \A c \in Cells :
    /\ Len(s.drawn[c]) > 1 => c[2] = Rows - 1
    /\ s.drawn[c] # <<>> =>
         c[2] < s.cur.y \/ (c[2] = s.cur.y /\ c[1] < s.cur.x) \/ c[2] = Rows - 1

LEMMA CharFills ==
  ASSUME NEW s \in Screens, NEW k \in Nat, Filled(s)
  PROVE  Filled(PutChar(s, k))
<1>. DEFINE t == PutChar(s, k)
<1>1. /\ t \in Screens /\ t.cur = Right(s.cur)
      /\ \A c \in Cells : t.drawn[c] = IF c = At(s.cur) THEN Append(s.drawn[c], k) ELSE s.drawn[c]
  BY PutCharFacts
<1>. HIDE DEF t
<1>. SUFFICES ASSUME NEW c \in Cells
              PROVE  /\ Len(t.drawn[c]) > 1 => c[2] = Rows - 1
                     /\ t.drawn[c] # <<>> =>
                          c[2] < t.cur.y \/ (c[2] = t.cur.y /\ c[1] < t.cur.x) \/ c[2] = Rows - 1
  BY DEF Filled, t
<1>2. /\ Len(s.drawn[c]) > 1 => c[2] = Rows - 1
      /\ s.drawn[c] # <<>> =>
           c[2] < s.cur.y \/ (c[2] = s.cur.y /\ c[1] < s.cur.x) \/ c[2] = Rows - 1
  BY DEF Filled
<1>. DEFINE x == s.cur.x
            y == s.cur.y
            a == c[1]
            b == c[2]
            tx == t.cur.x
            ty == t.cur.y
<1>3. /\ x \in 0 .. Columns - 1 /\ y \in 0 .. Rows - 1
      /\ a \in 0 .. Columns - 1 /\ b \in 0 .. Rows - 1
      /\ c = At(s.cur) <=> (a = x /\ b = y)
      /\ Columns \in Nat \ {0} /\ Rows \in Nat \ {0}
      /\ s.drawn[c] \in Seq(Nat)
  BY CellFacts
<1>4. /\ tx = (IF x < Columns - 1 THEN x + 1 ELSE 0)
      /\ ty = (IF x < Columns - 1 \/ y = Rows - 1 THEN y ELSE y + 1)
  BY <1>1, CellFacts, RightFacts
<1>5. b < y \/ (b = y /\ a < x) \/ (b = y /\ a = x) \/ b = Rows - 1
        => b < ty \/ (b = ty /\ a < tx) \/ b = Rows - 1
  <2>. HIDE DEF x, y, a, b, tx, ty
  <2>. QED BY <1>3, <1>4
<1>6. CASE c = At(s.cur)
  <2>1. b = y /\ a = x
    BY <1>3, <1>6
  <2>2. t.drawn[c] = Append(s.drawn[c], k)
    BY <1>1, <1>6
  <2>3. s.drawn[c] # <<>> => b = Rows - 1
    <3>. HIDE DEF x, y, a, b
    <3>1. s.drawn[c] # <<>> => b < y \/ (b = y /\ a < x) \/ b = Rows - 1
      BY <1>2 DEF x, y, a, b
    <3>. QED BY <3>1, <2>1, <1>3
  <2>4. Len(t.drawn[c]) > 1 => s.drawn[c] # <<>>
    BY <2>2, <1>3
  <2>. QED BY <1>5, <2>1, <2>3, <2>4
<1>7. CASE c # At(s.cur)
  <2>1. t.drawn[c] = s.drawn[c]
    BY <1>1, <1>7
  <2>. QED BY <1>2, <1>5, <2>1
<1>. QED BY <1>6, <1>7

\* A string keeps that, and adds nothing but its own number to what is drawn.
LEMMA StringFills ==
  ASSUME NEW s \in Screens, NEW k \in Nat, NEW n \in Nat, Filled(s)
  PROVE  PutString(s, k, n) \in Screens /\ Filled(PutString(s, k, n))
<1>1. PICK after : /\ PutString(s, k, n) = after[n]
                   /\ after[0] = s
                   /\ \A i \in 0 .. n - 1 : after[i + 1] = PutChar(after[i], k)
  BY PutStringSteps
<1>. DEFINE S == {i \in 0 .. n : after[i] \in Screens /\ Filled(after[i])}
<1>2. 0 \in S
  BY <1>1
<1>3. ASSUME NEW i \in 0 .. n - 1, i \in S PROVE i + 1 \in S
  <2>1. after[i + 1] = PutChar(after[i], k) /\ i + 1 \in 0 .. n
    BY <1>1
  <2>2. after[i] \in Screens /\ Filled(after[i])
    BY <1>3
  <2>. QED BY <2>1, <2>2, PutCharFacts, CharFills
<1>4. n \in 0 .. n
  OBVIOUS
<1>5. n \in S
  <2>. HIDE DEF S
  <2>. QED BY <1>2, <1>3, <1>4, CountingUp
<1>. QED BY <1>1, <1>5

LEMMA StringAdds ==
  ASSUME NEW s \in Screens, NEW k \in Nat, NEW n \in Nat
  PROVE  /\ PutString(s, k, n) \in Screens
         /\ \A c \in Cells :
              Numbers(PutString(s, k, n).drawn[c]) \subseteq Numbers(s.drawn[c]) \cup {k}
<1>1. PICK after : /\ PutString(s, k, n) = after[n]
                   /\ after[0] = s
                   /\ \A i \in 0 .. n - 1 : after[i + 1] = PutChar(after[i], k)
  BY PutStringSteps
<1>. DEFINE S == {i \in 0 .. n :
                    /\ after[i] \in Screens
                    /\ \A c \in Cells :
                         Numbers(after[i].drawn[c]) \subseteq Numbers(s.drawn[c]) \cup {k}}
<1>2. 0 \in S
  BY <1>1
<1>3. ASSUME NEW i \in 0 .. n - 1, i \in S PROVE i + 1 \in S
  <2>1. after[i + 1] = PutChar(after[i], k) /\ i + 1 \in 0 .. n
    BY <1>1
  <2>2. after[i] \in Screens
    BY <1>3
  <2>3. ASSUME NEW c \in Cells
        PROVE  Numbers(after[i + 1].drawn[c]) \subseteq Numbers(s.drawn[c]) \cup {k}
    <3>1. Numbers(after[i].drawn[c]) \subseteq Numbers(s.drawn[c]) \cup {k}
      BY <1>3
    <3>2. after[i].drawn[c] \in Seq(Nat)
      BY <2>2, CellFacts
    <3>3. after[i + 1].drawn[c]
            = IF c = At(after[i].cur) THEN Append(after[i].drawn[c], k) ELSE after[i].drawn[c]
      BY <2>1, <2>2, PutCharFacts
    <3>4. Numbers(Append(after[i].drawn[c], k)) = Numbers(after[i].drawn[c]) \cup {k}
      BY <3>2, NumbersAppend
    <3>. QED BY <3>1, <3>3, <3>4
  <2>. QED BY <2>1, <2>2, <2>3, PutCharFacts
<1>4. n \in 0 .. n
  OBVIOUS
<1>5. n \in S
  <2>. HIDE DEF S
  <2>. QED BY <1>2, <1>3, <1>4, CountingUp
<1>. QED BY <1>1, <1>5

\* A string that fits into the rest of its row is drawn there, and only there.
InRow(s, c, n) == c[2] = s.cur.y /\ c[1] \in s.cur.x .. s.cur.x + n - 1

LEMMA StringInRow ==
  ASSUME NEW s \in Screens, NEW k \in Nat, NEW n \in Nat, s.cur.x + n <= Columns
  PROVE  \A c \in Cells :
           PutString(s, k, n).drawn[c]
             = IF InRow(s, c, n) THEN Append(s.drawn[c], k) ELSE s.drawn[c]
<1>1. PICK after : /\ PutString(s, k, n) = after[n]
                   /\ after[0] = s
                   /\ \A i \in 0 .. n - 1 : after[i + 1] = PutChar(after[i], k)
  BY PutStringSteps
<1>. DEFINE x == s.cur.x
            y == s.cur.y
            S == {i \in 0 .. n :
                    /\ after[i] \in Screens
                    /\ x + i < Columns => after[i].cur.x = x + i /\ after[i].cur.y = y
                    /\ \A c \in Cells :
                         after[i].drawn[c]
                           = IF InRow(s, c, i) THEN Append(s.drawn[c], k) ELSE s.drawn[c]}
<1>2. x \in 0 .. Columns - 1 /\ y \in 0 .. Rows - 1 /\ Columns \in Nat \ {0}
  BY ConsoleAssumption DEF Screens, CursorPlaces
<1>3. 0 \in S
  <2>1. \A c \in Cells : ~ InRow(s, c, 0)
    BY <1>2, CellFacts DEF InRow
  <2>2. s.cur.x = x + 0 /\ s.cur.y = y
    BY <1>2
  <2>3. 0 \in 0 .. n
    OBVIOUS
  <2>. QED BY <1>1, <2>1, <2>2, <2>3
<1>4. ASSUME NEW i \in 0 .. n - 1, i \in S PROVE i + 1 \in S
  <2>. DEFINE p == after[i]
              q == after[i + 1]
  <2>1. q = PutChar(p, k) /\ i + 1 \in 0 .. n
    BY <1>1
  <2>2. p \in Screens
    BY <1>4
  <2>3. x + i < Columns
    <3>. HIDE DEF x
    <3>1. x + n <= Columns
      BY DEF x
    <3>. QED BY <1>2, <3>1
  <2>4. p.cur.x = x + i /\ p.cur.y = y
    BY <1>4, <2>3
  <2>5. q \in Screens /\ q.cur = Right(p.cur)
        /\ \A c \in Cells : q.drawn[c] = IF c = At(p.cur) THEN Append(p.drawn[c], k) ELSE p.drawn[c]
    <3>. HIDE DEF p, q
    <3>. QED BY <2>1, <2>2, PutCharFacts
  <2>6. x + (i + 1) < Columns => q.cur.x = x + (i + 1) /\ q.cur.y = y
    <3>1. p.cur \in CursorPlaces
      BY <2>2 DEF Screens
    <3>2. q.cur.x = (IF p.cur.x < Columns - 1 THEN p.cur.x + 1 ELSE 0)
          /\ q.cur.y = (IF p.cur.x < Columns - 1 \/ p.cur.y = Rows - 1 THEN p.cur.y ELSE p.cur.y + 1)
      BY <2>5, <3>1, RightFacts
    <3>. HIDE DEF x, y, p, q
    <3>. QED BY <2>4, <3>2, <1>2
  <2>7. ASSUME NEW c \in Cells
        PROVE  q.drawn[c] = IF InRow(s, c, i + 1) THEN Append(s.drawn[c], k) ELSE s.drawn[c]
    <3>1. p.drawn[c] = IF InRow(s, c, i) THEN Append(s.drawn[c], k) ELSE s.drawn[c]
      BY <1>4
    <3>2. c = At(p.cur) <=> (c[1] = x + i /\ c[2] = y)
      BY <2>2, <2>4, CellFacts
    <3>3. c[1] \in Int
      BY CellFacts
    <3>4. InRow(s, c, i + 1) <=> (InRow(s, c, i) \/ c = At(p.cur))
      <4>. DEFINE a == c[1]
      <4>1. a \in x .. x + (i + 1) - 1 <=> (a \in x .. x + i - 1 \/ a = x + i)
        <5>. HIDE DEF a, x
        <5>1. a \in Int
          BY <3>3 DEF a
        <5>. QED BY <5>1, <1>2
      <4>. QED BY <3>2, <4>1 DEF InRow
    <3>5. c = At(p.cur) => ~ InRow(s, c, i)
      <4>. DEFINE a == c[1]
      <4>1. a = x + i => a \notin x .. x + i - 1
        BY <1>2
      <4>. QED BY <3>2, <4>1 DEF InRow
    <3>6. q.drawn[c] = IF c = At(p.cur) THEN Append(p.drawn[c], k) ELSE p.drawn[c]
      BY <2>5
    <3>. QED BY <3>1, <3>4, <3>5, <3>6
  <2>. QED BY <2>1, <2>5, <2>6, <2>7
<1>5. n \in 0 .. n
  OBVIOUS
<1>6. n \in S
  <2>. HIDE DEF S
  <2>. QED BY <1>3, <1>4, <1>5, CountingUp
<1>. QED BY <1>1, <1>6

LEMMA AtMostOne ==
  ASSUME NEW q, q = <<>> \/ Len(q) = 1
  PROVE  Len(q) <= 1
OBVIOUS

LEMMA OneLong ==
  ASSUME NEW q \in Seq(Nat), q # <<>>, Len(q) <= 1
  PROVE  Len(q) = 1
<1>. DEFINE n == Len(q)
<1>1. n \in Nat \ {0}
  BY EmptySeq
<1>2. n <= 1
  OBVIOUS
<1>3. n = 1
  <2>. HIDE DEF n
  <2>. QED BY <1>1, <1>2
<1>. QED BY <1>3

\* On a screen that is blank, with the cursor at its start, a string as long as
\* there are cells is drawn without overlap.
LEMMA StringOnBlank ==
  ASSUME NEW s \in Screens, NEW k \in Nat, NEW n \in Nat, n <= Columns * Rows,
         s.cur.x = 0, s.cur.y = 0, s.drawn = Blank
  PROVE  \A c \in Cells : Len(PutString(s, k, n).drawn[c]) <= 1
<1>1. PICK after : /\ PutString(s, k, n) = after[n]
                   /\ after[0] = s
                   /\ \A i \in 0 .. n - 1 : after[i + 1] = PutChar(after[i], k)
  BY PutStringSteps
<1>. DEFINE all == Columns * Rows
            Nth(a, b) == Columns * b + a
            S == {i \in 0 .. n :
                    /\ after[i] \in Screens
                    /\ i < all => Nth(after[i].cur.x, after[i].cur.y) = i
                    /\ \A c \in Cells :
                         \/ after[i].drawn[c] = <<>>
                         \/ Len(after[i].drawn[c]) = 1 /\ Nth(c[1], c[2]) < i}
<1>2. Columns \in Nat \ {0} /\ Rows \in Nat \ {0} /\ all \in Nat
  BY ConsoleAssumption
<1>3. 0 \in S
  <2>1. \A c \in Cells : s.drawn[c] = <<>>
    BY DEF Blank
  <2>2. Nth(s.cur.x, s.cur.y) = 0
    BY <1>2
  <2>. QED BY <1>1, <2>1, <2>2
<1>4. ASSUME NEW i \in 0 .. n - 1, i \in S PROVE i + 1 \in S
  <2>. DEFINE p == after[i]
              q == after[i + 1]
  <2>1. q = PutChar(p, k) /\ i + 1 \in 0 .. n
    BY <1>1
  <2>2. p \in Screens
    BY <1>4
  <2>3. i < all /\ i \in Nat
    <3>1. n <= all
      OBVIOUS
    <3>. HIDE DEF all
    <3>. QED BY <1>2, <3>1
  <2>4. Nth(p.cur.x, p.cur.y) = i
    BY <1>4, <2>3
  <2>5. q \in Screens /\ q.cur = Right(p.cur)
        /\ \A c \in Cells : q.drawn[c] = IF c = At(p.cur) THEN Append(p.drawn[c], k) ELSE p.drawn[c]
    <3>. HIDE DEF p, q
    <3>. QED BY <2>1, <2>2, PutCharFacts
  <2>6. i + 1 < all => Nth(q.cur.x, q.cur.y) = i + 1
    <3>. DEFINE x == p.cur.x
                y == p.cur.y
    <3>1. p.cur \in CursorPlaces /\ x \in 0 .. Columns - 1 /\ y \in 0 .. Rows - 1
      BY <2>2 DEF Screens, CursorPlaces
    <3>2. q.cur.x = (IF x < Columns - 1 THEN x + 1 ELSE 0)
          /\ q.cur.y = (IF x < Columns - 1 \/ y = Rows - 1 THEN y ELSE y + 1)
      BY <2>5, <3>1, RightFacts
    <3>3. Nth(x, y) = i
      BY <2>4
    <3>. HIDE DEF p, q, x, y
    <3>4. CASE x < Columns - 1
      <4>1. Nth(q.cur.x, q.cur.y) = Nth(x, y) + 1
        BY <3>1, <3>2, <3>4, <1>2
      <4>. QED BY <4>1, <3>3
    <3>5. CASE x = Columns - 1 /\ y < Rows - 1
      <4>1. Nth(q.cur.x, q.cur.y) = Columns * (y + 1)
        BY <3>1, <3>2, <3>5, <1>2
      <4>2. Columns * (y + 1) = Columns * y + Columns
        BY <3>1, <1>2
      <4>. QED BY <4>1, <4>2, <3>1, <3>3, <3>5, <1>2
    <3>6. CASE x = Columns - 1 /\ y = Rows - 1
      <4>1. Columns * Rows = Columns * (Rows - 1) + Columns
        BY <1>2
      <4>2. all = i + 1
        BY <4>1, <3>3, <3>6, <1>2, <2>3
      <4>. QED BY <4>2, <2>3
    <3>7. \/ x < Columns - 1
          \/ x = Columns - 1 /\ y < Rows - 1
          \/ x = Columns - 1 /\ y = Rows - 1
      BY <3>1, <1>2
    <3>. QED BY <3>4, <3>5, <3>6, <3>7, Zenon
  <2>7. ASSUME NEW c \in Cells
        PROVE  \/ q.drawn[c] = <<>>
               \/ Len(q.drawn[c]) = 1 /\ Nth(c[1], c[2]) < i + 1
    <3>1. p.drawn[c] = <<>> \/ (Len(p.drawn[c]) = 1 /\ Nth(c[1], c[2]) < i)
      BY <1>4
    <3>2. c[1] \in Int /\ c[2] \in Int /\ p.drawn[c] \in Seq(Nat) /\ Nth(c[1], c[2]) \in Int
      BY <1>2, <2>2, CellFacts
    <3>3. CASE c = At(p.cur)
      <4>1. Nth(c[1], c[2]) = i
        BY <2>2, <2>4, <3>3, CellFacts
      <4>. HIDE DEF Nth, p, q
      <4>2. p.drawn[c] = <<>>
        BY <3>1, <4>1, <2>3
      <4>3. q.drawn[c] = Append(<<>>, k)
        BY <2>5, <3>3, <4>2
      <4>. QED BY <4>1, <4>3, <2>3
    <3>4. CASE c # At(p.cur)
      <4>1. q.drawn[c] = p.drawn[c]
        BY <2>5, <3>4
      <4>. HIDE DEF Nth, p, q
      <4>. QED BY <3>1, <3>2, <4>1, <2>3
    <3>. QED BY <3>3, <3>4
  <2>. QED BY <2>1, <2>5, <2>6, <2>7
<1>5. n \in 0 .. n
  OBVIOUS
<1>6. n \in S
  <2>. HIDE DEF S
  <2>. QED BY <1>3, <1>4, <1>5, CountingUp
<1>7. ASSUME NEW c \in Cells PROVE Len(PutString(s, k, n).drawn[c]) <= 1
  <2>. DEFINE q == after[n].drawn[c]
  <2>1. q = <<>> \/ Len(q) = 1
    BY <1>6
  <2>2. PutString(s, k, n).drawn[c] = q
    BY <1>1
  <2>. HIDE DEF q
  <2>4. Len(q) <= 1
    BY <2>1, AtMostOne, Zenon
  <2>. QED BY <2>2, <2>4, Zenon
<1>. QED BY <1>7

-------------------------------------------------------------------------------
(* The invariant.                                                          *)

Printed == [how : {"print", "printString", "panic"}, length : Nat]

\* A string that print does not break.
Fits(string) ==
  string.how = "print" /\ string.length <= Columns /\ string.length < LengthWrap

\* String k is drawn in one row of the screen d, if it is drawn at all.
InOneRow(k, d) == \E r \in Int : \A c \in Cells : k \in Numbers(d[c]) => c[2] = r

Present == [cur |-> cur, drawn |-> drawn]

\* What holds of a screen s while n strings have been printed.
SoundScreen(s, log) ==
  /\ s \in Screens
  /\ \A c \in Cells : Numbers(s.drawn[c]) \subseteq 1 .. Len(log)
  /\ \A k \in 1 .. Len(log) : Fits(log[k]) => InOneRow(k, s.drawn)

\* The part of Filled that does not need the cursor.
SingleButLast(s) == \A c \in Cells : Len(s.drawn[c]) > 1 => c[2] = Rows - 1

ConsoleInv ==
  /\ strings \in Seq(Printed)
  /\ SoundScreen(Present, strings)
  /\ panicked \in {"no", "ram", "panic"}
  /\ panicked = "no" => SingleButLast(Present) /\ (stage = "log" => Filled(Present))
  /\ PanicLegible

LEMMA EmptyNumbers == Numbers(<<>>) = {}
BY DEF Numbers

\* A screen some cells of which have been cleared, with the cursor elsewhere.
LEMMA ClearedSound ==
  ASSUME NEW s, NEW log \in Seq(Printed), SoundScreen(s, log), NEW t \in Screens,
         \A c \in Cells : t.drawn[c] \in {<<>>, s.drawn[c]}
  PROVE  SoundScreen(t, log)
<1>1. \A c \in Cells : Numbers(t.drawn[c]) \subseteq Numbers(s.drawn[c])
  BY EmptyNumbers
<1>2. \A c \in Cells : Numbers(t.drawn[c]) \subseteq 1 .. Len(log)
  BY <1>1 DEF SoundScreen
<1>3. ASSUME NEW k \in 1 .. Len(log), Fits(log[k])
      PROVE  InOneRow(k, t.drawn)
  <2>1. InOneRow(k, s.drawn)
    BY <1>3 DEF SoundScreen
  <2>. QED BY <2>1, <1>1 DEF InOneRow
<1>. QED BY <1>2, <1>3 DEF SoundScreen

\* A string is shown on a sound screen: it is one more, in one row if it fits
\* and the rest of the row is long enough.
LEMMA ShowSound ==
  ASSUME strings \in Seq(Printed), NEW s, SoundScreen(s, strings),
         NEW how \in {"print", "printString", "panic"}, NEW n \in Nat,
         Fits([how |-> how, length |-> n]) => s.cur.x + n <= Columns,
         Show(s, how, n)
  PROVE  /\ strings' \in Seq(Printed) /\ Len(strings') = Len(strings) + 1
         /\ strings'[Len(strings) + 1] = [how |-> how, length |-> n]
         /\ SoundScreen(Present', strings')
         /\ Present' = PutString(s, Len(strings) + 1, n)
<1>. DEFINE k == Len(strings) + 1
            t == PutString(s, k, n)
            new == [how |-> how, length |-> n]
<1>1. k \in Nat /\ Len(strings) \in Nat /\ new \in Printed
  BY DEF Printed
<1>2. /\ t \in Screens
      /\ \A c \in Cells : Numbers(t.drawn[c]) \subseteq Numbers(s.drawn[c]) \cup {k}
  BY <1>1, StringAdds DEF SoundScreen
<1>3. Present' = t
  <2>1. cur' = t.cur /\ drawn' = t.drawn
    BY DEF Show
  <2>2. t = [cur |-> t.cur, drawn |-> t.drawn]
    <3>. HIDE DEF t
    <3>. QED BY <1>2 DEF Screens
  <2>. HIDE DEF t
  <2>. QED BY <2>1, <2>2 DEF Present
<1>4. /\ strings' \in Seq(Printed) /\ Len(strings') = k /\ strings'[k] = new
      /\ \A j \in 1 .. Len(strings) : strings'[j] = strings[j]
  BY <1>1 DEF Show
<1>. HIDE DEF new
<1>5. \A c \in Cells : Numbers(t.drawn[c]) \subseteq 1 .. Len(strings')
  <2>1. \A c \in Cells : Numbers(s.drawn[c]) \subseteq 1 .. Len(strings)
    BY DEF SoundScreen
  <2>2. 1 .. Len(strings) \subseteq 1 .. k /\ k \in 1 .. k
    BY <1>1
  <2>. HIDE DEF t, k
  <2>. QED BY <1>2, <1>4, <2>1, <2>2
<1>6. ASSUME NEW j \in 1 .. Len(strings'), Fits(strings'[j])
      PROVE  InOneRow(j, t.drawn)
  <2>1. CASE j \in 1 .. Len(strings)
    <3>1. InOneRow(j, s.drawn)
      BY <1>4, <1>6, <2>1 DEF SoundScreen
    <3>2. j # k
      BY <1>1, <2>1
    <3>. HIDE DEF t, k
    <3>. QED BY <1>2, <3>1, <3>2 DEF InOneRow
  <2>2. CASE j = k
    <3>1. s.cur.x + n <= Columns
      BY <1>4, <1>6, <2>2 DEF new
    <3>2. s \in Screens
      BY DEF SoundScreen
    <3>3. \A c \in Cells :
            t.drawn[c] = IF InRow(s, c, n) THEN Append(s.drawn[c], k) ELSE s.drawn[c]
      BY <1>1, <3>1, <3>2, StringInRow
    <3>4. \A c \in Cells : k \notin Numbers(s.drawn[c])
      <4>1. k \notin 1 .. Len(strings)
        BY <1>1
      <4>2. \A c \in Cells : Numbers(s.drawn[c]) \subseteq 1 .. Len(strings)
        BY DEF SoundScreen
      <4>. HIDE DEF k
      <4>. QED BY <4>1, <4>2
    <3>5. \A c \in Cells : k \in Numbers(t.drawn[c]) => c[2] = s.cur.y
      <4>. HIDE DEF t, k
      <4>. QED BY <3>3, <3>4 DEF InRow
    <3>6. s.cur.y \in Int
      BY <3>2 DEF Screens, CursorPlaces
    <3>. QED BY <2>2, <3>5, <3>6 DEF InOneRow
  <2>. QED BY <1>1, <1>4, <2>1, <2>2
<1>7. SoundScreen(t, strings')
  <2>. HIDE DEF t
  <2>. QED BY <1>2, <1>5, <1>6 DEF SoundScreen
<1>. QED BY <1>1, <1>3, <1>4, <1>7 DEF new

\* A screen cleared.
LEMMA BlankFacts ==
  /\ Blank \in Grids
  /\ \A c \in Cells : Blank[c] = <<>>
  /\ \A p \in CursorPlaces : [cur |-> p, drawn |-> Blank] \in Screens
                               /\ Filled([cur |-> p, drawn |-> Blank])
<1>1. <<>> \in Seq(Nat) /\ Len(<<>>) = 0
  OBVIOUS
<1>2. \A c \in Cells : Blank[c] = <<>>
  BY DEF Blank
<1>3. Blank \in Grids
  BY <1>1 DEF Blank, Grids
<1>. QED BY <1>1, <1>2, <1>3 DEF Screens, Filled

\* A new line, for a string that does not fit or for its own sake.
LEMMA LineFills ==
  ASSUME NEW s \in Screens
  PROVE  /\ [cur |-> NewLine(s.cur), drawn |-> s.drawn] \in Screens
         /\ Filled(s) => Filled([cur |-> NewLine(s.cur), drawn |-> s.drawn])
<1>. DEFINE p == s.cur
            q == NewLine(p)
            t == [cur |-> q, drawn |-> s.drawn]
<1>1. /\ p \in CursorPlaces /\ s.drawn \in Grids
      /\ q \in CursorPlaces /\ q.x = 0 /\ q.y = IF p.y = Rows - 1 THEN p.y ELSE p.y + 1
  BY NewLineFacts DEF Screens
<1>2. t \in Screens
  BY <1>1 DEF Screens
<1>3. ASSUME Filled(s), NEW c \in Cells
      PROVE  /\ Len(t.drawn[c]) > 1 => c[2] = Rows - 1
             /\ t.drawn[c] # <<>> =>
                  c[2] < t.cur.y \/ (c[2] = t.cur.y /\ c[1] < t.cur.x) \/ c[2] = Rows - 1
  <2>1. t.drawn[c] = s.drawn[c] /\ t.cur.x = 0
        /\ t.cur.y = IF p.y = Rows - 1 THEN p.y ELSE p.y + 1
    BY <1>1
  <2>2. /\ Len(s.drawn[c]) > 1 => c[2] = Rows - 1
        /\ s.drawn[c] # <<>> =>
             c[2] < p.y \/ (c[2] = p.y /\ c[1] < p.x) \/ c[2] = Rows - 1
    BY <1>3 DEF Filled
  <2>3. p.y \in 0 .. Rows - 1 /\ c[2] \in 0 .. Rows - 1 /\ Rows \in Nat
    BY CellFacts
  <2>. DEFINE b == c[2]
              y == p.y
              ty == t.cur.y
  <2>4. b < y \/ b = y \/ b = Rows - 1 => b < ty \/ b = Rows - 1
    <3>1. ty = IF y = Rows - 1 THEN y ELSE y + 1
      BY <2>1
    <3>2. b \in 0 .. Rows - 1 /\ y \in 0 .. Rows - 1 /\ Rows \in Nat
      BY <2>3
    <3>. HIDE DEF b, y, ty
    <3>. QED BY <3>1, <3>2
  <2>5. t.drawn[c] # <<>> => b < ty \/ b = Rows - 1
    BY <2>1, <2>2, <2>4
  <2>6. Len(t.drawn[c]) > 1 => c[2] = Rows - 1
    BY <2>1, <2>2
  <2>. QED BY <2>5, <2>6
<1>4. Filled(s) => Filled(t)
  <2>. HIDE DEF t
  <2>. QED BY <1>3 DEF Filled
<1>. QED BY <1>2, <1>4

LEMMA FittedFacts ==
  ASSUME NEW s \in Screens, NEW n \in Nat
  PROVE  /\ Fitted(s.cur, n) \in {s.cur, NewLine(s.cur)}
         /\ n <= Columns /\ n < LengthWrap => Fitted(s.cur, n).x + n <= Columns
<1>. DEFINE c == s.cur
            rest == Columns - 1 - c.x
<1>1. /\ c \in CursorPlaces /\ c.x \in 0 .. Columns - 1 /\ c.xm = Columns - 1
      /\ Columns \in Nat \ {0} /\ Columns < Wrap
  BY ConsoleAssumption DEF Screens, CursorPlaces
<1>2. Fitted(c, n) \in {c, NewLine(c)}
  BY DEF Fitted
<1>3. ASSUME n <= Columns, n < LengthWrap PROVE Fitted(c, n).x + n <= Columns
  <2>1. n % LengthWrap = n
    <3>1. LengthWrap \in Nat \ {0}
      BY ConsoleAssumption
    <3>. QED BY <1>3, <3>1
  <2>2. (c.xm - c.x) % Wrap = rest
    <3>. DEFINE x == c.x
    <3>1. rest \in Nat /\ rest < Wrap /\ c.xm - c.x = rest
      <4>1. x \in 0 .. Columns - 1 /\ Columns \in Nat /\ Columns < Wrap
              /\ c.xm - c.x = Columns - 1 - x /\ rest = Columns - 1 - x
        BY <1>1
      <4>. HIDE DEF x, rest
      <4>. QED BY <4>1, WrapAssumption
    <3>. HIDE DEF rest
    <3>. QED BY <3>1, WrapAssumption
  <2>3. CASE rest < n
    <3>1. Fitted(c, n) = NewLine(c)
      BY <2>1, <2>2, <2>3 DEF Fitted
    <3>2. NewLine(c).x = 0
      BY <1>1, NewLineFacts
    <3>. QED BY <1>3, <3>1, <3>2
  <2>4. CASE ~ (rest < n)
    <3>1. Fitted(c, n) = c
      BY <2>1, <2>2, <2>4 DEF Fitted
    <3>2. c.x + n <= Columns
      <4>. DEFINE x == c.x
      <4>1. x \in Int /\ ~ (Columns - 1 - x < n)
        BY <1>1, <2>4
      <4>. HIDE DEF x
      <4>2. x + n <= Columns
        BY <1>1, <4>1
      <4>. QED BY <4>2 DEF x
    <3>. QED BY <3>1, <3>2
  <2>. QED BY <2>3, <2>4
<1>. QED BY <1>2, <1>3

\* Before a panic there is nothing to say of its message.
LEMMA NoPanic == panicked = "no" => PanicLegible
BY DEF PanicLegible

LEMMA LengthsAreNumbers == \A n \in Lengths : n \in Nat
BY ConsoleAssumption

LEMMA PresentIs == Present.cur = cur /\ Present.drawn = drawn
BY DEF Present

LEMMA FilledIsSingle == \A s : Filled(s) => SingleButLast(s)
BY DEF Filled, SingleButLast

LEMMA ConsoleInitInv == ConsoleInit => ConsoleInv
<1>. SUFFICES ASSUME ConsoleInit PROVE ConsoleInv
  OBVIOUS
<1>1. strings = <<>> /\ panicked = "no" /\ drawn = Blank
  BY DEF ConsoleInit
<1>2. cur \in CursorPlaces
  <2>1. 0 \in 0 .. Columns - 1 /\ 0 \in 0 .. Rows - 1
    BY ConsoleAssumption
  <2>. QED BY <2>1 DEF ConsoleInit, CursorPlaces
<1>3. Present \in Screens /\ Filled(Present)
  BY <1>1, <1>2, BlankFacts DEF Present
<1>4. strings \in Seq(Printed) /\ Len(strings) = 0
  BY <1>1
<1>5. SoundScreen(Present, strings)
  <2>1. \A c \in Cells : Numbers(Present.drawn[c]) = {}
    BY <1>1, BlankFacts, EmptyNumbers DEF Present
  <2>. QED BY <1>3, <1>4, <2>1 DEF SoundScreen
<1>. QED BY <1>1, <1>3, <1>4, <1>5, NoPanic, FilledIsSingle DEF ConsoleInv

\* Both ways to print before a panic: at a cursor where the screen is filled.
LEMMA PrintKeeps ==
  ASSUME ConsoleInv, NEW s, SoundScreen(s, strings), Filled(s),
         NEW how \in {"print", "printString"}, NEW n \in Nat,
         Fits([how |-> how, length |-> n]) => s.cur.x + n <= Columns,
         Show(s, how, n), panicked = "no", UNCHANGED panicked
  PROVE  ConsoleInv'
<1>1. /\ strings' \in Seq(Printed)
      /\ SoundScreen(Present', strings')
      /\ Present' = PutString(s, Len(strings) + 1, n)
  BY ShowSound DEF ConsoleInv
<1>2. Filled(Present')
  <2>1. Len(strings) + 1 \in Nat /\ s \in Screens
    BY DEF ConsoleInv, SoundScreen
  <2>2. Filled(PutString(s, Len(strings) + 1, n))
    BY <2>1, StringFills
  <2>. QED BY <1>1, <2>2
<1>3. panicked' = "no" /\ PanicLegible'
  BY NoPanic DEF PanicLegible
<1>. QED BY <1>1, <1>2, <1>3, FilledIsSingle DEF ConsoleInv

LEMMA PrintFittedStep == ConsoleInv /\ PrintFitted => ConsoleInv'
<1>. SUFFICES ASSUME ConsoleInv, PrintFitted PROVE ConsoleInv'
  OBVIOUS
<1>1. PICK n \in Lengths : Show([cur |-> Fitted(cur, n), drawn |-> drawn], "print", n)
  BY DEF PrintFitted
<1>. DEFINE s == [cur |-> Fitted(cur, n), drawn |-> drawn]
<1>2. panicked = "no" /\ UNCHANGED panicked /\ n \in Nat
  BY LengthsAreNumbers DEF PrintFitted, Running
<1>3. Present \in Screens /\ Filled(Present) /\ SoundScreen(Present, strings)
  BY <1>2 DEF ConsoleInv, SoundScreen, PrintFitted
<1>4. /\ Fitted(cur, n) \in {cur, NewLine(cur)}
      /\ n <= Columns /\ n < LengthWrap => Fitted(cur, n).x + n <= Columns
  BY <1>2, <1>3, FittedFacts, PresentIs
<1>5. s \in {Present, [cur |-> NewLine(Present.cur), drawn |-> Present.drawn]}
  BY <1>4, PresentIs DEF Present
<1>6. s \in Screens /\ Filled(s)
  BY <1>3, <1>5, LineFills
<1>7. SoundScreen(s, strings)
  <2>1. \A c \in Cells : s.drawn[c] \in {<<>>, Present.drawn[c]}
    BY PresentIs
  <2>. HIDE DEF s
  <2>. QED BY <1>3, <1>6, <2>1, ClearedSound DEF ConsoleInv
<1>8. Fits([how |-> "print", length |-> n]) => s.cur.x + n <= Columns
  BY <1>4 DEF Fits
<1>. HIDE DEF s
<1>9. Show(s, "print", n)
  BY <1>1 DEF s
<1>. QED BY <1>2, <1>6, <1>7, <1>8, <1>9, PrintKeeps

LEMMA PrintStringStep == ConsoleInv /\ PrintString => ConsoleInv'
<1>. SUFFICES ASSUME ConsoleInv, PrintString PROVE ConsoleInv'
  OBVIOUS
<1>1. PICK n \in Lengths : Show(Present, "printString", n)
  BY DEF PrintString, Present
<1>2. panicked = "no" /\ UNCHANGED panicked /\ n \in Nat
  BY LengthsAreNumbers DEF PrintString, Running
<1>3. Filled(Present) /\ SoundScreen(Present, strings)
  BY <1>2 DEF ConsoleInv, PrintString
<1>4. ~ Fits([how |-> "printString", length |-> n])
  BY DEF Fits
<1>. QED BY <1>1, <1>2, <1>3, <1>4, PrintKeeps

\* A step that prints nothing and keeps what is drawn, or clears it.
LEMMA MoveKeeps ==
  ASSUME ConsoleInv, Present' \in Screens,
         SingleButLast(Present'), stage' = "log" => Filled(Present'),
         \A c \in Cells : Present'.drawn[c] \in {<<>>, Present.drawn[c]},
         panicked = "no", UNCHANGED <<strings, panicked>>
  PROVE  ConsoleInv'
<1>1. strings \in Seq(Printed) /\ SoundScreen(Present, strings)
  BY DEF ConsoleInv
<1>. DEFINE t == Present'
<1>2. t \in Screens /\ \A c \in Cells : t.drawn[c] \in {<<>>, Present.drawn[c]}
  OBVIOUS
<1>3. SoundScreen(t, strings)
  <2>. HIDE DEF t
  <2>. QED BY <1>1, <1>2, ClearedSound
<1>4. strings' = strings /\ panicked' = "no" /\ PanicLegible'
  BY NoPanic DEF PanicLegible
<1>. QED BY <1>1, <1>3, <1>4 DEF ConsoleInv

LEMMA StartLineStep == ConsoleInv /\ StartLine => ConsoleInv'
<1>. SUFFICES ASSUME ConsoleInv, StartLine PROVE ConsoleInv'
  OBVIOUS
<1>1. panicked = "no" /\ UNCHANGED <<drawn, strings, stage, panicked>> /\ cur' = NewLine(cur)
  BY DEF StartLine, Running
<1>2. Present \in Screens /\ SingleButLast(Present) /\ (stage = "log" => Filled(Present))
  BY <1>1 DEF ConsoleInv, SoundScreen
<1>3. Present' = [cur |-> NewLine(Present.cur), drawn |-> Present.drawn]
  BY <1>1 DEF Present
<1>4. Present' \in Screens /\ (stage' = "log" => Filled(Present'))
  BY <1>1, <1>2, <1>3, LineFills
<1>5. SingleButLast(Present')
  BY <1>2, <1>3 DEF SingleButLast
<1>6. \A c \in Cells : Present'.drawn[c] \in {<<>>, Present.drawn[c]}
  BY <1>3
<1>. QED BY <1>1, <1>4, <1>5, <1>6, MoveKeeps

LEMMA ResetCursorStep == ConsoleInv /\ ResetCursor => ConsoleInv'
<1>. SUFFICES ASSUME ConsoleInv, ResetCursor PROVE ConsoleInv'
  OBVIOUS
<1>1. /\ panicked = "no" /\ UNCHANGED <<drawn, strings, panicked>>
      /\ cur' = Reset(cur) /\ stage' = "reset"
  BY DEF ResetCursor, Running
<1>2. Present \in Screens /\ SingleButLast(Present)
  BY <1>1 DEF ConsoleInv, SoundScreen
<1>3. cur' \in CursorPlaces
  <2>1. cur \in CursorPlaces
    BY <1>2, PresentIs DEF Screens
  <2>. QED BY <1>1, <2>1, ResetFacts
<1>4. Present' = [cur |-> cur', drawn |-> Present.drawn]
  BY <1>1 DEF Present
<1>5. Present' \in Screens
  BY <1>2, <1>3, <1>4 DEF Screens
<1>6. SingleButLast(Present')
  BY <1>2, <1>4 DEF SingleButLast
<1>7. \A c \in Cells : Present'.drawn[c] \in {<<>>, Present.drawn[c]}
  BY <1>4
<1>. QED BY <1>1, <1>5, <1>6, <1>7, MoveKeeps

LEMMA ClearScreenStep == ConsoleInv /\ ClearScreen => ConsoleInv'
<1>. SUFFICES ASSUME ConsoleInv, ClearScreen PROVE ConsoleInv'
  OBVIOUS
<1>1. panicked = "no" /\ UNCHANGED <<cur, strings, panicked>> /\ drawn' = Blank
      /\ stage' = "terminal"
  BY DEF ClearScreen, Running
<1>2. cur \in CursorPlaces
  BY PresentIs DEF ConsoleInv, SoundScreen, Screens
<1>3. Present' = [cur |-> cur, drawn |-> Blank]
  BY <1>1 DEF Present
<1>4. Present' \in Screens /\ Filled(Present')
  BY <1>2, <1>3, BlankFacts
<1>5. \A c \in Cells : Present'.drawn[c] \in {<<>>, Present.drawn[c]}
  BY <1>3, BlankFacts
<1>. QED BY <1>1, <1>4, <1>5, FilledIsSingle, MoveKeeps

\* The last number in a cell is one of its numbers.
LEMMA LastNumber ==
  ASSUME NEW q \in Seq(Nat), q # <<>>
  PROVE  q[Len(q)] \in Numbers(q)
<1>1. Len(q) \in DOMAIN q
  OBVIOUS
<1>. QED BY <1>1, Zenon DEF Numbers

LEMMA PanicStep == ConsoleInv /\ Panic => ConsoleInv'
<1>. SUFFICES ASSUME ConsoleInv, Panic PROVE ConsoleInv'
  OBVIOUS
<1>. DEFINE rest == [c \in Cells |-> IF c[1] < PanicColumns /\ c[2] = 0 THEN <<>> ELSE drawn[c]]
            s == [cur |-> Reset(cur), drawn |-> rest]
            k == Len(strings) + 1
<1>1. PICK n \in Lengths : Show(s, "panic", n)
  BY DEF Panic
<1>2. panicked' = "panic" /\ n \in Nat
  BY LengthsAreNumbers DEF Panic
<1>3. SoundScreen(Present, strings) /\ strings \in Seq(Printed) /\ k \in Nat /\ Len(strings) \in Nat
  BY DEF ConsoleInv
<1>4. s.cur \in CursorPlaces /\ s.cur.x = 0 /\ s.cur.y = 0
  <2>1. cur \in CursorPlaces
    BY <1>3, PresentIs DEF SoundScreen, Screens
  <2>. QED BY <2>1, ResetFacts
<1>5. rest \in Grids
  <2>1. drawn \in Grids /\ <<>> \in Seq(Nat)
    BY <1>3, PresentIs DEF SoundScreen, Screens
  <2>. QED BY <2>1 DEF Grids
<1>6. s \in Screens
  BY <1>4, <1>5 DEF Screens
<1>7. \A c \in Cells : s.drawn[c] \in {<<>>, Present.drawn[c]}
  BY PresentIs
<1>8. \A c \in Cells : c[1] < PanicColumns /\ c[2] = 0 => s.drawn[c] = <<>>
  OBVIOUS
<1>. HIDE DEF s, k
<1>9. SoundScreen(s, strings)
  BY <1>3, <1>6, <1>7, ClearedSound
<1>10. ~ Fits([how |-> "panic", length |-> n])
  BY DEF Fits
<1>11. /\ strings' \in Seq(Printed) /\ Len(strings') = k
       /\ strings'[k] = [how |-> "panic", length |-> n]
       /\ SoundScreen(Present', strings')
       /\ Present' = PutString(s, k, n)
  BY <1>1, <1>2, <1>3, <1>9, <1>10, ShowSound DEF k
<1>12. PanicLegible'
  <2>1. SUFFICES ASSUME n <= PanicColumns, n <= Columns,
                        NEW c \in Cells, drawn'[c] # <<>>, drawn'[c][Len(drawn'[c])] = k
                 PROVE  Len(drawn'[c]) = 1
    <3>. DEFINE room == IF PanicColumns < Columns THEN PanicColumns ELSE Columns
    <3>1. n <= room => n <= PanicColumns /\ n <= Columns
      BY <1>2, ConsoleAssumption
    <3>. HIDE DEF room
    <3>2. strings'[Len(strings')].length = n
      BY <1>11
    <3>3. n <= room => \A c \in Cells : drawn'[c] # <<>> /\ drawn'[c][Len(drawn'[c])] = k
                                          => Len(drawn'[c]) = 1
      BY <3>1, <2>1
    <3>. QED BY <1>2, <1>11, <3>2, <3>3 DEF PanicLegible, room
  <2>2. drawn'[c] = IF InRow(s, c, n) THEN Append(s.drawn[c], k) ELSE s.drawn[c]
    <3>1. s.cur.x + n <= Columns
      BY <1>2, <1>4, <2>1
    <3>2. PutString(s, k, n).drawn[c]
            = IF InRow(s, c, n) THEN Append(s.drawn[c], k) ELSE s.drawn[c]
      BY <1>2, <1>3, <1>6, <3>1, StringInRow
    <3>3. drawn' = PutString(s, k, n).drawn
      BY <1>11 DEF Present
    <3>. QED BY <3>2, <3>3
  <2>3. CASE InRow(s, c, n)
    <3>1. c[2] = 0 /\ c[1] < PanicColumns
      <4>1. c[1] \in Int /\ c[2] = 0 /\ c[1] < n
        <5>1. c[1] \in 0 .. Columns - 1
          BY <1>6, CellFacts
        <5>. QED BY <5>1, <1>2, <1>4, <2>3 DEF InRow
      <4>. QED BY <4>1, <1>2, <2>1, ConsoleAssumption
    <3>2. drawn'[c] = Append(<<>>, k)
      BY <1>8, <2>2, <2>3, <3>1
    <3>. QED BY <1>3, <3>2
  <2>4. CASE ~ InRow(s, c, n)
    <3>1. drawn'[c] = s.drawn[c] /\ s.drawn[c] \in Seq(Nat)
      BY <1>6, <2>2, <2>4, CellFacts
    <3>2. k \in Numbers(s.drawn[c])
      BY <2>1, <3>1, LastNumber
    <3>3. Numbers(s.drawn[c]) \subseteq 1 .. Len(strings)
      BY <1>9 DEF SoundScreen
    <3>4. k \notin 1 .. Len(strings)
      BY <1>3 DEF k
    <3>. QED BY <3>2, <3>3, <3>4
  <2>. QED BY <2>3, <2>4
<1>. QED BY <1>2, <1>11, <1>12 DEF ConsoleInv

LEMMA OutOfRamStep == ConsoleInv /\ OutOfRam => ConsoleInv'
<1>. SUFFICES ASSUME ConsoleInv, OutOfRam PROVE ConsoleInv'
  OBVIOUS
<1>. DEFINE s == [cur |-> Reset(cur), drawn |-> Blank]
            k == Len(strings) + 1
<1>1. PICK n \in Lengths : Show(s, "panic", n)
  BY DEF OutOfRam
<1>2. panicked' = "ram" /\ n \in Nat
  BY LengthsAreNumbers DEF OutOfRam
<1>3. SoundScreen(Present, strings) /\ strings \in Seq(Printed) /\ k \in Nat
  BY DEF ConsoleInv
<1>4. s.cur \in CursorPlaces /\ s.cur.x = 0 /\ s.cur.y = 0 /\ s.drawn = Blank
  <2>1. cur \in CursorPlaces
    BY <1>3, PresentIs DEF SoundScreen, Screens
  <2>. QED BY <2>1, ResetFacts
<1>5. s \in Screens /\ \A c \in Cells : s.drawn[c] \in {<<>>, Present.drawn[c]}
  BY <1>4, BlankFacts
<1>. HIDE DEF s, k
<1>6. SoundScreen(s, strings)
  BY <1>3, <1>5, ClearedSound
<1>7. ~ Fits([how |-> "panic", length |-> n])
  BY DEF Fits
<1>8. /\ strings' \in Seq(Printed) /\ Len(strings') = k
      /\ strings'[k] = [how |-> "panic", length |-> n]
      /\ SoundScreen(Present', strings')
      /\ Present' = PutString(s, k, n)
  BY <1>1, <1>2, <1>3, <1>6, <1>7, ShowSound DEF k
<1>9. ASSUME n <= Columns * Rows, NEW c \in Cells, drawn'[c] # <<>> PROVE Len(drawn'[c]) = 1
  <2>1. Len(PutString(s, k, n).drawn[c]) <= 1
    BY <1>2, <1>3, <1>4, <1>5, <1>9, StringOnBlank
  <2>2. drawn' = PutString(s, k, n).drawn
    BY <1>8 DEF Present
  <2>3. drawn'[c] \in Seq(Nat)
    BY <1>8 DEF SoundScreen, Screens, Grids, Present
  <2>. DEFINE q == drawn'[c]
  <2>4. q \in Seq(Nat) /\ q # <<>> /\ Len(q) <= 1
    BY <1>9, <2>1, <2>2, <2>3
  <2>. HIDE DEF q
  <2>5. Len(q) = 1
    BY <2>4, OneLong
  <2>. QED BY <2>5 DEF q
<1>10. PanicLegible'
  <2>1. strings'[Len(strings')].length = n
    BY <1>8
  <2>. DEFINE all == Columns * Rows
  <2>2. n <= all => \A c \in Cells : drawn'[c] # <<>> => Len(drawn'[c]) = 1
    BY <1>9
  <2>. HIDE DEF all
  <2>. QED BY <1>2, <2>1, <2>2, Zenon DEF PanicLegible, all
<1>. QED BY <1>2, <1>8, <1>10 DEF ConsoleInv

LEMMA ConsoleStepInv == ConsoleInv /\ [ConsoleNext]_consoleVars => ConsoleInv'
<1>. SUFFICES ASSUME ConsoleInv, [ConsoleNext]_consoleVars PROVE ConsoleInv'
  OBVIOUS
<1>1. CASE UNCHANGED consoleVars
  BY <1>1 DEF consoleVars, ConsoleInv, SoundScreen, Filled, SingleButLast, Present,
              PanicLegible
<1>. QED
  BY <1>1, PrintFittedStep, PrintStringStep, StartLineStep, ResetCursorStep, ClearScreenStep,
     PanicStep, OutOfRamStep DEF ConsoleNext

\* Whatever is printed, in whatever order.
THEOREM ConsoleInvariant == ConsoleSpec => []ConsoleInv
BY ConsoleInitInv, ConsoleStepInv, PTL DEF ConsoleSpec

\* The log can be read: characters are drawn over each other in the last row
\* only, and print breaks no string that fits in a row, for a screen of any
\* size, and strings of any length and number.
THEOREM LogStaysReadable == ConsoleSpec => []LogReadable
<1>1. ConsoleInv => LogReadable
  <2>. SUFFICES ASSUME ConsoleInv PROVE LogReadable
    OBVIOUS
  <2>1. ASSUME panicked = "no", NEW c \in Cells, Len(drawn[c]) > 1 PROVE c[2] = Rows - 1
    BY <2>1, PresentIs DEF ConsoleInv, SingleButLast
  <2>2. ASSUME NEW k \in DOMAIN strings,
               strings[k].how = "print", strings[k].length <= Columns,
               strings[k].length < LengthWrap
        PROVE  Cardinality(RowsOf(k)) <= 1
    <3>1. k \in 1 .. Len(strings) /\ Fits(strings[k])
      BY <2>2 DEF ConsoleInv, Fits
    <3>2. PICK r \in Int : \A c \in Cells : k \in Numbers(drawn[c]) => c[2] = r
      BY <3>1, PresentIs DEF ConsoleInv, SoundScreen, InOneRow
    <3>3. RowsOf(k) \subseteq {r}
      BY <3>2 DEF RowsOf, Numbers
    <3>4. IsFiniteSet({r}) /\ Cardinality({r}) = 1
      BY FS_Singleton
    <3>5. Cardinality(RowsOf(k)) <= Cardinality({r})
      BY <3>3, <3>4, FS_Subset
    <3>. QED BY <3>4, <3>5
  <2>. QED BY <2>1, <2>2 DEF LogReadable
<1>. QED BY <1>1, ConsoleInvariant, PTL

\* The message of a panic is drawn over nothing as long as it fits into what
\* was cleared for it, wherever the cursor was and whatever was on the screen.
THEOREM PanicStaysLegible == ConsoleSpec => []PanicLegible
<1>1. ConsoleInv => PanicLegible
  BY DEF ConsoleInv
<1>. QED BY <1>1, ConsoleInvariant, PTL

-------------------------------------------------------------------------------
(* Digits.                                                                 *)

\* What Tenths goes through.
Divided(t, n, k) == t = [i \in 0 .. k |-> IF i = 0 THEN n ELSE t[i - 1] \div 10]

\* There is such a function, for any number of divisions.
LEMMA DividedExists ==
  ASSUME NEW n, NEW k \in Nat
  PROVE  \E t : Divided(t, n, k)
<1>. DEFINE S == {i \in 0 .. k : \E t : Divided(t, n, i)}
<1>1. 0 \in S
  <2>. DEFINE g == [i \in 0 .. 0 |-> n]
  <2>1. Divided(g, n, 0)
    BY DEF Divided
  <2>. QED BY <2>1
<1>2. ASSUME NEW j \in 0 .. k - 1, j \in S PROVE j + 1 \in S
  <2>1. PICK g : Divided(g, n, j)
    BY <1>2
  <2>. DEFINE h == [i \in 0 .. j + 1 |-> IF i = j + 1 THEN g[j] \div 10 ELSE g[i]]
  <2>2. Divided(h, n, j + 1)
    <3>1. ASSUME NEW i \in 0 .. j + 1
          PROVE  h[i] = IF i = 0 THEN n ELSE h[i - 1] \div 10
      <4>1. CASE i = j + 1
        <5>1. h[i] = g[j] \div 10 /\ h[i - 1] = g[j] /\ i # 0
          BY <4>1
        <5>. QED BY <5>1
      <4>2. CASE i # j + 1 /\ i # 0
        <5>1. i \in 0 .. j /\ i - 1 \in 0 .. j
          BY <4>2
        <5>2. h[i] = g[i] /\ h[i - 1] = g[i - 1]
          BY <4>2, <5>1
        <5>3. g[i] = g[i - 1] \div 10
          BY <2>1, <4>2, <5>1 DEF Divided
        <5>. QED BY <4>2, <5>2, <5>3
      <4>3. CASE i # j + 1 /\ i = 0
        <5>1. h[i] = g[i] /\ g[i] = n
          BY <2>1, <4>3 DEF Divided
        <5>. QED BY <4>3, <5>1
      <4>. QED BY <4>1, <4>2, <4>3
    <3>2. h = [i \in 0 .. j + 1 |-> h[i]]
      OBVIOUS
    <3>. HIDE DEF h
    <3>. QED BY <3>1, <3>2 DEF Divided
  <2>. QED BY <2>2
<1>3. k \in 0 .. k
  OBVIOUS
<1>4. k \in S
  <2>. HIDE DEF S
  <2>. QED BY <1>1, <1>2, <1>3, CountingUp
<1>. QED BY <1>4

\* Tenths divides the number again and again.
LEMMA TenthsFacts ==
  ASSUME NEW n \in Nat
  PROVE  /\ Tenths(n)[0] = n
         /\ \A i \in 0 .. MaxDigits : Tenths(n)[i] \in Nat
<1>. DEFINE t == CHOOSE g : g = [i \in 0 .. MaxDigits |-> IF i = 0 THEN n ELSE g[i - 1] \div 10]
            S == {i \in 0 .. MaxDigits : t[i] \in Nat}
<1>1. Tenths(n) = t
  BY DEF Tenths
<1>2. Divided(t, n, MaxDigits)
  <2>1. PICK g : Divided(g, n, MaxDigits)
    BY DividedExists DEF MaxDigits
  <2>2. g = [i \in 0 .. MaxDigits |-> IF i = 0 THEN n ELSE g[i - 1] \div 10]
    BY <2>1, Zenon DEF Divided
  <2>3. t = [i \in 0 .. MaxDigits |-> IF i = 0 THEN n ELSE t[i - 1] \div 10]
    BY <2>2, Zenon
  <2>. HIDE DEF t
  <2>. QED BY <2>3, Zenon DEF Divided
<1>. HIDE DEF t
<1>3. MaxDigits \in Nat
  BY DEF MaxDigits
<1>4. t[0] = n /\ 0 \in S
  BY <1>2, <1>3 DEF Divided
<1>5. ASSUME NEW i \in 0 .. MaxDigits - 1, i \in S PROVE i + 1 \in S
  <2>1. i + 1 \in 0 .. MaxDigits /\ i + 1 # 0 /\ (i + 1) - 1 = i
    BY <1>3
  <2>2. t[i + 1] = t[(i + 1) - 1] \div 10
    BY <1>2, <2>1 DEF Divided
  <2>3. t[i] \in Nat
    BY <1>5
  <2>. QED BY <2>1, <2>2, <2>3
<1>6. \A i \in 0 .. MaxDigits : i \in S
  <2>. HIDE DEF S
  <2>. QED BY <1>3, <1>4, <1>5, CountingUp
<1>. QED BY <1>1, <1>4, <1>6

\* The characters of a string are not the zero byte.
Chars == Nat \ {0}

\* A number that is small enough has digits, and they are characters.
LEMMA DecimalFacts ==
  ASSUME NEW n \in Nat, Tenths(n)[MaxDigits] = 0
  PROVE  /\ DigitCount(n) \in 1 .. MaxDigits
         /\ Decimal(n) \in Seq(Chars) /\ Len(Decimal(n)) = DigitCount(n)
<1>. DEFINE t == Tenths(n)
            T == {d \in 1 .. MaxDigits : t[d] = 0}
            R == {ss \in Nat \X Nat : ss[1] < ss[2]}
<1>1. MaxDigits \in 1 .. MaxDigits /\ MaxDigits \in Nat
  BY DEF MaxDigits
<1>2. \A i \in 0 .. MaxDigits : t[i] \in Nat
  BY TenthsFacts
<1>. HIDE DEF t
<1>3. \E d \in 1 .. MaxDigits : t[d] = 0 /\ (d = 1 \/ t[d - 1] > 0)
  <2>1. MaxDigits \in T /\ T \subseteq Nat
    BY <1>1 DEF t
  <2>2. IsWellFoundedOn(R, Nat)
    BY NatLessThanWellFounded, Zenon DEF OpToRel
  <2>3. PICK x \in T : \A y \in T : ~ (<<y, x>> \in R)
    <3>. HIDE DEF R, T
    <3>. QED BY <2>1, <2>2, WFMin, Zenon
  <2>4. x \in 1 .. MaxDigits /\ t[x] = 0
    OBVIOUS
  <2>5. x # 1 => t[x - 1] > 0
    <3>1. SUFFICES ASSUME x # 1, ~ (t[x - 1] > 0) PROVE FALSE
      OBVIOUS
    <3>2. x - 1 \in 1 .. MaxDigits /\ x - 1 < x /\ x \in Nat /\ x - 1 \in Nat
      BY <1>1, <2>4, <3>1
    <3>3. t[x - 1] = 0
      <4>1. t[x - 1] \in Nat
        BY <1>1, <1>2, <3>2
      <4>. QED BY <3>1, <4>1
    <3>4. x - 1 \in T /\ <<x - 1, x>> \in R
      BY <3>2, <3>3
    <3>. QED BY <2>3, <3>4
  <2>. QED BY <2>4, <2>5
<1>4. DigitCount(n) \in 1 .. MaxDigits
  <2>1. DigitCount(n) = CHOOSE d \in 1 .. MaxDigits : t[d] = 0 /\ (d = 1 \/ t[d - 1] > 0)
    BY DEF DigitCount, t
  <2>. QED BY <1>3, <2>1, Zenon
<1>. DEFINE d == DigitCount(n)
<1>5. Decimal(n) = [i \in 1 .. d |-> (t[d - i] % 10) + Zero]
  BY DEF Decimal, t
<1>. HIDE DEF d
<1>6. d \in Nat /\ \A i \in 1 .. d : (t[d - i] % 10) + Zero \in Chars
  <2>1. d \in 1 .. MaxDigits
    BY <1>4 DEF d
  <2>2. ASSUME NEW i \in 1 .. d PROVE (t[d - i] % 10) + Zero \in Chars
    <3>1. t[d - i] \in Nat
      BY <1>1, <1>2, <2>1
    <3>. DEFINE u == t[d - i]
    <3>. HIDE DEF u
    <3>2. u \in Nat
      BY <3>1 DEF u
    <3>3. (u % 10) + Zero \in Chars
      BY <3>2 DEF Zero, Chars
    <3>. QED BY <3>3 DEF u
  <2>. QED BY <1>1, <2>1, <2>2
<1>7. Decimal(n) \in Seq(Chars) /\ Len(Decimal(n)) = d
  BY <1>5, <1>6
<1>. QED BY <1>4, <1>7 DEF d

-------------------------------------------------------------------------------
(* The buffers in memory.                                                  *)

Names == {"cat", "uint", "int", "hex64", "hex32", "hex16", "hex8", "double"}

\* The names of the buffers, the addresses of each, and what its function reaches.
LEMMA NamesAre == ToSet(Buffers) = Names
<1>1. DOMAIN Buffers = 1 .. 8
  BY DEF Buffers
<1>2. ToSet(Buffers) = {Buffers[i] : i \in 1 .. 8}
  BY <1>1, Zenon DEF ToSet
<1>3. 1 .. 8 = {1, 2, 3, 4, 5, 6, 7, 8}
  OBVIOUS
<1>4. {Buffers[i] : i \in {1, 2, 3, 4, 5, 6, 7, 8}} = Names
  BY DEF Buffers, Names
<1>. QED BY <1>2, <1>3, <1>4

LEMMA StartFacts ==
  /\ BufBytes \in Nat /\ BufBytes > 40
  /\ Start("cat") = 0
  /\ Start("uint") = BufBytes
  /\ Start("int") = 2 * BufBytes
  /\ Start("hex64") = 3 * BufBytes
  /\ Start("hex32") = 4 * BufBytes
  /\ Start("hex16") = 5 * BufBytes
  /\ Start("hex8") = 6 * BufBytes
  /\ Start("double") = 7 * BufBytes
  /\ Memory = 0 .. 8 * BufBytes - 1
<1>1. BufBytes \in Nat /\ BufBytes > 40
  BY StringsAssumption, SizesAssumption DEF MaxDigits
<1>2. DOMAIN Buffers = 1 .. 8 /\ Len(Buffers) = 8
  BY DEF Buffers
<1>3. \A i \in 1 .. 8 : Start(Buffers[i]) = i * BufBytes - BufBytes
  <2>. SUFFICES ASSUME NEW i \in 1 .. 8 PROVE Start(Buffers[i]) = i * BufBytes - BufBytes
    OBVIOUS
  <2>. DEFINE j == CHOOSE j \in DOMAIN Buffers : Buffers[j] = Buffers[i]
  <2>1. j \in 1 .. 8 /\ Buffers[j] = Buffers[i]
    BY <1>2
  <2>. HIDE DEF j
  <2>2. j = i
    BY <2>1 DEF Buffers
  <2>3. Start(Buffers[i]) = j * BufBytes - BufBytes
    BY DEF Start, j
  <2>. QED BY <2>2, <2>3
<1>4. /\ Start("cat") = 1 * BufBytes - BufBytes
      /\ Start("uint") = 2 * BufBytes - BufBytes
      /\ Start("int") = 3 * BufBytes - BufBytes
      /\ Start("hex64") = 4 * BufBytes - BufBytes
      /\ Start("hex32") = 5 * BufBytes - BufBytes
      /\ Start("hex16") = 6 * BufBytes - BufBytes
      /\ Start("hex8") = 7 * BufBytes - BufBytes
      /\ Start("double") = 8 * BufBytes - BufBytes
  BY <1>3 DEF Buffers
<1>5. Memory = 0 .. 8 * BufBytes - 1
  BY <1>2 DEF Memory
<1>. QED BY <1>1, <1>4, <1>5

\* How far a function writes in front of its buffer.
Before(b) == IF b = "hex64" THEN 14 ELSE IF b = "hex32" THEN 6 ELSE IF b = "hex16" THEN 2 ELSE 0

\* How much of a buffer is out of the other functions' reach.
Own(b) ==
  BufBytes - (IF b = "int" THEN 14 ELSE IF b = "hex64" THEN 6 ELSE IF b = "hex32" THEN 2 ELSE 0)

LEMMA ReachFacts ==
  /\ Before("cat") = 0 /\ Before("uint") = 0 /\ Before("int") = 0 /\ Before("hex64") = 14
  /\ Before("hex32") = 6 /\ Before("hex16") = 2 /\ Before("hex8") = 0 /\ Before("double") = 0
  /\ Own("cat") = BufBytes /\ Own("uint") = BufBytes /\ Own("int") = BufBytes - 14
  /\ Own("hex64") = BufBytes - 6 /\ Own("hex32") = BufBytes - 2 /\ Own("hex16") = BufBytes
  /\ Own("hex8") = BufBytes /\ Own("double") = BufBytes
BY StartFacts DEF Before, Own

LEMMA OwnFacts ==
  ASSUME NEW b \in Names
  PROVE  /\ Start(b) \in Nat /\ Start(b) - Before(b) \in Nat /\ Before(b) \in Nat
         /\ Own(b) \in Nat /\ Own(b) <= BufBytes /\ Own(b) > 26
         /\ Start(b) <= 7 * BufBytes
         /\ \A i \in 0 .. BufBytes - 1 : Start(b) + i \in Memory
<1>. USE StartFacts, ReachFacts
<1>1. Before(b) \in Nat /\ Own(b) \in Nat /\ Own(b) <= BufBytes /\ Own(b) > 26
  BY DEF Names
<1>2. Start(b) \in Nat /\ Start(b) - Before(b) \in Nat
  BY DEF Names
<1>3. Start(b) <= 7 * BufBytes
  BY DEF Names
<1>4. \A i \in 0 .. BufBytes - 1 : Start(b) + i \in Memory
  <2>. DEFINE z == Start(b)
  <2>1. z \in Nat /\ z <= 7 * BufBytes
    BY <1>2, <1>3
  <2>. HIDE DEF z
  <2>2. \A i \in 0 .. BufBytes - 1 : z + i \in 0 .. 8 * BufBytes - 1
    BY <2>1
  <2>. QED BY <2>2 DEF z
<1>. QED BY <1>1, <1>2, <1>3, <1>4

\* What the function of b writes is in no other buffer's own part.
LEMMA ReachApart ==
  ASSUME NEW b \in Names, NEW c \in Names, b # c, NEW i \in 0 .. Own(c) - 1
  PROVE  /\ Start(c) + i \in Memory
         /\ Start(c) + i \notin Start(b) - Before(b) .. Start(b) + BufBytes - 1
<1>1. Start(c) + Own(c) <= Start(b) - Before(b) \/ Start(b) + BufBytes <= Start(c)
  <2>. USE StartFacts, ReachFacts
  <2>1. CASE b = "cat"
    BY <2>1 DEF Names
  <2>2. CASE b = "uint"
    BY <2>2 DEF Names
  <2>3. CASE b = "int"
    BY <2>3 DEF Names
  <2>4. CASE b = "hex64"
    BY <2>4 DEF Names
  <2>5. CASE b = "hex32"
    BY <2>5 DEF Names
  <2>6. CASE b = "hex16"
    BY <2>6 DEF Names
  <2>7. CASE b = "hex8"
    BY <2>7 DEF Names
  <2>8. CASE b = "double"
    BY <2>8 DEF Names
  <2>. QED BY <2>1, <2>2, <2>3, <2>4, <2>5, <2>6, <2>7, <2>8 DEF Names
<1>. DEFINE x == Start(c)
            z == Start(b)
            f == Before(b)
            n == Own(c)
<1>2. /\ x \in Nat /\ x <= 7 * BufBytes /\ z \in Nat /\ f \in Nat
      /\ n \in Nat /\ n <= BufBytes /\ BufBytes \in Nat /\ Memory = 0 .. 8 * BufBytes - 1
  BY OwnFacts, StartFacts
<1>3. x + n <= z - f \/ z + BufBytes <= x
  BY <1>1
<1>. HIDE DEF x, z, f, n
<1>4. i \in 0 .. n - 1
  BY DEF n
<1>5. x + i \in Memory /\ x + i \notin z - f .. z + BufBytes - 1
  BY <1>2, <1>3, <1>4
<1>. QED BY <1>5 DEF x, z, f

\* A string put somewhere.
LEMMA PutFacts ==
  ASSUME NEW m, NEW a, NEW s, NEW x \in Memory
  PROVE  Put(m, a, s)[x] = IF x \in a .. a + Len(s) - 1 THEN s[x - a + 1] ELSE m[x]
BY Zenon DEF Put

\* A function that writes within its reach leaves the others' own parts alone.
LEMMA PutApart ==
  ASSUME NEW b \in Names, NEW c \in Names, b # c, NEW i \in 0 .. Own(c) - 1,
         NEW m, NEW a \in Nat, NEW T, NEW s \in Seq(T),
         Start(b) - Before(b) <= a, a + Len(s) <= Start(b) + BufBytes
  PROVE  Put(m, a, s)[Start(c) + i] = m[Start(c) + i]
<1>. DEFINE x == Start(c) + i
            z == Start(b)
            f == Before(b)
            n == Len(s)
<1>1. x \in Memory /\ x \notin z - f .. z + BufBytes - 1
  BY ReachApart
<1>2. z \in Nat /\ f \in Nat /\ n \in Nat /\ BufBytes \in Nat /\ x \in Int
  BY <1>1, OwnFacts, StartFacts
<1>3. x \notin a .. a + n - 1
  <2>1. z - f <= a /\ a + n <= z + BufBytes
    OBVIOUS
  <2>. HIDE DEF x, z, f, n
  <2>. QED BY <1>1, <1>2, <2>1
<1>4. Put(m, a, s)[x] = IF x \in a .. a + n - 1 THEN s[x - a + 1] ELSE m[x]
  <2>. HIDE DEF x
  <2>. QED BY <1>1, PutFacts
<1>. HIDE DEF x
<1>5. Put(m, a, s)[x] = m[x]
  BY <1>3, <1>4
<1>. QED BY <1>5 DEF x

-------------------------------------------------------------------------------
(* What the buffers hold.                                                  *)

\* s and the end of a string lie at address a.
HoldsAt(m, a, s) == (\A i \in 1 .. Len(s) : m[a + i - 1] = s[i]) /\ m[a + Len(s)] = NUL

\* What the doubles that are converted badly should read as.
BadReals == {Real(d) : d \in {x \in Doubles : ~Exact(x)}}

\* Buffer b reads s, without the help of what other functions may change; cat's
\* buffer is cleared behind it.
Intact(m, b, s) ==
  /\ Len(s) < Own(b)
  /\ b \in {"uint", "hex64"} => 2 * Len(s) < BufBytes
  /\ \/ HoldsAt(m, Start(b), s)
     \/ b = "int" /\ s = Integer(MinInt)
     \/ b = "double" /\ s \in BadReals
  /\ b = "cat" => \A i \in Len(s) .. BufBytes - 1 : m[i] = NUL

Good(m, g) ==
  /\ g \in [Names -> Seq(Chars)]
  /\ \A b \in Names : Intact(m, b, g[b])

StringsInv == Good(mem, given)

\* A buffer reads what it read as long as its own part is left alone.
LEMMA IntactKept ==
  ASSUME NEW m, NEW w, NEW c \in Names, NEW s \in Seq(Chars), Intact(m, c, s),
         \A i \in 0 .. Own(c) - 1 : w[Start(c) + i] = m[Start(c) + i]
  PROVE  Intact(w, c, s)
<1>. DEFINE a == Start(c)
            n == Len(s)
            k == Own(c)
<1>1. a \in Nat /\ k \in Nat /\ n \in Nat /\ n < k
  BY OwnFacts DEF Intact
<1>2. c = "cat" => a = 0 /\ k = BufBytes /\ BufBytes \in Nat
  BY StartFacts, ReachFacts
<1>3. \A i \in 0 .. k - 1 : w[a + i] = m[a + i]
  OBVIOUS
<1>4. HoldsAt(m, a, s) => HoldsAt(w, a, s)
  <2>. HIDE DEF a, k
  <2>1. SUFFICES ASSUME HoldsAt(m, a, s) PROVE HoldsAt(w, a, s)
    OBVIOUS
  <2>2. ASSUME NEW i \in 1 .. n PROVE w[a + i - 1] = s[i]
    <3>1. i - 1 \in 0 .. k - 1 /\ a + (i - 1) = a + i - 1
      BY <1>1
    <3>2. m[a + i - 1] = s[i]
      BY <2>1 DEF HoldsAt
    <3>3. w[a + (i - 1)] = m[a + (i - 1)]
      BY <1>3, <3>1
    <3>. QED BY <3>1, <3>2, <3>3
  <2>3. w[a + n] = NUL
    <3>1. n \in 0 .. k - 1
      BY <1>1
    <3>. QED BY <1>3, <2>1, <3>1 DEF HoldsAt
  <2>. QED BY <2>2, <2>3 DEF HoldsAt
<1>5. c = "cat" => \A i \in Len(s) .. BufBytes - 1 : w[i] = NUL
  <2>1. SUFFICES ASSUME c = "cat", NEW i \in n .. BufBytes - 1 PROVE w[i] = NUL
    OBVIOUS
  <2>2. i \in 0 .. k - 1 /\ a + i = i
    <3>1. a = 0 /\ k = BufBytes
      BY <1>2, <2>1
    <3>. HIDE DEF a, k, n
    <3>. QED BY <1>1, <3>1
  <2>3. m[i] = NUL
    BY <2>1 DEF Intact
  <2>4. w[a + i] = m[a + i]
    BY <1>3, <2>2
  <2>. QED BY <2>2, <2>3, <2>4
<1>. QED BY <1>4, <1>5 DEF Intact

\* A function that leaves the others' own parts alone and leaves its own result.
LEMMA UpdateKeeps ==
  ASSUME NEW m, NEW w, NEW g, Good(m, g), NEW b \in Names, NEW s \in Seq(Chars), Intact(w, b, s),
         \A c \in Names \ {b} : \A i \in 0 .. Own(c) - 1 : w[Start(c) + i] = m[Start(c) + i]
  PROVE  Good(w, [g EXCEPT ![b] = s])
<1>. DEFINE h == [g EXCEPT ![b] = s]
<1>1. g \in [Names -> Seq(Chars)]
  BY DEF Good
<1>2. h \in [Names -> Seq(Chars)] /\ \A c \in Names : h[c] = IF c = b THEN s ELSE g[c]
  BY <1>1
<1>. HIDE DEF h
<1>3. ASSUME NEW c \in Names PROVE Intact(w, c, h[c])
  <2>1. CASE c = b
    BY <1>2, <2>1
  <2>2. CASE c # b
    <3>1. Intact(m, c, g[c]) /\ g[c] \in Seq(Chars)
      BY <1>1 DEF Good
    <3>2. Intact(w, c, g[c])
      BY <2>2, <3>1, IntactKept
    <3>. QED BY <1>2, <2>2, <3>2
  <2>. QED BY <2>1, <2>2
<1>. QED BY <1>2, <1>3 DEF Good, h

\* A string with its end, put at a.
LEMMA PutHolds ==
  ASSUME NEW m, NEW a \in Nat, NEW s \in Seq(Chars), NEW x \in Nat, a + Len(s) <= x,
         0 .. x \subseteq Memory
  PROVE  HoldsAt(Put(m, a, Append(s, NUL)), a, s)
<1>. DEFINE r == Append(s, NUL)
            n == Len(s)
<1>1. r \in Seq(Nat) /\ Len(r) = n + 1 /\ n \in Nat
  BY DEF Chars, NUL
<1>2. (\A i \in 1 .. n : r[i] = s[i]) /\ r[n + 1] = NUL
  OBVIOUS
<1>. HIDE DEF r
<1>3. \A y \in Memory : Put(m, a, r)[y] = IF y \in a .. a + Len(r) - 1 THEN r[y - a + 1] ELSE m[y]
  BY PutFacts, Zenon
<1>4. ASSUME NEW i \in 1 .. n + 1 PROVE Put(m, a, r)[a + i - 1] = r[i]
  <2>1. a + i - 1 \in Memory /\ a + i - 1 \in a .. a + Len(r) - 1 /\ (a + i - 1) - a + 1 = i
    <3>1. a + i - 1 \in 0 .. x /\ a + i - 1 \in a .. a + (n + 1) - 1 /\ (a + i - 1) - a + 1 = i
      <4>1. a + n <= x
        OBVIOUS
      <4>. HIDE DEF n
      <4>. QED BY <1>1, <4>1
    <3>. QED BY <1>1, <3>1
  <2>. QED BY <1>3, <2>1
<1>. DEFINE w == Put(m, a, r)
<1>. HIDE DEF w, n
<1>5. ASSUME NEW i \in 1 .. n PROVE w[a + i - 1] = s[i]
  <2>1. i \in 1 .. n + 1
    BY <1>1
  <2>. QED BY <1>2, <1>4, <2>1 DEF w
<1>6. w[a + n] = NUL
  <2>1. n + 1 \in 1 .. n + 1 /\ a + (n + 1) - 1 = a + n
    BY <1>1
  <2>. QED BY <1>2, <1>4, <2>1 DEF w
<1>. QED BY <1>5, <1>6 DEF HoldsAt, w, r, n

\* What is written and not cat's: a string with its end, at the buffer's start.
LEMMA PutIntact ==
  ASSUME NEW m, NEW b \in Names, b # "cat", NEW s \in Seq(Chars), Len(s) < Own(b),
         b \in {"uint", "hex64"} => 2 * Len(s) < BufBytes
  PROVE  /\ Intact(Put(m, Start(b), Append(s, NUL)), b, s)
         /\ HoldsAt(Put(m, Start(b), Append(s, NUL)), Start(b), s)
<1>. DEFINE a == Start(b)
            n == Len(s)
<1>1. a \in Nat /\ n \in Nat /\ a + n \in Nat /\ a + n <= 8 * BufBytes - 1
  <2>1. a \in Nat /\ n \in Nat /\ n < BufBytes /\ a <= 7 * BufBytes /\ BufBytes \in Nat
    <3>1. Own(b) <= BufBytes /\ Own(b) \in Nat /\ a \in Nat /\ a <= 7 * BufBytes /\ BufBytes \in Nat
      BY OwnFacts, StartFacts
    <3>2. n \in Nat /\ n < Own(b)
      OBVIOUS
    <3>. HIDE DEF a, n
    <3>. QED BY <3>1, <3>2
  <2>. HIDE DEF a, n
  <2>. QED BY <2>1
<1>2. 0 .. a + n \subseteq Memory
  <2>. HIDE DEF a, n
  <2>. QED BY <1>1, StartFacts
<1>3. HoldsAt(Put(m, a, Append(s, NUL)), a, s)
  <2>1. a + n <= a + n
    BY <1>1
  <2>. QED BY <1>1, <1>2, <2>1, PutHolds
<1>. QED BY <1>3 DEF Intact

\* The string at a ends at e.
EndsAt(m, a, e) == m[e] = NUL /\ \A i \in a .. e - 1 : m[i] # NUL

LEMMA StringTo ==
  ASSUME NEW m, NEW a
  PROVE  LET end == CHOOSE e \in a .. 8 * BufBytes - 1 : EndsAt(m, a, e)
         IN  StringIn(m, a) = [i \in 1 .. end - a |-> m[a + i - 1]]
<1>1. Len(Buffers) = 8
  BY DEF Buffers
<1>. QED BY <1>1 DEF StringIn, EndsAt

\* A buffer that reads s is the string s.
LEMMA StringIs ==
  ASSUME NEW m, NEW b \in Names, NEW s \in Seq(Chars), Len(s) < Own(b), HoldsAt(m, Start(b), s)
  PROVE  StringIn(m, Start(b)) = s
<1>. DEFINE a == Start(b)
            n == Len(s)
            all == 8 * BufBytes - 1
            end == CHOOSE e \in a .. all : EndsAt(m, a, e)
<1>1. a \in Nat /\ n \in Nat /\ a + n \in a .. all /\ all \in Nat
  <2>1. Own(b) <= BufBytes /\ Own(b) \in Nat /\ a \in Nat /\ a <= 7 * BufBytes /\ BufBytes \in Nat
        /\ BufBytes > 40
    BY OwnFacts, StartFacts
  <2>2. n \in Nat /\ n < Own(b)
    OBVIOUS
  <2>. HIDE DEF a, n
  <2>. QED BY <2>1, <2>2
<1>2. StringIn(m, a) = [i \in 1 .. end - a |-> m[a + i - 1]]
  BY StringTo
<1>3. \A i \in 1 .. n : m[a + i - 1] = s[i] /\ s[i] # NUL
  BY DEF HoldsAt, Chars, NUL
<1>4. m[a + n] = NUL
  BY DEF HoldsAt
<1>. HIDE DEF a, n, all
<1>5. \A i \in a .. a + n - 1 : m[i] # NUL
  <2>1. SUFFICES ASSUME NEW i \in a .. a + n - 1 PROVE m[i] # NUL
    OBVIOUS
  <2>2. i - a + 1 \in 1 .. n /\ a + (i - a + 1) - 1 = i
    BY <1>1
  <2>. QED BY <1>3, <2>2
<1>6. EndsAt(m, a, a + n)
  BY <1>1, <1>4, <1>5 DEF EndsAt
<1>7. end \in a .. all /\ EndsAt(m, a, end)
  BY <1>1, <1>6, Zenon
<1>. HIDE DEF end
<1>8. end = a + n
  <2>1. ~ (end < a + n)
    <3>1. end < a + n => end \in a .. a + n - 1
      BY <1>1, <1>7
    <3>. QED BY <1>5, <1>7, <3>1 DEF EndsAt
  <2>2. ~ (a + n < end)
    <3>1. a + n < end => a + n \in a .. end - 1
      BY <1>1, <1>7
    <3>. QED BY <1>4, <1>7, <3>1 DEF EndsAt
  <2>. QED BY <1>1, <1>7, <2>1, <2>2
<1>9. end - a = n
  BY <1>1, <1>8
<1>10. StringIn(m, a) = [i \in 1 .. n |-> s[i]]
  BY <1>2, <1>3, <1>9
<1>11. s = [i \in 1 .. n |-> s[i]]
  BY DEF n
<1>. QED BY <1>10, <1>11 DEF a

\* A string ends at the first zero byte, where there is one.
LEMMA StringEnds ==
  ASSUME NEW m, NEW a \in Nat, NEW z \in a .. 8 * BufBytes - 1, m[z] = NUL
  PROVE  \E n \in 0 .. z - a : StringIn(m, a) = [i \in 1 .. n |-> m[a + i - 1]]
<1>. DEFINE all == 8 * BufBytes - 1
            T == {e \in a .. z : m[e] = NUL}
            R == {ss \in Nat \X Nat : ss[1] < ss[2]}
            end == CHOOSE e \in a .. all : EndsAt(m, a, e)
<1>1. all \in Int /\ z \in Nat /\ a <= z /\ z <= all
  BY StartFacts
<1>2. StringIn(m, a) = [i \in 1 .. end - a |-> m[a + i - 1]]
  BY StringTo
<1>. HIDE DEF all
<1>3. \E e \in a .. all : EndsAt(m, a, e)
  <2>1. z \in T /\ T \subseteq Nat
    BY <1>1
  <2>2. IsWellFoundedOn(R, Nat)
    BY NatLessThanWellFounded, Zenon DEF OpToRel
  <2>3. PICK x \in T : \A y \in T : ~ (<<y, x>> \in R)
    <3>. HIDE DEF R, T
    <3>. QED BY <2>1, <2>2, WFMin, Zenon
  <2>4. ASSUME NEW i \in a .. x - 1 PROVE m[i] # NUL
    <3>1. i \in a .. z /\ <<i, x>> \in R
      BY <1>1, <2>3
    <3>. QED BY <2>3, <3>1
  <2>5. x \in a .. all /\ m[x] = NUL
    BY <1>1, <2>3
  <2>. QED BY <2>4, <2>5 DEF EndsAt
<1>4. end \in a .. all /\ EndsAt(m, a, end)
  BY <1>3, Zenon
<1>. HIDE DEF end
<1>5. ~ (z < end)
  <2>1. z < end => z \in a .. end - 1
    BY <1>1, <1>4
  <2>. QED BY <1>4, <2>1 DEF EndsAt
<1>6. end - a \in 0 .. z - a
  BY <1>1, <1>4, <1>5
<1>. QED BY <1>2, <1>6

\* What the invariant is for.
LEMMA ResultsRead ==
  ASSUME StringsInv
  PROVE  /\ ResultsKept
         /\ \A b \in Names \ {"int", "double"} : StringAt(Start(b)) = given[b]
<1>1. ASSUME NEW b \in Names
      PROVE  \/ StringAt(Start(b)) = given[b]
             \/ b = "int" /\ given[b] = Integer(MinInt)
             \/ b = "double" /\ given[b] \in BadReals
  <2>1. Intact(mem, b, given[b]) /\ given[b] \in Seq(Chars)
    BY DEF StringsInv, Good
  <2>. QED BY <2>1, StringIs DEF Intact, StringAt
<1>. QED BY <1>1, NamesAre DEF ResultsKept, BadReals

-------------------------------------------------------------------------------
(* The functions.                                                          *)

\* A result written from the start of its buffer, with its end.
LEMMA ResultPut ==
  ASSUME NEW m, NEW g, Good(m, g), NEW b \in Names, b # "cat",
         NEW s \in Seq(Chars), Len(s) < Own(b), b \in {"uint", "hex64"} => 2 * Len(s) < BufBytes
  PROVE  Good(Put(m, Start(b), Append(s, NUL)), [g EXCEPT ![b] = s])
<1>. DEFINE a == Start(b)
            n == Len(s)
            r == Append(s, NUL)
            f == Before(b)
<1>1. r \in Seq(Nat) /\ Len(r) = n + 1 /\ n \in Nat
  BY DEF Chars, NUL
<1>2. a - f <= a /\ a + Len(r) <= a + BufBytes /\ a \in Nat
  <2>1. Own(b) <= BufBytes /\ Own(b) \in Nat /\ a \in Nat /\ f \in Nat /\ BufBytes \in Nat
    BY OwnFacts, StartFacts
  <2>2. n < Own(b)
    OBVIOUS
  <2>. HIDE DEF a, n, r, f
  <2>. QED BY <1>1, <2>1, <2>2
<1>3. Intact(Put(m, a, r), b, s)
  BY PutIntact
<1>. HIDE DEF r
<1>4. \A c \in Names \ {b} : \A i \in 0 .. Own(c) - 1 : Put(m, a, r)[Start(c) + i] = m[Start(c) + i]
  BY <1>1, <1>2, PutApart
<1>5. Good(Put(m, a, r), [g EXCEPT ![b] = s])
  <2>. DEFINE w == Put(m, a, r)
  <2>. HIDE DEF w
  <2>. QED BY <1>3, <1>4, UpdateKeeps DEF w
<1>. QED BY <1>5 DEF r

\* toString(uint64_t)
LEMMA UintStep ==
  ASSUME StringsInv, UintToString
  PROVE  StringsInv'
<1>1. PICK n \in Unsigned :
        /\ mem' = Put(mem, Start("uint"), Append(Decimal(n), NUL))
        /\ given' = [given EXCEPT !["uint"] = Decimal(n)]
  BY DEF UintToString, Return
<1>. DEFINE s == Decimal(n)
            l == Len(s)
<1>2. s \in Seq(Chars) /\ l \in Nat /\ l <= MaxDigits
  <2>1. n \in Nat /\ Tenths(n)[MaxDigits] = 0
    BY StringsAssumption, SizesAssumption
  <2>2. MaxDigits \in Nat
    BY DEF MaxDigits
  <2>. QED BY <2>1, <2>2, DecimalFacts
<1>3. "uint" \in Names /\ "uint" # "cat"
  BY DEF Names
<1>4. l < Own("uint") /\ 2 * l < BufBytes
  <2>1. Own("uint") = BufBytes /\ BufBytes \in Nat /\ BufBytes > 40
    BY ReachFacts, StartFacts
  <2>. HIDE DEF l
  <2>. QED BY <1>2, <2>1 DEF MaxDigits
<1>5. Good(mem, given)
  BY DEF StringsInv
<1>. HIDE DEF s
<1>6. Good(Put(mem, Start("uint"), Append(s, NUL)), [given EXCEPT !["uint"] = s])
  BY <1>2, <1>3, <1>4, <1>5, ResultPut
<1>. QED BY <1>1, <1>6 DEF StringsInv, s

\* The numbers that toString(int64_t) is called with, by toString(double) too.
WholeNumbers == SignedInts \cup {MinInt} \cup {Truncated(d) : d \in Doubles}

LEMMA DoubleFacts ==
  ASSUME NEW d \in Doubles
  PROVE  /\ d.negative \in BOOLEAN /\ d.whole \in Nat /\ d.decimals \in Seq(0 .. 9)
         /\ Tenths(d.whole)[MaxDigits] = 0
<1>1. d \in [negative : BOOLEAN, whole : Nat, decimals : Seq(0 .. 9)]
  BY StringsAssumption
<1>. QED BY <1>1, SizesAssumption

LEMMA WholeFacts ==
  ASSUME NEW n \in WholeNumbers
  PROVE  n \in Int /\ Tenths(IF n < 0 THEN -n ELSE n)[MaxDigits] = 0
<1>1. CASE n \in SignedInts \cup {MinInt}
  BY <1>1, StringsAssumption, SizesAssumption
<1>2. CASE n \notin SignedInts \cup {MinInt}
  <2>1. PICK d \in Doubles : n = Truncated(d)
    BY <1>2 DEF WholeNumbers
  <2>. DEFINE k == d.whole
  <2>2. k \in Nat /\ Tenths(k)[MaxDigits] = 0
    BY DoubleFacts
  <2>3. n = IF d.negative THEN -k ELSE k
    BY <1>2, <2>1 DEF Truncated
  <2>. HIDE DEF k
  <2>4. n \in Int /\ (IF n < 0 THEN -n ELSE n) = k
    BY <2>2, <2>3
  <2>. QED BY <2>2, <2>4
<1>. QED BY <1>1, <1>2

\* A number that is small enough, with its sign, has characters.
LEMMA IntegerFacts ==
  ASSUME NEW n \in WholeNumbers
  PROVE  /\ n \in Int /\ Integer(n) \in Seq(Chars) /\ Len(Integer(n)) <= MaxDigits + 1
         /\ n < 0 => -n \in Nat /\ DigitCount(-n) \in 1 .. MaxDigits
<1>1. n \in Int
  BY WholeFacts
<1>2. MaxDigits \in Nat
  BY DEF MaxDigits
<1>3. Tenths(IF n < 0 THEN -n ELSE n)[MaxDigits] = 0
  BY WholeFacts
<1>4. CASE n >= 0
  <2>1. n \in Nat /\ ~ (n < 0) /\ Tenths(n)[MaxDigits] = 0
    BY <1>1, <1>3, <1>4
  <2>2. Decimal(n) \in Seq(Chars) /\ Len(Decimal(n)) \in 1 .. MaxDigits
    BY <2>1, DecimalFacts
  <2>3. Integer(n) = Decimal(n)
    BY <1>4 DEF Integer
  <2>. QED BY <1>1, <1>2, <2>1, <2>2, <2>3
<1>5. CASE n < 0
  <2>. DEFINE k == -n
  <2>1. k \in Nat /\ ~ (n >= 0) /\ Tenths(k)[MaxDigits] = 0
    BY <1>1, <1>3, <1>5
  <2>2. /\ Decimal(k) \in Seq(Chars) /\ Len(Decimal(k)) \in 1 .. MaxDigits
        /\ DigitCount(k) \in 1 .. MaxDigits
    <3>. HIDE DEF k
    <3>. QED BY <2>1, DecimalFacts
  <2>3. Integer(n) = <<Minus>> \o Decimal(k)
    BY <2>1 DEF Integer
  <2>. DEFINE s == Decimal(k)
  <2>4. <<Minus>> \in Seq(Chars) /\ Len(<<Minus>>) = 1
    BY DEF Minus, Chars
  <2>5. (<<Minus>> \o s) \in Seq(Chars) /\ Len(<<Minus>> \o s) = 1 + Len(s)
    <3>. HIDE DEF s
    <3>. QED BY <2>2, <2>4 DEF s
  <2>6. Len(<<Minus>> \o s) <= MaxDigits + 1
    BY <1>2, <2>2, <2>5
  <2>. QED BY <1>1, <2>1, <2>2, <2>3, <2>5, <2>6
<1>. QED BY <1>1, <1>4, <1>5

\* What is put into the buffer of toString(int64_t) is in no other's own part.
LEMMA IntApart ==
  ASSUME NEW c \in Names \ {"int"}, NEW i \in 0 .. Own(c) - 1,
         NEW m, NEW T, NEW s \in Seq(T), NEW k \in Nat, k + Len(s) <= BufBytes
  PROVE  Put(m, Start("int") + k, s)[Start(c) + i] = m[Start(c) + i]
<1>. DEFINE b == "int"
            a == Start("int") + k
<1>1. b \in Names /\ c \in Names /\ b # c
  BY DEF Names
<1>2. a \in Nat /\ Start(b) - Before(b) <= a /\ a + Len(s) <= Start(b) + BufBytes
  <2>1. /\ Start(b) \in Nat /\ Start(b) - Before(b) = Start(b) /\ Len(s) \in Nat
        /\ BufBytes \in Nat
    BY StartFacts, ReachFacts
  <2>. DEFINE z == Start(b)
  <2>2. z \in Nat /\ a = z + k
    BY <2>1
  <2>. HIDE DEF z, a
  <2>3. a \in Nat /\ z <= a /\ a + Len(s) <= z + BufBytes
    BY <2>1, <2>2
  <2>. QED BY <2>1, <2>3 DEF z
<1>3. Put(m, a, s)[Start(c) + i] = m[Start(c) + i]
  <2>. HIDE DEF a, b
  <2>. QED BY <1>1, <1>2, PutApart
<1>. QED BY <1>3

\* A sign first or an end first, it is the same string.
LEMMA ConsAppend ==
  ASSUME NEW T, NEW q \in Seq(T), NEW x, NEW y
  PROVE  <<x>> \o Append(q, y) = Append(<<x>> \o q, y)
<1>. DEFINE l == <<x>> \o Append(q, y)
            r == Append(<<x>> \o q, y)
            U == T \cup {x, y}
            n == Len(q) + 2
<1>1. q \in Seq(U) /\ <<x>> \in Seq(U) /\ y \in U
  OBVIOUS
<1>2. l \in Seq(U) /\ r \in Seq(U) /\ Len(l) = n /\ Len(r) = n
  <2>. HIDE DEF U
  <2>. QED BY <1>1
<1>3. \A i \in 1 .. n : l[i] = r[i]
  <2>. HIDE DEF U
  <2>. QED BY <1>1
<1>. HIDE DEF l, r, U
<1>4. l = r
  BY <1>2, <1>3
<1>. QED BY <1>4 DEF l, r

\* Every number but the least one is written with its end.
LEMMA IntWrites ==
  ASSUME NEW m, NEW n \in WholeNumbers, n # MinInt
  PROVE  IntWritten(m, n) = Put(m, Start("int"), Append(Integer(n), NUL))
<1>. DEFINE s == Integer(n)
            a == Start("int")
            w == IntWritten(m, n)
<1>1. n \in Int
  BY WholeFacts
<1>2. CASE n >= 0
  <2>1. w = Put(m, a, Append(Decimal(n), NUL))
    <3>1. ~ (n < 0)
      BY <1>1, <1>2
    <3>. QED BY <1>2, <3>1 DEF IntWritten
  <2>2. s = Decimal(n)
    BY <1>2 DEF Integer
  <2>. HIDE DEF s, w
  <2>3. w = Put(m, a, Append(s, NUL))
    BY <2>1, <2>2
  <2>. QED BY <2>3 DEF s, w
<1>3. CASE ~ (n >= 0)
  <2>1. n < 0
    BY <1>1, <1>3
  <2>2. w = Put(m, a, <<Minus>> \o Append(Decimal(-n), NUL))
    BY <1>1, <2>1 DEF IntWritten
  <2>3. s = <<Minus>> \o Decimal(-n)
    BY <1>3 DEF Integer
  <2>. DEFINE q == Decimal(-n)
  <2>4. q \in Seq(Chars)
    <3>. DEFINE k == -n
    <3>1. k \in Nat /\ Tenths(k)[MaxDigits] = 0
      <4>1. Tenths(IF n < 0 THEN -n ELSE n)[MaxDigits] = 0
        BY WholeFacts
      <4>. QED BY <1>1, <2>1, <4>1
    <3>. HIDE DEF k
    <3>2. Decimal(k) \in Seq(Chars)
      BY <3>1, DecimalFacts
    <3>. QED BY <3>2 DEF k
  <2>. HIDE DEF q
  <2>5. <<Minus>> \o Append(q, NUL) = Append(<<Minus>> \o q, NUL)
    BY <2>4, ConsAppend
  <2>. QED BY <2>2, <2>3, <2>5 DEF q
<1>. QED BY <1>2, <1>3

\* Of the least one, an end is written where its digits end.
LEMMA LeastWrites ==
  ASSUME NEW m
  PROVE  LET d == DigitCount(-MinInt)
             w == IntWritten(m, MinInt)
         IN  /\ d \in 1 .. MaxDigits
             /\ w[Start("int") + d + 1] = NUL
             /\ \A c \in Names \ {"int"} : \A i \in 0 .. Own(c) - 1 :
                  w[Start(c) + i] = m[Start(c) + i]
<1>. DEFINE n == MinInt
            a == Start("int")
            w == IntWritten(m, n)
            d == DigitCount(-n)
            wrong == (Zero - ((-n) % 10)) % 256
            p == <<Minus>>
            u == Put(m, a, p)
            t == <<wrong, NUL>>
            V == {Minus, wrong, NUL}
<1>1. n \in Int /\ n < 0 /\ d \in 1 .. MaxDigits
  <2>1. n \in WholeNumbers
    BY DEF WholeNumbers
  <2>2. n \in Int /\ n < 0
    BY StringsAssumption
  <2>. QED BY <2>1, <2>2, IntegerFacts
<1>2. BufBytes \in Nat /\ BufBytes > 40 /\ a = 2 * BufBytes /\ Memory = 0 .. 8 * BufBytes - 1
  BY StartFacts
<1>3. w = Put(u, a + d, t)
  BY <1>1 DEF IntWritten
<1>4. t \in Seq(V) /\ Len(t) = 2 /\ p \in Seq(V) /\ Len(p) = 1 /\ t[2] = NUL
  OBVIOUS
<1>5. d \in 1 .. 20
  BY <1>1 DEF MaxDigits
<1>. HIDE DEF V, p, t, u, d, w, a
<1>6. w[a + d + 1] = NUL
  <2>. DEFINE x == a + d + 1
  <2>1. x \in Memory /\ x \in a + d .. (a + d) + Len(t) - 1 /\ x - (a + d) + 1 = 2
    BY <1>2, <1>4, <1>5
  <2>2. Put(u, a + d, t)[x] =
          IF x \in a + d .. (a + d) + Len(t) - 1 THEN t[x - (a + d) + 1] ELSE u[x]
    <3>. HIDE DEF x
    <3>. QED BY <2>1, PutFacts
  <2>. HIDE DEF x
  <2>3. w[x] = NUL
    BY <1>3, <1>4, <2>1, <2>2
  <2>. QED BY <2>3 DEF x
<1>7. ASSUME NEW c \in Names \ {"int"}, NEW i \in 0 .. Own(c) - 1
      PROVE  w[Start(c) + i] = m[Start(c) + i]
  <2>1. u[Start(c) + i] = m[Start(c) + i]
    <3>1. a + 0 = a /\ 0 + Len(p) <= BufBytes
      BY <1>2, <1>4
    <3>2. Put(m, a + 0, p)[Start(c) + i] = m[Start(c) + i]
      BY <1>4, <3>1, IntApart DEF a
    <3>. QED BY <3>1, <3>2 DEF u
  <2>2. w[Start(c) + i] = u[Start(c) + i]
    <3>1. d \in Nat /\ d + Len(t) <= BufBytes
      BY <1>2, <1>4, <1>5
    <3>2. Put(u, a + d, t)[Start(c) + i] = u[Start(c) + i]
      BY <1>4, <3>1, IntApart DEF a
    <3>. QED BY <1>3, <3>2
  <2>. QED BY <2>1, <2>2
<1>. QED BY <1>1, <1>6, <1>7 DEF a, d, w

\* What toString(int64_t) does to the buffers.
LEMMA IntKeeps ==
  ASSUME NEW m, NEW g, Good(m, g), NEW n \in WholeNumbers
  PROVE  Good(IntWritten(m, n), [g EXCEPT !["int"] = Integer(n)])
<1>. DEFINE s == Integer(n)
            a == Start("int")
            w == IntWritten(m, n)
<1>1. n \in Int /\ s \in Seq(Chars) /\ Len(s) <= MaxDigits + 1
  BY IntegerFacts
<1>2. "int" \in Names /\ "int" # "cat" /\ "int" \notin {"uint", "hex64"}
  BY DEF Names
<1>3. BufBytes \in Nat /\ BufBytes > 40 /\ Own("int") = BufBytes - 14
  BY ReachFacts, StartFacts
<1>4. Len(s) < Own("int")
  <2>1. Len(s) \in Nat
    BY <1>1
  <2>. DEFINE l == Len(s)
  <2>. HIDE DEF s
  <2>. QED BY <1>1, <1>3, <2>1 DEF MaxDigits
<1>5. CASE n # MinInt
  <2>1. w = Put(m, a, Append(s, NUL))
    BY <1>5, IntWrites
  <2>. HIDE DEF s, w
  <2>2. Good(Put(m, a, Append(s, NUL)), [g EXCEPT !["int"] = s])
    BY <1>1, <1>2, <1>4, ResultPut
  <2>. QED BY <2>1, <2>2 DEF s, w
<1>6. CASE n = MinInt
  <2>1. \A c \in Names \ {"int"} : \A i \in 0 .. Own(c) - 1 : w[Start(c) + i] = m[Start(c) + i]
    BY <1>6, LeastWrites
  <2>2. Intact(w, "int", s)
    BY <1>2, <1>4, <1>6 DEF Intact
  <2>. HIDE DEF s, w
  <2>3. Good(w, [g EXCEPT !["int"] = s])
    BY <1>1, <1>2, <2>1, <2>2, UpdateKeeps
  <2>. QED BY <2>3 DEF s, w
<1>. QED BY <1>5, <1>6

\* What its buffer reads then: its number, or, for the least one, no more than
\* the digits of that.
LEMMA IntReads ==
  ASSUME NEW m, NEW n \in WholeNumbers
  PROVE  LET r == StringIn(IntWritten(m, n), Start("int"))
         IN  /\ n # MinInt => r = Integer(n)
             /\ \E T : Chars \subseteq T /\ r \in Seq(T) /\ Len(r) <= MaxDigits + 1
<1>. DEFINE s == Integer(n)
            a == Start("int")
            w == IntWritten(m, n)
            r == StringIn(w, a)
<1>1. s \in Seq(Chars) /\ Len(s) <= MaxDigits + 1
  BY IntegerFacts
<1>2. "int" \in Names /\ "int" # "cat" /\ "int" \notin {"uint", "hex64"}
  BY DEF Names
<1>3. BufBytes \in Nat /\ BufBytes > 40 /\ Own("int") = BufBytes - 14 /\ a = 2 * BufBytes
  BY ReachFacts, StartFacts
<1>4. CASE n # MinInt
  <2>1. Len(s) < Own("int")
    <3>1. Len(s) \in Nat
      BY <1>1
    <3>. HIDE DEF s
    <3>. QED BY <1>1, <1>3, <3>1 DEF MaxDigits
  <2>2. w = Put(m, a, Append(s, NUL))
    BY <1>4, IntWrites
  <2>. HIDE DEF s, w
  <2>3. HoldsAt(w, a, s)
    BY <1>1, <1>2, <2>1, <2>2, PutIntact
  <2>4. r = s
    BY <1>1, <1>2, <2>1, <2>3, StringIs
  <2>. QED BY <1>1, <2>4 DEF s, w
<1>5. CASE n = MinInt
  <2>. DEFINE d == DigitCount(-MinInt)
              z == a + d + 1
              T == Chars \cup {w[a + i - 1] : i \in Nat}
  <2>1. d \in 1 .. MaxDigits /\ w[z] = NUL
    BY <1>5, LeastWrites
  <2>. HIDE DEF w, a, d
  <2>2. a \in Nat /\ z \in a .. 8 * BufBytes - 1 /\ z - a = d + 1 /\ d + 1 <= MaxDigits + 1
    BY <1>3, <2>1 DEF MaxDigits
  <2>3. PICK k \in 0 .. z - a : r = [i \in 1 .. k |-> w[a + i - 1]]
    <3>. HIDE DEF z
    <3>. QED BY <2>1, <2>2, StringEnds
  <2>4. k \in Nat /\ k <= MaxDigits + 1
    BY <2>1, <2>2, <2>3 DEF MaxDigits
  <2>. HIDE DEF z
  <2>5. \A i \in 1 .. k : w[a + i - 1] \in T
    BY <2>4
  <2>. HIDE DEF T
  <2>6. r \in Seq(T) /\ Len(r) = k
    BY <2>3, <2>4, <2>5
  <2>7. Chars \subseteq T
    BY DEF T
  <2>. QED BY <1>5, <2>4, <2>6, <2>7 DEF w, a
<1>. QED BY <1>4, <1>5

\* toString(int64_t)
LEMMA IntStep ==
  ASSUME StringsInv, IntToString
  PROVE  StringsInv'
<1>1. PICK n \in SignedInts :
        mem' = IntWritten(mem, n) /\ given' = [given EXCEPT !["int"] = Integer(n)]
  BY DEF IntToString, Return
<1>2. n \in WholeNumbers
  BY DEF WholeNumbers
<1>3. Good(IntWritten(mem, n), [given EXCEPT !["int"] = Integer(n)])
  BY <1>2, IntKeeps DEF StringsInv
<1>. QED BY <1>1, <1>3 DEF StringsInv

\* Decimals are characters, the ones that are given as the ones that are found.
LEMMA DecimalsFacts ==
  ASSUME NEW d \in Doubles
  PROVE  LET given10 == [i \in DOMAIN d.decimals |-> Zero + d.decimals[i]]
         IN  /\ Decimals(d) \in Seq(Chars) /\ Len(Decimals(d)) = Len(d.decimals)
             /\ given10 \in Seq(Chars) /\ Len(given10) = Len(d.decimals)
             /\ d.whole < IntLimit => Decimals(d) = given10
             /\ Len(d.decimals) \in Nat
<1>. DEFINE t == d.decimals
            small == d.whole < IntLimit
<1>1. t \in Seq(0 .. 9)
  BY DoubleFacts
<1>2. Decimals(d) = [i \in DOMAIN t |-> Zero + IF small THEN t[i] ELSE 0]
  BY DEF Decimals
<1>. HIDE DEF t, small
<1>3. DOMAIN t = 1 .. Len(t) /\ Len(t) \in Nat
      /\ \A i \in 1 .. Len(t) : Zero + t[i] \in Chars /\ Zero + 0 \in Chars
  BY <1>1 DEF Zero, Chars
<1>4. [i \in DOMAIN t |-> Zero + t[i]] \in Seq(Chars) /\ Len([i \in DOMAIN t |-> Zero + t[i]]) = Len(t)
  BY <1>3
<1>5. \A i \in 1 .. Len(t) : (Zero + IF small THEN t[i] ELSE 0) \in Chars
  BY <1>3
<1>6. Decimals(d) \in Seq(Chars) /\ Len(Decimals(d)) = Len(t)
  BY <1>2, <1>3, <1>5
<1>7. small => Decimals(d) = [i \in DOMAIN t |-> Zero + t[i]]
  BY <1>2
<1>. QED BY <1>3, <1>4, <1>6, <1>7 DEF t, small

\* A string, a point and decimals.
LEMMA PointBetween ==
  ASSUME NEW T, NEW q \in Seq(T), NEW dec \in Seq(T), Point \in T
  PROVE  /\ (q \o <<Point>> \o dec) \in Seq(T)
         /\ Len(q \o <<Point>> \o dec) = Len(q) + 1 + Len(dec)
<1>. DEFINE p == <<Point>>
            qp == q \o p
<1>1. p \in Seq(T) /\ Len(p) = 1 /\ Len(q) \in Nat
  OBVIOUS
<1>. HIDE DEF p
<1>2. qp \in Seq(T) /\ Len(qp) = Len(q) + Len(p)
  BY <1>1, ConcatProperties, Zenon
<1>. HIDE DEF qp
<1>3. (qp \o dec) \in Seq(T) /\ Len(qp \o dec) = Len(qp) + Len(dec)
  BY <1>2, ConcatProperties, Zenon
<1>4. Len(qp \o dec) = Len(q) + 1 + Len(dec)
  BY <1>1, <1>2, <1>3
<1>. QED BY <1>3, <1>4 DEF p, qp

\* What a double must read as is a string that fits into its buffer; when it is
\* exact, it is its whole part as an integer, and the decimals that are found.
LEMMA RealFacts ==
  ASSUME NEW d \in Doubles
  PROVE  /\ Real(d) \in Seq(Chars) /\ Len(Real(d)) < BufBytes
         /\ Exact(d) => /\ Truncated(d) # MinInt
                        /\ Real(d) = Integer(Truncated(d)) \o <<Point>> \o Decimals(d)
<1>. DEFINE k == d.whole
            sign == IF d.negative THEN <<Minus>> ELSE <<>>
            q == sign \o Decimal(k)
            dec == [i \in DOMAIN d.decimals |-> Zero + d.decimals[i]]
<1>1. k \in Nat /\ Tenths(k)[MaxDigits] = 0 /\ d.negative \in BOOLEAN
  BY DoubleFacts
<1>2. Decimal(k) \in Seq(Chars) /\ Len(Decimal(k)) \in 1 .. MaxDigits
  <2>. HIDE DEF k
  <2>. QED BY <1>1, DecimalFacts
<1>3. dec \in Seq(Chars) /\ Len(dec) = Len(d.decimals) /\ Len(d.decimals) \in Nat
      /\ (k < IntLimit => Decimals(d) = dec)
  BY DecimalsFacts
<1>4. sign \in Seq(Chars) /\ Len(sign) \in 0 .. 1
  <2>1. <<Minus>> \in Seq(Chars) /\ Len(<<Minus>>) = 1
    BY DEF Minus, Chars
  <2>2. <<>> \in Seq(Chars) /\ Len(<<>>) = 0
    BY EmptySeq
  <2>. QED BY <1>1, <2>1, <2>2
<1>5. Real(d) = q \o <<Point>> \o dec
  BY DEF Real
<1>6. q \in Seq(Chars) /\ Len(q) \in 0 .. MaxDigits + 1
  <2>. DEFINE x == Decimal(k)
  <2>1. x \in Seq(Chars) /\ Len(x) \in 1 .. MaxDigits
    BY <1>2
  <2>. HIDE DEF sign, x
  <2>2. (sign \o x) \in Seq(Chars) /\ Len(sign \o x) = Len(sign) + Len(x)
    BY <1>4, <2>1, ConcatProperties, Zenon
  <2>3. Len(sign \o x) \in 0 .. MaxDigits + 1
    <3>. DEFINE l == Len(sign)
                k2 == Len(x)
    <3>1. l \in 0 .. 1 /\ k2 \in 1 .. MaxDigits
      BY <1>4, <2>1
    <3>. HIDE DEF l, k2
    <3>2. l + k2 \in 0 .. MaxDigits + 1
      BY <3>1 DEF MaxDigits
    <3>. QED BY <2>2, <3>2 DEF l, k2
  <2>. QED BY <2>2, <2>3 DEF x
<1>7. Exact(d) => Truncated(d) # MinInt /\ Integer(Truncated(d)) = q /\ k < IntLimit
  <2>. DEFINE n == Truncated(d)
  <2>1. SUFFICES ASSUME Exact(d) PROVE n # MinInt /\ Integer(n) = q /\ k < IntLimit
    OBVIOUS
  <2>2. k < IntLimit /\ (d.negative => k > 0)
    BY <2>1 DEF Exact
  <2>3. n = IF d.negative THEN -k ELSE k
    <3>. DEFINE v == IF d.negative THEN -k ELSE k
    <3>1. n = IF v > MinInt /\ v < -MinInt THEN v ELSE MinInt
      BY DEF Truncated
    <3>2. MinInt \in Int /\ IntLimit \in 1 .. -MinInt
      BY StringsAssumption
    <3>. HIDE DEF k
    <3>3. v > MinInt /\ v < -MinInt
      BY <1>1, <2>2, <3>2
    <3>. QED BY <3>1, <3>3
  <2>4. n # MinInt
    <3>1. MinInt \in Int /\ IntLimit \in 1 .. -MinInt
      BY StringsAssumption
    <3>. HIDE DEF n, k
    <3>. QED BY <1>1, <2>2, <2>3, <3>1
  <2>5. Integer(n) = q
    <3>1. CASE d.negative
      <4>1. n = -k /\ ~ (n >= 0) /\ -n = k
        <5>. HIDE DEF n, k
        <5>. QED BY <1>1, <2>2, <2>3, <3>1
      <4>2. Integer(n) = <<Minus>> \o Decimal(-n)
        <5>. HIDE DEF n
        <5>. QED BY <4>1 DEF Integer
      <4>. HIDE DEF n, k
      <4>. QED BY <3>1, <4>1, <4>2
    <3>2. CASE ~ d.negative
      <4>1. n = k /\ n >= 0
        <5>. HIDE DEF n, k
        <5>. QED BY <1>1, <2>3, <3>2
      <4>2. Integer(n) = Decimal(n)
        <5>. HIDE DEF n
        <5>. QED BY <4>1 DEF Integer
      <4>. DEFINE x == Decimal(k)
      <4>3. x \in Seq(Chars)
        BY <1>2
      <4>. HIDE DEF x
      <4>4. <<>> \o x = x
        BY <4>3, ConcatEmptySeq, Zenon
      <4>. HIDE DEF n, k
      <4>. QED BY <3>2, <4>1, <4>2, <4>4 DEF x
    <3>. QED BY <1>1, <3>1, <3>2
  <2>. QED BY <2>2, <2>4, <2>5
<1>8. Real(d) \in Seq(Chars) /\ Len(Real(d)) < BufBytes
  <2>1. Point \in Chars
    BY DEF Point, Chars
  <2>2. MaxDigits + Len(d.decimals) + 3 <= BufBytes /\ BufBytes \in Nat
    BY SizesAssumption, StartFacts
  <2>. HIDE DEF q, dec
  <2>3. Real(d) \in Seq(Chars) /\ Len(Real(d)) = Len(q) + 1 + Len(dec)
    BY <1>3, <1>5, <1>6, <2>1, PointBetween
  <2>. DEFINE l == Len(q)
              k2 == Len(d.decimals)
  <2>4. l \in 0 .. MaxDigits + 1 /\ k2 \in Nat /\ MaxDigits + k2 + 3 <= BufBytes
    BY <1>3, <1>6, <2>2
  <2>. HIDE DEF l, k2
  <2>5. l + 1 + k2 < BufBytes
    BY <2>2, <2>4 DEF MaxDigits
  <2>. QED BY <1>3, <2>3, <2>5 DEF l, k2
<1>. HIDE DEF q, dec
<1>9. Exact(d) => Real(d) = Integer(Truncated(d)) \o <<Point>> \o Decimals(d)
  BY <1>3, <1>5, <1>7
<1>. QED BY <1>7, <1>8, <1>9

\* toString(double): two buffers, one after the other.
LEMMA DoubleStep ==
  ASSUME StringsInv, DoubleToString
  PROVE  StringsInv'
<1>. DEFINE Found(d) ==
              StringIn(IntWritten(mem, Truncated(d)), Start("int")) \o <<Point>> \o Decimals(d)
<1>1. PICK d \in Doubles :
        /\ mem' = Put(IntWritten(mem, Truncated(d)), Start("double"), Append(Found(d), NUL))
        /\ given' = [given EXCEPT !["double"] = Real(d), !["int"] = Integer(Truncated(d))]
  BY DEF DoubleToString
<1>. DEFINE n == Truncated(d)
            u == IntWritten(mem, n)
            h == [given EXCEPT !["int"] = Integer(n)]
            r == Real(d)
            s == Found(d)
            w == Put(u, Start("double"), Append(s, NUL))
<1>2. n \in WholeNumbers
  BY DEF WholeNumbers
<1>3. Good(u, h)
  BY <1>2, IntKeeps DEF StringsInv
<1>4. "double" \in Names /\ "double" # "cat" /\ "double" \notin {"uint", "hex64"}
  BY DEF Names
<1>5. r \in Seq(Chars) /\ Len(r) < Own("double")
  BY RealFacts, ReachFacts
<1>6. Good(w, [h EXCEPT !["double"] = r])
  <2>1. CASE Exact(d)
    <3>1. s = r
      <4>1. n # MinInt /\ r = Integer(n) \o <<Point>> \o Decimals(d)
        BY <2>1, RealFacts
      <4>2. StringIn(u, Start("int")) = Integer(n)
        BY <1>2, <4>1, IntReads
      <4>. QED BY <4>1, <4>2
    <3>. HIDE DEF u, h, r, s
    <3>2. Good(Put(u, Start("double"), Append(r, NUL)), [h EXCEPT !["double"] = r])
      BY <1>3, <1>4, <1>5, ResultPut
    <3>. QED BY <3>1, <3>2
  <2>2. CASE ~ Exact(d)
    <3>. DEFINE i == StringIn(u, Start("int"))
                a == Start("double")
                e == Append(s, NUL)
    <3>1. PICK T : Chars \subseteq T /\ i \in Seq(T) /\ Len(i) <= MaxDigits + 1
      BY <1>2, IntReads
    <3>. DEFINE dec == Decimals(d)
                V == T \cup {NUL}
    <3>2. dec \in Seq(Chars) /\ Len(dec) = Len(d.decimals) /\ Len(d.decimals) \in Nat
          /\ MaxDigits + Len(d.decimals) + 3 <= BufBytes
      BY DecimalsFacts, SizesAssumption
    <3>3. s = i \o <<Point>> \o dec
      OBVIOUS
    <3>4. e \in Seq(V) /\ Len(e) <= BufBytes
      <4>1. Point \in V
        BY <3>1 DEF Point, Chars
      <4>. HIDE DEF i, s
      <4>2. dec \in Seq(V)
        <5>. HIDE DEF dec
        <5>. QED BY <3>1, <3>2
      <4>3. i \in Seq(V)
        BY <3>1
      <4>. HIDE DEF dec, V
      <4>4. s \in Seq(V) /\ Len(s) = Len(i) + 1 + Len(dec)
        BY <3>3, <4>1, <4>2, <4>3, PointBetween
      <4>5. NUL \in V
        BY DEF V
      <4>6. e \in Seq(V) /\ Len(e) = Len(s) + 1
        BY <4>4, <4>5
      <4>7. Len(i) \in Nat /\ BufBytes \in Nat
        BY <4>3, StartFacts
      <4>. DEFINE l == Len(i)
                  k == Len(d.decimals)
      <4>8. /\ l \in Nat /\ l <= MaxDigits + 1 /\ k \in Nat /\ MaxDigits + k + 3 <= BufBytes
            /\ Len(e) = l + 1 + k + 1
        BY <3>1, <3>2, <4>4, <4>6, <4>7 DEF dec
      <4>. HIDE DEF e, l, k
      <4>9. Len(e) <= BufBytes
        BY <4>7, <4>8 DEF MaxDigits
      <4>. QED BY <4>6, <4>9
    <3>5. a \in Nat /\ a - Before("double") <= a /\ a + Len(e) <= a + BufBytes
      <4>1. a \in Nat /\ Before("double") = 0 /\ BufBytes \in Nat /\ Len(e) \in Nat
        BY <3>4, StartFacts, ReachFacts
      <4>. HIDE DEF a, e
      <4>. QED BY <3>4, <4>1
    <3>6. Intact(w, "double", r)
      <4>1. r \in BadReals
        BY <2>2 DEF BadReals
      <4>. HIDE DEF r, w
      <4>. QED BY <1>4, <1>5, <4>1 DEF Intact
    <3>. HIDE DEF e, V
    <3>7. \A c \in Names \ {"double"} : \A j \in 0 .. Own(c) - 1 :
            Put(u, a, e)[Start(c) + j] = u[Start(c) + j]
      <4>. HIDE DEF u
      <4>. QED BY <1>4, <3>4, <3>5, PutApart
    <3>8. w = Put(u, a, e)
      BY DEF e
    <3>. HIDE DEF a, u, w, h, r
    <3>. QED BY <1>3, <1>4, <1>5, <3>6, <3>7, <3>8, UpdateKeeps DEF a
  <2>. QED BY <2>1, <2>2
<1>7. [h EXCEPT !["double"] = r] = [given EXCEPT !["double"] = r, !["int"] = Integer(n)]
  <2>1. given \in [Names -> Seq(Chars)] /\ "int" \in Names /\ "double" # "int"
    BY DEF StringsInv, Good, Names
  <2>. DEFINE z == Integer(n)
  <2>. HIDE DEF z, r
  <2>. QED BY <1>4, <2>1
<1>. HIDE DEF h
<1>8. mem' = w /\ given' = [h EXCEPT !["double"] = r]
  BY <1>1, <1>7
<1>. QED BY <1>6, <1>8 DEF StringsInv

-------------------------------------------------------------------------------
(* Hexadecimal numbers.                                                    *)

\* Hexadecimal digits are characters, two for each byte.
LEMMA HexFacts ==
  ASSUME NEW num \in Seq(0 .. 255)
  PROVE  /\ Hex(num) \in Seq(Chars) /\ Len(Hex(num)) = 2 * Len(num)
         /\ \A k \in 1 .. 2 * Len(num) :
              Hex(num)[k] =
                HexDigit(IF k % 2 = 1 THEN num[Len(num) - (k - 1) \div 2] \div 16
                         ELSE num[Len(num) - (k - 1) \div 2] % 16)
<1>. DEFINE n == Len(num)
            Taken(k) == num[n - (k - 1) \div 2]
            Digit(k) == HexDigit(IF k % 2 = 1 THEN Taken(k) \div 16 ELSE Taken(k) % 16)
<1>1. n \in Nat /\ Hex(num) = [k \in 1 .. 2 * n |-> Digit(k)]
  BY DEF Hex
<1>2. ASSUME NEW k \in 1 .. 2 * n PROVE Digit(k) \in Chars
  <2>1. n - (k - 1) \div 2 \in 1 .. n
    <3>. HIDE DEF n
    <3>. QED BY <1>1
  <2>2. Taken(k) \in 0 .. 255
    <3>. DEFINE j == n - (k - 1) \div 2
    <3>1. j \in 1 .. Len(num)
      BY <2>1
    <3>. HIDE DEF j
    <3>2. num[j] \in 0 .. 255
      BY <3>1, ElementOfSeq
    <3>. QED BY <3>2 DEF j
  <2>. DEFINE y == Taken(k)
              x == IF k % 2 = 1 THEN y \div 16 ELSE y % 16
  <2>. HIDE DEF y
  <2>3. x \in Nat
    <3>1. y \in 0 .. 255
      BY <2>2 DEF y
    <3>2. y \div 16 \in Nat /\ y % 16 \in Nat
      BY <3>1
    <3>. QED BY <3>2
  <2>. HIDE DEF x
  <2>4. HexDigit(x) \in Chars
    BY <2>3 DEF HexDigit, Zero, Chars
  <2>. QED BY <2>4 DEF x, y
<1>. HIDE DEF Digit
<1>3. Hex(num) \in Seq(Chars) /\ Len(Hex(num)) = 2 * n
  <2>. HIDE DEF n
  <2>. QED BY <1>1, <1>2
<1>4. \A k \in 1 .. 2 * n : Hex(num)[k] = Digit(k)
  BY <1>1
<1>. QED BY <1>3, <1>4 DEF Digit

\* The buffer of a number of n bytes.
HexName(n) ==
  CASE n = 8 -> "hex64" [] n = 4 -> "hex32" [] n = 2 -> "hex16" [] n = 1 -> "hex8"

\* It writes as far in front of that buffer as there are digits behind the number.
LEMMA HexNames ==
  ASSUME NEW n \in {1, 2, 4, 8}
  PROVE  HexName(n) \in Names \ {"cat", "uint"} /\ Before(HexName(n)) = 2 * (n - 1)
<1>1. CASE n = 1
  <2>1. HexName(n) = "hex8"
    BY <1>1 DEF HexName
  <2>. QED BY <1>1, <2>1, ReachFacts DEF Names
<1>2. CASE n = 2
  <2>1. HexName(n) = "hex16"
    BY <1>2 DEF HexName
  <2>. QED BY <1>2, <2>1, ReachFacts DEF Names
<1>3. CASE n = 4
  <2>1. HexName(n) = "hex32"
    BY <1>3 DEF HexName
  <2>. QED BY <1>3, <2>1, ReachFacts DEF Names
<1>4. CASE n = 8
  <2>1. HexName(n) = "hex64"
    BY <1>4 DEF HexName
  <2>. QED BY <1>4, <2>1, ReachFacts DEF Names
<1>. QED BY <1>1, <1>2, <1>3, <1>4

\* What lies behind the number comes first, and in front of the buffer.
LEMMA HexTail ==
  ASSUME NEW num \in Seq(0 .. 255), NEW junk \in Seq(0 .. 255), NEW n \in Nat \ {0},
         Len(num) = n, Len(junk) = n - 1
  PROVE  /\ Hex(num \o junk) \in Seq(Chars) /\ Len(Hex(num \o junk)) = 2 * (2 * n - 1)
         /\ \A i \in 1 .. 2 * n : Hex(num \o junk)[2 * (n - 1) + i] = Hex(num)[i]
<1>. DEFINE c == num \o junk
<1>1. c \in Seq(0 .. 255) /\ Len(c) = 2 * n - 1 /\ \A j \in 1 .. n : c[j] = num[j]
  OBVIOUS
<1>. HIDE DEF c
<1>2. Hex(c) \in Seq(Chars) /\ Len(Hex(c)) = 2 * (2 * n - 1)
  BY <1>1, HexFacts
<1>3. ASSUME NEW i \in 1 .. 2 * n PROVE Hex(c)[2 * (n - 1) + i] = Hex(num)[i]
  <2>. DEFINE k == 2 * (n - 1) + i
              j == n - (i - 1) \div 2
  <2>1. k \in 1 .. 2 * (2 * n - 1) /\ k % 2 = i % 2 /\ (2 * n - 1) - (k - 1) \div 2 = j /\ j \in 1 .. n
    OBVIOUS
  <2>. HIDE DEF k
  <2>2. Hex(c)[k] = HexDigit(IF k % 2 = 1 THEN c[j] \div 16 ELSE c[j] % 16)
    <3>1. k \in 1 .. 2 * Len(c) /\ Len(c) - (k - 1) \div 2 = j
      BY <1>1, <2>1
    <3>2. Hex(c)[k] = HexDigit(IF k % 2 = 1 THEN c[Len(c) - (k - 1) \div 2] \div 16
                               ELSE c[Len(c) - (k - 1) \div 2] % 16)
      BY <1>1, <3>1, HexFacts, Zenon
    <3>. HIDE DEF j
    <3>. QED BY <3>1, <3>2
  <2>3. Hex(num)[i] = HexDigit(IF i % 2 = 1 THEN num[j] \div 16 ELSE num[j] % 16)
    BY HexFacts
  <2>. HIDE DEF j
  <2>4. c[j] = num[j]
    BY <1>1, <2>1
  <2>5. Hex(c)[k] = Hex(num)[i]
    BY <2>1, <2>2, <2>3, <2>4
  <2>. QED BY <2>5 DEF k
<1>. QED BY <1>2, <1>3 DEF c

\* toHString
LEMMA HexStep ==
  ASSUME StringsInv, ToHString
  PROVE  StringsInv'
<1>. DEFINE Behind(num, junk) == [i \in 1 .. Len(num) - 1 |-> junk]
<1>1. PICK num \in HexNumbers, junk \in StackBytes :
        LET b == HexName(Len(num))
        IN  /\ mem' = Put(mem, Start(b) - 2 * (Len(num) - 1),
                          Append(Hex(num \o Behind(num, junk)), NUL))
            /\ given' = [given EXCEPT ![b] = Hex(num)]
  BY DEF ToHString, Return, HexName
<1>. DEFINE n == Len(num)
            b == HexName(n)
            back == 2 * (n - 1)
            a == Start(b) - back
            rest == Behind(num, junk)
            long == Hex(num \o rest)
            r == Append(long, NUL)
            s == Hex(num)
            w == Put(mem, a, r)
<1>2. num \in Seq(0 .. 255) /\ n \in {1, 2, 4, 8} /\ junk \in 0 .. 255
  BY StringsAssumption
<1>3. rest \in Seq(0 .. 255) /\ Len(rest) = n - 1
  <2>. HIDE DEF n
  <2>1. rest = [i \in 1 .. n - 1 |-> junk]
    BY DEF n
  <2>2. n - 1 \in Nat
    BY <1>2
  <2>. HIDE DEF rest
  <2>. QED BY <1>2, <2>1, <2>2
<1>4. mem' = w /\ given' = [given EXCEPT ![b] = s]
  BY <1>1
<1>5. b \in Names \ {"cat", "uint"} /\ Before(b) = back
  BY <1>2, HexNames
<1>6. s \in Seq(Chars) /\ Len(s) = 2 * n
  BY <1>2, HexFacts
<1>. HIDE DEF s, rest, b, n
<1>7. n \in Nat \ {0} /\ n <= 8
  BY <1>2
<1>8. long \in Seq(Chars) /\ Len(long) = 2 * (2 * n - 1) /\ \A i \in 1 .. 2 * n : long[back + i] = s[i]
  BY <1>2, <1>3, <1>7, HexTail DEF n, s
<1>. HIDE DEF long
<1>9. /\ r \in Seq(Nat) /\ Len(r) = 2 * (2 * n - 1) + 1 /\ r[2 * (2 * n - 1) + 1] = NUL
      /\ \A i \in 1 .. 2 * n : r[back + i] = s[i]
  <2>1. r \in Seq(Nat) /\ Len(r) = Len(long) + 1 /\ r[Len(long) + 1] = NUL
        /\ \A i \in 1 .. Len(long) : r[i] = long[i]
    BY <1>8 DEF Chars, NUL
  <2>2. \A i \in 1 .. 2 * n : back + i \in 1 .. Len(long)
    BY <1>7, <1>8
  <2>. QED BY <1>8, <2>1, <2>2
<1>10. /\ Start(b) \in Nat /\ a \in Nat /\ Own(b) > 26 /\ Own(b) \in Nat
       /\ BufBytes \in Nat /\ BufBytes > 40
       /\ \A i \in 0 .. BufBytes - 1 : Start(b) + i \in Memory
  BY <1>5, OwnFacts, StartFacts
<1>. HIDE DEF r
<1>11. \A x \in Memory : w[x] = IF x \in a .. a + Len(r) - 1 THEN r[x - a + 1] ELSE mem[x]
  <2>. HIDE DEF a
  <2>1. \A x \in Memory :
          Put(mem, a, r)[x] = IF x \in a .. a + Len(r) - 1 THEN r[x - a + 1] ELSE mem[x]
    BY PutFacts
  <2>. QED BY <2>1, Zenon
<1>. DEFINE z == Start(b)
<1>. HIDE DEF z, w
<1>12. ASSUME NEW i \in 0 .. 2 * n PROVE w[z + i] = r[back + i + 1]
  <2>1. z + i \in Memory
    BY <1>7, <1>10 DEF z
  <2>2. z + i \in a .. a + Len(r) - 1 /\ (z + i) - a + 1 = back + i + 1
    <3>1. a = z - back /\ z \in Nat
      BY <1>10 DEF z
    <3>2. z + i \in a .. a + (2 * (2 * n - 1) + 1) - 1 /\ (z + i) - a + 1 = back + i + 1
      <4>. HIDE DEF a
      <4>. QED BY <1>7, <3>1
    <3>. QED BY <1>9, <3>2
  <2>. HIDE DEF a, back
  <2>. QED BY <1>11, <2>1, <2>2
<1>13. Intact(w, b, s)
  <2>1. ASSUME NEW i \in 1 .. 2 * n PROVE w[z + i - 1] = s[i]
    <3>1. i - 1 \in 0 .. 2 * n /\ z + (i - 1) = z + i - 1 /\ back + (i - 1) + 1 = back + i
      BY <1>7, <1>10 DEF z
    <3>. HIDE DEF back
    <3>2. w[z + (i - 1)] = r[back + (i - 1) + 1]
      BY <1>12, <3>1
    <3>3. r[back + i] = s[i]
      BY <1>9 DEF back
    <3>. QED BY <3>1, <3>2, <3>3
  <2>2. w[z + 2 * n] = NUL
    <3>1. 2 * n \in 0 .. 2 * n /\ back + 2 * n + 1 = 2 * (2 * n - 1) + 1
      BY <1>7
    <3>. QED BY <1>9, <1>12, <3>1
  <2>3. HoldsAt(w, z, s)
    BY <1>6, <2>1, <2>2 DEF HoldsAt
  <2>4. Len(s) < Own(b) /\ 2 * Len(s) < BufBytes
    BY <1>6, <1>7, <1>10
  <2>. QED BY <1>5, <2>3, <2>4 DEF Intact, z
<1>14. \A c \in Names \ {b} : \A i \in 0 .. Own(c) - 1 : w[Start(c) + i] = mem[Start(c) + i]
  <2>1. Start(b) - Before(b) <= a /\ a + Len(r) <= Start(b) + BufBytes
    <3>1. a = z - back /\ z \in Nat /\ z - Before(b) = z - back
      BY <1>5, <1>10 DEF z
    <3>2. z - back <= a /\ a + Len(r) <= z + BufBytes
      <4>. DEFINE l == Len(r)
      <4>1. l = 4 * n - 1
        BY <1>7, <1>9
      <4>2. BufBytes \in Nat /\ BufBytes > 40
        BY <1>10
      <4>. HIDE DEF a, l
      <4>3. z - back <= a /\ a + l <= z + BufBytes
        BY <1>7, <3>1, <4>1, <4>2
      <4>. QED BY <4>3 DEF l
    <3>. QED BY <3>1, <3>2 DEF z
  <2>. HIDE DEF a
  <2>. QED BY <1>5, <1>9, <1>10, <2>1, PutApart DEF w
<1>15. Good(w, [given EXCEPT ![b] = s])
  <2>1. b \in Names /\ Good(mem, given) /\ s \in Seq(Chars)
    BY <1>5, <1>6 DEF StringsInv
  <2>. QED BY <1>13, <1>14, <2>1, UpdateKeeps
<1>. QED BY <1>4, <1>15 DEF StringsInv

-------------------------------------------------------------------------------
(* Joining.                                                                *)

\* Words are strings.
LEMMA CharsOf ==
  ASSUME NEW w \in Seq(1 .. 255)
  PROVE  w \in Seq(Chars)
<1>1. Len(w) \in Nat /\ w = [i \in 1 .. Len(w) |-> w[i]]
  OBVIOUS
<1>2. ASSUME NEW i \in 1 .. Len(w) PROVE w[i] \in Chars
  <2>1. w[i] \in 1 .. 255
    BY ElementOfSeq
  <2>2. \A v \in 1 .. 255 : v \in Chars
    BY DEF Chars
  <2>. QED BY <2>1, <2>2
<1>. QED BY <1>1, <1>2

\* What is put at cat's buffer, the first one.
LEMMA PutAtZero ==
  ASSUME NEW m, NEW s, NEW n \in Nat, Len(s) = n, NEW x \in Memory
  PROVE  Put(m, 0, s)[x] = IF x \in 0 .. n - 1 THEN s[x + 1] ELSE m[x]
<1>1. Put(m, 0, s)[x] = IF x \in 0 .. 0 + Len(s) - 1 THEN s[x - 0 + 1] ELSE m[x]
  BY PutFacts
<1>2. x \in Int /\ x - 0 + 1 = x + 1 /\ 0 + Len(s) - 1 = n - 1
  BY StartFacts
<1>. QED BY <1>1, <1>2

\* Two strings after each other, where the first len bytes were cleared before.
LEMMA JoinedHolds ==
  ASSUME NEW m, NEW s \in Seq(Chars), Len(s) < BufBytes, NEW old, NEW len \in Nat,
         old = [i \in 1 .. len |-> NUL], len < BufBytes,
         \A i \in len .. BufBytes - 1 : m[i] = NUL
  PROVE  /\ HoldsAt(Put(Put(m, 0, old), 0, s), 0, s)
         /\ \A i \in Len(s) .. BufBytes - 1 : Put(Put(m, 0, old), 0, s)[i] = NUL
<1>. DEFINE n == Len(s)
            u == Put(m, 0, old)
            w == Put(u, 0, s)
<1>1. /\ n \in Nat /\ n < BufBytes /\ BufBytes \in Nat /\ BufBytes > 40
      /\ \A i \in 0 .. BufBytes - 1 : i \in Memory
  BY StartFacts
<1>2. old \in Seq({NUL}) /\ Len(old) = len /\ \A i \in 1 .. len : old[i] = NUL
  OBVIOUS
<1>3. \A x \in Memory : u[x] = IF x \in 0 .. len - 1 THEN old[x + 1] ELSE m[x]
  BY <1>2, PutAtZero
<1>. HIDE DEF u
<1>4. \A x \in Memory : w[x] = IF x \in 0 .. n - 1 THEN s[x + 1] ELSE u[x]
  BY <1>1, PutAtZero
<1>. HIDE DEF w
<1>5. ASSUME NEW i \in 0 .. BufBytes - 1 PROVE u[i] = NUL
  <2>1. CASE i < len
    <3>1. i \in 0 .. len - 1 /\ i + 1 \in 1 .. len
      BY <1>1, <2>1
    <3>. QED BY <1>1, <1>2, <1>3, <3>1
  <2>2. CASE ~ (i < len)
    <3>1. i \notin 0 .. len - 1 /\ i \in len .. BufBytes - 1
      BY <1>1, <2>2
    <3>. QED BY <1>1, <1>3, <3>1
  <2>. QED BY <2>1, <2>2
<1>6. ASSUME NEW i \in 1 .. n PROVE w[0 + i - 1] = s[i]
  <2>1. i - 1 \in 0 .. BufBytes - 1 /\ i - 1 \in 0 .. n - 1 /\ (i - 1) + 1 = i /\ 0 + i - 1 = i - 1
    BY <1>1
  <2>. QED BY <1>1, <1>4, <2>1
<1>7. ASSUME NEW i \in n .. BufBytes - 1 PROVE w[i] = NUL
  <2>1. i \in 0 .. BufBytes - 1 /\ i \notin 0 .. n - 1
    BY <1>1
  <2>. QED BY <1>1, <1>4, <1>5, <2>1
<1>8. w[0 + n] = NUL
  <2>1. n \in n .. BufBytes - 1 /\ 0 + n = n
    BY <1>1
  <2>. QED BY <1>7, <2>1
<1>. QED BY <1>6, <1>7, <1>8 DEF HoldsAt, u, w

\* s fits into cat's buffer.
CatReach(a, s) == a \in Nat /\ a = Start("cat") /\ a + Len(s) <= Start("cat") + BufBytes

\* What is put into cat's buffer is in no other's own part.
LEMMA CatApart ==
  ASSUME NEW c \in Names \ {"cat"}, NEW i \in 0 .. Own(c) - 1,
         NEW m, NEW a, NEW T, NEW s \in Seq(T), CatReach(a, s)
  PROVE  Put(m, a, s)[Start(c) + i] = m[Start(c) + i]
<1>1. "cat" \in Names /\ c \in Names /\ "cat" # c
  BY DEF Names
<1>2. a \in Nat /\ Start("cat") - Before("cat") <= a /\ a + Len(s) <= Start("cat") + BufBytes
  BY StartFacts, ReachFacts DEF CatReach
<1>. QED BY <1>1, <1>2, PutApart

\* cat
LEMMA CatStep ==
  ASSUME StringsInv, Cat
  PROVE  StringsInv'
<1>. DEFINE a == Start("cat")
            old == [i \in DOMAIN StringAt(a) |-> NUL]
            Sources == Words \cup {StringAt(Start(b)) : b \in {"uint", "hex64"}}
<1>1. PICK so \in Sources, st \in Sources :
        /\ mem' = Put(Put(mem, a, old), a, so \o st)
        /\ given' = [given EXCEPT !["cat"] = so \o st]
  BY DEF Cat, Return
<1>. DEFINE s == so \o st
            u == Put(mem, a, old)
            w == Put(u, a, s)
<1>2. \A c \in Names : Intact(mem, c, given[c]) /\ given[c] \in Seq(Chars)
  BY DEF StringsInv, Good
<1>3. "cat" \in Names /\ "uint" \in Names /\ "hex64" \in Names
  BY DEF Names
<1>4. \A b \in Names \ {"int", "double"} : StringAt(Start(b)) = given[b]
  BY ResultsRead
<1>5. BufBytes \in Nat /\ BufBytes > 40 /\ a = 0 /\ Own("cat") = BufBytes /\ Before("cat") = 0
  BY StartFacts, ReachFacts
<1>6. ASSUME NEW q \in Sources PROVE q \in Seq(Chars) /\ 2 * Len(q) < BufBytes
  <2>1. CASE q \in Words
    BY <2>1, StringsAssumption, SizesAssumption, CharsOf
  <2>2. CASE q \in {StringAt(Start(b)) : b \in {"uint", "hex64"}}
    <3>1. PICK b \in {"uint", "hex64"} : q = StringAt(Start(b))
      BY <2>2
    <3>2. b \in Names \ {"int", "double"}
      BY <3>1 DEF Names
    <3>3. q = given[b]
      BY <1>4, <3>1, <3>2
    <3>. QED BY <1>2, <3>1, <3>2, <3>3 DEF Intact
  <2>. QED BY <2>1, <2>2
<1>. HIDE DEF Sources
<1>7. s \in Seq(Chars) /\ Len(s) \in Nat /\ Len(s) < BufBytes
  <2>1. s \in Seq(Chars) /\ Len(s) = Len(so) + Len(st)
    BY <1>6, ConcatProperties
  <2>2. Len(so) \in Nat /\ 2 * Len(so) < BufBytes /\ Len(st) \in Nat /\ 2 * Len(st) < BufBytes
    BY <1>6
  <2>. QED BY <1>5, <2>1, <2>2
<1>. DEFINE len == Len(given["cat"])
<1>8. old = [i \in 1 .. len |-> NUL] /\ len \in Nat /\ len < BufBytes
  <2>1. StringAt(a) = given["cat"] /\ given["cat"] \in Seq(Chars)
    BY <1>2, <1>3, <1>4
  <2>2. DOMAIN given["cat"] = 1 .. len /\ len \in Nat
    BY <2>1
  <2>3. len < BufBytes
    BY <1>2, <1>3, <1>5 DEF Intact
  <2>. QED BY <2>1, <2>2, <2>3
<1>9. \A i \in len .. BufBytes - 1 : mem[i] = NUL
  BY <1>2, <1>3 DEF Intact
<1>. HIDE DEF s, old, len
<1>10. HoldsAt(w, a, s) /\ \A i \in Len(s) .. BufBytes - 1 : w[i] = NUL
  <2>1. /\ HoldsAt(Put(Put(mem, 0, old), 0, s), 0, s)
        /\ \A i \in Len(s) .. BufBytes - 1 : Put(Put(mem, 0, old), 0, s)[i] = NUL
    BY <1>7, <1>8, <1>9, JoinedHolds
  <2>. QED BY <1>5, <2>1
<1>11. old \in Seq({NUL}) /\ Len(old) = len
  BY <1>8
<1>12. \A c \in Names \ {"cat"} : \A i \in 0 .. Own(c) - 1 : w[Start(c) + i] = mem[Start(c) + i]
  <2>1. SUFFICES ASSUME NEW c \in Names \ {"cat"}, NEW i \in 0 .. Own(c) - 1
                 PROVE  w[Start(c) + i] = mem[Start(c) + i]
    OBVIOUS
  <2>2. CatReach(a, old) /\ CatReach(a, s)
    BY <1>5, <1>7, <1>8, <1>11 DEF CatReach
  <2>. HIDE DEF a, u, w
  <2>3. u[Start(c) + i] = mem[Start(c) + i]
    BY <1>11, <2>2, CatApart DEF u
  <2>4. w[Start(c) + i] = u[Start(c) + i]
    BY <1>7, <2>2, CatApart DEF w
  <2>. QED BY <2>3, <2>4
<1>13. Intact(w, "cat", s)
  BY <1>5, <1>7, <1>10 DEF Intact
<1>. HIDE DEF w
<1>14. Good(w, [given EXCEPT !["cat"] = s])
  BY <1>3, <1>7, <1>12, <1>13, UpdateKeeps DEF StringsInv
<1>15. mem' = w /\ given' = [given EXCEPT !["cat"] = s]
  BY <1>1 DEF w, s
<1>. QED BY <1>14, <1>15 DEF StringsInv

-------------------------------------------------------------------------------
(* The invariant.                                                          *)

\* At first every buffer reads the empty string.
LEMMA StringsStart ==
  ASSUME StringsInit
  PROVE  StringsInv
<1>1. given = [b \in Names |-> <<>>] /\ <<>> \in Seq(Chars)
  BY NamesAre DEF StringsInit
<1>2. given \in [Names -> Seq(Chars)] /\ \A b \in Names : given[b] = <<>>
  BY <1>1
<1>3. \A x \in Memory : mem[x] = NUL
  BY DEF StringsInit
<1>4. ASSUME NEW b \in Names PROVE Intact(mem, b, <<>>)
  <2>1. /\ Start(b) \in Nat /\ Own(b) \in Nat /\ Own(b) > 26 /\ BufBytes \in Nat /\ BufBytes > 40
        /\ \A i \in 0 .. BufBytes - 1 : Start(b) + i \in Memory
    BY OwnFacts, StartFacts
  <2>2. HoldsAt(mem, Start(b), <<>>)
    <3>1. Start(b) + 0 \in Memory /\ Len(<<>>) = 0
      BY <2>1
    <3>. QED BY <1>3, <3>1 DEF HoldsAt
  <2>3. \A i \in 0 .. BufBytes - 1 : mem[i] = NUL
    <3>1. \A i \in 0 .. BufBytes - 1 : i \in Memory
      BY StartFacts
    <3>. QED BY <1>3, <3>1
  <2>. QED BY <2>1, <2>2, <2>3 DEF Intact
<1>. QED BY <1>2, <1>4 DEF StringsInv, Good

LEMMA StringsStutter ==
  ASSUME StringsInv, UNCHANGED stringVars
  PROVE  StringsInv'
BY DEF StringsInv, stringVars

\* The buffers (StringsSpec): each reads what was converted last, out of reach
\* of what toHString writes in front of the others.
THEOREM StringsInvariant == StringsSpec => []StringsInv
<1>1. StringsInit => StringsInv
  BY StringsStart
<1>2. StringsInv /\ [StringsNext]_stringVars => StringsInv'
  BY UintStep, IntStep, HexStep, DoubleStep, CatStep, StringsStutter DEF StringsNext
<1>. QED BY <1>1, <1>2, PTL DEF StringsSpec

\* A string that was handed out reads as its number until the same function is
\* called again (string.cpp's static buffers); the least integer excepted, and
\* the doubles whose decimals an int of 32 bits spoils.
THEOREM ResultsStayKept == StringsSpec => []ResultsKept
<1>1. StringsInv => ResultsKept
  BY ResultsRead
<1>. QED BY <1>1, StringsInvariant, PTL

===============================================================================
