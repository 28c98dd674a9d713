-------------------------------- MODULE Strings ---------------------------------
(***************************************************************************)
(* The conversions of src/kernel/src/libs/string.cpp.  Each returns a      *)
(* pointer to a static buffer of its own; the buffers lie next to each     *)
(* other in memory, in the order of the file.  Numbers are small for TLC:  *)
(* a hexadecimal number is the sequence of its bytes, from the lowest.     *)
(***************************************************************************)
EXTENDS Integers, Sequences, SequencesExt

CONSTANTS
  BufBytes,      \* of a buffer: 128
  Unsigned,      \* numbers for toString(uint64_t)
  MinInt,        \* the least int64_t
  SignedInts,    \* numbers for toString(int64_t)
  HexNumbers,    \* numbers for toHString: sequences of 1, 2, 4 or 8 bytes
  StackBytes,    \* what may lie behind a number on the stack
  Doubles,       \* for toString(double): sign, whole part, and the decimals that
                 \* multiplying the rest by ten again and again yields
  IntLimit,      \* the least whole part that an int cannot hold: 2^31
  Words,         \* strings that cat is called with
  MaxCalls       \* bound: conversions called

ASSUME StringsAssumption ==
  /\ BufBytes \in Nat /\ MinInt \in Int /\ MinInt < 0 /\ MaxCalls \in Nat
  /\ Unsigned \subseteq Nat /\ SignedInts \subseteq {i \in Int : i >= MinInt}
  /\ HexNumbers \subseteq Seq(0 .. 255) /\ StackBytes \subseteq 0 .. 255
  /\ \A num \in HexNumbers : Len(num) \in {1, 2, 4, 8}
  /\ Doubles \subseteq [negative : BOOLEAN, whole : Nat, decimals : Seq(0 .. 9)]
  /\ IntLimit \in 1 .. -MinInt
  /\ \A w \in Words : w \in Seq(1 .. 255)

NUL == 0
Zero == 48
Minus == 45
Point == 46

Buffers == <<"cat", "uint", "int", "hex64", "hex32", "hex16", "hex8", "double">>
Start(name) == (CHOOSE i \in DOMAIN Buffers : Buffers[i] = name) * BufBytes - BufBytes
Memory == 0 .. Len(Buffers) * BufBytes - 1

VARIABLES
  mem,      \* the buffers
  given,    \* the strings handed out last: what each must read as
  calls

stringVars == <<mem, given, calls>>

\* The string at an address: everything before the first zero byte.
StringIn(m, a) ==
  LET end == CHOOSE e \in a .. Len(Buffers) * BufBytes - 1 :
               m[e] = NUL /\ \A i \in a .. e - 1 : m[i] # NUL
  IN  [i \in 1 .. end - a |-> m[a + i - 1]]

StringAt(a) == StringIn(mem, a)

\* s written from address a on.
Put(m, a, s) == [i \in Memory |-> IF i \in a .. a + Len(s) - 1 THEN s[i - a + 1] ELSE m[i]]

\* n divided by ten, again and again: its decimal digits, as both functions find
\* them.
MaxDigits == 20   \* no number of 64 bits has more

Tenths(n) ==
  LET t[i \in 0 .. MaxDigits] == IF i = 0 THEN n ELSE t[i - 1] \div 10
  IN  t

DigitCount(n) ==
  CHOOSE d \in 1 .. MaxDigits : Tenths(n)[d] = 0 /\ (d = 1 \/ Tenths(n)[d - 1] > 0)

Decimal(n) ==
  LET d == DigitCount(n) IN [i \in 1 .. d |-> (Tenths(n)[d - i] % 10) + Zero]

\* The numbers are that small, and what is written fits into a buffer.
ASSUME SizesAssumption ==
  /\ \A n \in Unsigned : Tenths(n)[MaxDigits] = 0
  /\ \A n \in SignedInts \cup {MinInt} : Tenths(IF n < 0 THEN -n ELSE n)[MaxDigits] = 0
  /\ \A d \in Doubles : Tenths(d.whole)[MaxDigits] = 0
  /\ 2 * MaxDigits < BufBytes
  /\ \A w \in Words : 2 * Len(w) < BufBytes
  /\ \A d \in Doubles : MaxDigits + Len(d.decimals) + 3 <= BufBytes

StringsInit ==
  /\ mem = [i \in Memory |-> NUL]
  /\ given = [b \in ToSet(Buffers) |-> <<>>]
  /\ calls = 0

\* A call that leaves m and returns buffer b, which must read s.
Return(b, m, s) ==
  /\ calls < MaxCalls /\ calls' = calls + 1
  /\ mem' = m
  /\ given' = [given EXCEPT ![b] = s]

\* Mutant of UintToString: the end of the string is not written.
UintToStringOpen ==
  \E n \in Unsigned : Return("uint", Put(mem, Start("uint"), Decimal(n)), Decimal(n))

\* toString(uint64_t)
UintToString ==
  \E n \in Unsigned :
    Return("uint", Put(mem, Start("uint"), Append(Decimal(n), NUL)), Decimal(n))

\* What toString(int64_t) leaves: the least number has no opposite, and only
\* its sign, a wrong character where the last digit belongs and the end are
\* written.
IntWritten(m, n) ==
  LET a == Start("int")
  IN  CASE n >= 0 -> Put(m, a, Append(Decimal(n), NUL))
        [] n < 0 /\ n # MinInt -> Put(m, a, <<Minus>> \o Append(Decimal(-n), NUL))
        [] n = MinInt ->
             LET d == DigitCount(-n)
                 wrong == (Zero - ((-n) % 10)) % 256
             IN  Put(Put(m, a, <<Minus>>), a + d, <<wrong, NUL>>)

Integer(n) == IF n >= 0 THEN Decimal(n) ELSE <<Minus>> \o Decimal(-n)

IntToString ==
  \E n \in SignedInts : Return("int", IntWritten(mem, n), Integer(n))

HexDigit(d) == IF d > 9 THEN d + 55 ELSE d + Zero

\* The digits of a number's bytes, the lowest byte comes last.
Hex(bytes) ==
  [k \in 1 .. 2 * Len(bytes) |->
    LET byte == bytes[Len(bytes) - (k - 1) \div 2]
    IN  HexDigit(IF k % 2 = 1 THEN byte \div 16 ELSE byte % 16)]

\* toHString.  The loop counts digits but takes bytes: of a number of n bytes
\* it converts 2n - 1, what lies behind it on the stack included, and writes
\* those further and further in front of the buffer.
ToHString ==
  \E num \in HexNumbers, junk \in StackBytes :
    LET n == Len(num)
        name == CASE n = 8 -> "hex64" [] n = 4 -> "hex32" [] n = 2 -> "hex16" [] n = 1 -> "hex8"
        converted == num \o [i \in 1 .. n - 1 |-> junk]
    IN  Return(name, Put(mem, Start(name) - 2 * (n - 1), Append(Hex(converted), NUL)), Hex(num))

\* A double as an int64_t; one that does not fit becomes the least one.
Truncated(d) ==
  LET n == IF d.negative THEN -d.whole ELSE d.whole
  IN  IF n > MinInt /\ n < -MinInt THEN n ELSE MinInt

\* The decimals are what is left when the double as an int, of 32 bits, is taken
\* away.  One that does not fit becomes the least int, the rest is no fraction,
\* and each digit of it is out of range and comes out as a zero.
Decimals(d) ==
  [i \in DOMAIN d.decimals |-> Zero + IF d.whole < IntLimit THEN d.decimals[i] ELSE 0]

\* What a double must read as.
Real(d) ==
  (IF d.negative THEN <<Minus>> ELSE <<>>) \o Decimal(d.whole)
    \o <<Point>> \o [i \in DOMAIN d.decimals |-> Zero + d.decimals[i]]

\* toString(double): the whole part is converted in the buffer of
\* toString(int64_t), whatever that leaves there, and copied.
DoubleToString ==
  \E d \in Doubles :
    LET m == IntWritten(mem, Truncated(d))
        s == StringIn(m, Start("int")) \o <<Point>> \o Decimals(d)
    IN  /\ calls < MaxCalls /\ calls' = calls + 1
        /\ mem' = Put(m, Start("double"), Append(s, NUL))
        /\ given' = [given EXCEPT !["double"] = Real(d), !["int"] = Integer(Truncated(d))]

\* cat: its last result is cleared up to its end, no end is written.
Cat ==
  \E so, st \in Words \cup {StringAt(Start(b)) : b \in {"uint", "hex64"}} :
    LET a == Start("cat")
        old == [i \in DOMAIN StringAt(a) |-> NUL]
    IN  Return("cat", Put(Put(mem, a, old), a, so \o st), so \o st)

StringsNext ==
  UintToString \/ IntToString \/ ToHString \/ DoubleToString \/ Cat

StringsSpec == StringsInit /\ [][StringsNext]_stringVars

-------------------------------------------------------------------------------
(* Properties.                                                             *)

\* The doubles that toString(double) converts as they are: the sign of one
\* between -1 and 0 is lost, and the decimals from IntLimit on.
Exact(d) == d.whole < IntLimit /\ (d.negative => d.whole > 0)

\* Whatever was converted before and is converted after it, a string that was
\* handed out reads as its number until the same function is called again,
\* although toHString writes in front of its buffers and cat writes no end.
\* Only the least integer and the doubles that are not exact read otherwise.
ResultsKept ==
  \A b \in ToSet(Buffers) :
    \/ StringAt(Start(b)) = given[b]
    \/ b = "int" /\ given[b] = Integer(MinInt)
    \/ b = "double" /\ given[b] \in {Real(d) : d \in {x \in Doubles : ~Exact(x)}}
===============================================================================
