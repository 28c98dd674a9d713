--------------------------------- MODULE Cursor ---------------------------------
(***************************************************************************)
(* struct cursor of src/kernel/src/basicRenderer.cpp, a record with its    *)
(* fields x, y, xm and ym.  Coordinates are unsigned, modulo Wrap.         *)
(***************************************************************************)
EXTENDS Integers

CONSTANT Wrap      \* 2^32

ASSUME WrapAssumption == Wrap \in Nat \ {0}

Coordinate == 0 .. Wrap - 1
Cursors == [x : Coordinate, y : Coordinate, xm : Coordinate, ym : Coordinate]

Reset(c) == [c EXCEPT !.x = 0, !.y = 0]

Up(c) == IF c.y # 0 THEN [c EXCEPT !.y = @ - 1] ELSE c

Down(c) == IF c.y # c.ym THEN [c EXCEPT !.y = (@ + 1) % Wrap] ELSE c

Left(c) == IF c.x # 0 THEN [c EXCEPT !.x = @ - 1] ELSE [Up(c) EXCEPT !.x = c.xm]

Right(c) ==
  IF c.x # c.xm THEN [c EXCEPT !.x = (@ + 1) % Wrap] ELSE [Down(c) EXCEPT !.x = 0]

NewLine(c) == IF c.y <= c.ym THEN Down([c EXCEPT !.x = 0]) ELSE c

Back(c) == IF c.x # 0 THEN Left(c) ELSE Up(c)

\* Mutant of Move: the sums are signed, and tested as if they were not.
MoveSigned(c, dx, dy) ==
  [c EXCEPT !.x = IF @ + dx <= c.xm THEN @ + dx ELSE @,
            !.y = IF @ + dy <= c.ym THEN @ + dy ELSE @]

\* The arguments are unsigned, too: a negative one wraps, and so does the sum.
\* That the sum is not negative is tested, but cannot fail.
Move(c, dx, dy) ==
  LET Moved(at, d, limit) == IF (at + d) % Wrap <= limit THEN (at + d) % Wrap ELSE at
  IN  [c EXCEPT !.x = Moved(@, dx, c.xm), !.y = Moved(@, dy, c.ym)]
===============================================================================
