----------------------------- MODULE MCInputOutput ------------------------------
(***************************************************************************)
(* The keyboard's decoder, the console, the mouse and the conversions of   *)
(* numbers for TLC.  They share the definition of a cursor and no state,   *)
(* so a behaviour is one of any of the four.                               *)
(***************************************************************************)
EXTENDS Keyboard, Console, Mouse, Strings

VARIABLE part

keyboardVars == vars
inputOutputVars == <<part, keyboardVars, consoleVars, mouseVars, stringVars>>

MCKeys == {1, 2, 3, 4, 6, 7, 8, 9, 10, 11, 12, 14, 28, 29, 30, 39, 40, 41, 50,
           55, 57, 58, 59, 72}
MCLengths == {1, 2, 4, 9}
MCFlags == {8, 24, 40, 72}
MCMoves == {0, 2, 254}
MCMinInt == -128
MCUnsigned == {0, 9, 10, 4096}
MCSignedInts == {-128, -100, -7, 0, 42}
MCHex == {<<0>>, <<175>>, <<52, 18>>, <<0, 0>>, <<239, 190, 173, 222>>,
          <<0, 0, 0, 0, 0, 0, 0, 0>>, <<1, 35, 69, 103, 137, 171, 205, 239>>}
Double(negative, whole, decimals) ==
  [negative |-> negative, whole |-> whole, decimals |-> decimals]
MCDoubles ==
  {Double(FALSE, 3, <<1, 4>>), Double(TRUE, 20, <<>>), Double(TRUE, 0, <<5>>),
   Double(FALSE, 120, <<5>>), Double(FALSE, 300, <<1>>)}
MCWords == {<<>>, <<97>>, <<98, 98, 98>>}

\* The keyboard has several initial states; the others need them only once.
InputOutputInit ==
  /\ part \in {"keyboard", "console", "mouse", "strings"}
  /\ Init /\ ConsoleInit /\ MouseInit /\ StringsInit
  /\ part = "keyboard" \/ (behind = NoChar /\ held = {})

InputOutputNext ==
  \/ part = "keyboard" /\ Next
       /\ UNCHANGED <<part, consoleVars, mouseVars, stringVars>>
  \/ part = "console" /\ ConsoleNext
       /\ UNCHANGED <<part, keyboardVars, mouseVars, stringVars>>
  \/ part = "mouse" /\ MouseNext
       /\ UNCHANGED <<part, keyboardVars, consoleVars, stringVars>>
  \/ part = "strings" /\ StringsNext
       /\ UNCHANGED <<part, keyboardVars, consoleVars, mouseVars>>

InputOutputSpec == InputOutputInit /\ [][InputOutputNext]_inputOutputVars
===============================================================================
