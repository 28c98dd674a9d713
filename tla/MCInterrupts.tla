------------------------------ MODULE MCInterrupts ------------------------------
(***************************************************************************)
(* The firmware's vectors as UEFI and as a BIOS set them, and masks for    *)
(* the timer only, for all that the kernel uses, and for nothing.          *)
(***************************************************************************)
EXTENDS Interrupts

MCBases == {<<104, 112>>, <<8, 112>>}
MCMasks == {<<254, 255>>, <<248, 239>>, <<255, 255>>}
===============================================================================
