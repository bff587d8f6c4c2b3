---------------------------- MODULE MCInstruments ----------------------------
(***************************************************************************)
(* Instruments with four addresses, two timing slots and a ring of two.    *)
(***************************************************************************)
EXTENDS Instruments, TLC

MCSymmetry == Permutations(Keys)
===============================================================================
