------------------------------ MODULE MCStm32Flash ------------------------------
(* Two updates and one task that reads, writes and restarts the chip.  An image  *)
(* has one block; a download that goes on where another was broken off makes the *)
(* file longer than a page, than the chip, and than a uint8_t counts in pages.   *)
EXTENDS Stm32Flash, TLC

CONSTANTS task1, update1, update2, block1

MCImages == {<<block1>>}

Symmetry == Permutations(Updaters)
===============================================================================
