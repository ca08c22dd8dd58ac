------------------------------ MODULE MCKvsPosix ------------------------------
(* Two keys that are given values of every type, so that nodes die, are used  *)
(* again for a value of another size or another type, and are used up.        *)
EXTENDS KvsPosix, TLC

CONSTANTS a, b

MCStrings == {<<>>, <<a>>, <<b, b>>}

\* What lies at blob_size may look like room for a body, and what lies at blob_len may
\* look like a body without room.
MCWides == {[lo |-> 0, hi |-> 2], [lo |-> 1, hi |-> 0]}

MCKeys == Permutations(Keys)

\* The number 1: its lower half is greater than its upper half.
MCWideOne == {[lo |-> 1, hi |-> 0]}
================================================================================
