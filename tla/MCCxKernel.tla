----------------------------- MODULE MCCxKernel -----------------------------
(* Two processes with two selectors each on two states.  Words of one bit,   *)
(* a product of 1 toggles them.                                              *)
EXTENDS CxKernel, TLC

CONSTANTS p1, p2, i1, i2
MCProcs == {p1, p2}
MCIndex == {i1, i2}
MCVirts == MCProcs \X MCIndex
Symmetry == Permutations(MCProcs) \cup Permutations(MCIndex)

MCNumStates == 2
MCStates == 0 .. 1
MCHalf == 1
MCOperands == {1}
\* The functions that mark the context dirty when they change it.
MarkingMac == {0, 2}
MarkingNn == {0, 2}
=============================================================================
