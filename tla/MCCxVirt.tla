------------------------------ MODULE MCCxVirt ------------------------------
(* Three virtual contexts on the mulacc's two states: any two are loaded    *)
(* and the third waits in memory.  Words of two bits wrap around.           *)
EXTENDS CxVirt, TLC

CONSTANTS v1, v2, v3, s1, s2
MCVirts == {v1, v2, v3}
MCStates == {s1, s2}
Symmetry == Permutations(MCVirts) \cup Permutations(MCStates)

MCHalf == 2
MCOperands == {1}
\* The functions that mark the context dirty when they change it, and the rest.
MarkingMac == {0, 2}
MarkingNn == {0, 2}
AllMac == 0 .. CX_MULACC_NUM_FUNCS - 1
AllNn == 0 .. 2
=============================================================================
