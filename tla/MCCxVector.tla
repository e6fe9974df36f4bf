----------------------------- MODULE MCCxVector -----------------------------
(* Three virtual contexts on two states; two registers of two one-bit lanes.*)
EXTENDS CxVector, TLC

CONSTANTS v1, v2, v3, s1, s2
MCVirts == {v1, v2, v3}
MCSlots == {s1, s2}
Symmetry == Permutations(MCVirts) \cup Permutations(MCSlots)
MCHalf == 1
MCRegs == 2
MCVL == 2
=============================================================================
