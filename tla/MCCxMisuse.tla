----------------------------- MODULE MCCxMisuse -----------------------------
(* Two clients on a board with a mulacc that software initialises (entry 2, *)
(* two states) and a CX whose state is too large to open (entry 5).           *)
EXTENDS CxMisuse, TLC

CONSTANTS c1, c2
MCClients == {c1, c2}
Symmetry == Permutations(MCClients)

MCHalf == 1
MCOperands == {1}
MCCloseBound == 3
MCSwInit == {2}
MCGuids == {77, 222}
MCCxGuid == [i \in Cx |-> CASE i = 2 -> 222 [] i = 5 -> 77 [] OTHER -> 0]
MCNumStates == [i \in Cx |-> CASE i = 2 -> CX_MULACC_NUM_STATES [] i = 5 -> 1 [] OTHER -> 0]
MCStateSize == [i \in Cx |-> CASE i = 2 -> CX_MULACC_STATE_SIZE [] i = 5 -> 1024 [] OTHER -> 0]
=============================================================================
