---------------------------- MODULE MCCxMachine -----------------------------
(* The board of cx_init, and a second board that has a software-initialised *)
(* CX and one whose state is too large to open.                             *)
EXTENDS CxMachine, TLC

CONSTANTS c1, c2, c3
MCClients == {c1, c2, c3}
Symmetry == Permutations(MCClients)

MCHalf == 2
MCOperands == {1}
MCCloseBound == 2
MCNone == {}

\* cx_init: four entries populated, four left zero.
cx_init_guid == [i \in Cx |-> CASE i = 0 -> 11 [] i = 1 -> 4
                                [] i = 2 -> 222 [] i = 3 -> 5 [] OTHER -> 0]
cx_init_num_states ==
    [i \in Cx |-> IF i = 2 THEN CX_MULACC_NUM_STATES ELSE 0]
MCStateSize == [i \in Cx |-> IF i = 2 THEN CX_MULACC_STATE_SIZE ELSE 0]
MCGuids == {0, 4, 99, 222}

\* Second board: 2 is a mulacc initialised by software, 5 has 1024 words.
SwGuid == [cx_init_guid EXCEPT ![5] = 77]
SwNumStates == [cx_init_num_states EXCEPT ![5] = 1]
SwStateSize == [MCStateSize EXCEPT ![5] = 1024]
SwInitSet == {2}
SwGuids == {77, 222}
=============================================================================
