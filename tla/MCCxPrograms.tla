---------------------------- MODULE MCCxPrograms ----------------------------
(* One process on the mulacc's two states; three threads where the code has *)
(* ten.  The largest sum the programs form is below Half.                    *)
EXTENDS CxPrograms

CONSTANTS p1
MCProcs == {p1}
MCIndex == 1 .. 5
MCVirts == MCProcs \X MCIndex
MCNumStates == CX_MULACC_NUM_STATES
MCStates == 0 .. 1
MCHalf == 2048
MCThreads == 3
MCOperands == 0 .. 5
MCMac == {0}
MCFiles == {"cx_open.c", "intra_virt.c", "state.c", "state_test.c", "stateless.c",
            "example.c", "threaded_test.c"}

\* The hypotheses of the theorems on the programs.
ASSUME Hypotheses == Sized /\ Marking
=============================================================================
