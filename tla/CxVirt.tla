-------------------------------- MODULE CxVirt ------------------------------
(***************************************************************************)
(* Virtual contexts that share the states of one accumulator CXU.  The     *)
(* CXU's functions are Mulacc's or NnAcc's; the operating system is        *)
(* outside src/ and modelled from how the code uses it: it opens a context *)
(* by writing PRECLEAN (virtualization.c:34-36), moves contexts between    *)
(* the CXU and memory (ctx_test.c, virtualization.c), saves a context it   *)
(* evicts only if the CXU reports it DIRTY (testbench.c:22-25) and hands a *)
(* restored one back CLEAN (ctx_test.c:89-93).  CXU calls and the kernel's *)
(* steps do not overlap: a custom function is one instruction.             *)
(***************************************************************************)
EXTENDS Mulacc
NN == INSTANCE NnAcc

CONSTANTS Virts,      \* the virtual contexts of the processes
          States,     \* the states of the CXU
          None,       \* in resident: the state is free
          Operands,   \* operand values of the custom functions
          MacFuncs,   \* the custom functions used of the mulacc
          NnFuncs     \* the custom functions used of the nn_acc

ASSUME VirtAssumption == /\ None \notin Virts
                         /\ Operands \subseteq Int
                         /\ MacFuncs \subseteq 0 .. CX_MULACC_NUM_FUNCS - 1
                         /\ NnFuncs \subseteq 0 .. NN!CX_NN_ACC_NUM_FUNCS - 1

\* Functions 0 and 2 of each unit: mac and do_nothing, nn_acc and relu.
Marking == MacFuncs \subseteq {0, 2} /\ NnFuncs \subseteq {0, 2}

VARIABLES unit,       \* the CXU: "mulacc" or "nn_acc"
          hw,         \* its contexts, by state
          resident,   \* the virtual context each state holds
          saved,      \* the kernel's copy of each virtual context's data
          opened,     \* the virtual contexts that are open
          out         \* what the last custom function returned

vars == <<unit, hw, resident, saved, opened, out>>

Init == /\ unit \in {"mulacc", "nn_acc"}
        /\ hw = [s \in States |-> IF unit = "mulacc" THEN off_context ELSE NN!off_context]
        /\ resident = [s \in States |-> None]
        /\ saved = [v \in Virts |-> 0]
        /\ opened = {}
        /\ out = 0

\* The system functions of the unit.
read_status_func(c) == IF unit = "mulacc" THEN mulacc_read_status_func(c)
                                          ELSE NN!nn_acc_read_status_func(c)
write_status_func(c, value) == IF unit = "mulacc"
                               THEN mulacc_write_status_func(c, value)
                               ELSE NN!nn_acc_write_status_func(c, value)
read_state_func(c, index) == IF unit = "mulacc" THEN mulacc_read_state_func(c, index)
                                                ELSE NN!nn_acc_read_state_func(c, index)
write_state_func(c, index, value) == IF unit = "mulacc"
                                     THEN mulacc_write_state_func(c, index, value)
                                     ELSE NN!nn_acc_write_state_func(c, index, value)

loaded(v) == \E s \in States : resident[s] = v
status(dc) == cx_stctxs(CX_MULACC_STATE_SIZE, dc, 1)

\* The kernel's save of the context it evicts from s.
save(s) ==
    saved' = IF resident[s] # None
                /\ GET_CX_DATA_CLEAN(read_status_func(hw[s])) = CX_DIRTY
             THEN [saved EXCEPT ![resident[s]] = read_state_func(hw[s], 0)]
             ELSE saved

cx_open(v, s) ==
    /\ v \notin opened
    /\ save(s)
    /\ hw' = [hw EXCEPT ![s] = write_status_func(@, status(CX_PRECLEAN))]
    /\ resident' = [resident EXCEPT ![s] = v]
    /\ opened' = opened \cup {v}
    /\ UNCHANGED <<unit, out>>

\* Restore: the data first, then the status word.
switch_to(v, s) ==
    /\ v \in opened
    /\ ~loaded(v)
    /\ save(s)
    /\ hw' = [hw EXCEPT ![s] = write_status_func(
                  write_state_func(@, 0, saved[v]), status(CX_CLEAN))]
    /\ resident' = [resident EXCEPT ![s] = v]
    /\ UNCHANGED <<unit, opened, out>>

\* The context's copy is freed; the state keeps what it holds.
cx_close(v) ==
    /\ v \in opened
    /\ opened' = opened \ {v}
    /\ resident' = [s \in States |-> IF resident[s] = v THEN None ELSE resident[s]]
    /\ saved' = [saved EXCEPT ![v] = 0]
    /\ UNCHANGED <<unit, hw, out>>

func(cf, c, a, b) ==
    IF unit = "mulacc" THEN cx_func_mulacc(cf, c, a, b)
                       ELSE NN!cx_func_nn_acc(cf, c, a, b)
Funcs == IF unit = "mulacc" THEN MacFuncs ELSE NnFuncs

Compute(s, cf, a, b) ==
    /\ resident[s] # None
    /\ hw' = [hw EXCEPT ![s] = func(cf, @, a, b).ctx]
    /\ out' = func(cf, hw[s], a, b).ret
    /\ UNCHANGED <<unit, resident, saved, opened>>

CX_READ_STATE(s) ==
    /\ resident[s] # None
    /\ out' = read_state_func(hw[s], 0)
    /\ UNCHANGED <<unit, hw, resident, saved, opened>>

Next == \/ \E v \in Virts, s \in States : cx_open(v, s) \/ switch_to(v, s)
        \/ \E v \in Virts : cx_close(v)
        \/ \E s \in States, cf \in Funcs, a, b \in Operands : Compute(s, cf, a, b)
        \/ \E s \in States : CX_READ_STATE(s)

Spec == Init /\ [][Next]_vars
-----------------------------------------------------------------------------
TypeOK == /\ unit \in {"mulacc", "nn_acc"}
          /\ hw \in [States -> Context]
          /\ resident \in [States -> Virts \cup {None}]
          /\ saved \in [Virts -> Word]
          /\ opened \subseteq Virts
          /\ out \in Word

\* A state that reports CLEAN "matches saved copy; no save needed on context
\* switch" (testbench.c:24): the kernel may drop it.
CleanMatchesSaved ==
    \A s \in States :
        resident[s] # None /\ hw[s].dc = CX_CLEAN => hw[s].data = saved[resident[s]]

\* Only open contexts are loaded, none into two states, and a loaded one is
\* never OFF: the unit reports CLEAN or DIRTY, all that the kernel asks.
LoadedOnce ==
    \A s \in States : resident[s] # None =>
        /\ resident[s] \in opened
        /\ hw[s].dc \in {CX_CLEAN, CX_DIRTY}
        /\ \A t \in States : resident[t] = resident[s] => t = s

(***************************************************************************)
(* The refinement mapping: an open context's accumulator is in the CXU     *)
(* while it is loaded and in the kernel's copy while it is not.            *)
(***************************************************************************)
value(v) == IF loaded(v) THEN hw[CHOOSE s \in States : resident[s] = v].data
                         ELSE saved[v]
Private == INSTANCE CxPrivate WITH acc <- [v \in opened |-> value(v)]

\* Contexts that share the states compute what private accumulators would.
ImplementsPrivate == Private!ASpec
=============================================================================
