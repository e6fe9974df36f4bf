------------------------------ MODULE CxKernel ------------------------------
(***************************************************************************)
(* The system calls behind src/ci.c: cx_open (471) and cx_close (472), and *)
(* the trap on the first use of a context that is not in the CXU.  The     *)
(* kernel keeps, for each CX, the structures of                            *)
(* include/cx_kern_structs.h: the pool of free state ids (a queue_t) and a *)
(* cx_state_info_t per state; a process has a table of open selectors.     *)
(* The handlers are outside src/ and modelled from those structures, from  *)
(* utils.h and from the calls in examples/ and tests/.                     *)
(*                                                                         *)
(* CxVirt says what a step does to the CXU and to the saved data; CxFifo   *)
(* what it does to the pool.  FULL_VIRT and fork are left out.             *)
(***************************************************************************)
EXTENDS CxVirt, Sequences, FiniteSets

CONSTANTS Procs,      \* the processes
          Index,      \* the entries of a process's selector table
          NumStates   \* states of the CX

ASSUME KernelAssumption == /\ Virts = Procs \X Index
                           /\ NumStates \in Nat \ {0}
                           /\ States = 0 .. NumStates - 1
                           /\ None \notin States

CX_NO_VIRT == 0       \* CX_SHARE_T
CX_INTRA_VIRT == 1
CX_INTER_VIRT == 2
CX_SHARE_T == {CX_NO_VIRT, CX_INTRA_VIRT, CX_INTER_VIRT}
UNASSIGNED_STATE == -1

VARIABLES pool,       \* cx_entry_t.avail_state_ids, oldest first
          got,        \* the id the pool last gave out, -1 for none
          share,      \* state_info[s].share
          pid,        \* state_info[s].pid, the process that claimed the state
          counter,    \* state_info[s].counter
          home,       \* the state a selector's table entry names, None if closed
          asked       \* history: the share type each context was opened with

kvars == <<pool, got, share, pid, counter, home, asked>>
Pool == INSTANCE CxFifo WITH Capacity <- NumStates, Items <- States,
                             fifo <- pool, ret <- got

KInit == /\ Init
         /\ Pool!AInit
         /\ share = [s \in States |-> UNASSIGNED_STATE]
         /\ pid = [s \in States |-> None]
         /\ counter = [s \in States |-> 0]
         /\ home = [v \in Virts |-> None]
         /\ asked = [v \in Virts |-> UNASSIGNED_STATE]

proc(v) == v[1]
users(s) == {v \in opened : home[v] = s}

\* Once no state is free, an INTRA_VIRT context is given one that its process
\* claimed, and spills what it holds, an exclusive context too (testbench.c:307-328,
\* 380-402); an INTER_VIRT context shares one with other processes only
\* (virt_types.c:165-176); and nothing is left for NO_VIRT (testbench.c:299-306).
may_share(v, type, s) ==
    \/ /\ type = CX_INTRA_VIRT
       /\ pid[s] = proc(v)
       /\ share[s] \in {CX_NO_VIRT, CX_INTRA_VIRT}
    \/ /\ type = CX_INTER_VIRT
       /\ share[s] = CX_INTER_VIRT
       /\ \A u \in users(s) : proc(u) # proc(v)

\* Fault: only the first opening of a state is counted.
attach_once(v, type, s) ==
    /\ cx_open(v, s)
    /\ home' = [home EXCEPT ![v] = s]
    /\ asked' = [asked EXCEPT ![v] = type]
    /\ counter' = [counter EXCEPT ![s] = 1]

\* v gets a fresh context on s: whatever s holds is saved first.
attach(v, type, s) ==
    /\ cx_open(v, s)
    /\ home' = [home EXCEPT ![v] = s]
    /\ asked' = [asked EXCEPT ![v] = type]
    /\ counter' = [counter EXCEPT ![s] = @ + 1]

OpenFree(v, type) ==
    /\ pool # << >>
    /\ Pool!ADequeue
    /\ share' = [share EXCEPT ![got'] = type]
    /\ pid' = [pid EXCEPT ![got'] = proc(v)]
    /\ attach(v, type, got')

OpenShared(v, type, s) ==
    /\ pool = << >>
    /\ Pool!ADequeue
    /\ may_share(v, type, s)
    /\ attach(v, type, s)
    /\ UNCHANGED <<share, pid>>

\* The third argument names an open INTRA_VIRT selector of the process: the new
\* context is placed on the same state (intra_virt.c:141).
OpenPlaced(v, at) ==
    /\ at \in opened
    /\ proc(at) = proc(v)
    /\ asked[at] = CX_INTRA_VIRT
    /\ attach(v, CX_INTRA_VIRT, home[at])
    /\ UNCHANGED <<pool, got, share, pid>>

OpenFails(v, type) ==
    /\ v \notin opened
    /\ pool = << >>
    /\ \A s \in States : ~may_share(v, type, s)
    /\ Pool!ADequeue
    /\ UNCHANGED <<vars, share, pid, counter, home, asked>>

\* Fault: every close gives the state back.
release_each(s) ==
    /\ Pool!AEnqueue(s)
    /\ share' = IF counter[s] = 1 THEN [share EXCEPT ![s] = UNASSIGNED_STATE] ELSE share

\* The last close of a state gives it back to the pool and clears its share type.
release(s) ==
    \/ /\ counter[s] = 1
       /\ Pool!AEnqueue(s)
       /\ share' = [share EXCEPT ![s] = UNASSIGNED_STATE]
    \/ /\ counter[s] # 1
       /\ UNCHANGED <<pool, got, share>>

sys_cx_close(v) ==
    /\ cx_close(v)
    /\ release(home[v])
    /\ counter' = [counter EXCEPT ![home[v]] = @ - 1]
    /\ home' = [home EXCEPT ![v] = None]
    /\ asked' = [asked EXCEPT ![v] = UNASSIGNED_STATE]
    /\ UNCHANGED pid

\* Fault: the trap returns with the context still out of the CXU.
trap_ignored(v) == /\ v \in opened
                   /\ ~loaded(v)
                   /\ UNCHANGED <<vars, kvars>>

\* A custom function of a context that is not in the CXU traps: the kernel
\* loads the context on its state and the instruction runs again.
trap(v) == /\ switch_to(v, home[v])
           /\ UNCHANGED kvars

execute(v, cf, a, b) == /\ \E s \in States : resident[s] = v /\ Compute(s, cf, a, b)
                        /\ UNCHANGED kvars

read_state(v) == /\ \E s \in States : resident[s] = v /\ CX_READ_STATE(s)
                 /\ UNCHANGED kvars

KNext == \E v \in Virts :
            \/ \E type \in CX_SHARE_T : OpenFree(v, type) \/ OpenFails(v, type)
            \/ \E type \in CX_SHARE_T, s \in States : OpenShared(v, type, s)
            \/ \E at \in Virts : OpenPlaced(v, at)
            \/ sys_cx_close(v)
            \/ trap(v)
            \/ \E cf \in Funcs, a, b \in Operands : execute(v, cf, a, b)
            \/ read_state(v)

KSpec == KInit /\ [][KNext]_<<vars, kvars>>
-----------------------------------------------------------------------------
\* Every state is either in the pool, once, or in use: no sequence of shared
\* opens and closes returns an id twice, loses one, or frees one under a user.
PoolExact ==
    \A s \in States :
        Cardinality({i \in DOMAIN pool : pool[i] = s}) = IF users(s) = {} THEN 1 ELSE 0
=============================================================================
