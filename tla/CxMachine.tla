------------------------------ MODULE CxMachine -----------------------------
(***************************************************************************)
(* src/ci_m.c: the machine-mode runtime.  It keeps cx_map, a table of the  *)
(* CXs on the board with the free states of each, and hands selectors to   *)
(* the parts of the program (Clients), which select a context with cx_sel  *)
(* and run its custom functions.  There is one hart and no trap handler,   *)
(* so a call is one step; what interleaves is the clients' calls.          *)
(*                                                                         *)
(* cx_map is a parameter (CxGuid, NumStates); the stateful CXUs behind it  *)
(* are accumulators (Mulacc) that report StateSize words.  Two macros of   *)
(* ci_m.c are defined nowhere: CX_INITIAL is a parameter here too, and     *)
(* GET_CX_INITIALIZER is membership in SwInit.                             *)
(***************************************************************************)
EXTENDS Mulacc

CONSTANTS Clients,    \* the parts of the program that open contexts
          CxGuid,     \* cx_map[i].cx_guid
          NumStates,  \* cx_map[i].num_states
          StateSize,  \* words of state the CXU of entry i reports
          SwInit,     \* entries whose CXU asks software to initialise it
          CX_INITIAL, \* the status value cx_open first writes
          Guids,      \* the cx_guid arguments clients pass
          Operands,   \* the operand values clients pass
          CloseBound  \* bound on the closes of one context

Cx == 0 .. NUM_CX - 1
Contexts == UNION {{c} \X (0 .. NumStates[c] - 1) : c \in Cx}

ASSUME BoardAssumption == /\ CxGuid \in [Cx -> Int]
                          /\ NumStates \in [Cx -> Nat]
                          /\ StateSize \in [Cx -> Nat]
                          /\ \A c \in Cx : NumStates[c] <= 256 /\ StateSize[c] < 65536
                          /\ SwInit \subseteq Cx
                          /\ CX_INITIAL \in Nat
ASSUME InputAssumption == /\ Guids \subseteq Int
                          /\ Operands \subseteq Int
                          /\ CloseBound \in Nat

CX_UNAVAIL_STATE == 0
CX_AVAIL_STATE == 1
MAX_OPEN_SIZE == 1023
NoHandle == -1        \* what a failed cx_open returned

VARIABLES
    mcx_selector,     \* CSR MCX_SELECTOR
    avail_state_ids,  \* cx_map[c].avail_state_ids[s], at <<c, s>>
    counter,          \* cx_map[c].state_info[s].counter, at <<c, s>>
    cxu,              \* the CXUs' contexts: dc and accumulator, at <<c, s>>
    handle,           \* the selector each client holds, NoHandle for none
    own,              \* history: the context as each client's calls leave it
    ret               \* value the last cx_open returned

cx_map == <<avail_state_ids, counter>>
vars == <<mcx_selector, avail_state_ids, counter, cxu, handle, own, ret>>

context_of(sel) == <<GET_CX_ID(sel), GET_CX_STATE(sel)>>
stateful(sel) == sel # NoHandle /\ NumStates[GET_CX_ID(sel)] # 0
Holds(cl, x) == stateful(handle[cl]) /\ context_of(handle[cl]) = x

gen_cx_sel(cx_id, state_id) == cx_selidx(cx_id, state_id, MCX_VERSION)

\* cx_init, run once on a board whose CXUs init_cx_func_mulacc has set up.
cx_init ==
    /\ mcx_selector = 0
    /\ avail_state_ids = [x \in Contexts |-> CX_AVAIL_STATE]
    /\ counter = [x \in Contexts |-> 0]
    /\ cxu = [x \in Contexts |-> off_context]

Init == /\ cx_init
        /\ handle = [cl \in Clients |-> NoHandle]
        /\ own = [cl \in Clients |-> off_context]
        /\ ret = 0
-----------------------------------------------------------------------------
\* The search loop of cx_open keeps the last entry that matches.
is_entry(c, guid) == /\ CxGuid[c] = guid
                     /\ \A k \in Cx : k > c => CxGuid[k] # guid

\* Fault: the loop of get_free_state stops one state early.
is_free_short(c, s) == /\ s < NumStates[c] - 1
                       /\ avail_state_ids[<<c, s>>] = CX_AVAIL_STATE

is_free(c, s) == avail_state_ids[<<c, s>>] = CX_AVAIL_STATE

\* get_free_state: s is the lowest state of c that is available.
get_free_state(c, s) == /\ is_free(c, s)
                        /\ \A t \in 0 .. s - 1 : ~is_free(c, t)

CX_READ_STATUS(x) == cx_stctxs(StateSize[x[1]], cxu[x].dc, 1)

\* Fault: the zeroing loop of a software-initialised CXU misses the last word.
initialise_short(x) ==
    LET c  == mulacc_write_status_func(cxu[x], CX_INITIAL)
        c0 == IF StateSize[x[1]] <= 1 THEN c ELSE mulacc_write_state_func(c, 0, 0)
    IN  IF x[1] \in SwInit THEN mulacc_write_status_func(c0, CX_DIRTY) ELSE c

\* Lines 145-154 on the selected context: a status write and, for a software-
\* initialised CXU, zeros and a status write of the bare enum value CX_DIRTY.
initialise(x) ==
    LET c  == mulacc_write_status_func(cxu[x], CX_INITIAL)
        c0 == IF StateSize[x[1]] = 0 THEN c ELSE mulacc_write_state_func(c, 0, 0)
    IN  IF x[1] \in SwInit THEN mulacc_write_status_func(c0, CX_DIRTY) ELSE c

OpenFails ==
    /\ ret' = NoHandle
    /\ UNCHANGED <<mcx_selector, cx_map, cxu, handle, own>>

OpenStateless(cl, c) ==
    /\ handle' = [handle EXCEPT ![cl] = gen_cx_sel(c, 0)]
    /\ ret' = gen_cx_sel(c, 0)
    /\ UNCHANGED <<mcx_selector, cx_map, cxu, own>>

\* Fault: the state is taken before the size check and not given back.
OpenTooLarge_leaks(sel) ==
    /\ GET_CX_STATE_SIZE(CX_READ_STATUS(context_of(sel))) > MAX_OPEN_SIZE
    /\ mcx_selector' = sel
    /\ avail_state_ids' = [avail_state_ids EXCEPT ![context_of(sel)] = CX_UNAVAIL_STATE]
    /\ ret' = NoHandle
    /\ UNCHANGED <<counter, cxu, handle, own>>

\* The size check returns before the previous selector is put back.
OpenTooLarge(sel) ==
    /\ GET_CX_STATE_SIZE(CX_READ_STATUS(context_of(sel))) > MAX_OPEN_SIZE
    /\ mcx_selector' = sel
    /\ ret' = NoHandle
    /\ UNCHANGED <<cx_map, cxu, handle, own>>

\* Faults: the state is not marked; always state 0 is; the selector stays moved.
OpenContext_as(cl, sel, marked, selector) ==
    LET x == context_of(sel)
    IN  /\ GET_CX_STATE_SIZE(CX_READ_STATUS(x)) <= MAX_OPEN_SIZE
        /\ avail_state_ids' = marked
        /\ cxu' = [cxu EXCEPT ![x] = initialise(x)]
        /\ handle' = [handle EXCEPT ![cl] = sel]
        /\ own' = [own EXCEPT ![cl] = initialise(x)]
        /\ ret' = sel
        /\ mcx_selector' = selector
        /\ UNCHANGED counter
mark(c, s) == [avail_state_ids EXCEPT ![<<c, s>>] = CX_UNAVAIL_STATE]
OpenContext_unmarked(cl, c, s, sel) ==
    OpenContext_as(cl, sel, avail_state_ids, mcx_selector)
OpenContext_marks0(cl, c, s, sel) ==
    OpenContext_as(cl, sel, mark(c, 0), mcx_selector)
OpenContext_moves(cl, c, s, sel) == OpenContext_as(cl, sel, mark(c, s), sel)

\* MCX_SELECTOR is moved to the new context for the CXU calls and put back.
OpenContext(cl, c, s, sel) ==
    LET x == context_of(sel)
    IN  /\ GET_CX_STATE_SIZE(CX_READ_STATUS(x)) <= MAX_OPEN_SIZE
        /\ avail_state_ids' = [avail_state_ids EXCEPT ![<<c, s>>] = CX_UNAVAIL_STATE]
        /\ cxu' = [cxu EXCEPT ![x] = initialise(x)]
        /\ handle' = [handle EXCEPT ![cl] = sel]
        /\ own' = [own EXCEPT ![cl] = initialise(x)]
        /\ ret' = sel
        /\ UNCHANGED <<mcx_selector, counter>>

cx_open(cl, guid) ==
    /\ handle[cl] = NoHandle
    /\ \/ /\ \A c \in Cx : CxGuid[c] # guid
          /\ OpenFails
       \/ \E c \in Cx :
            /\ is_entry(c, guid)
            /\ \/ NumStates[c] = 0 /\ OpenStateless(cl, c)
               \/ /\ NumStates[c] # 0
                  /\ \A s \in 0 .. NumStates[c] - 1 : ~is_free(c, s)
                  /\ OpenFails
               \/ \E s \in 0 .. NumStates[c] - 1 :
                    /\ get_free_state(c, s)
                    /\ \/ OpenTooLarge(gen_cx_sel(c, s))
                       \/ OpenContext(cl, c, s, gen_cx_sel(c, s))

\* A client closes the selector it holds, or the -1 of an open that failed.
CloseIgnored(cl) ==
    /\ \/ GET_CX_ID(handle[cl]) >= NUM_CX
       \/ /\ GET_CX_ID(handle[cl]) < NUM_CX
          /\ NumStates[GET_CX_ID(handle[cl])] = 0
    /\ UNCHANGED <<cx_map, cxu>>

\* Faults: the state is freed only when its counter comes to 0; it is given
\* the value of UNASSIGNED_STATE.
CloseContext_counted(x) ==
    /\ counter[x] > -CloseBound
    /\ avail_state_ids' = IF counter[x] - 1 = 0
                          THEN [avail_state_ids EXCEPT ![x] = CX_AVAIL_STATE]
                          ELSE avail_state_ids
    /\ counter' = [counter EXCEPT ![x] = @ - 1]
    /\ cxu' = cxu
CloseContext_unassigned(x) ==
    /\ counter[x] > -CloseBound
    /\ avail_state_ids' = [avail_state_ids EXCEPT ![x] = -1]
    /\ counter' = [counter EXCEPT ![x] = @ - 1]
    /\ cxu' = cxu

CloseContext(x) ==
    /\ counter[x] > -CloseBound
    /\ avail_state_ids' = [avail_state_ids EXCEPT ![x] = CX_AVAIL_STATE]
    /\ counter' = [counter EXCEPT ![x] = @ - 1]
    /\ cxu' = cxu

cx_close(cl) ==
    /\ \/ CloseIgnored(cl)
       \/ stateful(handle[cl]) /\ CloseContext(context_of(handle[cl]))
    /\ handle' = [handle EXCEPT ![cl] = NoHandle]
    /\ own' = [own EXCEPT ![cl] = off_context]
    /\ UNCHANGED <<mcx_selector, ret>>

\* A client selects the context it opened, or none.
cx_sel(cl) ==
    /\ \/ mcx_selector' = CX_LEGACY
       \/ handle[cl] # NoHandle /\ mcx_selector' = handle[cl]
    /\ UNCHANGED <<cx_map, cxu, handle, own, ret>>

\* A client runs a custom function on the context it has selected.
Compute(cl, cf, a, b) ==
    /\ stateful(handle[cl])
    /\ mcx_selector = handle[cl]
    /\ LET x == context_of(mcx_selector)
       IN  cxu' = [cxu EXCEPT ![x] = cx_func_mulacc(cf, @, a, b).ctx]
    /\ own' = [own EXCEPT ![cl] = cx_func_mulacc(cf, @, a, b).ctx]
    /\ UNCHANGED <<mcx_selector, cx_map, handle, ret>>

Next ==
    \E cl \in Clients :
        \/ \E guid \in Guids : cx_open(cl, guid)
        \/ cx_close(cl)
        \/ cx_sel(cl)
        \/ \E cf \in 0 .. CX_MULACC_NUM_FUNCS - 1, a, b \in Operands :
              Compute(cl, cf, a, b)

Spec == Init /\ [][Next]_vars
-----------------------------------------------------------------------------
\* The values cx_open returns.
Selector(h) == \/ h = NoHandle
               \/ \E c \in Cx : NumStates[c] = 0 /\ h = gen_cx_sel(c, 0)
               \/ \E x \in Contexts : h = gen_cx_sel(x[1], x[2])

TypeOK ==
    /\ mcx_selector \in Int
    /\ avail_state_ids \in [Contexts -> {CX_AVAIL_STATE, CX_UNAVAIL_STATE}]
    /\ counter \in [Contexts -> Int]
    /\ cxu \in [Contexts -> Context]
    /\ handle \in [Clients -> Int]
    /\ \A cl \in Clients : Selector(handle[cl])
    /\ own \in [Clients -> Context]
    /\ ret \in Int

\* No two clients ever hold the same context: get_free_state, the marking in
\* cx_open and the decoding in cx_close together hand a state out once.
ContextExclusive ==
    \A p, q \in Clients : \A x \in Contexts :
        Holds(p, x) /\ Holds(q, x) => p = q

\* A state is marked unavailable exactly while some client holds it: nothing
\* leaks on any return path of cx_open and nothing is freed under a holder.
AvailExact ==
    \A x \in Contexts :
        avail_state_ids[x] = CX_UNAVAIL_STATE <=> \E cl \in Clients : Holds(cl, x)

\* A held context is what its holder's own calls made of it: no open, close
\* or custom function of another client reaches it.
ContextIsolated ==
    \A cl \in Clients : \A x \in Contexts : Holds(cl, x) => cxu[x] = own[cl]

\* cx_open and cx_close leave the selected context selected ("cx_open should
\* not modify the selected cxu", tests/state_test.c:43), when sizes fit.
SelectorRestored ==
    [][ret' # ret \/ handle' # handle => mcx_selector' = mcx_selector]_vars

\* A software-initialised context is zero when cx_open returns it, whatever
\* its last holder left there.
SwInitZeroed ==
    [][\A cl \in Clients, x \in Contexts :
          x[1] \in SwInit /\ ~Holds(cl, x) /\ Holds(cl, x)' => cxu'[x].data = 0]_vars

\* The search for a free state comes back empty only when every state of the
\* CX is held: neither the loop's bound nor a leak ever hides a usable state.
FullMeansHeld ==
    \A c \in Cx :
        NumStates[c] # 0 /\ (\A s \in 0 .. NumStates[c] - 1 : ~is_free(c, s)) =>
            \A s \in 0 .. NumStates[c] - 1 :
                \E cl \in Clients : Holds(cl, <<c, s>>)
-----------------------------------------------------------------------------
(* What the tests, comments and docs say of this runtime, and it does not do *)

\* tests/state_test_m.c:80-83: opening guid 0, an INVALID_CX_GUID, fails.
InvalidGuidRefused ==
    \A cl \in Clients : handle[cl] # NoHandle => CxGuid[GET_CX_ID(handle[cl])] # 0

\* A context that cx_open returns is DIRTY ("hw required to set to dirty after
\* init, while sw does it explicitly", ci_m.c:148; tests/state_test_m.c:37-39) and
\* starts at 0 also when it was used before (tests/state_test_m.c:53-65).
OpenInitialises ==
    [][\A cl \in Clients, x \in Contexts :
          ~Holds(cl, x) /\ Holds(cl, x)'
             => cxu'[x] = [dc |-> CX_DIRTY, data |-> 0]]_vars

\* ci_m.c:25-27 and docs/errnos.md:5: the counter counts the openings of a state
\* (it is 0 when the state is unused, and a negative value is an error).
CounterCountsOpens ==
    \A x \in Contexts : counter[x] = IF \E cl \in Clients : Holds(cl, x) THEN 1 ELSE 0
=============================================================================
