------------------------------ MODULE CxMisuse ------------------------------
(***************************************************************************)
(* The runtime of CxMachine under programs that use a selector after they  *)
(* closed it: ci_m.c does not check for it (docs/errnos.md lists the       *)
(* errors it could report).  A client may close a selector again, perhaps  *)
(* when its state has a new holder, and may run custom functions on        *)
(* whatever context is selected: one it closed, one another client left    *)
(* selected, or the one a refused cx_open did not deselect.                *)
(***************************************************************************)
EXTENDS CxMachine

VARIABLES stale,      \* the selector each client closed last and still keeps
          freed,      \* history: held contexts that a stale close reached
          harmed      \* history: those, and held contexts a stranger's function ran on

mvars == <<vars, stale, freed, harmed>>

MInit == /\ Init
         /\ stale = [cl \in Clients |-> NoHandle]
         /\ freed = {}
         /\ harmed = {}

held(x) == \E cl \in Clients : Holds(cl, x)

\* A step that closes the contexts xs by a stale selector and runs a function on
\* the contexts ys for a stranger harms those that are held; the harm is over
\* once nobody holds the context.
harms(xs, ys) == /\ freed' = {x \in freed \cup xs : held(x)'}
                 /\ harmed' = {x \in harmed \cup xs \cup ys : held(x)'}

Proper(cl) ==
    /\ \/ \E guid \in Guids : cx_open(cl, guid)
       \/ cx_sel(cl)
       \/ \E cf \in 0 .. CX_MULACC_NUM_FUNCS - 1, a, b \in Operands : Compute(cl, cf, a, b)
    /\ stale' = stale
    /\ harms({}, {})

Close(cl) ==
    /\ cx_close(cl)
    /\ stale' = [stale EXCEPT ![cl] = IF stateful(handle[cl]) THEN handle[cl] ELSE @]
    /\ harms({}, {})

CloseAgain(cl) ==
    /\ stale[cl] # NoHandle
    /\ CloseContext(context_of(stale[cl]))
    /\ UNCHANGED <<mcx_selector, handle, own, ret, stale>>
    /\ harms({context_of(stale[cl])}, {})

\* A custom function on the selected context by a client that did not select it.
RunSelected(cl, cf, a, b) ==
    /\ mcx_selector # CX_LEGACY
    /\ mcx_selector # handle[cl]
    /\ stateful(mcx_selector)
    /\ UNCHANGED <<mcx_selector, cx_map, handle, own, ret, stale>>
    /\ LET x == context_of(mcx_selector)
       IN  /\ cxu' = [cxu EXCEPT ![x] = cx_func_mulacc(cf, @, a, b).ctx]
           /\ harms({}, {x})

MNext ==
    \E cl \in Clients :
        \/ Proper(cl)
        \/ Close(cl)
        \/ CloseAgain(cl)
        \/ \E cf \in 0 .. CX_MULACC_NUM_FUNCS - 1, a, b \in Operands :
              RunSelected(cl, cf, a, b)

MSpec == MInit /\ [][MNext]_mvars
-----------------------------------------------------------------------------
\* Two clients hold one context only if a stale close of that very context freed
\* it under one of them: a function run on another's context never leads to that,
\* and a stale close of a free state does nothing (ci_m.c:174).
ExclusiveUnlessFreed ==
    \A p, q \in Clients : \A x \in Contexts :
        Holds(p, x) /\ Holds(q, x) /\ p # q => x \in freed

\* A state that no stale close freed under its holder is marked exactly while it
\* is held: once the holders of a freed one have closed it, it is as good as new.
AvailUnlessFreed ==
    \A x \in Contexts \ freed :
        avail_state_ids[x] = CX_UNAVAIL_STATE <=> held(x)

\* A held context that was neither freed under its holder nor run on by another
\* client is what its holder's calls made of it, although functions run on closed
\* contexts and on refused ones (ci_m.c:140).
IsolatedUnlessHarmed ==
    \A cl \in Clients : \A x \in Contexts \ harmed :
        Holds(cl, x) => cxu[x] = own[cl]
=============================================================================
