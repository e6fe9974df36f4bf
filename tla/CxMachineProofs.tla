--------------------------- MODULE CxMachineProofs --------------------------
(***************************************************************************)
(* Proofs about CxMachine and, after them, about CxMisuse, for every       *)
(* board, every set of clients and every width of word.                    *)
(***************************************************************************)
EXTENDS CxMisuse, MulaccProofs

States(c) == 0 .. NumStates[c] - 1

LEMMA ContextsPairs ==
    /\ \A c \in Cx : \A s \in States(c) : <<c, s>> \in Contexts
    /\ \A x \in Contexts : x[1] \in Cx /\ x[2] \in States(x[1]) /\ x = <<x[1], x[2]>>
BY DEF Contexts, States

LEMMA StateIdFits == \A c \in Cx : \A s \in States(c) : s \in Nat /\ s < 256
BY BoardAssumption DEF States

\* A selector decodes to the context it was made for.
LEMMA SelectorDecodes ==
    ASSUME NEW c \in Cx, NEW s \in States(c)
    PROVE  /\ gen_cx_sel(c, s) \in Nat
           /\ GET_CX_ID(gen_cx_sel(c, s)) = c
           /\ GET_CX_STATE(gen_cx_sel(c, s)) = s
BY StateIdFits DEF Cx, NUM_CX, gen_cx_sel, cx_selidx, MCX_VERSION,
                   GET_CX_ID, GET_CX_STATE, GET_BITS

\* So does the selector of a stateless CX.
LEMMA StatelessDecodes ==
    ASSUME NEW c \in Cx
    PROVE  gen_cx_sel(c, 0) \in Nat /\ GET_CX_ID(gen_cx_sel(c, 0)) = c
BY DEF Cx, NUM_CX, gen_cx_sel, cx_selidx, MCX_VERSION, GET_CX_ID, GET_BITS


\* What cx_open writes is a context.
LEMMA InitialiseInContext ==
    ASSUME NEW x \in Contexts, cxu[x] \in Context
    PROVE  initialise(x) \in Context
<1> DEFINE c == mulacc_write_status_func(cxu[x], CX_INITIAL)
           c0 == IF StateSize[x[1]] = 0 THEN c ELSE mulacc_write_state_func(c, 0, 0)
<1>1. c \in Context
    BY WriteStatusInContext, BoardAssumption
<1>2. c0 \in Context
    BY <1>1, ZeroInWord DEF mulacc_write_state_func, Context
<1>3. mulacc_write_status_func(c0, CX_DIRTY) \in Context
    BY <1>2, WriteStatusInContext DEF CX_DIRTY
<1> QED
    BY <1>1, <1>3 DEF initialise

-----------------------------------------------------------------------------
sel_of(x) == gen_cx_sel(x[1], x[2])

LEMMA SelOfDecodes ==
    ASSUME NEW x \in Contexts
    PROVE  /\ sel_of(x) \in Nat
           /\ sel_of(x) # NoHandle
           /\ stateful(sel_of(x))
           /\ context_of(sel_of(x)) = x
<1>1. x[1] \in Cx /\ x[2] \in States(x[1]) /\ x = <<x[1], x[2]>>
    BY ContextsPairs
<1>2. /\ sel_of(x) \in Nat
      /\ GET_CX_ID(sel_of(x)) = x[1]
      /\ GET_CX_STATE(sel_of(x)) = x[2]
    BY <1>1, SelectorDecodes DEF sel_of
<1>3. NumStates[x[1]] # 0
    BY <1>1, BoardAssumption DEF States
<1> QED
    BY <1>1, <1>2, <1>3 DEF NoHandle, stateful, context_of

\* A selector that cx_open returned denotes x exactly if it was made for x.
LEMMA SelectorDenotes ==
    ASSUME NEW h, Selector(h), NEW x \in Contexts
    PROVE  stateful(h) /\ context_of(h) = x <=> h = sel_of(x)
<1>1. CASE h = NoHandle
    BY <1>1, SelOfDecodes DEF stateful
<1>2. CASE \E c \in Cx : NumStates[c] = 0 /\ h = gen_cx_sel(c, 0)
    <2>1. ~stateful(h)
        BY <1>2, StatelessDecodes DEF stateful
    <2> QED
        BY <2>1, SelOfDecodes
<1>3. CASE \E y \in Contexts : h = sel_of(y)
    BY <1>3, SelOfDecodes
<1> QED
    BY <1>1, <1>2, <1>3 DEF Selector, sel_of

\* The inductive invariant.
IInv == TypeOK /\ ContextExclusive /\ AvailExact /\ ContextIsolated

LEMMA HoldsMeans ==
    ASSUME TypeOK, NEW q \in Clients, NEW x \in Contexts
    PROVE  Holds(q, x) <=> handle[q] = sel_of(x)
BY SelectorDenotes DEF TypeOK, Holds

LEMMA InitInv == Init => IInv
<1> SUFFICES ASSUME Init PROVE IInv
    OBVIOUS
<1>1. TypeOK
    BY ZeroInWord DEF Init, cx_init, TypeOK, Selector, NoHandle, off_context,
       Context, CX_CS, CX_AVAIL_STATE
<1>2. \A q \in Clients, x \in Contexts : ~Holds(q, x)
    BY DEF Init, Holds, stateful
<1>3. AvailExact
    BY <1>2 DEF Init, cx_init, AvailExact, CX_AVAIL_STATE, CX_UNAVAIL_STATE
<1> QED
    BY <1>1, <1>2, <1>3 DEF IInv, ContextExclusive, ContextIsolated

-----------------------------------------------------------------------------
\* What a client holds after its handle became n.
LEMMA HandleUpdate ==
    ASSUME TypeOK, NEW cl \in Clients, NEW n \in Int, Selector(n),
           handle' = [handle EXCEPT ![cl] = n]
    PROVE  /\ handle' \in [Clients -> Int]
           /\ \A q \in Clients : Selector(handle'[q])
           /\ \A q \in Clients, x \in Contexts :
                 Holds(q, x)' <=> IF q = cl THEN n = sel_of(x) ELSE Holds(q, x)
<1>1. handle' \in [Clients -> Int] /\ \A q \in Clients : Selector(handle'[q])
    BY DEF TypeOK
<1>2. \A q \in Clients, x \in Contexts :
         Holds(q, x)' <=> stateful(handle'[q]) /\ context_of(handle'[q]) = x
    BY DEF Holds, stateful, context_of
<1>3. \A q \in Clients, x \in Contexts :
         Holds(q, x)' <=> IF q = cl THEN n = sel_of(x) ELSE Holds(q, x)
    <2> SUFFICES ASSUME NEW q \in Clients, NEW x \in Contexts
                 PROVE  Holds(q, x)' <=> IF q = cl THEN n = sel_of(x) ELSE Holds(q, x)
        OBVIOUS
    <2>1. CASE q = cl
        BY <2>1, <1>2, SelectorDenotes DEF TypeOK
    <2>2. CASE q # cl
        BY <2>2, <1>2 DEF TypeOK, Holds
    <2> QED
        BY <2>1, <2>2
<1> QED
    BY <1>1, <1>3

LEMMA OpenFailsInv ==
    ASSUME IInv, OpenFails
    PROVE  IInv'
<1>1. TypeOK'
    BY DEF IInv, TypeOK, OpenFails, cx_map, NoHandle
<1>2. \A q \in Clients, x \in Contexts : Holds(q, x)' <=> Holds(q, x)
    BY DEF OpenFails, Holds
<1> QED
    BY <1>1, <1>2 DEF IInv, ContextExclusive, AvailExact, ContextIsolated,
       OpenFails, cx_map

LEMMA OpenTooLargeInv ==
    ASSUME IInv, NEW x \in Contexts, OpenTooLarge(sel_of(x))
    PROVE  IInv'
<1>1. TypeOK'
    BY SelOfDecodes DEF IInv, TypeOK, OpenTooLarge, cx_map, NoHandle
<1>2. \A q \in Clients, y \in Contexts : Holds(q, y)' <=> Holds(q, y)
    BY DEF OpenTooLarge, Holds
<1> QED
    BY <1>1, <1>2 DEF IInv, ContextExclusive, AvailExact, ContextIsolated,
       OpenTooLarge, cx_map

LEMMA OpenStatelessInv ==
    ASSUME IInv, NEW cl \in Clients, handle[cl] = NoHandle,
           NEW c \in Cx, NumStates[c] = 0, OpenStateless(cl, c)
    PROVE  IInv'
<1>1. gen_cx_sel(c, 0) \in Int /\ Selector(gen_cx_sel(c, 0))
    BY StatelessDecodes DEF Selector
<1>2. ~stateful(gen_cx_sel(c, 0))
    BY StatelessDecodes DEF stateful
<1>3. handle' \in [Clients -> Int] /\ \A q \in Clients : Selector(handle'[q])
    BY <1>1, HandleUpdate DEF IInv, OpenStateless
<1>4. \A q \in Clients, x \in Contexts : Holds(q, x)' <=> Holds(q, x)
    <2>1. \A x \in Contexts : gen_cx_sel(c, 0) # sel_of(x)
        BY <1>2, SelOfDecodes
    <2>2. \A x \in Contexts : ~Holds(cl, x)
        BY DEF Holds, stateful
    <2> QED
        BY <1>1, <2>1, <2>2, HandleUpdate DEF IInv, OpenStateless
<1>5. TypeOK'
    BY <1>1, <1>3 DEF IInv, TypeOK, OpenStateless, cx_map
<1> QED
    BY <1>4, <1>5 DEF IInv, ContextExclusive, AvailExact, ContextIsolated,
       OpenStateless, cx_map

LEMMA OpenContextInv ==
    ASSUME IInv, NEW cl \in Clients, handle[cl] = NoHandle,
           NEW c \in Cx, NEW s \in States(c), is_free(c, s),
           OpenContext(cl, c, s, gen_cx_sel(c, s))
    PROVE  IInv'
<1> DEFINE x == <<c, s>>
<1>1. x \in Contexts /\ sel_of(x) = gen_cx_sel(c, s)
    BY ContextsPairs DEF sel_of
<1>2. sel_of(x) \in Int /\ Selector(sel_of(x)) /\ context_of(sel_of(x)) = x
    BY <1>1, SelOfDecodes DEF Selector, sel_of
<1>3. \A q \in Clients : ~Holds(q, x)
    BY <1>1 DEF IInv, AvailExact, is_free, CX_AVAIL_STATE, CX_UNAVAIL_STATE
<1>4. initialise(x) \in Context
    BY <1>1, InitialiseInContext DEF IInv, TypeOK
<1>5. /\ avail_state_ids' = [avail_state_ids EXCEPT ![x] = CX_UNAVAIL_STATE]
      /\ cxu' = [cxu EXCEPT ![x] = initialise(x)]
      /\ handle' = [handle EXCEPT ![cl] = sel_of(x)]
      /\ own' = [own EXCEPT ![cl] = initialise(x)]
      /\ ret' = sel_of(x)
      /\ UNCHANGED <<mcx_selector, counter>>
    BY <1>1, <1>2 DEF OpenContext
<1>6. handle' \in [Clients -> Int] /\ \A q \in Clients : Selector(handle'[q])
    BY <1>2, <1>5, HandleUpdate DEF IInv
<1>7. \A q \in Clients, y \in Contexts :
         Holds(q, y)' <=> IF q = cl THEN y = x ELSE Holds(q, y)
    <2>1. \A y \in Contexts : sel_of(x) = sel_of(y) <=> y = x
        BY <1>1, SelOfDecodes
    <2> QED
        BY <1>2, <1>5, <2>1, HandleUpdate DEF IInv
<1>8. TypeOK'
    BY <1>1, <1>2, <1>4, <1>5, <1>6 DEF IInv, TypeOK
<1>9. ContextExclusive'
    BY <1>3, <1>7 DEF IInv, ContextExclusive
<1>10. AvailExact'
    <2> SUFFICES ASSUME NEW y \in Contexts
                 PROVE  avail_state_ids'[y] = CX_UNAVAIL_STATE
                           <=> \E q \in Clients : Holds(q, y)'
        BY DEF AvailExact
    <2>1. CASE y = x
        BY <2>1, <1>1, <1>5, <1>7 DEF IInv, TypeOK
    <2>2. CASE y # x
        <3>1. avail_state_ids'[y] = avail_state_ids[y]
            BY <2>2, <1>5 DEF IInv, TypeOK
        <3>2. (\E q \in Clients : Holds(q, y)') <=> \E q \in Clients : Holds(q, y)
            <4>1. ~Holds(cl, y)
                BY DEF Holds, stateful
            <4> QED
                BY <4>1, <2>2, <1>7
        <3> QED
            BY <3>1, <3>2 DEF IInv, AvailExact
    <2> QED
        BY <2>1, <2>2
<1>11. ContextIsolated'
    <2> SUFFICES ASSUME NEW q \in Clients, NEW y \in Contexts, Holds(q, y)'
                 PROVE  cxu'[y] = own'[q]
        BY DEF ContextIsolated
    <2>1. CASE q = cl
        BY <2>1, <1>1, <1>5, <1>7 DEF IInv, TypeOK
    <2>2. CASE q # cl
        <3>1. Holds(q, y) /\ y # x
            BY <2>2, <1>3, <1>7
        <3> QED
            BY <2>2, <3>1, <1>5 DEF IInv, TypeOK, ContextIsolated
    <2> QED
        BY <2>1, <2>2
<1> QED
    BY <1>8, <1>9, <1>10, <1>11 DEF IInv

LEMMA OpenInv ==
    ASSUME IInv, NEW cl \in Clients, NEW guid \in Guids, cx_open(cl, guid)
    PROVE  IInv'
<1>1. handle[cl] = NoHandle
    BY DEF cx_open
<1>2. CASE OpenFails
    BY <1>2, OpenFailsInv
<1>3. CASE \E c \in Cx : NumStates[c] = 0 /\ OpenStateless(cl, c)
    BY <1>1, <1>3, OpenStatelessInv
<1>4. CASE \E c \in Cx : \E s \in States(c) :
               /\ get_free_state(c, s)
               /\ \/ OpenTooLarge(gen_cx_sel(c, s))
                  \/ OpenContext(cl, c, s, gen_cx_sel(c, s))
    <2> PICK c \in Cx : \E s \in States(c) :
               /\ is_free(c, s)
               /\ \/ OpenTooLarge(gen_cx_sel(c, s))
                  \/ OpenContext(cl, c, s, gen_cx_sel(c, s))
        BY <1>4 DEF get_free_state
    <2> PICK s \in States(c) :
               /\ is_free(c, s)
               /\ \/ OpenTooLarge(gen_cx_sel(c, s))
                  \/ OpenContext(cl, c, s, gen_cx_sel(c, s))
        OBVIOUS
    <2>1. CASE OpenTooLarge(gen_cx_sel(c, s))
        <3>1. <<c, s>> \in Contexts /\ sel_of(<<c, s>>) = gen_cx_sel(c, s)
            BY ContextsPairs DEF sel_of
        <3> QED
            BY <2>1, <3>1, OpenTooLargeInv
    <2>2. CASE OpenContext(cl, c, s, gen_cx_sel(c, s))
        BY <1>1, <2>2, OpenContextInv
    <2> QED
        BY <2>1, <2>2
<1> QED
    BY <1>2, <1>3, <1>4 DEF cx_open, States

LEMMA CloseInv ==
    ASSUME IInv, NEW cl \in Clients, cx_close(cl)
    PROVE  IInv'
<1>1. /\ handle' = [handle EXCEPT ![cl] = NoHandle]
      /\ own' = [own EXCEPT ![cl] = off_context]
      /\ UNCHANGED <<mcx_selector, ret>>
    BY DEF cx_close
<1>2. NoHandle \in Int /\ Selector(NoHandle)
    BY DEF Selector, NoHandle
<1>3. handle' \in [Clients -> Int] /\ \A q \in Clients : Selector(handle'[q])
    BY <1>1, <1>2, HandleUpdate DEF IInv
<1>4. \A q \in Clients, y \in Contexts : Holds(q, y)' <=> q # cl /\ Holds(q, y)
    BY <1>1, <1>2, SelOfDecodes, HandleUpdate DEF IInv
<1>5. own' \in [Clients -> Context] /\ \A q \in Clients : q # cl => own'[q] = own[q]
    BY <1>1, ZeroInWord DEF IInv, TypeOK, off_context, Context, CX_CS, CX_OFF
<1>6. ContextExclusive'
    BY <1>4 DEF IInv, ContextExclusive
<1>7. CASE CloseIgnored(cl)
    <2>1. UNCHANGED <<avail_state_ids, counter, cxu>>
        BY <1>7 DEF CloseIgnored, cx_map
    <2>2. \A y \in Contexts : ~Holds(cl, y)
        <3> SUFFICES ASSUME NEW y \in Contexts, Holds(cl, y) PROVE FALSE
            OBVIOUS
        <3>1. GET_CX_ID(handle[cl]) = y[1] /\ y[1] \in Cx /\ NumStates[y[1]] # 0
            BY ContextsPairs DEF Holds, stateful, context_of
        <3> QED
            BY <1>7, <3>1 DEF CloseIgnored, Cx, NUM_CX
    <2>3. TypeOK'
        BY <1>1, <1>3, <1>5, <2>1 DEF IInv, TypeOK
    <2>4. \A q \in Clients, y \in Contexts : Holds(q, y)' <=> Holds(q, y)
        BY <1>4, <2>2
    <2>5. AvailExact'
        BY <2>1, <2>4 DEF IInv, AvailExact
    <2>6. ContextIsolated'
        BY <1>4, <1>5, <2>1 DEF IInv, ContextIsolated
    <2> QED
        BY <1>6, <2>3, <2>5, <2>6 DEF IInv
<1>8. CASE stateful(handle[cl]) /\ CloseContext(context_of(handle[cl]))
    <2> DEFINE x == context_of(handle[cl])
    <2>1. x \in Contexts /\ Holds(cl, x)
        <3>1. PICK y \in Contexts : handle[cl] = sel_of(y)
            BY <1>8, StatelessDecodes DEF IInv, TypeOK, Selector, stateful, sel_of
        <3> QED
            BY <1>8, <3>1, SelOfDecodes DEF Holds
    <2>2. /\ avail_state_ids' = [avail_state_ids EXCEPT ![x] = CX_AVAIL_STATE]
          /\ counter' = [counter EXCEPT ![x] = @ - 1]
          /\ cxu' = cxu
        BY <1>8 DEF CloseContext
    <2> HIDE DEF x
    <2>3. TypeOK'
        BY <1>1, <1>3, <1>5, <2>1, <2>2 DEF IInv, TypeOK
    <2>4. AvailExact'
        <3> SUFFICES ASSUME NEW y \in Contexts
                     PROVE  avail_state_ids'[y] = CX_UNAVAIL_STATE
                               <=> \E q \in Clients : Holds(q, y)'
            BY DEF AvailExact
        <3>1. CASE y = x
            <4>1. \A q \in Clients : ~Holds(q, y)'
                BY <3>1, <2>1, <1>4 DEF IInv, ContextExclusive
            <4> QED
                BY <3>1, <4>1, <2>2 DEF IInv, TypeOK, CX_AVAIL_STATE, CX_UNAVAIL_STATE
        <3>2. CASE y # x
            <4>1. avail_state_ids'[y] = avail_state_ids[y]
                BY <3>2, <2>2 DEF IInv, TypeOK
            <4>2. ~Holds(cl, y)
                BY <3>2, <2>1 DEF Holds
            <4> QED
                BY <4>1, <4>2, <1>4 DEF IInv, AvailExact
        <3> QED
            BY <3>1, <3>2
    <2>5. ContextIsolated'
        BY <1>4, <1>5, <2>2 DEF IInv, ContextIsolated
    <2> QED
        BY <1>6, <2>3, <2>4, <2>5 DEF IInv
<1> QED
    BY <1>7, <1>8 DEF cx_close

LEMMA SelInv ==
    ASSUME IInv, NEW cl \in Clients, cx_sel(cl)
    PROVE  IInv'
<1>1. TypeOK'
    BY DEF IInv, TypeOK, cx_sel, cx_map, CX_LEGACY
<1>2. \A q \in Clients, x \in Contexts : Holds(q, x)' <=> Holds(q, x)
    BY DEF cx_sel, Holds
<1> QED
    BY <1>1, <1>2 DEF IInv, ContextExclusive, AvailExact, ContextIsolated,
       cx_sel, cx_map

LEMMA ComputeInv ==
    ASSUME IInv, NEW cl \in Clients, NEW cf \in 0 .. CX_MULACC_NUM_FUNCS - 1,
           NEW a \in Operands, NEW b \in Operands, Compute(cl, cf, a, b)
    PROVE  IInv'
<1> DEFINE x == context_of(handle[cl])
           new == cx_func_mulacc(cf, cxu[x], a, b).ctx
<1>1. x \in Contexts /\ Holds(cl, x)
    <2>1. PICK y \in Contexts : handle[cl] = sel_of(y)
        BY StatelessDecodes DEF Compute, IInv, TypeOK, Selector, stateful, sel_of
    <2> QED
        BY <2>1, SelOfDecodes DEF Holds
<1>2. own[cl] = cxu[x]
    BY <1>1 DEF IInv, ContextIsolated
<1>3. /\ cxu' = [cxu EXCEPT ![x] = new]
      /\ own' = [own EXCEPT ![cl] = new]
      /\ UNCHANGED <<mcx_selector, avail_state_ids, counter, handle, ret>>
    BY <1>2 DEF Compute, cx_map
<1>4. new \in Context
    BY <1>1, ComputeInContext, InputAssumption DEF IInv, TypeOK
<1> HIDE DEF x, new
<1>5. \A q \in Clients, y \in Contexts : Holds(q, y)' <=> Holds(q, y)
    BY <1>3 DEF Holds
<1>6. TypeOK'
    BY <1>3, <1>4 DEF IInv, TypeOK
<1>7. ContextIsolated'
    <2> SUFFICES ASSUME NEW q \in Clients, NEW y \in Contexts, Holds(q, y)
                 PROVE  cxu'[y] = own'[q]
        BY <1>5 DEF ContextIsolated
    <2>1. CASE q = cl
        <3>1. y = x
            BY <2>1, <1>1 DEF Holds
        <3> QED
            BY <2>1, <3>1, <1>1, <1>3 DEF IInv, TypeOK
    <2>2. CASE q # cl
        <3>1. y # x
            BY <2>2, <1>1 DEF IInv, ContextExclusive
        <3> QED
            BY <2>2, <3>1, <1>3 DEF IInv, TypeOK, ContextIsolated
    <2> QED
        BY <2>1, <2>2
<1> QED
    BY <1>3, <1>5, <1>6, <1>7 DEF IInv, ContextExclusive, AvailExact

LEMMA StepInv == IInv /\ [Next]_vars => IInv'
<1> SUFFICES ASSUME IInv, [Next]_vars PROVE IInv'
    OBVIOUS
<1>1. CASE UNCHANGED vars
    BY <1>1 DEF vars, cx_map, IInv, TypeOK, ContextExclusive, AvailExact,
       ContextIsolated, Holds
<1>2. CASE Next
    BY <1>2, OpenInv, CloseInv, SelInv, ComputeInv DEF Next
<1> QED
    BY <1>1, <1>2

-----------------------------------------------------------------------------
LEMMA Invariance == Spec => []IInv
BY InitInv, StepInv, PTL DEF Spec

\* Every value the runtime keeps is of its type: selectors decode, availability
\* marks are one of the two values, accumulators are words.
THEOREM TypeCorrect == Spec => []TypeOK
<1>1. IInv => TypeOK
    BY DEF IInv
<1> QED
    BY <1>1, Invariance, PTL

\* cx_open never hands out a context that is still held.
THEOREM Exclusive == Spec => []ContextExclusive
<1>1. IInv => ContextExclusive
    BY DEF IInv
<1> QED
    BY <1>1, Invariance, PTL

\* The availability marks of cx_map and the selectors in clients' hands agree.
THEOREM NothingLeaks == Spec => []AvailExact
<1>1. IInv => AvailExact
    BY DEF IInv
<1> QED
    BY <1>1, Invariance, PTL

\* What a client's custom functions build up no other client's call changes.
THEOREM Isolated == Spec => []ContextIsolated
<1>1. IInv => ContextIsolated
    BY DEF IInv
<1> QED
    BY <1>1, Invariance, PTL

\* get_free_state finds none only when clients hold them all.
THEOREM FullIsHeld == Spec => []FullMeansHeld
<1>1. IInv => FullMeansHeld
    BY ContextsPairs DEF IInv, TypeOK, AvailExact, FullMeansHeld, is_free,
       CX_AVAIL_STATE, CX_UNAVAIL_STATE, States
<1> QED
    BY <1>1, Invariance, PTL

-----------------------------------------------------------------------------
\* No state is refused for its size: the condition under which the size check,
\* which returns before it restores the selector, is not taken.
SizesFit == \A c \in Cx : StateSize[c] <= MAX_OPEN_SIZE

LEMMA SizeIsReported ==
    ASSUME TypeOK, NEW x \in Contexts
    PROVE  GET_CX_STATE_SIZE(CX_READ_STATUS(x)) = StateSize[x[1]]
<1>1. x[1] \in Cx /\ cxu[x].dc \in CX_CS
    BY ContextsPairs DEF TypeOK, Context
<1>2. StateSize[x[1]] \in Nat /\ StateSize[x[1]] < 65536
    BY <1>1, BoardAssumption
<1> QED
    BY <1>1, <1>2, StatusDecodes DEF CX_READ_STATUS

LEMMA OpenKeepsSelector ==
    ASSUME SizesFit, TypeOK, NEW cl \in Clients, NEW guid \in Guids, cx_open(cl, guid)
    PROVE  mcx_selector' = mcx_selector
<1>1. ASSUME NEW c \in Cx, NEW s \in States(c) PROVE ~OpenTooLarge(gen_cx_sel(c, s))
    <2>1. <<c, s>> \in Contexts /\ context_of(gen_cx_sel(c, s)) = <<c, s>>
        BY <1>1, ContextsPairs, SelectorDecodes DEF context_of
    <2>2. GET_CX_STATE_SIZE(CX_READ_STATUS(<<c, s>>)) = StateSize[c]
        BY <2>1, SizeIsReported
    <2> QED
        BY <2>1, <2>2, <1>1, BoardAssumption DEF OpenTooLarge, SizesFit, MAX_OPEN_SIZE
<1> QED
    BY <1>1 DEF cx_open, States, OpenFails, OpenStateless, OpenContext

LEMMA StepKeepsSelector ==
    ASSUME SizesFit, TypeOK, [Next]_vars
    PROVE  [ret' # ret \/ handle' # handle => mcx_selector' = mcx_selector]_vars
<1>1. CASE UNCHANGED vars
    BY <1>1
<1>2. CASE \E cl \in Clients : \E guid \in Guids : cx_open(cl, guid)
    BY <1>2, OpenKeepsSelector
<1>3. CASE \E cl \in Clients : cx_close(cl)
    BY <1>3 DEF cx_close
<1>4. CASE \E cl \in Clients : cx_sel(cl)
    BY <1>4 DEF cx_sel
<1>5. CASE \E cl \in Clients, cf \in 0 .. CX_MULACC_NUM_FUNCS - 1, a, b \in Operands :
              Compute(cl, cf, a, b)
    BY <1>5 DEF Compute
<1> QED
    BY <1>1, <1>2, <1>3, <1>4, <1>5 DEF Next

\* On a board whose states all fit, opening and closing leave the selected
\* context selected.
THEOREM SelectorKept ==
    ASSUME SizesFit
    PROVE  Spec => SelectorRestored
<1>1. TypeOK /\ [Next]_vars
         => [ret' # ret \/ handle' # handle => mcx_selector' = mcx_selector]_vars
    BY StepKeepsSelector
<1> QED
    BY <1>1, TypeCorrect, PTL DEF Spec, SelectorRestored

-----------------------------------------------------------------------------
\* Every software-initialised CXU has a state word to write.
SwHasState == \A c \in SwInit : StateSize[c] > 0

LEMMA InitialiseZeroes ==
    ASSUME SwHasState, NEW x \in Contexts, cxu[x] \in Context, x[1] \in SwInit
    PROVE  initialise(x).data = 0
<1> DEFINE c == mulacc_write_status_func(cxu[x], CX_INITIAL)
           c0 == mulacc_write_state_func(c, 0, 0)
<1>1. StateSize[x[1]] # 0
    BY BoardAssumption DEF SwHasState
<1>2. c \in Context
    BY WriteStatusInContext, BoardAssumption
<1>3. c0.data = 0
    BY <1>2 DEF mulacc_write_state_func, Context
<1>4. mulacc_write_status_func(c0, CX_DIRTY) = [c0 EXCEPT !.dc = CX_OFF]
    BY StatusBits DEF mulacc_write_status_func, CX_OFF, CX_PRECLEAN
<1> QED
    BY <1>1, <1>2, <1>3, <1>4 DEF initialise, mulacc_write_state_func, Context

Zeroed(cl, x) == x[1] \in SwInit /\ ~Holds(cl, x) /\ Holds(cl, x)' => cxu'[x].data = 0

LEMMA OpenZeroes ==
    ASSUME SwHasState, TypeOK, NEW q \in Clients, NEW guid \in Guids, cx_open(q, guid),
           NEW cl \in Clients, NEW x \in Contexts
    PROVE  Zeroed(cl, x)
<1>1. CASE handle' = handle
    BY <1>1 DEF Zeroed, Holds
<1>2. CASE \E c \in Cx : NumStates[c] = 0 /\ OpenStateless(q, c)
    <2> PICK c \in Cx : NumStates[c] = 0 /\ OpenStateless(q, c)
        BY <1>2
    <2>1. ~stateful(gen_cx_sel(c, 0))
        BY StatelessDecodes DEF stateful
    <2>2. handle' = [handle EXCEPT ![q] = gen_cx_sel(c, 0)]
        BY DEF OpenStateless
    <2> QED
        BY <2>1, <2>2 DEF Zeroed, Holds, TypeOK
<1>3. CASE \E c \in Cx : \E s \in States(c) : OpenContext(q, c, s, gen_cx_sel(c, s))
    <2> PICK c \in Cx : \E s \in States(c) : OpenContext(q, c, s, gen_cx_sel(c, s))
        BY <1>3
    <2> PICK s \in States(c) : OpenContext(q, c, s, gen_cx_sel(c, s))
        OBVIOUS
    <2> DEFINE y == <<c, s>>
    <2>1. y \in Contexts /\ context_of(gen_cx_sel(c, s)) = y
        BY ContextsPairs, SelectorDecodes DEF context_of
    <2>2. /\ handle' = [handle EXCEPT ![q] = gen_cx_sel(c, s)]
          /\ cxu' = [cxu EXCEPT ![y] = initialise(y)]
        BY <2>1 DEF OpenContext
    <2>3. CASE cl # q
        BY <2>3, <2>2 DEF Zeroed, Holds, TypeOK
    <2>4. CASE cl = q
        <3>1. Holds(cl, x)' => x = y
            BY <2>4, <2>1, <2>2 DEF Holds, TypeOK
        <3>2. cxu'[y] = initialise(y) /\ cxu[y] \in Context
            BY <2>1, <2>2 DEF TypeOK
        <3> QED
            BY <3>1, <3>2, <2>1, InitialiseZeroes DEF Zeroed
    <2> QED
        BY <2>3, <2>4
<1> QED
    BY <1>1, <1>2, <1>3 DEF cx_open, States, OpenFails, OpenTooLarge

\* A software-initialised context never carries its last holder's words over.
THEOREM SwInitClears ==
    ASSUME SwHasState
    PROVE  Spec => SwInitZeroed
<1>1. TypeOK /\ [Next]_vars
         => [\A cl \in Clients, x \in Contexts :
                x[1] \in SwInit /\ ~Holds(cl, x) /\ Holds(cl, x)' => cxu'[x].data = 0]_vars
    <2> SUFFICES ASSUME TypeOK, Next, NEW cl \in Clients, NEW x \in Contexts
                 PROVE  Zeroed(cl, x)
        BY DEF Zeroed
    <2>1. CASE \E q \in Clients : \E guid \in Guids : cx_open(q, guid)
        BY <2>1, OpenZeroes
    <2>2. CASE \E q \in Clients : cx_close(q)
        BY <2>2 DEF cx_close, Zeroed, Holds, stateful, TypeOK
    <2>3. CASE handle' = handle
        BY <2>3 DEF Zeroed, Holds
    <2> QED
        BY <2>1, <2>2, <2>3 DEF Next, cx_sel, Compute
<1> QED
    BY <1>1, TypeCorrect, PTL DEF Spec, SwInitZeroed

-----------------------------------------------------------------------------
(* CxMisuse: a stale selector damages the contexts it reaches, nothing else. *)

\* The inductive invariant.  TypeOK does not depend on how the clients behave;
\* the others do, and hold of the contexts that the misuse they name did not reach.
HarmedAreHeld == /\ freed \subseteq harmed
                 /\ \A x \in harmed : x \in Contexts /\ held(x)

MInv == /\ TypeOK
        /\ HarmedAreHeld
        /\ ExclusiveUnlessFreed
        /\ AvailUnlessFreed
        /\ IsolatedUnlessHarmed

LEMMA SelectorInContexts ==
    ASSUME NEW h, Selector(h), stateful(h)
    PROVE  context_of(h) \in Contexts
<1>1. PICK y \in Contexts : h = sel_of(y)
    BY StatelessDecodes DEF Selector, stateful, sel_of
<1> QED
    BY <1>1, SelOfDecodes

\* Harm is done to contexts of the board that are held after the step.
LEMMA HarmsHeld ==
    ASSUME TypeOK', HarmedAreHeld, NEW xs, NEW ys, harms(xs, ys)
    PROVE  HarmedAreHeld'
<1>0. freed' \subseteq harmed'
    BY DEF harms, HarmedAreHeld
<1> SUFFICES ASSUME NEW x \in harmed' PROVE x \in Contexts /\ held(x)'
    BY <1>0 DEF HarmedAreHeld
<1>1. held(x)'
    BY DEF harms
<1>2. PICK q \in Clients : stateful(handle'[q]) /\ context_of(handle'[q]) = x
    BY <1>1 DEF held, Holds, stateful, context_of
<1>3. Selector(handle'[q])
    BY DEF TypeOK, Selector
<1> QED
    BY <1>1, <1>2, <1>3, SelectorInContexts

LEMMA InitMInv == MInit => MInv
<1> SUFFICES ASSUME MInit PROVE MInv
    OBVIOUS
<1>1. IInv /\ harmed = {} /\ freed = {}
    BY InitInv DEF MInit
<1> QED
    BY <1>1 DEF IInv, MInv, HarmedAreHeld, ExclusiveUnlessFreed, ContextExclusive,
       AvailUnlessFreed, AvailExact, held, IsolatedUnlessHarmed, ContextIsolated

-----------------------------------------------------------------------------
\* A step that leaves the clients' contexts alone.
LEMMA QuietMInv ==
    ASSUME MInv, TypeOK', harms({}, {}),
           UNCHANGED <<avail_state_ids, cxu, own>>,
           \A q \in Clients, x \in Contexts : Holds(q, x)' <=> Holds(q, x)
    PROVE  MInv'
<1>1. HarmedAreHeld'
    BY HarmsHeld DEF MInv
<1>2. \A x \in Contexts : (x \in harmed' <=> x \in harmed) /\ (x \in freed' <=> x \in freed)
    BY DEF harms, held, MInv, HarmedAreHeld
<1>3. ExclusiveUnlessFreed'
    BY <1>2 DEF MInv, ExclusiveUnlessFreed
<1>4. AvailUnlessFreed'
    BY <1>2 DEF MInv, AvailUnlessFreed, held
<1>5. IsolatedUnlessHarmed'
    BY <1>2 DEF MInv, IsolatedUnlessHarmed
<1> QED
    BY <1>1, <1>3, <1>4, <1>5 DEF MInv

\* cx_open that finds a state hands out one that is free or was freed under its
\* holder.
LEMMA OpenContextMInv ==
    ASSUME MInv, NEW cl \in Clients, handle[cl] = NoHandle,
           NEW c \in Cx, NEW s \in States(c), is_free(c, s),
           OpenContext(cl, c, s, gen_cx_sel(c, s)), harms({}, {})
    PROVE  MInv'
<1> DEFINE x == <<c, s>>
<1>1. x \in Contexts /\ sel_of(x) = gen_cx_sel(c, s)
    BY ContextsPairs DEF sel_of
<1>2. sel_of(x) \in Int /\ Selector(sel_of(x)) /\ context_of(sel_of(x)) = x
    BY <1>1, SelOfDecodes DEF Selector, sel_of
<1>3. x \in freed \/ \A q \in Clients : ~Holds(q, x)
    BY <1>1 DEF MInv, AvailUnlessFreed, held, is_free, CX_AVAIL_STATE, CX_UNAVAIL_STATE
<1>4. initialise(x) \in Context
    BY <1>1, InitialiseInContext DEF MInv, TypeOK
<1>5. /\ avail_state_ids' = [avail_state_ids EXCEPT ![x] = CX_UNAVAIL_STATE]
      /\ cxu' = [cxu EXCEPT ![x] = initialise(x)]
      /\ handle' = [handle EXCEPT ![cl] = sel_of(x)]
      /\ own' = [own EXCEPT ![cl] = initialise(x)]
      /\ ret' = sel_of(x)
      /\ UNCHANGED <<mcx_selector, counter>>
    BY <1>1, <1>2 DEF OpenContext
<1>6. handle' \in [Clients -> Int] /\ \A q \in Clients : Selector(handle'[q])
    BY <1>2, <1>5, HandleUpdate DEF MInv
<1>7. \A q \in Clients, y \in Contexts :
         Holds(q, y)' <=> IF q = cl THEN y = x ELSE Holds(q, y)
    <2>1. \A y \in Contexts : sel_of(x) = sel_of(y) <=> y = x
        BY <1>1, SelOfDecodes
    <2> QED
        BY <1>2, <1>5, <2>1, HandleUpdate DEF MInv
<1>8. TypeOK'
    BY <1>1, <1>2, <1>4, <1>5, <1>6 DEF MInv, TypeOK
<1>9. HarmedAreHeld'
    BY <1>8, HarmsHeld DEF MInv
<1>10. \A y \in Contexts : ~Holds(cl, y)
    BY DEF Holds, stateful
<1>11. \A y \in Contexts : held(y)' <=> y = x \/ held(y)
    BY <1>7, <1>10 DEF held
<1>12. \A y \in Contexts : (y \in harmed' <=> y \in harmed) /\ (y \in freed' <=> y \in freed)
    BY <1>11 DEF harms, MInv, HarmedAreHeld
<1>13. ExclusiveUnlessFreed'
    BY <1>3, <1>7, <1>12 DEF MInv, ExclusiveUnlessFreed
<1>14. AvailUnlessFreed'
    <2> SUFFICES ASSUME NEW y \in Contexts, y \notin freed
                 PROVE  avail_state_ids'[y] = CX_UNAVAIL_STATE <=> held(y)'
        BY <1>12 DEF AvailUnlessFreed
    <2>1. CASE y = x
        BY <2>1, <1>1, <1>5, <1>11 DEF MInv, TypeOK
    <2>2. CASE y # x
        BY <2>2, <1>5, <1>11 DEF MInv, TypeOK, AvailUnlessFreed
    <2> QED
        BY <2>1, <2>2
<1>15. IsolatedUnlessHarmed'
    <2> SUFFICES ASSUME NEW q \in Clients, NEW y \in Contexts, y \notin harmed,
                        Holds(q, y)'
                 PROVE  cxu'[y] = own'[q]
        BY <1>12 DEF IsolatedUnlessHarmed
    <2>1. CASE q = cl
        BY <2>1, <1>1, <1>5, <1>7 DEF MInv, TypeOK
    <2>2. CASE q # cl
        <3>1. Holds(q, y) /\ y # x
            BY <2>2, <1>3, <1>7 DEF MInv, HarmedAreHeld
        <3> QED
            BY <2>2, <3>1, <1>5 DEF MInv, TypeOK, IsolatedUnlessHarmed
    <2> QED
        BY <2>1, <2>2
<1> QED
    BY <1>8, <1>9, <1>13, <1>14, <1>15 DEF MInv

LEMMA OpenMInv ==
    ASSUME MInv, NEW cl \in Clients, NEW guid \in Guids, cx_open(cl, guid), harms({}, {})
    PROVE  MInv'
<1>1. handle[cl] = NoHandle
    BY DEF cx_open
<1>2. CASE OpenFails
    <2>1. TypeOK'
        BY <1>2 DEF MInv, TypeOK, OpenFails, cx_map, NoHandle
    <2>2. \A q \in Clients, x \in Contexts : Holds(q, x)' <=> Holds(q, x)
        BY <1>2 DEF OpenFails, Holds
    <2> QED
        BY <1>2, <2>1, <2>2, QuietMInv DEF OpenFails, cx_map
<1>3. CASE \E c \in Cx : NumStates[c] = 0 /\ OpenStateless(cl, c)
    <2> PICK c \in Cx : NumStates[c] = 0 /\ OpenStateless(cl, c)
        BY <1>3
    <2>1. gen_cx_sel(c, 0) \in Int /\ Selector(gen_cx_sel(c, 0))
        BY StatelessDecodes DEF Selector
    <2>2. ~stateful(gen_cx_sel(c, 0))
        BY StatelessDecodes DEF stateful
    <2>3. handle' \in [Clients -> Int] /\ \A q \in Clients : Selector(handle'[q])
        BY <2>1, HandleUpdate DEF MInv, OpenStateless
    <2>4. \A q \in Clients, x \in Contexts : Holds(q, x)' <=> Holds(q, x)
        <3>1. \A x \in Contexts : gen_cx_sel(c, 0) # sel_of(x)
            BY <2>2, SelOfDecodes
        <3>2. \A x \in Contexts : ~Holds(cl, x)
            BY <1>1 DEF Holds, stateful
        <3> QED
            BY <2>1, <3>1, <3>2, HandleUpdate DEF MInv, OpenStateless
    <2>5. TypeOK'
        BY <2>1, <2>3 DEF MInv, TypeOK, OpenStateless, cx_map
    <2> QED
        BY <2>4, <2>5, QuietMInv DEF OpenStateless, cx_map
<1>4. CASE \E c \in Cx : \E s \in States(c) :
               /\ get_free_state(c, s)
               /\ \/ OpenTooLarge(gen_cx_sel(c, s))
                  \/ OpenContext(cl, c, s, gen_cx_sel(c, s))
    <2> PICK c \in Cx : \E s \in States(c) :
               /\ is_free(c, s)
               /\ \/ OpenTooLarge(gen_cx_sel(c, s))
                  \/ OpenContext(cl, c, s, gen_cx_sel(c, s))
        BY <1>4 DEF get_free_state
    <2> PICK s \in States(c) :
               /\ is_free(c, s)
               /\ \/ OpenTooLarge(gen_cx_sel(c, s))
                  \/ OpenContext(cl, c, s, gen_cx_sel(c, s))
        OBVIOUS
    <2>1. CASE OpenTooLarge(gen_cx_sel(c, s))
        <3>1. gen_cx_sel(c, s) \in Int
            BY SelectorDecodes
        <3>2. TypeOK'
            BY <2>1, <3>1 DEF MInv, TypeOK, OpenTooLarge, cx_map, NoHandle
        <3>3. \A q \in Clients, y \in Contexts : Holds(q, y)' <=> Holds(q, y)
            BY <2>1 DEF OpenTooLarge, Holds
        <3> QED
            BY <2>1, <3>2, <3>3, QuietMInv DEF OpenTooLarge, cx_map
    <2>2. CASE OpenContext(cl, c, s, gen_cx_sel(c, s))
        BY <1>1, <2>2, OpenContextMInv
    <2> QED
        BY <2>1, <2>2
<1> QED
    BY <1>2, <1>3, <1>4 DEF cx_open, States

\* Giving a context back, by its holder or by a stale selector.
LEMMA MarkedAvailable ==
    ASSUME TypeOK, NEW x, CloseContext(x)
    PROVE  /\ avail_state_ids' \in [Contexts -> {CX_AVAIL_STATE, CX_UNAVAIL_STATE}]
           /\ counter' \in [Contexts -> Int]
           /\ \A y \in Contexts : avail_state_ids'[y] = IF y = x THEN CX_AVAIL_STATE
                                                                 ELSE avail_state_ids[y]
           /\ cxu' = cxu
<1>1. /\ avail_state_ids' = [avail_state_ids EXCEPT ![x] = CX_AVAIL_STATE]
      /\ counter' = [counter EXCEPT ![x] = @ - 1]
      /\ cxu' = cxu
    BY DEF CloseContext
<1>2. counter' \in [Contexts -> Int]
    <2>1. CASE x \in Contexts
        BY <2>1, <1>1 DEF TypeOK
    <2>2. CASE x \notin Contexts
        <3>1. counter' = counter
            BY <2>2, <1>1 DEF TypeOK
        <3> QED
            BY <3>1 DEF TypeOK
    <2> QED
        BY <2>1, <2>2
<1>3. /\ avail_state_ids' \in [Contexts -> {CX_AVAIL_STATE, CX_UNAVAIL_STATE}]
      /\ \A y \in Contexts : avail_state_ids'[y] = IF y = x THEN CX_AVAIL_STATE
                                                            ELSE avail_state_ids[y]
    BY <1>1 DEF TypeOK
<1> QED
    BY <1>1, <1>2, <1>3

\* The holder of a context closes it.
LEMMA CloseMInv ==
    ASSUME MInv, NEW cl \in Clients, Close(cl)
    PROVE  MInv'
<1>1. /\ handle' = [handle EXCEPT ![cl] = NoHandle]
      /\ own' = [own EXCEPT ![cl] = off_context]
      /\ UNCHANGED <<mcx_selector, ret>>
      /\ harms({}, {})
    BY DEF Close, cx_close
<1>2. NoHandle \in Int /\ Selector(NoHandle)
    BY DEF Selector, NoHandle
<1>3. handle' \in [Clients -> Int] /\ \A q \in Clients : Selector(handle'[q])
    BY <1>1, <1>2, HandleUpdate DEF MInv
<1>4. \A q \in Clients, y \in Contexts : Holds(q, y)' <=> q # cl /\ Holds(q, y)
    BY <1>1, <1>2, SelOfDecodes, HandleUpdate DEF MInv
<1>5. own' \in [Clients -> Context] /\ \A q \in Clients : q # cl => own'[q] = own[q]
    BY <1>1, ZeroInWord DEF MInv, TypeOK, off_context, Context, CX_CS, CX_OFF
<1>6. \A y \in Contexts : /\ y \in harmed' <=> y \in harmed /\ held(y)'
                          /\ y \in freed' <=> y \in freed /\ held(y)'
    BY <1>1 DEF harms
<1>7. \A y \in Contexts : ~Holds(cl, y) => (held(y)' <=> held(y))
    BY <1>4 DEF held
<1>8. ExclusiveUnlessFreed'
    BY <1>4, <1>6 DEF MInv, ExclusiveUnlessFreed, held
<1>9. ASSUME cxu' = cxu PROVE IsolatedUnlessHarmed'
    <2> SUFFICES ASSUME NEW q \in Clients, NEW y \in Contexts, y \notin harmed',
                        Holds(q, y)'
                 PROVE  cxu'[y] = own'[q]
        BY DEF IsolatedUnlessHarmed
    <2>1. held(y)'
        BY DEF held
    <2>2. y \notin harmed /\ q # cl /\ Holds(q, y)
        BY <2>1, <1>4, <1>6
    <2> QED
        BY <2>2, <1>5, <1>9 DEF MInv, IsolatedUnlessHarmed
<1>10. CASE CloseIgnored(cl)
    <2>1. UNCHANGED <<avail_state_ids, counter, cxu>>
        BY <1>10 DEF CloseIgnored, cx_map
    <2>2. \A y \in Contexts : ~Holds(cl, y)
        <3> SUFFICES ASSUME NEW y \in Contexts, Holds(cl, y) PROVE FALSE
            OBVIOUS
        <3>1. GET_CX_ID(handle[cl]) = y[1] /\ y[1] \in Cx /\ NumStates[y[1]] # 0
            BY ContextsPairs DEF Holds, stateful, context_of
        <3> QED
            BY <1>10, <3>1 DEF CloseIgnored, Cx, NUM_CX
    <2>3. TypeOK'
        BY <1>1, <1>3, <1>5, <2>1 DEF MInv, TypeOK
    <2>4. AvailUnlessFreed'
        BY <2>1, <2>2, <1>6, <1>7 DEF MInv, AvailUnlessFreed, HarmedAreHeld
    <2> QED
        BY <1>1, <1>8, <1>9, <2>1, <2>3, <2>4, HarmsHeld DEF MInv
<1>11. CASE stateful(handle[cl]) /\ CloseContext(context_of(handle[cl]))
    <2> DEFINE x == context_of(handle[cl])
    <2>1. x \in Contexts /\ \A y \in Contexts : Holds(cl, y) <=> y = x
        BY <1>11, SelectorInContexts DEF MInv, TypeOK, Holds
    <2>2. /\ avail_state_ids' \in [Contexts -> {CX_AVAIL_STATE, CX_UNAVAIL_STATE}]
          /\ counter' \in [Contexts -> Int]
          /\ \A y \in Contexts : avail_state_ids'[y] = IF y = x THEN CX_AVAIL_STATE
                                                                ELSE avail_state_ids[y]
          /\ cxu' = cxu
        BY <1>11, MarkedAvailable DEF MInv
    <2> HIDE DEF x
    <2>3. TypeOK'
        BY <1>1, <1>3, <1>5, <2>2 DEF MInv, TypeOK
    <2>4. AvailUnlessFreed'
        <3> SUFFICES ASSUME NEW y \in Contexts, y \notin freed'
                     PROVE  avail_state_ids'[y] = CX_UNAVAIL_STATE <=> held(y)'
            BY DEF AvailUnlessFreed
        <3>1. CASE y = x
            <4>1. ~held(y)'
                <5> SUFFICES ASSUME NEW q \in Clients, Holds(q, y)' PROVE FALSE
                    BY DEF held
                <5>1. q # cl /\ Holds(q, y) /\ Holds(cl, y) /\ held(y)'
                    BY <3>1, <2>1, <1>4 DEF held
                <5> QED
                    BY <5>1, <1>6 DEF MInv, ExclusiveUnlessFreed
            <4> QED
                BY <3>1, <4>1, <2>2 DEF CX_AVAIL_STATE, CX_UNAVAIL_STATE
        <3>2. CASE y # x
            <4>1. held(y)' <=> held(y)
                BY <3>2, <2>1, <1>7
            <4>2. y \notin freed
                BY <4>1, <1>6 DEF MInv, HarmedAreHeld
            <4> QED
                BY <3>2, <4>1, <4>2, <2>2 DEF MInv, AvailUnlessFreed
        <3> QED
            BY <3>1, <3>2
    <2> QED
        BY <1>1, <1>8, <1>9, <2>2, <2>3, <2>4, HarmsHeld DEF MInv
<1> QED
    BY <1>10, <1>11 DEF Close, cx_close

\* A stale selector is closed again: the context it names is harmed if held.
LEMMA CloseAgainMInv ==
    ASSUME MInv, NEW cl \in Clients, CloseAgain(cl)
    PROVE  MInv'
<1> DEFINE x == context_of(stale[cl])
<1>1. /\ UNCHANGED <<mcx_selector, handle, own, ret>>
      /\ harms({x}, {})
      /\ CloseContext(x)
    BY DEF CloseAgain
<1> HIDE DEF x
<1>2. /\ avail_state_ids' \in [Contexts -> {CX_AVAIL_STATE, CX_UNAVAIL_STATE}]
      /\ counter' \in [Contexts -> Int]
      /\ \A y \in Contexts : avail_state_ids'[y] = IF y = x THEN CX_AVAIL_STATE
                                                            ELSE avail_state_ids[y]
      /\ cxu' = cxu
    BY <1>1, MarkedAvailable DEF MInv
<1>3. TypeOK'
    BY <1>1, <1>2 DEF MInv, TypeOK
<1>4. \A q \in Clients, y \in Contexts : Holds(q, y)' <=> Holds(q, y)
    BY <1>1 DEF Holds
<1>5. \A y \in Contexts : held(y)' <=> held(y)
    BY <1>4 DEF held
<1>6. \A y \in Contexts : /\ y \in harmed' <=> held(y) /\ (y = x \/ y \in harmed)
                          /\ y \in freed' <=> held(y) /\ (y = x \/ y \in freed)
    BY <1>1, <1>5 DEF harms
<1>7. ExclusiveUnlessFreed'
    BY <1>4, <1>6 DEF MInv, ExclusiveUnlessFreed, held
<1>8. AvailUnlessFreed'
    <2> SUFFICES ASSUME NEW y \in Contexts, y \notin freed'
                 PROVE  avail_state_ids'[y] = CX_UNAVAIL_STATE <=> held(y)'
        BY DEF AvailUnlessFreed
    <2>1. CASE y = x
        BY <2>1, <1>2, <1>5, <1>6 DEF CX_AVAIL_STATE, CX_UNAVAIL_STATE
    <2>2. CASE y # x
        BY <2>2, <1>2, <1>5, <1>6 DEF MInv, AvailUnlessFreed, HarmedAreHeld
    <2> QED
        BY <2>1, <2>2
<1>9. IsolatedUnlessHarmed'
    BY <1>1, <1>2, <1>4, <1>6 DEF MInv, IsolatedUnlessHarmed, held
<1> QED
    BY <1>1, <1>3, <1>7, <1>8, <1>9, HarmsHeld DEF MInv

\* A custom function on the selected context, which is not the caller's.
LEMMA RunSelectedMInv ==
    ASSUME MInv, NEW cl \in Clients, NEW cf \in 0 .. CX_MULACC_NUM_FUNCS - 1,
           NEW a \in Operands, NEW b \in Operands, RunSelected(cl, cf, a, b)
    PROVE  MInv'
<1> DEFINE x == context_of(mcx_selector)
<1>1. /\ UNCHANGED <<mcx_selector, avail_state_ids, counter, handle, own, ret>>
      /\ cxu' = [cxu EXCEPT ![x] = cx_func_mulacc(cf, @, a, b).ctx]
      /\ harms({}, {x})
    BY DEF RunSelected, cx_map
<1> HIDE DEF x
<1>2. cxu' \in [Contexts -> Context] /\ \A y \in Contexts : y # x => cxu'[y] = cxu[y]
    <2>1. \A y \in Contexts : cx_func_mulacc(cf, cxu[y], a, b).ctx \in Context
        BY ComputeInContext, InputAssumption DEF MInv, TypeOK
    <2> QED
        BY <1>1, <2>1 DEF MInv, TypeOK
<1>3. TypeOK'
    BY <1>1, <1>2 DEF MInv, TypeOK
<1>4. \A q \in Clients, y \in Contexts : Holds(q, y)' <=> Holds(q, y)
    BY <1>1 DEF Holds
<1>5. \A y \in Contexts : held(y)' <=> held(y)
    BY <1>4 DEF held
<1>6. \A y \in Contexts : /\ y \in harmed' <=> held(y) /\ (y = x \/ y \in harmed)
                          /\ y \in freed' <=> held(y) /\ y \in freed
    BY <1>1, <1>5 DEF harms
<1>7. ExclusiveUnlessFreed'
    BY <1>4, <1>6 DEF MInv, ExclusiveUnlessFreed, held
<1>8. AvailUnlessFreed'
    BY <1>1, <1>5, <1>6 DEF MInv, AvailUnlessFreed, HarmedAreHeld
<1>9. IsolatedUnlessHarmed'
    BY <1>1, <1>2, <1>4, <1>6 DEF MInv, IsolatedUnlessHarmed, held
<1> QED
    BY <1>1, <1>3, <1>7, <1>8, <1>9, HarmsHeld DEF MInv

LEMMA SelMInv ==
    ASSUME MInv, NEW cl \in Clients, cx_sel(cl), harms({}, {})
    PROVE  MInv'
<1>1. TypeOK'
    BY DEF MInv, TypeOK, cx_sel, cx_map, CX_LEGACY
<1>2. \A q \in Clients, x \in Contexts : Holds(q, x)' <=> Holds(q, x)
    BY DEF cx_sel, Holds
<1> QED
    BY <1>1, <1>2, QuietMInv DEF cx_sel, cx_map

\* A custom function of a holder: it changes the context and what the holder's
\* calls make of it alike, unless another client holds the context too.
LEMMA ComputeMInv ==
    ASSUME MInv, NEW cl \in Clients, NEW cf \in 0 .. CX_MULACC_NUM_FUNCS - 1,
           NEW a \in Operands, NEW b \in Operands, Compute(cl, cf, a, b), harms({}, {})
    PROVE  MInv'
<1> DEFINE x == context_of(handle[cl])
           new == cx_func_mulacc(cf, cxu[x], a, b).ctx
           newown == cx_func_mulacc(cf, own[cl], a, b).ctx
<1>1. x \in Contexts /\ Holds(cl, x)
    BY SelectorInContexts DEF Compute, MInv, TypeOK, Holds
<1>2. /\ cxu' = [cxu EXCEPT ![x] = new]
      /\ own' = [own EXCEPT ![cl] = newown]
      /\ UNCHANGED <<mcx_selector, avail_state_ids, counter, handle, ret>>
    BY DEF Compute, cx_map
<1>3. new \in Context /\ newown \in Context
    BY <1>1, ComputeInContext, InputAssumption DEF MInv, TypeOK
<1>4. x \notin harmed => new = newown
    BY <1>1 DEF MInv, IsolatedUnlessHarmed
<1> HIDE DEF x, new, newown
<1>5. \A q \in Clients, y \in Contexts : Holds(q, y)' <=> Holds(q, y)
    BY <1>2 DEF Holds
<1>6. TypeOK'
    BY <1>2, <1>3 DEF MInv, TypeOK
<1>7. \A y \in Contexts : /\ y \in harmed' <=> y \in harmed
                          /\ y \in freed' <=> y \in freed
                          /\ held(y)' <=> held(y)
    BY <1>5 DEF harms, held, MInv, HarmedAreHeld
<1>8. ExclusiveUnlessFreed'
    BY <1>5, <1>7 DEF MInv, ExclusiveUnlessFreed
<1>9. AvailUnlessFreed'
    BY <1>2, <1>7 DEF MInv, AvailUnlessFreed
<1>10. IsolatedUnlessHarmed'
    <2> SUFFICES ASSUME NEW q \in Clients, NEW y \in Contexts, y \notin harmed,
                        Holds(q, y)
                 PROVE  cxu'[y] = own'[q]
        BY <1>5, <1>7 DEF IsolatedUnlessHarmed
    <2>1. CASE q = cl
        <3>1. y = x
            BY <2>1, <1>1 DEF Holds
        <3> QED
            BY <2>1, <3>1, <1>1, <1>2, <1>4 DEF MInv, TypeOK
    <2>2. CASE q # cl
        <3>1. y # x
            BY <2>2, <1>1 DEF MInv, ExclusiveUnlessFreed, HarmedAreHeld
        <3> QED
            BY <2>2, <3>1, <1>2 DEF MInv, TypeOK, IsolatedUnlessHarmed
    <2> QED
        BY <2>1, <2>2
<1> QED
    BY <1>6, <1>8, <1>9, <1>10, HarmsHeld DEF MInv

LEMMA StepMInv == MInv /\ [MNext]_mvars => MInv'
<1> SUFFICES ASSUME MInv, [MNext]_mvars PROVE MInv'
    OBVIOUS
<1>1. CASE UNCHANGED mvars
    BY <1>1 DEF mvars, vars, cx_map, MInv, TypeOK, HarmedAreHeld, held, Holds,
       ExclusiveUnlessFreed, AvailUnlessFreed, IsolatedUnlessHarmed
<1>2. ASSUME NEW cl \in Clients, Proper(cl) PROVE MInv'
    BY <1>2, OpenMInv, SelMInv, ComputeMInv DEF Proper
<1> QED
    BY <1>1, <1>2, CloseMInv, CloseAgainMInv, RunSelectedMInv DEF MNext

-----------------------------------------------------------------------------
LEMMA MInvariance == MSpec => []MInv
BY InitMInv, StepMInv, PTL DEF MSpec

\* However programs use stale selectors, and whatever they run on contexts they
\* do not hold, cx_open hands a held context out again only after a stale cx_close
\* reached that very context while it was held.
THEOREM MisuseExclusive == MSpec => []ExclusiveUnlessFreed
<1>1. MInv => ExclusiveUnlessFreed
    BY DEF MInv
<1> QED
    BY <1>1, MInvariance, PTL

\* The marks of cx_map stay exact for every context that no stale cx_close freed
\* under its holder, and are exact again once the holders of a freed one closed it.
THEOREM MisuseAvail == MSpec => []AvailUnlessFreed
<1>1. MInv => AvailUnlessFreed
    BY DEF MInv
<1> QED
    BY <1>1, MInvariance, PTL

\* A client whose context no stale close freed, and no other client's function
\* ran on, finds there what its calls left.
THEOREM MisuseIsolated == MSpec => []IsolatedUnlessHarmed
<1>1. MInv => IsolatedUnlessHarmed
    BY DEF MInv
<1> QED
    BY <1>1, MInvariance, PTL

\* A software-initialised context is zero when it is handed out, also when
\* functions ran on it after its last holder closed it.
THEOREM MisuseSwInit ==
    ASSUME SwHasState
    PROVE  MSpec => SwInitZeroed
<1>1. MInv /\ [MNext]_mvars
         => [\A cl \in Clients, x \in Contexts :
                x[1] \in SwInit /\ ~Holds(cl, x) /\ Holds(cl, x)' => cxu'[x].data = 0]_vars
    <2> SUFFICES ASSUME MInv, MNext, NEW cl \in Clients, NEW x \in Contexts
                 PROVE  Zeroed(cl, x)
        BY DEF Zeroed, mvars
    <2>1. CASE \E q \in Clients : \E guid \in Guids : cx_open(q, guid)
        BY <2>1, OpenZeroes DEF MInv
    <2>2. CASE \E q \in Clients : cx_close(q)
        BY <2>2 DEF cx_close, Zeroed, Holds, stateful, MInv, TypeOK
    <2>3. CASE handle' = handle
        BY <2>3 DEF Zeroed, Holds
    <2> QED
        BY <2>1, <2>2, <2>3 DEF MNext, Proper, Close, CloseAgain, RunSelected,
           cx_sel, Compute
<1> QED
    BY <1>1, MInvariance, PTL DEF MSpec, SwInitZeroed
=============================================================================
