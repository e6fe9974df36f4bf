----------------------------- MODULE CxVirtProofs ---------------------------
(***************************************************************************)
(* CxVirt implements CxPrivate, for every number of contexts and states,   *)
(* as long as the custom functions used mark the context DIRTY when they   *)
(* change it.                                                              *)
(***************************************************************************)
EXTENDS CxVirt, MulaccProofs

IInv == TypeOK /\ LoadedOnce /\ CleanMatchesSaved

LEMMA StatusWords ==
    /\ GET_CX_DATA_CLEAN(status(CX_PRECLEAN)) = CX_PRECLEAN
    /\ GET_CX_DATA_CLEAN(status(CX_CLEAN)) = CX_CLEAN
    /\ \A c \in Context : GET_CX_DATA_CLEAN(mulacc_read_status_func(c)) = c.dc
BY StatusDecodes DEF status, mulacc_read_status_func, CX_MULACC_STATE_SIZE, Context,
   CX_CS, CX_PRECLEAN, CX_CLEAN

\* The system functions of the two units are the same.
LEMMA UnitFuncs ==
    /\ \A c : read_status_func(c) = mulacc_read_status_func(c)
    /\ \A c, w : write_status_func(c, w) = mulacc_write_status_func(c, w)
    /\ \A c, i : read_state_func(c, i) = mulacc_read_state_func(c, i)
    /\ \A c, i, w : write_state_func(c, i, w) = mulacc_write_state_func(c, i, w)
<1>1. \A c : read_status_func(c) = mulacc_read_status_func(c)
    BY DEF read_status_func, mulacc_read_status_func, NN!nn_acc_read_status_func,
       CX_MULACC_STATE_SIZE, NN!CX_NN_ACC_STATE_SIZE, cx_stctxs, NN!cx_stctxs
<1>2. \A c, w : write_status_func(c, w) = mulacc_write_status_func(c, w)
    BY DEF write_status_func, mulacc_write_status_func, NN!nn_acc_write_status_func,
       GET_CX_DATA_CLEAN, NN!GET_CX_DATA_CLEAN, GET_BITS, NN!GET_BITS, reset_func,
       NN!reset_func, Outcome, NN!Outcome, CX_PRECLEAN, NN!CX_PRECLEAN, CX_DIRTY, NN!CX_DIRTY
<1>3. \A c, i : read_state_func(c, i) = mulacc_read_state_func(c, i)
    BY DEF read_state_func, mulacc_read_state_func, NN!nn_acc_read_state_func
<1>4. \A c, i, w : write_state_func(c, i, w) = mulacc_write_state_func(c, i, w)
    BY DEF write_state_func, mulacc_write_state_func, NN!nn_acc_write_state_func
<1> QED
    BY <1>1, <1>2, <1>3, <1>4

\* What the kernel's writes leave in a state.
LEMMA KernelWrites ==
    ASSUME NEW c \in Context, NEW w \in Word
    PROVE  /\ write_status_func(c, status(CX_PRECLEAN)) = [dc |-> CX_DIRTY, data |-> 0]
           /\ write_status_func(write_state_func(c, 0, w), status(CX_CLEAN))
                = [dc |-> CX_CLEAN, data |-> w]
<1> DEFINE d == mulacc_write_state_func(c, 0, w)
<1>1. c = [dc |-> c.dc, data |-> c.data]
    BY DEF Context
<1>2. d = [dc |-> c.dc, data |-> w]
    BY <1>1 DEF mulacc_write_state_func
<1>3. mulacc_write_status_func(c, status(CX_PRECLEAN)) = [dc |-> CX_DIRTY, data |-> 0]
    BY <1>1, StatusWords DEF mulacc_write_status_func, reset_func, Outcome
<1> HIDE DEF d
<1>4. mulacc_write_status_func(d, status(CX_CLEAN)) = [d EXCEPT !.dc = CX_CLEAN]
    BY StatusWords DEF mulacc_write_status_func, CX_PRECLEAN, CX_CLEAN
<1>5. [d EXCEPT !.dc = CX_CLEAN] = [dc |-> CX_CLEAN, data |-> w]
    BY <1>2
<1> QED
    BY <1>3, <1>4, <1>5, UnitFuncs DEF d

mac_of(n, a, b) == Wrap(n + Wrap(a * b))
relu_of(n) == IF n < 0 THEN 0 ELSE n
dirty(n) == [dc |-> CX_DIRTY, data |-> n]

\* What a marking function does to a context: it adds or clamps and leaves the
\* context DIRTY, or it does nothing.
LEMMA MarkingFuncs ==
    ASSUME Marking, TypeOK, NEW s \in States, NEW cf \in Funcs,
           NEW a \in Operands, NEW b \in Operands
    PROVE  LET c == hw[s]
           IN  \/ func(cf, c, a, b) = Outcome(mac_of(c.data, a, b), dirty(mac_of(c.data, a, b)))
               \/ func(cf, c, a, b) = Outcome(relu_of(c.data), dirty(relu_of(c.data)))
               \/ func(cf, c, a, b) = Outcome(0, c)
<1>1. cf = 0 \/ cf = 2
    BY DEF Funcs, Marking
<1> QED
    BY <1>1 DEF func, cx_func_mulacc, NN!cx_func_nn_acc, mac_func, do_nothing,
       NN!nn_acc_func, NN!relu_func, NN!Outcome, Outcome, CX_DIRTY, NN!CX_DIRTY,
       Wrap, NN!Wrap, mac_of, relu_of, dirty

\* Its results are words.
LEMMA ResultsAreWords ==
    ASSUME NEW n \in Word, NEW a \in Operands, NEW b \in Operands
    PROVE  /\ mac_of(n, a, b) \in Word /\ dirty(mac_of(n, a, b)) \in Context
           /\ relu_of(n) \in Word /\ dirty(relu_of(n)) \in Context
<1>1. n \in Int /\ a \in Int /\ b \in Int /\ a * b \in Int
    BY VirtAssumption, HalfAssumption DEF Word
<1>2. Wrap(a * b) \in Int
    BY <1>1, WrapInWord, HalfAssumption DEF Word
<1>3. mac_of(n, a, b) \in Word
    BY <1>1, <1>2, WrapInWord DEF mac_of
<1>4. relu_of(n) \in Word
    BY ZeroInWord DEF relu_of
<1> QED
    BY <1>3, <1>4 DEF dirty, Context, CX_CS

\* The kernel's save keeps the data of the context it evicts, if DIRTY.
LEMMA SaveKeeps ==
    ASSUME TypeOK, NEW s \in States, save(s)
    PROVE  /\ saved' \in [Virts -> Word]
           /\ \A v \in Virts :
                 saved'[v] = IF resident[s] = v /\ hw[s].dc = CX_DIRTY
                             THEN hw[s].data ELSE saved[v]
<1>1. hw[s] \in Context /\ hw[s].data \in Word /\ resident[s] \in Virts \cup {None}
    BY DEF TypeOK, Context
<1>2. saved' = IF resident[s] # None /\ hw[s].dc = CX_DIRTY
               THEN [saved EXCEPT ![resident[s]] = hw[s].data] ELSE saved
    BY <1>1, StatusWords, UnitFuncs DEF save, mulacc_read_state_func
<1> QED
    BY <1>1, <1>2, VirtAssumption DEF TypeOK

-----------------------------------------------------------------------------
\* What cx_open and switch_to share: s is saved, then given to v with contents c.
load(v, s, c) == /\ save(s)
                 /\ hw' = [hw EXCEPT ![s] = c]
                 /\ resident' = [resident EXCEPT ![s] = v]

LEMMA OpenLoads ==
    ASSUME IInv, NEW v \in Virts, NEW s \in States, cx_open(v, s)
    PROVE  ~loaded(v) /\ load(v, s, [dc |-> CX_DIRTY, data |-> 0])
<1>1. ~loaded(v)
    BY VirtAssumption DEF IInv, LoadedOnce, loaded, cx_open
<1>2. hw[s] \in Context
    BY DEF IInv, TypeOK
<1> QED
    BY <1>1, <1>2, KernelWrites, ZeroInWord DEF load, cx_open

LEMMA SwitchLoads ==
    ASSUME IInv, NEW v \in Virts, NEW s \in States, switch_to(v, s)
    PROVE  ~loaded(v) /\ load(v, s, [dc |-> CX_CLEAN, data |-> saved[v]])
<1>1. hw[s] \in Context /\ saved[v] \in Word
    BY DEF IInv, TypeOK
<1> QED
    BY <1>1, KernelWrites DEF load, switch_to

LEMMA LoadInv ==
    ASSUME IInv, NEW v \in Virts, NEW s \in States, NEW c \in Context, ~loaded(v),
           load(v, s, c), c.dc \in {CX_CLEAN, CX_DIRTY},
           c.dc = CX_CLEAN => c.data = saved[v],
           opened \subseteq opened', opened' \subseteq Virts, v \in opened',
           UNCHANGED <<unit, out>>
    PROVE  IInv'
<1>1. /\ saved' \in [Virts -> Word]
      /\ \A w \in Virts : w # resident[s] => saved'[w] = saved[w]
    BY SaveKeeps DEF IInv, load
<1>2. TypeOK'
    BY <1>1 DEF IInv, TypeOK, load
<1>3. \A t \in States : /\ resident'[t] = IF t = s THEN v ELSE resident[t]
                        /\ hw'[t] = IF t = s THEN c ELSE hw[t]
                        /\ resident[t] # v
                        /\ resident[t] \in Virts \cup {None}
    BY DEF IInv, TypeOK, load, loaded
<1>4. LoadedOnce'
    BY <1>3 DEF IInv, LoadedOnce
<1>5. CleanMatchesSaved'
    <2> SUFFICES ASSUME NEW t \in States, resident'[t] # None, hw'[t].dc = CX_CLEAN
                 PROVE  hw'[t].data = saved'[resident'[t]]
        BY DEF CleanMatchesSaved
    <2>1. CASE t = s
        BY <2>1, <1>1, <1>3
    <2>2. CASE t # s
        <3>1. resident[t] \in Virts /\ resident[t] # resident[s]
            BY <2>2, <1>3 DEF IInv, LoadedOnce
        <3> QED
            BY <2>2, <3>1, <1>1, <1>3 DEF IInv, CleanMatchesSaved
    <2> QED
        BY <2>1, <2>2
<1> QED
    BY <1>2, <1>4, <1>5 DEF IInv

LEMMA OpenInv ==
    ASSUME IInv, NEW v \in Virts, NEW s \in States, cx_open(v, s)
    PROVE  IInv'
<1> DEFINE c == [dc |-> CX_DIRTY, data |-> 0]
<1>1. c \in Context /\ c.dc = CX_DIRTY /\ c.dc # CX_CLEAN
    BY ZeroInWord DEF Context, CX_CS, CX_DIRTY, CX_CLEAN
<1>2. opened' = opened \cup {v} /\ UNCHANGED <<unit, out>> /\ opened' \subseteq Virts
    BY DEF cx_open, IInv, TypeOK
<1> HIDE DEF c
<1> QED
    BY <1>1, <1>2, OpenLoads, LoadInv DEF c

LEMMA SwitchInv ==
    ASSUME IInv, NEW v \in Virts, NEW s \in States, switch_to(v, s)
    PROVE  IInv'
<1> DEFINE c == [dc |-> CX_CLEAN, data |-> saved[v]]
<1>1. c \in Context /\ c.dc = CX_CLEAN /\ c.data = saved[v]
    BY DEF IInv, TypeOK, Context, CX_CS
<1>2. v \in opened /\ opened \subseteq Virts /\ UNCHANGED <<unit, opened, out>>
    BY DEF switch_to, IInv, TypeOK
<1> HIDE DEF c
<1> QED
    BY <1>1, <1>2, SwitchLoads, LoadInv DEF c

LEMMA CloseInv ==
    ASSUME IInv, NEW v \in Virts, cx_close(v)
    PROVE  IInv'
<1>1. TypeOK' /\ \A w \in Virts : w # v => saved'[w] = saved[w]
    BY ZeroInWord DEF IInv, TypeOK, cx_close
<1>2. \A t \in States : resident'[t] # None =>
          /\ resident'[t] = resident[t]
          /\ resident[t] # v
          /\ resident[t] \in Virts
    BY DEF cx_close, IInv, TypeOK
<1>3. LoadedOnce' /\ CleanMatchesSaved'
    BY <1>1, <1>2 DEF IInv, LoadedOnce, CleanMatchesSaved, cx_close
<1> QED
    BY <1>1, <1>3 DEF IInv

LEMMA ComputeInv ==
    ASSUME Marking, IInv, NEW s \in States, NEW cf \in Funcs,
           NEW a \in Operands, NEW b \in Operands, Compute(s, cf, a, b)
    PROVE  IInv'
<1> DEFINE f == func(cf, hw[s], a, b)
<1> DEFINE n == hw[s].data
<1>1. /\ f.ret \in Word
      /\ f.ctx \in Context
      /\ f.ctx.dc = CX_DIRTY \/ f.ctx = hw[s]
    <2>1. hw[s] \in Context /\ n \in Word
        BY DEF IInv, TypeOK, Context
    <2>2. \/ f = Outcome(mac_of(n, a, b), dirty(mac_of(n, a, b)))
          \/ f = Outcome(relu_of(n), dirty(relu_of(n)))
          \/ f = Outcome(0, hw[s])
        BY MarkingFuncs DEF IInv
    <2> QED
        BY <2>1, <2>2, ResultsAreWords, ZeroInWord DEF Outcome, dirty
<1>2. hw' = [hw EXCEPT ![s] = f.ctx] /\ out' = f.ret
    BY DEF Compute
<1> HIDE DEF f
<1>3. UNCHANGED <<unit, resident, saved, opened>> /\ resident[s] # None
    BY DEF Compute
<1>4. TypeOK'
    BY <1>1, <1>2, <1>3 DEF IInv, TypeOK
<1>5. \A t \in States : hw'[t] = IF t = s THEN f.ctx ELSE hw[t]
    BY <1>2 DEF IInv, TypeOK
<1>6. LoadedOnce'
    BY <1>1, <1>3, <1>5 DEF IInv, LoadedOnce
<1>7. CleanMatchesSaved'
    BY <1>1, <1>3, <1>5 DEF IInv, CleanMatchesSaved, CX_DIRTY, CX_CLEAN
<1> QED
    BY <1>4, <1>6, <1>7 DEF IInv

LEMMA ReadInv ==
    ASSUME IInv, NEW s \in States, CX_READ_STATE(s)
    PROVE  IInv'
<1>1. out' \in Word
    BY UnitFuncs DEF CX_READ_STATE, mulacc_read_state_func, IInv, TypeOK, Context
<1>2. UNCHANGED <<unit, hw, resident, saved, opened>>
    BY DEF CX_READ_STATE
<1> QED
    BY <1>1, <1>2 DEF IInv, TypeOK, LoadedOnce, CleanMatchesSaved

LEMMA InitInv == Init => IInv
BY ZeroInWord DEF Init, IInv, TypeOK, LoadedOnce, CleanMatchesSaved, off_context,
   NN!off_context, NN!CX_OFF, CX_OFF, Context, CX_CS

LEMMA StepInv ==
    ASSUME Marking, IInv, [Next]_vars
    PROVE  IInv'
<1>1. CASE UNCHANGED vars
    BY <1>1 DEF vars, IInv, TypeOK, LoadedOnce, CleanMatchesSaved
<1>2. CASE Next
    BY <1>2, OpenInv, SwitchInv, CloseInv, ComputeInv, ReadInv DEF Next
<1> QED
    BY <1>1, <1>2

-----------------------------------------------------------------------------
\* Where the accumulator of a context is.
ValuesFollow ==
    /\ \A s \in States : resident[s] # None => value(resident[s]) = hw[s].data
    /\ \A v \in Virts : ~loaded(v) => value(v) = saved[v]

LEMMA ValueIs == LoadedOnce => ValuesFollow
<1> SUFFICES ASSUME LoadedOnce PROVE ValuesFollow
    OBVIOUS
<1>1. ASSUME NEW s \in States, resident[s] # None
      PROVE  value(resident[s]) = hw[s].data
    <2> DEFINE t == CHOOSE t \in States : resident[t] = resident[s]
    <2>1. t \in States /\ resident[t] = resident[s]
        OBVIOUS
    <2>2. t = s
        BY <1>1, <2>1 DEF LoadedOnce
    <2>3. loaded(resident[s])
        BY DEF loaded
    <2> QED
        BY <2>2, <2>3 DEF value
<1> QED
    BY <1>1 DEF value, ValuesFollow

LEMMA ValueIsNext == LoadedOnce' => ValuesFollow'
BY ValueIs, PTL

\* A load changes the accumulator of no other open context.
LEMMA LoadValues ==
    ASSUME IInv, LoadedOnce', NEW v \in Virts, NEW s \in States, NEW c \in Context,
           ~loaded(v), load(v, s, c)
    PROVE  /\ value(v)' = c.data
           /\ \A w \in Virts : w # v => value(w)' = value(w)
<1>1. \A t \in States : /\ resident'[t] = IF t = s THEN v ELSE resident[t]
                        /\ hw'[t] = IF t = s THEN c ELSE hw[t]
    BY DEF IInv, TypeOK, load
<1>2. \A t \in States, w \in Virts : resident'[t] = w => value(w)' = hw'[t].data
    BY ValueIsNext, VirtAssumption DEF ValuesFollow
<1>3. \A t \in States, w \in Virts : resident[t] = w => value(w) = hw[t].data
    BY ValueIs, VirtAssumption DEF IInv, ValuesFollow
<1>4. value(v)' = c.data
    BY <1>1, <1>2
<1>5. ASSUME NEW w \in Virts, w # v PROVE value(w)' = value(w)
    <2>1. CASE \E t \in States : t # s /\ resident[t] = w
        BY <2>1, <1>1, <1>2, <1>3
    <2>2. CASE resident[s] = w
        <3>1. \A t \in States : resident'[t] # w
            BY <2>2, <1>1, <1>5, VirtAssumption DEF IInv, LoadedOnce
        <3>2. value(w)' = saved'[w]
            BY <3>1, ValueIsNext DEF loaded, ValuesFollow
        <3>3. hw[s].dc \in {CX_CLEAN, CX_DIRTY}
            BY <2>2, VirtAssumption DEF IInv, LoadedOnce
        <3>4. saved'[w] = hw[s].data
            BY <2>2, <3>3, SaveKeeps, VirtAssumption DEF IInv, load, CleanMatchesSaved
        <3> QED
            BY <2>2, <3>2, <3>4, <1>3
    <2>3. CASE ~loaded(w)
        <3>1. \A t \in States : resident[t] # w /\ resident'[t] # w
            BY <2>3, <1>1, <1>5 DEF loaded
        <3>2. value(w)' = saved'[w] /\ value(w) = saved[w]
            BY <3>1, ValueIs, ValueIsNext DEF loaded, IInv, ValuesFollow
        <3>3. saved'[w] = saved[w]
            BY <3>1, SaveKeeps DEF IInv, load
        <3> QED
            BY <3>2, <3>3
    <2> QED
        BY <2>1, <2>2, <2>3 DEF loaded
<1> QED
    BY <1>4, <1>5

\* The abstract state.
acc == [v \in opened |-> value(v)]

LEMMA OpenRefines ==
    ASSUME IInv, IInv', NEW v \in Virts, NEW s \in States, cx_open(v, s)
    PROVE  Private!AOpen(v)
<1> DEFINE c == [dc |-> CX_DIRTY, data |-> 0]
<1>1. c \in Context /\ c.data = 0
    BY ZeroInWord DEF Context, CX_CS
<1> HIDE DEF c
<1>2. value(v)' = 0 /\ \A w \in Virts : w # v => value(w)' = value(w)
    BY <1>1, OpenLoads, LoadValues DEF IInv, c
<1>3. opened' = opened \cup {v} /\ v \notin opened /\ opened \subseteq Virts /\ out' = out
    BY DEF cx_open, IInv, TypeOK
<1>4. acc' = [w \in opened \cup {v} |-> IF w = v THEN 0 ELSE acc[w]]
    BY <1>2, <1>3 DEF acc
<1> QED
    BY <1>3, <1>4 DEF Private!AOpen, Private!open, acc

LEMMA SwitchRefines ==
    ASSUME IInv, IInv', NEW v \in Virts, NEW s \in States, switch_to(v, s)
    PROVE  acc' = acc /\ out' = out
<1> DEFINE c == [dc |-> CX_CLEAN, data |-> saved[v]]
<1>1. c \in Context /\ c.data = saved[v]
    BY DEF IInv, TypeOK, Context, CX_CS
<1> HIDE DEF c
<1>2. value(v)' = saved[v] /\ \A w \in Virts : w # v => value(w)' = value(w)
    BY <1>1, SwitchLoads, LoadValues DEF IInv, c
<1>3. value(v) = saved[v]
    BY SwitchLoads, ValueIs DEF IInv, ValuesFollow
<1>4. opened' = opened /\ opened \subseteq Virts /\ out' = out
    BY DEF switch_to, IInv, TypeOK
<1> QED
    BY <1>2, <1>3, <1>4 DEF acc

LEMMA CloseRefines ==
    ASSUME IInv, IInv', NEW v \in Virts, cx_close(v)
    PROVE  Private!AClose(v)
<1>1. /\ v \in opened /\ opened' = opened \ {v} /\ opened \subseteq Virts
      /\ UNCHANGED <<hw, out>>
      /\ \A w \in Virts : w # v => saved'[w] = saved[w]
      /\ \A t \in States : resident'[t] = IF resident[t] = v THEN None ELSE resident[t]
    BY DEF cx_close, IInv, TypeOK
<1>2. ASSUME NEW w \in Virts, w # v PROVE value(w)' = value(w)
    <2>1. CASE loaded(w)
        <3>1. PICK t \in States : resident[t] = w
            BY <2>1 DEF loaded
        <3>2. resident'[t] = w
            BY <3>1, <1>1, <1>2
        <3>3. value(w) = hw[t].data
            BY <3>1, ValueIs, VirtAssumption DEF IInv, ValuesFollow
        <3>4. value(w)' = hw'[t].data
            BY <3>2, ValueIsNext, VirtAssumption DEF IInv, ValuesFollow
        <3> QED
            BY <3>3, <3>4, <1>1
    <2>2. CASE ~loaded(w)
        <3>1. ~loaded(w)'
            BY <2>2, <1>1, VirtAssumption DEF loaded
        <3> QED
            BY <1>2, <2>2, <3>1, <1>1, ValueIs, ValueIsNext DEF IInv, ValuesFollow
    <2> QED
        BY <2>1, <2>2
<1>3. acc' = [w \in opened \ {v} |-> acc[w]]
    BY <1>1, <1>2 DEF acc
<1> QED
    BY <1>1, <1>3 DEF Private!AClose, Private!open, acc

LEMMA UseValues ==
    ASSUME IInv, LoadedOnce', NEW s \in States, resident[s] # None, NEW c \in Context,
           hw' = [hw EXCEPT ![s] = c], UNCHANGED <<resident, saved, opened>>
    PROVE  /\ resident[s] \in opened
           /\ acc[resident[s]] = hw[s].data
           /\ acc' = [acc EXCEPT ![resident[s]] = c.data]
<1> DEFINE v == resident[s]
<1>1. v \in opened /\ opened \subseteq Virts
    BY DEF IInv, TypeOK, LoadedOnce
<1>2. value(v) = hw[s].data
    BY ValueIs DEF IInv, ValuesFollow
<1>3. value(v)' = c.data
    <2>1. hw'[s] = c
        BY DEF IInv, TypeOK
    <2> QED
        BY <2>1, ValueIsNext DEF ValuesFollow
<1>4. ASSUME NEW w \in Virts, w # v PROVE value(w)' = value(w)
    <2>1. CASE loaded(w)
        <3>1. PICK t \in States : resident[t] = w
            BY <2>1 DEF loaded
        <3>2. hw'[t] = hw[t]
            BY <3>1, <1>4 DEF IInv, TypeOK
        <3> QED
            BY <3>1, <3>2, ValueIs, ValueIsNext, VirtAssumption DEF IInv, ValuesFollow
    <2>2. CASE ~loaded(w)
        <3>1. ~loaded(w)'
            BY <2>2 DEF loaded
        <3> QED
            BY <2>2, <3>1, ValueIs, ValueIsNext DEF IInv, ValuesFollow
    <2> QED
        BY <2>1, <2>2
<1>5. acc' = [acc EXCEPT ![v] = c.data]
    BY <1>1, <1>3, <1>4 DEF acc
<1> QED
    BY <1>1, <1>2, <1>5 DEF acc

LEMMA ComputeRefines ==
    ASSUME Marking, IInv, IInv', NEW s \in States, NEW cf \in Funcs,
           NEW a \in Operands, NEW b \in Operands, Compute(s, cf, a, b)
    PROVE  \/ Private!Mac(resident[s], a, b)
           \/ Private!Relu(resident[s])
           \/ Private!Nothing(resident[s])
<1> DEFINE f == func(cf, hw[s], a, b)
           n == hw[s].data
           v == resident[s]
<1>1. hw[s] \in Context /\ n \in Word
    BY DEF IInv, TypeOK, Context
<1>2. v # None /\ UNCHANGED <<resident, saved, opened>>
      /\ hw' = [hw EXCEPT ![s] = f.ctx] /\ out' = f.ret
    BY DEF Compute
<1>3. \/ f = Outcome(mac_of(n, a, b), dirty(mac_of(n, a, b)))
      \/ f = Outcome(relu_of(n), dirty(relu_of(n)))
      \/ f = Outcome(0, hw[s])
    BY MarkingFuncs DEF IInv
<1> HIDE DEF f
<1>4. f.ctx \in Context
    BY <1>1, <1>3, ResultsAreWords DEF Outcome
<1>5. v \in opened /\ acc[v] = n /\ acc' = [acc EXCEPT ![v] = f.ctx.data]
    BY <1>2, <1>4, UseValues DEF IInv
<1>6. CASE f = Outcome(mac_of(n, a, b), dirty(mac_of(n, a, b)))
    <2>1. f.ret = mac_of(n, a, b) /\ f.ctx.data = mac_of(n, a, b)
        BY <1>6 DEF Outcome, dirty
    <2>2. Private!Mac(v, a, b)
        BY <1>2, <1>5, <2>1 DEF Private!Mac, Private!AUse, Private!open, Private!Wrap,
           mac_of, Wrap, acc
    <2> QED
        BY <2>2
<1>7. CASE f = Outcome(relu_of(n), dirty(relu_of(n)))
    <2>1. f.ret = relu_of(n) /\ f.ctx.data = relu_of(n)
        BY <1>7 DEF Outcome, dirty
    <2>2. Private!Relu(v)
        BY <1>2, <1>5, <2>1 DEF Private!Relu, Private!AUse, Private!open, relu_of, acc
    <2> QED
        BY <2>2
<1>8. CASE f = Outcome(0, hw[s])
    <2>1. f.ret = 0 /\ f.ctx.data = n
        BY <1>8 DEF Outcome
    <2>2. Private!Nothing(v)
        BY <1>2, <1>5, <2>1 DEF Private!Nothing, Private!AUse, Private!open, acc
    <2> QED
        BY <2>2
<1> QED
    BY <1>3, <1>6, <1>7, <1>8

LEMMA ReadRefines ==
    ASSUME IInv, IInv', NEW s \in States, CX_READ_STATE(s)
    PROVE  Private!Read(resident[s])
<1> DEFINE v == resident[s]
<1>1. /\ v # None /\ UNCHANGED <<hw, resident, saved, opened>>
      /\ out' = hw[s].data /\ hw[s] \in Context
      /\ hw' = [hw EXCEPT ![s] = hw[s]]
    BY UnitFuncs DEF CX_READ_STATE, mulacc_read_state_func, IInv, TypeOK
<1>2. v \in opened /\ acc[v] = hw[s].data /\ acc' = [acc EXCEPT ![v] = hw[s].data]
    BY <1>1, UseValues DEF IInv
<1> QED
    BY <1>1, <1>2 DEF Private!Read, Private!AUse, Private!open, acc

LEMMA StepRefines ==
    ASSUME Marking, IInv, IInv', [Next]_vars
    PROVE  [Private!ANext]_<<acc, out>>
<1>1. CASE UNCHANGED vars
    BY <1>1 DEF vars, acc, value, loaded
<1>2. CASE \E v \in Virts, s \in States : cx_open(v, s)
    BY <1>2, OpenRefines DEF Private!ANext
<1>3. CASE \E v \in Virts, s \in States : switch_to(v, s)
    BY <1>3, SwitchRefines
<1>4. CASE \E v \in Virts : cx_close(v)
    BY <1>4, CloseRefines DEF Private!ANext
<1>5. CASE \E s \in States, cf \in Funcs, a, b \in Operands : Compute(s, cf, a, b)
    <2> PICK s \in States, cf \in Funcs, a \in Operands, b \in Operands :
               Compute(s, cf, a, b)
        BY <1>5
    <2>1. resident[s] \in Virts
        BY DEF Compute, IInv, TypeOK
    <2> QED
        BY <2>1, ComputeRefines DEF Private!ANext
<1>6. CASE \E s \in States : CX_READ_STATE(s)
    <2> PICK s \in States : CX_READ_STATE(s)
        BY <1>6
    <2>1. resident[s] \in Virts
        BY DEF CX_READ_STATE, IInv, TypeOK
    <2> QED
        BY <2>1, ReadRefines DEF Private!ANext
<1> QED
    BY <1>1, <1>2, <1>3, <1>4, <1>5, <1>6 DEF Next

-----------------------------------------------------------------------------
\* A state that reports CLEAN may be dropped, and every loaded context is
\* loaded once: the two facts the kernel's lazy save rests on.
THEOREM CleanIsSaved ==
    ASSUME Marking
    PROVE  Spec => [](TypeOK /\ LoadedOnce /\ CleanMatchesSaved)
<1>1. IInv /\ [Next]_vars => IInv'
    BY StepInv
<1> QED
    BY <1>1, InitInv, PTL DEF Spec, IInv

\* The contexts, the kernel's copies and the results are words and status bits
\* of the CXU's whatever its functions leave.
THEOREM TypeCorrect ==
    ASSUME Marking
    PROVE  Spec => []TypeOK
BY CleanIsSaved, PTL

\* Only open contexts are loaded, none into two states, and a loaded one is
\* CLEAN or DIRTY.
THEOREM OneStateEach ==
    ASSUME Marking
    PROVE  Spec => []LoadedOnce
BY CleanIsSaved, PTL

\* Sharing the states and saving lazily are invisible: the contexts of CxVirt
\* compute what private accumulators would.
THEOREM VirtImplementsPrivate ==
    ASSUME Marking
    PROVE  Spec => ImplementsPrivate
<1>1. IInv /\ [Next]_vars => IInv'
    BY StepInv
<1>2. IInv /\ IInv' /\ [Next]_vars => [Private!ANext]_<<acc, out>>
    BY StepRefines
<1>3. Init => Private!AInit
    BY DEF Init, Private!AInit
<1> QED
    BY <1>1, <1>2, <1>3, InitInv, PTL DEF Spec, ImplementsPrivate, Private!ASpec,
       Private!avars, acc
=============================================================================
