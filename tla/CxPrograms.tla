----------------------------- MODULE CxPrograms -----------------------------
(***************************************************************************)
(* The programs of examples/ on the kernel of CxKernel: what their main    *)
(* functions do is a sequence of calls, run by threads of one process that *)
(* interleave on one hart.  A call is an instruction of a thread: the      *)
(* system calls, the write of the selector register, a custom function     *)
(* (which may trap and run again), pthread_create and pthread_join, and    *)
(* the assert that follows a call.  The status words intra_virt.c and      *)
(* state_test.c read and do not look at are left out.                      *)
(*                                                                         *)
(* CxKernel is the kernel's part for the mulacc; a stateless CX has no     *)
(* state to hand out, its openings are only counted (cx_os_state_t).       *)
(***************************************************************************)
EXTENDS CxKernel, Scalar, SequencesExt

CONSTANTS p,          \* the process
          main,       \* its first thread
          addsub,     \* two stateless CXs
          muldiv,
          N,          \* the threads multi_thread_1 and _2 create, 10 in the code
          Files       \* the example files run, each on its own

ASSUME ProgramAssumption == /\ p \in Procs
                            /\ N \in Nat
                            /\ main \notin 1 .. N
                            /\ addsub # muldiv
                            /\ {addsub, muldiv} \cap Virts = {}
                            /\ 0 \in MacFuncs
                            /\ {2, 3, 5} \cup 0 .. N - 1 \subseteq Operands
                            /\ Files \subseteq {"cx_open.c", "intra_virt.c", "state.c",
                                   "state_test.c", "stateless.c", "example.c",
                                   "threaded_test.c"}
                            /\ Index = 1 .. Cardinality(Index)

Threads == {main} \cup 1 .. N
Stateless == {addsub, muldiv}

VARIABLES code,       \* what each thread runs
          pc,         \* its next instruction
          sel,        \* CX_INDEX of each thread, None for CX_LEGACY
          var,        \* the selectors the program keeps, None for -1
          uses,       \* cx_os_state_t.counter of the stateless CXs
          cxs,        \* CX_STATUS, the flags raised
          res,        \* the global the main thread sums in
          scalar_sum, \* what multi_thread_2 compares it with
          failed,     \* an assert did not hold
          misread     \* nor one that takes a selector's index for its word

stateless == <<uses, cxs>>
sums == <<res, scalar_sum>>
asserts == <<failed, misread>>
pvars == <<code, pc, sel, var, sums, asserts, stateless>>
-----------------------------------------------------------------------------
(* The instructions.  r is the result an assert asks for, r = {} for none. *)
Open(x, type)      == [op |-> "open", x |-> x, type |-> type, ok |-> TRUE]
OpenFull(x, type)  == [op |-> "open", x |-> x, type |-> type, ok |-> FALSE]
OpenUnknown(x)     == [op |-> "open_unknown", x |-> x]
Place(x, at)       == [op |-> "place", x |-> x, at |-> at]
OpenCx(x, cx)      == [op |-> "open_cx", x |-> x, cx |-> cx]
Close(x)           == [op |-> "close", x |-> x]
Sel(x)             == [op |-> "sel", x |-> x]
SelLegacy          == [op |-> "legacy"]
SelWord(x)         == [op |-> "word", of |-> "MCX_SELECTOR", x |-> x]
SameId(x, y)       == [op |-> "word", of |-> "GET_CX_ID", x |-> x, y |-> y]
SameState(x, y, r) == [op |-> "word", of |-> "GET_CX_STATE", x |-> x, y |-> y, r |-> r]
SameSel(x, y, r)   == [op |-> "same_sel", x |-> x, y |-> y, r |-> r]
Fn(cf, a, b, r)    == [op |-> "fn", cf |-> cf, a |-> a, b |-> b, r |-> {r}]
Printed(cf, a, b)  == [op |-> "fn", cf |-> cf, a |-> a, b |-> b, r |-> {}]
Clear              == [op |-> "error_clear"]
NoError            == [op |-> "error_test"]
Mac(a, b, r)       == [op |-> "mac", a |-> a, b |-> b, r |-> {r}]
Work(a, b)         == [op |-> "mac", a |-> a, b |-> b, r |-> {}]
Read(r)            == [op |-> "read", r |-> r]
Add                == [op |-> "add"]
Square(a)          == [op |-> "square", a |-> a]
Total(n)           == [op |-> "total", n |-> n]
Create(t, body)    == [op |-> "create", t |-> t, body |-> body]
Join(t)            == [op |-> "join", t |-> t]

LEGACY == "legacy"    \* cx_sel( CX_LEGACY )

NO == CX_NO_VIRT
INTRA == CX_INTRA_VIRT
Opens(xs, type) == [i \in 1 .. Len(xs) |-> Open(xs[i], type)]
Closes(xs) == [i \in 1 .. Len(xs) |-> Close(xs[i])]
AB == <<"A", "B">>
ABCD == <<"A", "B", "C", "D">>
-----------------------------------------------------------------------------
(* examples/cx_open.c, a = 5 and b = 3; main leaves the other five out *)
exclusive_open_3 ==
    Opens(AB, NO) \o <<OpenFull("C", NO), Sel("A"), Mac(5, 5, 25), Sel("B"),
        Mac(3, 3, 9), Sel("A"), Mac(5, 3, 40), Sel("B"), Mac(5, 3, 24)>> \o Closes(AB)

(* examples/intra_virt.c, a = 5, b = 3 and c = 2 *)
intra_open_1 == Opens(AB, INTRA) \o Closes(AB)
intra_open_2 == Opens(ABCD, INTRA) \o Closes(ABCD)
intra_open_3 ==
    <<Open("A", NO)>> \o Opens(<<"B", "C", "D">>, INTRA) \o <<SameId("A", "B"),
        SameId("B", "C"), SameId("C", "D"), Sel("B"), Mac(5, 5, 25), Sel("C"),
        Mac(3, 3, 9), Sel("D"), Mac(5, 3, 15), Sel("B"), Mac(3, 3, 34), Sel("C"),
        Mac(3, 3, 18), Sel("D"), Mac(3, 5, 30), Sel("B"), Mac(3, 3, 43)>>
    \o Closes(ABCD)
intra_open_4 ==
    <<Open("A", NO), Open("B", INTRA), Sel("A"), Mac(5, 5, 25), Open("C", INTRA),
      Sel("C"), Read(0)>> \o Closes(<<"A", "B", "C">>)
intra_open_5 ==
    <<Open("A", NO), Open("B", INTRA), Sel("B"), Mac(5, 5, 25), Open("C", INTRA),
      Read(25), SelWord("B"), Mac(5, 3, 40), Sel("C"), Read(0), Mac(5, 3, 15)>>
    \o Closes(<<"A", "B", "C">>) \o <<Sel(LEGACY)>>
intra_open_6 ==
    <<Open("A", INTRA), Place("B", "A"), Open("C", INTRA), Place("D", "C")>> \o
    <<SameId("A", "B"), SameId("B", "C"), SameId("C", "D"),
      SameState("A", "B", TRUE), SameState("B", "C", FALSE), SameState("C", "D", TRUE)>> \o
    <<Sel("A"), Mac(5, 5, 25), Sel("B"), Mac(5, 3, 15), Sel("A"), Mac(2, 2, 29),
      Sel("C"), Mac(5, 2, 10), Sel("D"), Mac(3, 2, 6), Sel("C"), Mac(2, 2, 14),
      Mac(5, 5, 39), Sel("A"), Mac(3, 3, 38), Sel("C"), Mac(5, 5, 64), Sel("B"),
      Mac(3, 3, 24)>> \o Closes(ABCD) \o <<Sel(LEGACY)>>

(* examples/state.c and state_test.c, a = 3 and b = 5; state.c prints results. *)
(* The guid of the last open of state_test.c is -1.                            *)
state ==
    Opens(AB, NO) \o
    <<Clear, Sel("A"), Work(3, 3), NoError, Clear, Sel("B"), Work(5, 5), NoError,
      Clear, Sel("A"), Work(3, 3), NoError, Clear, Sel("B"), Work(3, 5), NoError>>
    \o Closes(AB) \o <<Sel(LEGACY)>>
state_test ==
    <<SelLegacy, NoError, Open("A", NO), SelLegacy, Clear, Sel("A"), SelWord("A"),
      Mac(3, 5, 15), NoError, Close("A")>> \o Opens(AB, NO) \o
    <<Clear, Sel("A"), SelWord("A"), Mac(3, 3, 9), NoError, Clear, Sel("B"),
      SelWord("B"), Mac(5, 5, 25), NoError, Close("A"), Open("T", NO), Close("T"),
      Open("T", NO), Close("T"), Open("T", NO), Close("T"), Close("B"),
      OpenUnknown("T"), Sel(LEGACY)>>

(* examples/threaded_test.c, a = 5.  The threads inherit the selector of main *)
(* (multi_thread_1) or select a context each (multi_thread_2).                *)
ForThreads(Instr(_)) == [t \in 1 .. N |-> Instr(t)]
JoinAll == ForThreads(Join)
cx_mac_thread_1 == <<Work(5, 5)>>
sels(t) == "sels" \o ToString(t)
cx_mac_thread_2(t) == <<Sel(sels(t))>> \o [i \in 1 .. N |-> Work(t - 1, t - 1)]

multi_thread_1 ==
    LET worker(t) == Create(t, cx_mac_thread_1)
    IN  <<Open("A", INTRA), Open("B", NO), Sel("B")>> \o ForThreads(worker) \o JoinAll
        \o <<Read(N * 5 * 5)>> \o Closes(AB)
multi_thread_2 ==
    LET opens(t) == Open(sels(t), INTRA)
        worker(t) == Create(t, cx_mac_thread_2(t))
        sum == [i \in 1 .. 2 * N |-> IF i % 2 = 1 THEN Sel(sels((i + 1) \div 2)) ELSE Add]
        squares(t) == Square(t - 1)
        closes(t) == Close(sels(t))
    IN  <<Open("A", NO)>> \o ForThreads(opens) \o ForThreads(worker) \o JoinAll
        \o sum \o ForThreads(squares) \o <<Total(N)>> \o ForThreads(closes)
        \o <<Close("A")>>

(* examples/stateless.c and example.c, a = 3 and b = 5; the functions are add *)
(* (0), sub (2) and add_1000 (4) of addsub and mul (0) of muldiv.             *)
test ==
    <<OpenCx("M", muldiv), OpenCx("A", addsub), SameSel("A", "M", FALSE),
      OpenCx("A0", addsub), SameSel("A0", "A", TRUE), Sel("A"), Fn(0, 3, 5, 8), Sel("M"),
      Fn(0, 3, 5, 15), Sel("A"), Fn(0, 3, 3, 6), Sel("A0"), Fn(0, 5, 5, 10)>>
    \o Closes(<<"A0", "A", "M">>) \o <<Sel(LEGACY)>>
my_cx_test ==
    <<OpenCx("A", addsub), OpenCx("B", muldiv)>> \o
    <<Clear, Sel("A"), Printed(0, 3, 5), NoError,
      Clear, Sel("B"), Printed(0, 3, 5), NoError, Clear, Sel("A"), Printed(2, 3, 5),
      Printed(4, 3, 5), NoError>> \o Closes(<<"B", "A">>) \o <<Sel(LEGACY)>>

program(file) ==
    CASE file = "cx_open.c" -> exclusive_open_3
      [] file = "intra_virt.c" -> intra_open_1 \o intra_open_2 \o intra_open_3
                                  \o intra_open_4 \o intra_open_5 \o intra_open_6
      [] file = "state.c" -> <<Sel(LEGACY)>> \o state
      [] file = "state_test.c" -> <<Sel(LEGACY)>> \o state_test
      [] file = "stateless.c" -> test
      [] file = "example.c" -> <<Sel(LEGACY)>> \o my_cx_test
      [] file = "threaded_test.c" -> multi_thread_1 \o multi_thread_2
-----------------------------------------------------------------------------
\* The names of the selectors main keeps.
Labels == {"A", "A0", "B", "C", "D", "M", "T"}
Names == Labels \cup {sels(t) : t \in 1 .. N}

ASSUME NamesAssumption == /\ \A t \in 1 .. N : sels(t) \notin Labels \cup {LEGACY}
                          /\ \A t, u \in 1 .. N : sels(t) = sels(u) => t = u

\* The sizes the examples are written for: the CXU has the mulacc's states, and
\* the sums they form are values of an int32_t.
Sized == /\ NumStates = CX_MULACC_NUM_STATES
         /\ 1026 < Half
         /\ 25 * N < Half
         /\ N * N * N * N < Half

PInit == /\ KInit
         /\ unit = "mulacc"
         /\ \E file \in Files :
               code = [t \in Threads |-> IF t = main THEN program(file) ELSE << >>]
         /\ pc = [t \in Threads |-> 1]
         /\ sel = [t \in Threads |-> None]
         /\ var = [x \in Names |-> None]
         /\ res = 0
         /\ scalar_sum = 0
         /\ uses = [c \in Stateless |-> 0]
         /\ cxs = {}
         /\ failed = FALSE
         /\ misread = FALSE

ended(t) == pc[t] > Len(code[t])
next(t) == code[t][pc[t]]
runs(t, op) == ~ended(t) /\ next(t).op = op

\* A free entry of the selector table.  Which one is the kernel's choice and no
\* example looks at it; here it is the lowest.
new_entry(v) == /\ v \in {p} \X Index
                /\ v \notin opened
                /\ \A i \in Index : i < v[2] => <<p, i>> \in opened
selector(x) == IF x = LEGACY THEN None ELSE var[x]

advance(t) == pc' = [pc EXCEPT ![t] = @ + 1]
assert(holds) == failed' = (failed \/ ~holds)
expected(i, r) == i.r # {} => r \in i.r

open(t) ==
    /\ runs(t, "open")
    /\ \E v \in Virts :
          /\ new_entry(v)
          /\ LET i == next(t)
             IN  \/ /\ \/ OpenFree(v, i.type)
                       \/ \E s \in States : OpenShared(v, i.type, s)
                    /\ var' = [var EXCEPT ![i.x] = v]
                    /\ assert(i.ok)
                 \/ /\ OpenFails(v, i.type)
                    /\ var' = [var EXCEPT ![i.x] = None]
                    /\ assert(~i.ok)
    /\ advance(t)
    /\ UNCHANGED <<code, sel, sums, misread, stateless>>

\* No CX has the guid asked for.
open_unknown(t) ==
    /\ runs(t, "open_unknown")
    /\ var' = [var EXCEPT ![next(t).x] = None]
    /\ assert(var'[next(t).x] = None)
    /\ advance(t)
    /\ UNCHANGED <<vars, kvars, code, sel, sums, misread, stateless>>

place(t) ==
    /\ runs(t, "place")
    /\ \E v \in Virts : /\ new_entry(v)
                        /\ OpenPlaced(v, var[next(t).at])
                        /\ var' = [var EXCEPT ![next(t).x] = v]
    /\ advance(t)
    /\ UNCHANGED <<code, sel, sums, asserts, stateless>>

close(t) ==
    /\ runs(t, "close")
    /\ var[next(t).x] \in Virts
    /\ sys_cx_close(var[next(t).x])
    /\ advance(t)
    /\ UNCHANGED <<code, sel, var, sums, asserts, stateless>>

\* All openings of a stateless CX share one selector, which stays valid until
\* the last of them is closed.
open_cx(t) ==
    /\ runs(t, "open_cx")
    /\ var' = [var EXCEPT ![next(t).x] = next(t).cx]
    /\ uses' = [uses EXCEPT ![next(t).cx] = @ + 1]
    /\ advance(t)
    /\ UNCHANGED <<vars, kvars, code, sel, sums, asserts, cxs>>

close_cx(t) ==
    /\ runs(t, "close")
    /\ var[next(t).x] \in Stateless
    /\ uses' = [uses EXCEPT ![var[next(t).x]] = @ - 1]
    /\ advance(t)
    /\ UNCHANGED <<vars, kvars, code, sel, var, sums, asserts, cxs>>

fn(t) ==
    /\ runs(t, "fn")
    /\ uses[sel[t]] > 0
    /\ LET i == next(t)
           r == IF sel[t] = addsub THEN cx_func_addsub(i.cf, i.a, i.b)
                                   ELSE cx_func_muldiv(i.cf, i.a, i.b)
       IN  /\ assert(expected(i, value_of(r)))
           /\ cxs' = cxs \cup flags_of(r)
    /\ advance(t)
    /\ UNCHANGED <<vars, kvars, code, sel, var, sums, misread, uses>>

error_clear(t) ==
    /\ runs(t, "error_clear")
    /\ cxs' = {}
    /\ advance(t)
    /\ UNCHANGED <<vars, kvars, code, sel, var, sums, asserts, uses>>

select(t) ==
    /\ runs(t, "sel")
    /\ sel' = [sel EXCEPT ![t] = selector(next(t).x)]
    /\ advance(t)
    /\ UNCHANGED <<vars, kvars, code, var, sums, asserts, stateless>>

uses_context(t) == runs(t, "mac") \/ runs(t, "read") \/ runs(t, "add")

\* The selected context is not in the CXU: the instruction will run again.
first_use(t) ==
    /\ uses_context(t)
    /\ trap(sel[t])
    /\ UNCHANGED pvars

mac(t) ==
    /\ runs(t, "mac")
    /\ execute(sel[t], 0, next(t).a, next(t).b)
    /\ assert(expected(next(t), out'))
    /\ advance(t)
    /\ UNCHANGED <<code, sel, var, sums, misread, stateless>>

read(t) ==
    /\ runs(t, "read") \/ runs(t, "add")
    /\ read_state(sel[t])
    /\ IF next(t).op = "add" THEN res' = res + out' /\ UNCHANGED failed
                             ELSE res' = res /\ assert(out' = next(t).r)
    /\ advance(t)
    /\ UNCHANGED <<code, sel, var, scalar_sum, misread, stateless>>

\* The same sum in C.
square(t) ==
    /\ runs(t, "square")
    /\ scalar_sum' = scalar_sum + next(t).a * next(t).a
    /\ advance(t)
    /\ UNCHANGED <<vars, kvars, code, sel, var, res, asserts, stateless>>

\* MCX_SELECTOR, the decoded word of the entry that is selected; the mulacc's
\* cx_id is 2 (ci_m.c:82).
mcx_selector(t) == IF sel[t] = None THEN CX_LEGACY
                                    ELSE cx_selidx(2, home[sel[t]], MCX_VERSION)
index(x) == var[x][2]

\* The asserts on selectors, flags and the sum.
check(t) ==
    /\ \/ runs(t, "legacy") /\ assert(mcx_selector(t) = CX_LEGACY)
       \/ /\ runs(t, "same_sel")
          /\ assert((var[next(t).x] = var[next(t).y]) = next(t).r)
       \/ runs(t, "error_test") /\ assert(cxs = {})
       \/ runs(t, "total") /\ assert(res = next(t).n * scalar_sum)
    /\ advance(t)
    /\ UNCHANGED <<vars, kvars, code, sel, var, sums, misread, stateless>>

\* The asserts that compare MCX_SELECTOR with what cx_open returned, or look for a
\* cx_id and a state_id in it: it is an index into the selector table (ci.h:19-20).
check_word(t) ==
    /\ runs(t, "word")
    /\ LET i == next(t)
           holds == CASE i.of = "MCX_SELECTOR" -> mcx_selector(t) = index(i.x)
                      [] i.of = "GET_CX_ID" -> GET_CX_ID(index(i.x)) = GET_CX_ID(index(i.y))
                      [] i.of = "GET_CX_STATE" ->
                            (GET_CX_STATE(index(i.x)) = GET_CX_STATE(index(i.y))) = i.r
       IN  misread' = (misread \/ ~holds)
    /\ advance(t)
    /\ UNCHANGED <<vars, kvars, code, sel, var, sums, failed, stateless>>

\* A new thread starts with the selector of the one that creates it.
create(t) ==
    /\ runs(t, "create")
    /\ LET new == next(t).t
       IN  /\ code' = [code EXCEPT ![new] = next(t).body]
           /\ pc' = [pc EXCEPT ![t] = @ + 1, ![new] = 1]
           /\ sel' = [sel EXCEPT ![new] = sel[t]]
    /\ UNCHANGED <<vars, kvars, var, sums, asserts, stateless>>

join(t) ==
    /\ runs(t, "join")
    /\ ended(next(t).t)
    /\ advance(t)
    /\ UNCHANGED <<vars, kvars, code, sel, var, sums, asserts, stateless>>

instruction(t) == open(t) \/ place(t) \/ close(t) \/ select(t) \/ mac(t) \/ read(t)
                  \/ open_cx(t) \/ close_cx(t) \/ fn(t) \/ error_clear(t)
                  \/ square(t) \/ check(t) \/ create(t) \/ join(t)
                  \/ open_unknown(t) \/ check_word(t)

finished == (\A t \in Threads : ended(t)) /\ UNCHANGED <<vars, kvars, pvars>>

PNext == \/ \E t \in Threads : instruction(t) \/ first_use(t)
         \/ finished

\* Every thread gets the hart again and again (WF), and once more often than its
\* context is taken from under it between the trap and the instruction (SF).
Fairness == \A t \in Threads :
                /\ WF_<<vars, kvars, pvars>>(instruction(t) \/ first_use(t))
                /\ SF_<<vars, kvars, pvars>>(instruction(t))

PSpec == PInit /\ [][PNext]_<<vars, kvars, pvars>> /\ Fairness
-----------------------------------------------------------------------------
\* Every assert of the examples, but those that take the index cx_open returns for
\* the selector's word (check_word), holds, whichever state the kernel shares, in
\* every interleaving of the threads and their traps.
AssertsHold == ~failed

\* Every program comes to its end: no join waits for ever and no thread traps
\* for ever on a state that other threads keep taking from it.
Terminates == <>[](\A t \in Threads : ended(t))

\* A program that closed what it opened leaves the kernel as it found it: every
\* state in the pool, no counter and no selector left behind.
LeavesNothing ==
    (\A t \in Threads : ended(t)) =>
        /\ opened = {}
        /\ ToSet(pool) = States
        /\ \A s \in States : counter[s] = 0 /\ resident[s] = None
        /\ \A c \in Stateless : uses[c] = 0
=============================================================================
