# TLA+ models of cx_runtime

`cx_runtime` hands *composable extensions* (CXs) to programs: a CX is a unit
(CXU) that executes custom instructions, possibly with a state per context.
This directory models its runtime, its free-state pool and its stateful CXUs,
checks them with TLC and proves the main results with TLAPS.

Line numbers refer to the repository; paths are relative to its root.

## The system

| part | state | operations | interacts with |
|---|---|---|---|
| machine-mode runtime, `src/ci_m.c` | `cx_map` (per CX: guid, number of states, which are available, a counter each), CSR `MCX_SELECTOR`, CSR `CX_STATUS` | `cx_init`, `cx_open`, `cx_close`, `cx_sel`, `cx_error_read`, `cx_error_clear` | the CXUs, by system functions 1020-1023 (`CX_READ_STATUS`, `CX_WRITE_STATUS`, `CX_WRITE_STATE`) |
| user-mode runtime, `src/ci.c` | none | system calls 471 and 472, two CSR accesses | the kernel |
| free-state pool, `src/queue.c` | a ring: `arr`, `front`, `rear`, `size` | `make_queue`, `enqueue`, `dequeue`, `front` | the kernel (`include/cx_kern_structs.h`) |
| words, `include/utils.h` | none | the selector, context status and CX status words; return sentinels | everything |
| mulacc, `zoo/mulacc` | per context: status word, one accumulator | five custom functions, four system functions | runtime, kernel, programs |
| nn_acc, `zoo/nn_acc` | the same | three custom functions, four system functions | the same |
| vector, `zoo/vector` | per context: status word, 4 registers of 32 words | four custom functions, four system functions | the same |
| p-ext, `zoo/p-ext` | none | six packed operations | programs |
| addsub, muldiv, max | none | one-line functions | programs |
| dispatch, `zoo/exports.c` | tables of functions, their sizes | `cx_init_funcs` | the emulator, which calls CXU functions through the tables and turns sentinels into `CX_STATUS` flags |
| kernel structures, `include/cx_kern_structs.h` | per CX: the pool of free ids, share type, process and counter of each state; per process: a table of selectors | declared here, kept by the kernel | pool, CXUs, programs |
| operating system, emulator | (git submodules, outside the repository) | context open, close, switch, save, restore, first-use trap | known from how `tests/`, `examples/` and the headers use them |
| example programs, `examples/` | the selectors they keep, a sum | sequences of calls with asserts, one or several threads | kernel, CXUs |

### What is hard here

* **Shared selector and shared states.** Several parts of a program, or several
  processes, open, close and reopen contexts of the same few states in any order,
  while `cx_open` itself moves `MCX_SELECTOR` to talk to the CXU.
* **Early returns.** `cx_open` leaves at five places; the selector and the
  availability table have to be right at each of them.
* **The dirty protocol.** A context switch saves a context only if its CXU reports
  it DIRTY. A function that forgets to say so loses data, several steps later.
* **Word-by-word moves.** A vector context moves one word per instruction.
* **Boundaries.** A full or empty ring, wrap-around, overflow of lanes and
  accumulators, ids cut to eight bits, zero guids.
* **Threads and traps.** Threads share a selector or take contexts of one state
  from each other; a trap may come between any two instructions of any of them.
* **Programs that misuse a selector.** `ci_m.c` checks nothing: a selector can be
  closed twice, or used after its close, and the damage must at least stay local.
* **Reserved results.** A CXU's result can equal a sentinel and turn into a flag.

There is one hart and neither a lock nor a trap handler in the repository's C
files, so a call of the runtime, a CXU function or a kernel step does not overlap
another one. What interleaves is the calls themselves, the instructions of threads
with the kernel's traps, and, for vector contexts, the single words of a save or a
restore. Nothing is persisted and nothing is sent: there is no
crash recovery and no unreliable delivery to model.

### What makes each part correct

* pool: it is a bounded FIFO; size, front and rear agree.
* runtime: a context has one holder; a state is unavailable exactly while held; a
  holder's context changes by its own calls only; a search that fails means
  everything is held; the caller's selection survives an open; a fresh context
  does not show what the last holder left.
* accumulators and vector: a CLEAN context equals its saved copy; contexts that
  take turns on the states compute what private units would.
* p-ext: no lane reaches another one.
* dispatch: what the tables name and the arrays hold agree, so that nothing but a
  function of the CX runs without a flag; a result is exact or flagged.
* kernel: a state id is in the pool once or in use, however contexts share, spill
  and close, and each context keeps its own data.
* programs: their asserts on results, opens, flags and sums hold in every
  interleaving, they end, and leave nothing.

## Modules

| module | models | notes |
|---|---|---|
| `CxWords` | `include/utils.h`: selector and status words, `GET_BITS` readers | words are integers, fields their real positions and widths |
| `CxFlags` | `include/utils.h`: return sentinels, the flags of `cx_status_t` | the 32 bits a CU sentinel can set are one flag |
| `CxFifo` | what `include/queue.h` promises | abstract specification |
| `CxQueue` | `src/queue.c` | refines `CxFifo` |
| `Mulacc`, `NnAcc` | `zoo/mulacc/mulacc_func.c`, `zoo/nn_acc/nn_acc_func.c` | operators on one context: `[dc, data]` |
| `Vector` | `zoo/vector/vector_func.c` | operators on one context: `[dc, regs]` |
| `Scalar` | `zoo/addsub`, `zoo/muldiv`, `zoo/max` | operators on words |
| `PExt` | `zoo/p-ext/p-ext_func.c` | operators on words of any length divisible by four; the masks are arithmetic on powers of two |
| `CxMachine` | `src/ci_m.c` with `Mulacc` contexts behind it | any board, callers that keep to the interface |
| `CxMisuse` | the same runtime under callers that do not | adds two actions to `CxMachine` |
| `CxPrivate` | what virtualised contexts promise | abstract specification |
| `CxVirt` | virtual contexts on the states of `Mulacc` or `NnAcc`: what the kernel does to the CXU | refines `CxPrivate` |
| `CxKernel` | the kernel behind `include/cx_kern_structs.h` (external): pool, share types, counters, selector tables of several processes | refines `CxVirt`, with `CxFifo` as its pool |
| `CxPrograms` | `examples/` on `CxKernel`, threads included | fairness and liveness |
| `CxVector` | virtual contexts on the states of `Vector`, moved word by word | |
| `CxDispatch` | `zoo/exports.c`, the `CX_*` macros and `CX_STATUS`, over every scalar, packed and accumulator CXU | |
| `MulaccProofs` | | lemmas on words and contexts |
| `CxQueueProofs`, `CxMachineProofs` (with `CxMisuse`), `CxVirtProofs`, `CxKernelProofs`, `CxVectorProofs`, `CxDispatchProofs`, `CxProgramsProofs` | | theorems |
| `MC*` | | constants for TLC |

Operators that start with a comment `Fault` are wrong versions of the operator
that follows them. Nothing uses them; they stand for the mistakes the properties
are there to catch, and each property is known to fail when its operator is
replaced by one of them.

How they build on each other: `CxFifo <- CxQueue`; `CxPrivate <- CxVirt <- CxKernel
<- CxPrograms`; `CxMachine <- CxMisuse`; `CxDispatch` composes the function modules.

### `CxMachine`, `CxMisuse` and `ci_m.c`

`avail_state_ids` and `counter` are the two arrays of `cx_map` flattened over
`Contexts`, the pairs of CX id and state id; `mcx_selector` is the CSR, `cxu` what
the CXUs hold. `handle`, `own` and `ret` belong to the callers: the selector each
of them keeps, the context as its own calls leave it, the last value `cx_open`
returned. `cx_open` is one action with a disjunct per way out of the function:
unknown guid (115), stateless (119), no free state (128), state too large (139,
which returns with the new context still selected) and success (143-157).
`cx_close` ignores a bad id or a stateless CX and otherwise frees the state and
decrements the counter. A caller selects what it holds, or `CX_LEGACY`, and runs
custom functions while its context is selected.

The runtime does not enforce that discipline. In `CxMisuse` a caller also closes a
selector again that it closed before (`CloseAgain`) and runs functions on whatever
is selected: its own closed context, another caller's, or the one a refused open
left there (`RunSelected`). Two histories say which held contexts such steps
reached, until their holders have closed them: `freed` those that a stale close
freed, `harmed` those and the ones a stranger's function ran on. Who holds a context
and whether it is marked can only go wrong for a freed one; what is in it can for a
harmed one. So a function that runs on the context a refused open left selected
(`ci_m.c:140`) counts as harm, like any other function of a stranger: no property
asks the code to deselect there.

`state_info.share` is left out: it is -1 from `cx_init` on. `CX_INITIAL` and
`GET_CX_INITIALIZER` are used in `ci_m.c` and defined nowhere, so the file does
not compile as it is. In the model the first is a parameter, any status value; the
second is membership in `SwInit`, the CXUs that ask software to initialise them.

### `CxVirt`, `CxVector` and `CxKernel`: the kernel

The kernel sits in a submodule that is not part of the repository. Its actions are
external and contain only what the repository relies on: `cx_open` writes PRECLEAN
and gets a DIRTY, reset context (`tests/virtualization.c:34-36`); a switch saves a
context only when it reads DIRTY (`tests/testbench.c:22-25`) and hands a restored
one back CLEAN (`tests/ctx_test.c:89-93`). The CXU side of every step is the
translated code. `CxVirt` moves a context in one step because it is one word;
`CxVector` has a step per word, between which contexts in other states compute.

`CxKernel` adds the structures of `cx_kern_structs.h`. `pool` is `avail_state_ids`,
a queue (its promise `CxFifo` is the kernel's view of `queue.c`); `share`, `pid` and
`counter` are `cx_state_info_t`; `home` is the state a selector's table entry names.
An open takes a free id (`OpenFree`). With none left (`OpenShared`, `may_share`), an
INTRA_VIRT open is given a state its process claimed and spills what the state holds,
an exclusive context too (`tests/testbench.c:307-328`, `380-402`); an INTER_VIRT open
is given a shared state on which its process has no context
(`tests/virt_types.c:165-176`); a NO_VIRT open fails (`testbench.c:299-306`). A third
argument that names an open INTRA_VIRT selector places the context on that state
(`OpenPlaced`, `examples/intra_virt.c:139-150`). `trap` is the first use of a context
that is not in the CXU (`docs/todo_list`, `tests/syscall_test.c:85`). No code of the
repository keeps `share`, `pid` and `counter`: they are the kernel's, external in the
map, and no property is about them alone. `PoolExact` is about the pool that
`queue.c` implements, `ImplementsPrivate` about what the CXU's functions leave.

### `CxPrograms` and `examples/`

Each `main` is a sequence of instructions: system calls, writes of the selector
CSR, custom functions, `pthread_create`, `pthread_join`, and the asserts. `main` of
`cx_open.c` calls `exclusive_open_3` only (`cx_open.c:97-103`). A thread
runs its next instruction, or traps when its context is not in the CXU and then
runs it. Stateless CXs (`example.c`, `stateless.c`) hand out no state: their
openings share a selector and are counted (`uses`, the counter that
`cx_kern_structs.h:34,60` keeps for them); their results pass through the flags of
`CX_STATUS`, which `example.c` asserts to be clear. The last assert of
`multi_thread_2` compares two sums, both formed step by step in the model: `res`
by `read`, from the contexts of the threads, and `scalar_sum` by `square`.

`cx_sel` writes an index into `CX_INDEX` (`ci.h:39-41`) and `cx_open` returns one
(`ci.h:19-20`: "index (when there is a CX Table)"), which is `sel` and `var` here.
`MCX_SELECTOR` holds the word of the entry that is selected, with the cx_id in bits
0-7 and the state id in bits 16-23 (`tests/testbench.c:89-107`,
`tests/virt_types.c:108-128`): `mcx_selector`. The asserts on results, opens, flags
and sums, and those that compare `MCX_SELECTOR` with `CX_LEGACY`, are steps of `open`,
`mac`, `read`, `fn`, `check`, and a failing one sets `failed`. Those that take the
index for the word are evaluated as they are written too (`check_word`) and set
`misread`: see "Where the code and its documentation disagree".

### `CxDispatch` and `exports.c`

A program opens one context and runs any function id on it. `entry` is what the
function array holds after `cx_init_funcs`: a function, NULL, the undefined
function, a system function, or nothing, past the end of the arrays of stateless
CXs. What the emulator does around it is asked of `tests/if_flag_test.c:4-23`: a
closed selector is the only early return (`Refused`); a NULL entry is not called
(`NullEntry`); every other error falls through to the call (`FallThrough`), of the
undefined function, which returns -1, or of the memory past the array of a stateless
CX, from which any member of `Garbage` comes back (`exports.c:46-47`). What such a
call does to the rest of the machine is not in the model. Whether a function runs on
a context that is OFF is left open (`Stopped`, `Function`). `write_state` of the
accumulators ends without a `return` for index 0: its result is any member of
`Garbage`.

## Runs

| run | checks | result |
|---|---|---|
| `queue` | `TypeOK`, `RearIsLast`, `ImplementsFifo` | holds |
| `board` | `TypeOK`, `ContextExclusive`, `AvailExact`, `ContextIsolated`, `FullMeansHeld`, `SelectorRestored` on the board of `cx_init` | holds |
| `misuse` | `ExclusiveUnlessFreed`, `AvailUnlessFreed`, `IsolatedUnlessHarmed`, `SwInitZeroed` on a board with a software-initialised CX and one of 1024 words | holds |
| `kernel` | `TypeOK`, `LoadedOnce`, `CleanMatchesSaved`, `PoolExact`, `ImplementsPrivate` | holds |
| `programs` | `AssertsHold`, `LeavesNothing`, `Terminates` | holds |
| `vector` | `TypeOK`, `RegistersFollow`, `CleanMatchesImage` | holds |
| `dispatch` | `TypeOK`, `WildCallsShow`, `ScalarsExact`, `LanesAreIndependent`, `ReadBack` | holds |
| `guid` | `InvalidGuidRefused` | violated: `cx_open(0)` succeeds |
| `init` | `OpenInitialises` | violated: the open leaves the context OFF |
| `counter` | `CounterCountsOpens` | violated: a context is held and its counter is 0 |
| `virt_dirty` | `CleanMatchesSaved`, all functions in use | violated: `reset_func` does not mark the context |
| `vector_reset` | `OpenResets` | violated: `reset_func` does nothing |

Run one with `tlc -config MCCxMachine.cfg MCCxMachine`, prove a module with
`tlapm CxMachineProofs.tla`.

### Bounds, and why they are enough

* `queue`: three slots and four items. Every position of `front` with every
  `size` occurs, including a full ring that has wrapped, and items repeat. The
  theorems remove the bound.
* `board`: three callers for the two states of mulacc, so that one always finds
  none; the guids are the empty one, an unknown one, a stateless CX and mulacc.
  `CloseBound` stops after two closes of one context, enough for a state to go
  round twice. `Half = 2` makes two-bit accumulators, with overflow; the
  selectors keep their full layout. Callers are interchangeable (symmetry).
* `misuse`: two callers, one that misuses and one that is hurt, on two states and
  one that is too large. Words of one bit tell a context that was touched from one
  that was not. Three closes of a state let it be closed, reopened by the other
  caller, closed again under it, and closed by its holder.
* `kernel`: two processes with two selectors each on two states: states run out,
  and contexts of one process and of two meet on them with every share type. A
  context is a one-bit word. Processes and selectors are interchangeable.
* `programs`: the programs as they are, except that `threaded_test.c` has three
  threads instead of ten: with main's context, twice as many contexts as states, so
  that threads take the state from each other, whichever one each is given. The
  theorems remove the bound. `Half = 2048` is
  above what the examples compute, 1008 (`add_1000`) and the 18 reserved results
  above it included, so that `Sized` and `Marking`, the hypotheses of the theorems,
  hold of the run: TLC evaluates them (`Hypotheses`). The asserts compare exact
  results, so the numbers are those of the code.
* `vector`: three contexts, two states, two registers of two one-bit lanes: four
  words, so a move has a beginning, a middle and an end, and a computation fits
  between any two of its steps. The theorems remove the bound.
* `dispatch`: words of eight bits, which still hold the 37 reserved results. p-ext
  runs on pairs of 128 words, with every low half and eight high halves: two lanes
  of four bits, four of two; the sources differ in `XLEN` only. The scalar CXUs run
  on both ends of the range and around zero; the accumulators, and any CX while a
  flag is raised, on four operands whose products and sums meet reserved words.
  Function ids are the registered ones and ids between, below and in the system
  range. The vector CXs are in the tables and their instructions in `CxVector`.
  Division runs on operands for which C defines it.
* the violations need the same instances; each counterexample is a few steps.
  `init` has the two special CXs of `misuse`; `virt_dirty` three contexts on two states.

`Half` stands for 2^31 throughout. No run switches deadlock checking off: where a
program may stop, stopping is an action (`finished`), and everywhere else a state
without a successor would be an error.

### Fairness

Only `CxPrograms` assumes any: a safety property needs none, and nothing else in
the repository waits. For each thread, weak fairness of its instruction or trap:
the scheduler gives every runnable thread the hart again and again. And strong
fairness of the instruction itself: it is enabled again after every trap, and in
some time slice it runs before another thread takes the state, since a slice is
many instructions long. Without the second assumption two threads on one state could
trap for ever, each undoing the other's reload, and `Terminates` would fail.
`pthread_join` waits, and is not itself assumed to come to an end.

## Where the code and its documentation disagree

1. `cx_open` accepts guid 0 (`ci_m.c:109-113`): the four entries `cx_init` does not
   fill have guid 0. `tests/state_test_m.c:80-83` asserts -1. Run `guid`.
2. `cx_open` writes the bare enum values `CX_INITIAL` and `CX_DIRTY` as status words
   (`ci_m.c:146,153`), while a CXU takes the dc field from bits 26-27. A
   software-initialised context ends OFF, not DIRTY as `ci_m.c:148` and
   `tests/state_test_m.c:37-39` have it. Run `init`, in which `CX_INITIAL` is a
   proper word, so that the disagreement rests on line 153 alone. If `CX_INITIAL`
   is the enum value, line 146 fails in the same way: the context is not reset, and
   a reopened one keeps its accumulator.
3. The counter of a state is only ever decremented (`ci_m.c:175`), so it is 0 while
   the state is held, not the count `ci_m.c:25-27` speaks of. Run `counter`.
4. `reset_func` of mulacc and nn_acc and, in mulacc, `zero_mac_func` and
   `read_acc_func` (which set CLEAN themselves) change the accumulator without
   marking it DIRTY. "CX_CLEAN: matches saved copy" (`tests/testbench.c:24`) fails.
   Run `virt_dirty`. The run `kernel` and the theorems show that this is the only
   obstacle: with the other functions the protocol is right.
5. `reset_func` of vector evaluates the registers and assigns none
   (`vector_func.c:84`), so a context opens with what the last one left. Run
   `vector_reset`.
6. Met on the way, not runs:
   * the version a selector carries makes it 0x10000002, `tests/state_test_m.c:32`
     expects 0x20000002;
   * `read_acc_func` clears the accumulator, while `tests/testbench.c:432-436` reads
     17 and goes on from 17;
   * contexts placed on one state have accumulators of their own in
     `examples/intra_virt.c:139-201`, and share one in `tests/testbench.c:415-440`.
     `CxKernel` follows the examples;
   * `tests/testbench.c:307-313` has an INTRA_VIRT open take the state of a NO_VIRT
     context when none is free, `cx_kern_structs.h:42-44` and
     `tests/virt_types.c:116-120` say that contexts of a state have one share type.
     `CxKernel` follows `testbench.c`, the one that runs the case;
   * `examples/` and the header disagree about what `cx_open` returns.
     `state_test.c:33-34`, `77-78`, `85-86` and `intra_virt.c:122` compare it with
     `MCX_SELECTOR`, and `intra_virt.c:49-51`, `150-156` take its cx_id and state id
     out of it. It is an index, which starts at 1 and counts up: no cx_id or state
     id is in it. In the model those asserts set `misread`; `AssertsHold` covers
     all others;
   * `write_state` of mulacc and nn_acc ends without a `return`, and its result is
     undefined, while `tests/if_flag_test.c` (A6) expects no flags after it.

## Proofs

TLAPS proves the following for every value of the constants that satisfies the
named assumptions of the modules, which TLC evaluates on every run that uses
them: `CapacityAssumption`, `ItemsAssumption`, `HalfAssumption`, `BoardAssumption`,
`InputAssumption`, `VirtAssumption`, `KernelAssumption`, `VectorAssumption`,
`NoneAssumption`; `PowersAssumption` (the table `Pow2` holds powers of two, the
word has lanes) and `DispatchAssumption` (a word is long enough for the reserved
results; operands are words, function ids below 1024); `ProgramAssumption` (the
operands of the examples are operands, the two stateless CXs are no contexts) and
`NamesAssumption` (the names of the selectors in the array of `multi_thread_2`
differ from each other and from the others).

* `CxQueueProofs`: `RingInvariant` (type correctness and `RearIsLast`),
  `RearAndSizeAgree` and `QueueImplementsFifo`. The step lemmas say what the window
  `live` becomes when `rear` or `front` moves, using that the slot after `rear` is
  `size` places after `front`; an insertion into a ring that is not full does not
  touch the window.
* `CxMachineProofs`: the inductive invariant is
  `IInv == TypeOK /\ ContextExclusive /\ AvailExact /\ ContextIsolated`. None of
  the last three is inductive alone: that a state found available is held by
  nobody is `AvailExact`; that closing it makes it free for all is
  `ContextExclusive`; that a computation reaches one holder only is again
  `ContextExclusive`. `TypeOK` says that handles are selectors `cx_open` builds,
  which decode to the context they were made for (`SelectorDecodes`: ids below 256
  survive the packing, hence the bound on `NumStates`). From it: `TypeCorrect`,
  `Exclusive`, `NothingLeaks`, `Isolated`, `FullIsHeld`. The action properties
  `SelectorKept` and `SwInitClears` follow from `TypeOK` and a case split on the
  step; the first assumes that all states fit (`SizesFit`: the path of line 139
  does move the selector), the second that a software-initialised CXU has a word
  to initialise (`SwHasState`). All hold whatever value `CX_INITIAL` is.
* `CxMachineProofs`, for `CxMisuse`: the invariant `MInv` has `TypeOK`, which no
  caller can break, the three properties of the run with `freed` or `harmed` as their exception, and
  that the contexts of both histories are held. The last is what ends the damage: a
  context leaves them when its last holder closes it, and that close marks it
  available, so that it counts as an ordinary one again. A stale close of a free
  state writes the mark it already has. Theorems: `MisuseExclusive`, `MisuseAvail`, `MisuseIsolated` and,
  with `SwHasState`, `MisuseSwInit`.
* `CxVirtProofs`: with `Marking` (only functions that mark what they change are
  used), `TypeCorrect`, `OneStateEach` (`LoadedOnce`), `CleanIsSaved`
  (`CleanMatchesSaved`) and `VirtImplementsPrivate`, the refinement: an open maps to
  `AOpen`, a close to `AClose`, a switch to a stutter, because a CLEAN context that
  is dropped equals its copy and a DIRTY one is saved first.
* `CxKernelProofs`: the invariant `KInv` joins the kernel's types, `Homes` (a
  context is open exactly while it has a home), `PoolFree` (the pool holds the
  unused ids, each once), `CounterExact` (a counter is the number of contexts on its
  state), `Shares` (who may meet on a state) and `AtHome` (a context is loaded on its
  own state only). From it `PoolIsExact`, for any number of processes, selectors and
  states. An id is given back by the last close only because the counter counts, so
  that nobody uses it and the pool does not hold it; then the pool has room for it
  (`PoolHasRoom`, by counting), and the queue never drops an id. `KernelImplementsVirt`: what the
  kernel does to the CXU is what `CxVirt` allows, as a context that is loaded is
  loaded at home; with `Marking`, `KernelImplementsPrivate`.
* `CxVectorProofs`: `VInv` adds to the checked properties how far a move has come:
  the words below `move.next` are equal in the CXU and in the image, a context being
  saved is loaded and DIRTY, one being restored is loaded nowhere, and its state is
  empty. `Located`, `Indexed` and `WordsDetermine` show that word `k` is lane
  `k % VL` of register `k \div VL`, one word for every lane, so that a move that
  copied every word copied the register file; this needs `NUM_REGS <= 4`, for the
  two bits of `reg_of`, and a size below 2^16, for the field of the status word.
  Theorems: `VectorTypeCorrect`, `RegistersAreFollowed`, `CleanIsImage`.
* `CxDispatchProofs`: the invariant is `DInv == StateOK /\ CallOK`. `StateOK` types
  the context and the flags and says that data written back and not used since is
  in the context; `CallOK` holds of the instruction that ran last. The arithmetic is
  where the work is. A word is a quotient and a remainder (`DivMod`, `DivUnique`,
  `MultipleMod`), so a sum, a product or a quotient that is assigned to an `int32_t`
  differs from the exact one by a multiple of its width, and a lane that is cut out
  of a word, computed on and put back disturbs none of the lanes above or below.
  `TypesKept`, `WildCallsFlagged`, `Exact`, `LanesKept` and `ReadsBack` are its
  conjuncts. All are for every length of word divisible by four and long enough for
  the sentinels, every set of operands and every choice of CXs.
* `CxProgramsProofs`, in two halves. The first is about selectors.
  `ExamplesClose`: every main function opens a selector under a name that holds
  none, closes only what is open, and closes all of it. A `Block` is a sequence of
  calls with the names held before it and after it; `Together` joins two blocks, and
  each file is put together from opens in a row, quiet calls and closes in a row,
  so that `threaded_test.c` is covered for every number of threads.
  `ProgramsAreKernelRuns` (`PSpec => KSpec`): every step of a program is one of the
  kernel or leaves it alone, so that the pool and the counters stay right under the
  programs too; with `Marking`, `ProgramsSeePrivate`.
  `NothingLeft`: a program none of whose asserts failed ends with every state in the
  pool. The invariant `Holdings` says that the names main holds stand for the open
  selectors one for one, and for the openings of the stateless CXs, which are
  counted. It is kept only as long as no assert fails: a failed assert ends the
  program where it is, and in the model an open that should have failed is never
  closed.

  The second half is about the asserts, `AssertsKept`
  (`PSpec => []AssertsHold`), and with it `ProgramsLeaveNothing`
  (`PSpec => []LeavesNothing`), which needs no such condition any more. Its means is
  a ledger: what a reader of an example keeps in mind, call by call. It says of each
  name whether it stands for a context (its share type, which of the two states it
  is on if that is certain, and what its accumulator comes to) or for a stateless
  CX, which name main selected last, which threads are live, and the two sums of
  `multi_thread_2`.
  - `Books(i, H, G)` is what the call `i` asks of the ledger `H` and makes of it; an
    assert asks that the ledger agrees with it (of those that read a selector's word
    it asks nothing). `ExamplesBalance`: every file has a
    ledger from its first call to its last (`Balanced`, joined by `Joined`). This
    part has no state machine in it: it is the arithmetic of the examples. For the
    threads it is for every `N`: `multi_thread_1` comes to `25 * N`, and
    `multi_thread_2` compares `N` times the sum of the squares with the sum of the
    contexts. That sum is not defined by recursion but carried in the ledger, six
    times, as the polynomial `six`, whose differences are the squares (`SixIs`).
  - `Corr` relates the ledger of main's next call (`now`) to the state: names to
    selectors (`Named`, `Kinds`), states to homes (`Places`), entries to what the
    virtual contexts hold, in the CXU or saved (`Values`). A created thread is in the
    ledger at once with all it will add, so the accumulator of its context lags
    behind the ledger by what the live threads have left to add: 25 for each that
    has not run its mac (`pending`), the square for each mac left (`left`). Steps of
    the threads change that difference and not the ledger; joins find it zero.
  - `CorrStep`, one lemma per kind of call: `Corr` is kept and no assert fails. It
    needs the invariants before it (`PInv`, `IInv`): that traps, switches and the
    contexts of others leave an accumulator alone is the refinement of `CxPrivate`,
    taken step by step (`AccTrap`, `AccMac` and the other `Acc` lemmas).

  Hypotheses: `Marking`, because a function that changes a context and does not mark
  it loses the change at the next switch (`virt_dirty` shows it; the examples call
  `mac`, which marks), and `Sized`: two states, as `CX_MULACC_NUM_STATES` has it,
  because `cx_open.c` expects two NO_VIRT opens to succeed and a third to fail; and `Half` above the sums, because the asserts state
  them as numbers and the accumulators wrap. For `2^31` the code's `N = 10` is far
  below the limit, which is 215 threads.
* `MulaccProofs` holds the lemmas on words and contexts that the others share.

Every safety invariant and every action property of the runs is thus the statement
of a theorem. Only model-checked are liveness (`Terminates`) and `ENABLED`, which
are out of the prover's reach; the violations are TLC's counterexamples. `RECURSIVE`
operators and inductions over data are avoided, not proved: where a sum over the
threads was needed, it is a variable of the model that grows step by step, and the
induction is that over the steps of the program.

## Not modelled, and why

* Fork, and what a third argument does to data beyond placing a context: no code of
  the repository implements them, and its tests disagree about the second (see 6).
* `CX_FULL_VIRT`: named in `utils.h`, used nowhere.
* The failing `malloc`s of `make_queue`: they return NULL and leave nothing.
* Behaviour that C leaves undefined and after which nothing can be stated: register
  numbers above 3, a quotient by zero or of INT_MIN by -1, a selector that
  `cx_open` did not return, used as an index.
* The 32 bits of `cxs_error` that CU sentinels set are one flag.
* `tests/`, build scripts: read as statements about the system.

## Plan

Done, in this order because the rest stands on it: the words, the pool with its
abstract specification, the runtime on any board, the accumulators and their
virtualisation, the vector unit, p-ext; then dispatch and flags, the kernel's
structures, misuse of the runtime, the example programs with threads and
liveness; the proofs about the components, then those about dispatch with the
scalar and packed arithmetic, and about the example programs, their asserts last.

Next:

1. `CxKernel` with fork, once the repository says what a child inherits.
