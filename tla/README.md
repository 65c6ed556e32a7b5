# A verification development of natsune

natsune compiles Python functions decorated with `@inet` to interaction nets
and reduces the nets on worker threads. This directory holds TLA+ modules of
the program, from the statements of a function to the threads that reduce its
net, the TLC configurations that check them, and proofs about the parts that run
concurrently: the deque, the pool, the reduction of nets, the serial executor and the compilation
driver.

Paths below are relative to `src/src/natsune/` of the repository, tests to
`src/tests/`.

## 1. The system and its parts

| component | state it keeps | operations | hard behaviour | what makes it correct |
|---|---|---|---|---|
| `deque.py` WorkStealingDeque | a ring of slots, two growing cursors | push, pop, steal, each under one lock | both ends at the last task; wrapping; the reserve for re-entrant pushes | no task lost or taken twice; room for the promised pushes; it is a bounded two-ended sequence |
| `deque.py` IdleCounter | one number | signal, reset | termination detection by several workers | the total is read only when all are idle |
| `executor.py` ThreadPoolExecutor, ThreadWorker | one deque per worker, an end event | connect_ports, run, the worker loop | stealing against connecting, the end event against work in hand, a worker that raises | a wire makes one pair, a pair is executed once, an output is delivered |
| `executor.py` DeterministicSerialExecutor | a list of pairs | connect_ports, run | pairs that one call leaves for the next | every call is answered by its own net |
| `first_order/ports.py`, `backend/connector.py` | the target of every wire | connect, annihilate, duplicate, tuplate | the two ends are connected by two threads; a target is never cleared | each end of a wire is used once |
| `first_order/interactions.py` | none | one rule per pair of port kinds | the rules' connects interleave; a merge reads a wire without the lock | the result does not depend on the order of reduction; nothing is left over |
| `backend/connector.py` templates, `optimizer.py` | frozen active pairs | freeze, materialize_template, optimize | copying renames every wire; rewriting before the net runs | a copy shares no wire with its template, and means what the template means |
| `inet.py` InetFunction, `agents.py` PromiseExpansion | `entry`, `expansion`, `_compiling`, the signature, the promise's target | ensure_compiled, ensure_signature, `_compile`, call | first calls by several threads, cycles of functions, failures and retries | a function is compiled once, every net that can run is whole |
| `backend/python_backend.py` | the outputs of a call | as_callable, opaque expressions | a run that gives no output | a call returns the output or raises |
| `backend/registers.py`, `first_order/adapters.py` | one-time registers over wires | send_value, split, duplicate, borrow | shapes and wrappers must match; loans end in any order | every register is closed, every reference gets its content back |
| `backend/control_flow.py`, `control_branch_flow.py`, `invocations.py` | wires of channels | conditionals, loops, layers, first-arrival choice | which side arrives first, which channel dies when | one side is taken, the other one released; a function answers what its source answers |
| `backend/lowering.py` | a net under construction | lower_function and what it calls | agreement with the frontend's symbols | adapters of promise and net agree |
| `frontend/` | the IR of a function | source, signature, symbols, link, build, exits | the exit analysis, the walk over the variables | no exit is missed |

How they interact: a call goes to `InetFunction.__call__`, which compiles on
demand (`ensure_compiled`): the frontend collects symbols and builds the IR with
its exits, the lowering turns it into a net of agents, registers and opaque
expressions, and promises stand for the callees of a cycle. `as_callable` wires
the net into an executor with `connect`, and `run` lets the workers take active
pairs from their deques, execute the interaction rules, and push the pairs these
rules' connects make, until the callback of the output sets the end event.

## 2. The modules

| module | models | in short |
|---|---|---|
| `AbstractDeque` | what a deque promises | a bounded sequence with a stack end and a queue end |
| `WorkStealingDeque` | `deque.py` and its callers in `executor.py` | cursors, slots; the owner's phase; the actions are the methods' outcomes |
| `ThreadPool` | `executor.py` 40-131, `IdleCounter`, the connect step, the caller in `as_callable` | one program counter per worker, one action for each access to shared state |
| `InetCompile` | `inet.py`, `PromiseExpansion` | for each thread a stack of nested compilations; for each function its flags and what its net embeds |
| `Ports` | `ports.py`, the connects of `connector.py`, invocations | ports as records; an operation of a connector as the sequence of connects it makes; names and renaming of fresh wires |
| `Registers` | `adapters.py`, `registers.py` | adapters as records; what each register operation connects, `send_value` above all |
| `Expansions` | templates, the agents of `control_flow.py` | what a graft connects when it meets a port |
| `Optimizer` | `optimizer.py` | the rewriting of a template's pairs before it runs |
| `InteractionNet` | `interactions.py` with the grafts | wires with a target, a bag of active pairs, the connects each worker has still to do; which nets are linear |
| `VariablesFlow` | `VariablesFlow`, `FlowRegister`, the accesses and calls of `lowering.py`, `borrow_registers`, `callee_invocation`, opaque expressions and targets | a program of accesses as a net, and as what its observers see in a memory |
| `SerialExecutor` | `DeterministicSerialExecutor`, `as_callable` | a stack of pairs over the rules of `InteractionNet`, one call after another |
| `IrProgram` | `builder.py`, `nodes.py`, `symbols.py`, the walk of `lowering.py` | statements, exits, and the two walks over the variables |
| `ControlFlow` | layers, conditionals and loops of `lowering.py`, `control_flow.py`, `control_branch_flow.py` | for each set of events that have happened, the signal on every channel |
| `WireCounting` | | lemmas: how many ends of a wire a port and a sequence of connects hold, and that renaming keeps them |
| `WorkStealingDequeProofs`, `ThreadPoolProofs`, `PairsConservedProofs`, `InteractionNetProofs`, `SerialExecutorProofs`, `InetCompileProofs`, `NetsCompleteProofs` | | theorems (section 6) |

The `MC...` modules give the constants their values: nets, programs, functions
and who calls whom. Composition: `Registers` and `Expansions` extend `Ports`,
`InteractionNet` and `Optimizer` extend `Expansions`, `VariablesFlow` extends
`Registers`; `SerialExecutor` extends `Expansions` and instantiates
`InteractionNet` as the abstract specification it implements, and
`MCSerialExecutor` joins it with `VariablesFlow` and `Optimizer`, whose recursive
operators make and rewrite the nets it runs (the proofs about the executors and
the rules are for any nets, and reach none of these);
`WorkStealingDeque` instantiates `AbstractDeque`; `ControlFlow` extends
`IrProgram`. `ThreadPool` uses deques as sequences, which the refinement proved
in `WorkStealingDequeProofs` justifies, and pairs by name, whose meaning is the
subject of `InteractionNet`.

Some definitions are named for what they get wrong (`PushUnchecked`,
`LinearizeOnly`, `RemainingAll`...). They stand before the definition they vary
and take part in no specification: each is a plausible bug, and `PROJECT.json`
says which property fails under it.

How state corresponds to the code:

* `WorkStealingDeque`: `left`, `right`, `store` are the attributes of the class.
  `cursor & wrap_mask` is `cursor % Capacity`, because the constructor rounds the
  capacity to a power of two; the model does not need that. A method holds the
  lock from its first to its last statement, so a call is one action.
* `ThreadPool`: a pair is named by the wire it comes from; `connected` counts the
  ends of a wire. Every action is one access to shared state, together with the
  reading of the end event before it: the event only ever becomes set, and a
  worker that saw it unset behaves as if it had been set afterwards.
* `InteractionNet`: a port is a record of kind, label, value and wires. An
  interaction is the list of its connects in the order of the code; each of them
  is one step, so that the rules of several workers interleave. A merge reads its
  operand when it begins, without the lock, as the code does. A value is the
  sequence of the functions that made it, so that exchanged operands show.
* `SerialExecutor`: the same rules; `active_pairs` is the list of the class, its
  last element is next. Pairs that a call leaves behind stay below those of the
  next call. `PairsBag` maps it to the bag of `InteractionNet`.
* `Registers`, `VariablesFlow`: the code builds nets by mutating wires; here each
  operation returns its connects. Fresh wires are negative numbers made from the
  place of the operation (`New`), and numbered when the net is put together. The
  Python objects assert that a register is used once; in the model a program is a
  sequence of accesses and a use is one by construction.
* `VariablesFlow` also has the memory such a program means (`Remembered`,
  `Meaning`): cells with contents and with promises that wait for them. It is
  written from what references and inverses are for, not from the wiring, and is
  the reference definition `VariablesMean` compares the reduced net with. There a
  call is the program of the function on variables of its own, which are assigned
  the arguments before and closed after it (`Inlined`); in the net it is a
  graft of the function's template that runs beside its caller. That these agree
  is what call by reference means.
* `ControlFlow`: an event is an evaluated expression, a grafted layer or a called
  loop. `FunctionOuts` says what each output of the function carries once a set
  of events has fired: nothing yet, an erasure, or a content. Events fire in any
  order their channels allow. `Run` is the sequential execution of the same
  statements, with the outcomes of the tests fixed by an oracle.
* `InetCompile`: one action for each part of `_compile` that another thread can
  tell apart. A net is the set of what it grafts; a promise is named by its
  function and the attempt that made it. `_compile_lock` is `lock` and the stack:
  a thread that holds it nests.

## 3. The runs

| run | configuration | what it shows |
|---|---|---|
| `deque` | 6 interchangeable tasks, 4 slots, reserve 2, up to 4 pushes of a task | conservation, the reserve and the refinement while the ring wraps and overflows |
| `pool` | 3 workers, queues of 4 with reserve 2; a net that forks and joins, a template that pushes 4 pairs with one that raises | no pair lost or executed twice; the output arrives or the failure is reported; the reserve; a queue that its owner will not empty has a thief |
| `net` | 22 nets: duplication, erasure, merges, splits, two uses of a template, choices by first arrival, boolean operators | wires are linear, results do not depend on the order, nothing is left over, every net is reduced |
| `registers` | 500 programs over one to three variables of every kind: flows, flows that call functions, functions as templates and as optimized templates that are called again | the net of a program shows its observers what the memory does, a call what the body of the function does; each call gets its own answer; `SerialExecutor` implements `InteractionNet` |
| `flow` | functions after the tests with conditionals, nested loops, exits, deletions and raising expressions, every outcome of their tests | a function answers what its source answers, in whatever order it is evaluated, and evaluates nothing the source does not |
| `compile` | 2 threads with 2 calls each, 3 functions, two of them in a cycle, 1 failure at any stage | one compiler, whole nets, one compilation per function, no call blocked |
| `quiescent`, `copies`, `first_calls`, `stale_promise`, `early_finish`, `declared_first` | smaller instances | the code and what it says of itself disagree (section 5) |

Bounds, and why they are enough.

* `deque`: the six tasks go around a ring of four and the queue fills beyond the
  reserve.
* `pool` (`N`, `Capacity`, `MaxReentrant`): the two forking pairs connect their
  wires in opposite orders, so both threads meet on every wire and the join is
  made by either; the template fills a queue and overflows it. Three workers are
  the fewest with which one of them can be neither owner nor the one that leaves
  early; pools take five or more unless their caller chooses (`executor.py` 55).
  With one and two workers, see section 5.
* `net` (`MaxWires` 80): more than the largest net allocates; `Reduced` would fail
  were it too small. The plain nets run on three workers, connect by connect;
  those with templates and agents run on one, in every order of their pairs,
  because each net says who works on it (`crew`). The exception is the ambiguous
  pair alone, whose two values are brought by different workers at the same time
  (`FirstArrival`); the agents around such pairs make too many interleavings for that.
* `registers` (`MaxWires` 250): as above. Programs have two to four accesses
  between a first write and the last reads, which is what a loan, its end, and a
  write in between need. `Rewrap` leaves room for four wrappers; the deepest here
  need two. The functions have two parameters and a local variable at most, of
  every kind, and get two variables or the same one twice.
* `flow` (`MaxIterations` 3): the oracles let a test change its outcome in the
  first, second or a later iteration; a run that needs a fourth is `forever`, and
  its outputs stay pending.
* `compile` (`MaxCalls` 2, `MaxFailures` 1): the cycle of two and a third function
  give nesting of depth three; two calls of a thread give the retry after a
  failure. `InetCompileProofs` does without bounds.

Fairness. `ThreadPool`: the caller and every worker go on running (threads of the
operating system are not starved); `InteractionNet`, `SerialExecutor`: the same.
`InetCompile`: threads go on running inside a compilation, and the lock is not
withheld for ever from a thread that waits while it becomes free again and again
(strong fairness of `Acquire`); nobody has to make a call, and nothing bounds how
long a net runs, so that `CallsServed` speaks of what comes before. `ControlFlow`:
some event that can fire does, whichever.

Deadlock is checked in every run; a terminated system stutters in an action of
its own (`Done`, `Stopped`, `Idle`).

## 4. What the properties say

* `Conserved`, `ImplementsDeque`, `PairsConserved`: a task is in one place, from
  its push to its execution, whoever moves it.
* `ReserveFits`, `OverflowsOnlyBeyondReserve`, `WorkerReserve`: the arithmetic of
  `max_reentrant_push`. `pop` keeps one slot more than it would have to: a
  version that compares with `>` instead of `>=` keeps the promise as well.
* `OutputDelivered`: the end of a run of the pool.
* `ThiefRemains`: a queue over its reserve refuses its owner, who then does not steal but
  signals idle; and the last worker leaves when it signals, its own queue full or not.
  Until the end event, such a queue has another worker left that may steal from it. With
  two workers this is false: the last one may leave before the other is refused.
* `WiresLinear`: every end of every wire is connected once: those already
  connected and those that ports and pending connects still hold are two, at every
  moment. `ValuesDelivered`: an
  observer gets one of the values the net may give, whatever the schedule (more
  than one only where the code chooses by arrival). `NothingLeft`: no garbage.
  `Reduced`: every net comes to its end. Some code drops a register without closing it:
  in a net marked `drops` (programs with opaque expressions, layers or deletions, and
  `x or y`) a wire has at most two ends, and `NothingLeft` and `RegistersClosed` ask
  nothing of it.
* `VariablesMean`: what the observers of a reduced program hold is what the memory
  says, with the history of every value. `RegistersClosed`: no wire of a program
  is left with one end. `CallAnswered`, `Returns`: an executor that is used again
  answers the second call with the second argument. `CallsLinear`: every net that is
  run is linear when it is wired (`Linear`), and the wires of a call stay so beside the
  pairs that the calls before it left behind. `Reduces`: refinement.
* `AnswersAgree`, `Answered`: the lowered function against its source, for safety
  and for progress. `OnlyWhatRuns`: no expression is evaluated that the source
  would not evaluate in that iteration. `SignalsStay`: a channel that died stays
  dead. `WalksAgree`: names and their order, which the adapters depend on.
* `OneCompiler`, `GraftsPossible`, `NetsComplete`, `CompiledOnce`, `CallsServed`:
  the driver's locking, its order, and its promises.

## 5. Disagreements found

1. `quiescent`: `IdleCounter.signal` stores the worker's id and compares it with
   the total, so that the total does not mean that all are idle, and only the
   worker with the highest id can leave a run without output; the others spin, and
   the call never reports that no output came (`deque.py` 15, `executor.py` 128).
2. `copies`: duplicating a pair exchanges its components when the duplicator is
   the left port of the active pair, which depends on which end was connected
   first (`interactions.py` 79-95). The tests compare sorted leaves.
3. `first_calls`: a second thread that calls a function during its first
   compilation fails with "still compiling" (`inet.py` 95, 221), or runs a net that
   reaches a promise without a target.
4. `stale_promise`: after a failure in a cycle, a compiled callee keeps the promise
   of the failed attempt for ever (`inet.py` 132-135).
5. `early_finish`: the finish output of an iteration is put together from parts and
   looks alive before the body has decided; layers compare only neighbouring
   channels. A loop whose inner loop continues in its else clause, with a return
   behind it, answers the return (`control_flow.py` 808, `control_branch_flow.py` 40).
6. `declared_first`: a variable that is declared without a value (`smallest: Inverse[int]`)
   has its place among the frontend's symbols from the declaration, and among the
   variables of the net from its first assignment. In the first example of the
   repository's README other variables are assigned in between, so that the orders
   differ and the function fails the pinned assertion (`inet.py` 183).

Seen while modelling, without a run of its own:

* A queue over its reserve answers 0 to its owner, who signals idle instead of
  stealing (`executor.py` 103-128), although the comment there says "All workers are
  idle, stop". With one worker, a template of more pairs than the capacity less the
  reserve makes the run return with all of them in the queue, and the call reports that
  no output came. With two, the second may have left through
  the idle counter when the first is refused by its queue, and the run spins for ever with an output in the queue
  (`ThiefRemains` and `OutputDelivered` fail for `N = 2` on `BigTemplate`). With any
  number it spins once every queue is over its reserve, since only the owner of an
  empty queue steals.
* The constructor of the deque accepts a hint equal to the reserve, which its
  message excludes and with which `pop` refuses every task.
* `_compile` sets `entry` before the pinned assertions, so a function that fails
  them can neither be compiled again nor called.
* `and` and `or` of two expressions depend on the order of arrival: `1 and 2` is 1
  when 2 arrives first (the expected values of the nets named `BooleanOrOf` list
  both), and `ConcurrentValueMerge.true_case` leaves its second operand open, which
  those nets allow with `drops`.
* A split function's exception is dropped by the erasure rule, a merge's is kept.
* Copying one inverse variable into another erases the reads that wait for the
  target's next write. Taking an element through a reference consumes the whole
  content. A reference that is assigned to itself answers itself (`Circular`).
* `SerialLeftPass` is given one wire and would read a second; `ParallelOr` is used
  by no lowering; `ControlBranchFlow.variables_usage` is never read.

## 6. What is proved

`WorkStealingDequeProofs`, for every capacity, reserve and set of tasks (the
assumptions `CapacityAssumption` and `AnswersAssumption` say that the capacity is
at least the reserve, the reserve at least 1, and the special answers are no
tasks):

* `Invariant`: `IInv`, the conjunction of `TypeOK`, `Conserved` and `ReserveFits`, is
  inductive. The parts need each other: that a push overwrites no queued task
  needs the bound on the window; that the reserve is kept through a steal needs the
  cursors' order; `TypeOK`'s `returned \subseteq pushed` needs that a slot in the
  window holds a pushed task, which `Conserved` says.
* `TypeCorrect`, `TasksConserved`, `ReserveSuffices`: its three parts.
  `NoOverflowWithinReserve`: the action property, from `ReserveFits`.
* `Refinement`: every step of the ring is a step of `AbstractDeque` or leaves it
  unchanged.

`ThreadPoolProofs`, for any number of workers, any net and any size of the queues
(`PoolAssumption`: the reserve is between 1 and the capacity, the nets are over
`Pairs`):

* `RoomForPushes`: `WorkerReserve` is an invariant. It is not inductive as it
  stands: a thief takes a pair into its hands whatever its own queue holds, so
  `IInv` adds that a worker that steals has an empty queue and never steals from
  itself (`Hungry`), that whoever executes has a pair in its hands and whoever pushes
  a wire to push (`HandFull`), and that the caller fills the queues before any
  worker runs (`WiringAlone`). A step of one worker leaves the others safe because
  it only shortens their queues (`LocalStep`, `StealKeepsSafe`).
* `ThievesRemain`: `ThiefRemains` with three workers or more, whatever the net pushes
  and however small the queues are. `Stays` says that a worker other than the last leaves
  only after the end event, because nobody else can read the total from the idle counter;
  so of any two others at least one is there. The hypothesis is needed, see section 5.

`PairsConservedProofs`, for the same and for linear nets (`LinearAssumption`: a wire
has two ends at most, those the caller connects included, which
`InteractionNet.WiresLinear` checks that the rules keep):

* `PairsAlwaysConserved`: `PairsConserved` is an invariant. `CInv` adds to `IInv` that a
  pair is at exactly one place once its wire has two ends and nowhere before
  (`Placed`), that queues hold no pair twice, that what a worker still has to connect
  is the end of what its pair causes (`Ready`), and how many ends of a wire are left
  for how many connects (`EndsLeft`): without the last, a wire connected a third time
  would make a second pair, since `connect_wire_to_port` does not look. A step takes
  one pair from one place to the next (`TakeConserves`, `PushConserves`,
  `ReleaseConserves`) or uses up one end (`ConnectConserves`).

`InetCompileProofs`, for any threads, any functions that call each other in any way,
any set of failing stages and any number of calls and failures (`CompileAssumption`):

* `OneCompilerAlways`, `GraftsAlwaysPossible`, `CompiledOnceAlways`. `IInv` says of a
  stack of compilations (`Sound`) that no function is on it twice, that all but the
  top are asking for callees, that a frame's function has its entry point exactly
  from the lowering on (`Entered`), that one that asks has a promise and its callees
  have signatures (`Prepared`), and that a callee already asked for is compiled or
  stands on the stack no higher than one above (`Answered`); and of the whole that
  only the holder of the lock has a stack (`Locked`), that the flags say what is on
  it (`Flags`), and that an entry point comes with a net or a promise (`Graftable`).
  `GraftsPossible` needs `Answered`, whose upper bound is what keeps it true when a
  nested compilation raises and is taken off the stack.

`NetsCompleteProofs`, on top of it:

* `NetsCompleteAlways`: `NetsComplete` is an invariant. `WInv` says of a run without
  failures that an embedded promise is filled, or is the last one of a function whose
  compilation is still before the filling (`Awaited`, `Grafted`), that the same holds
  of the promise a function offers (`Offered`), and that a function with an entry
  point is frozen or about to be (`Published`). Between compilations nothing is
  underway, so only filled promises and frozen nets remain.

* `CompileTypesAlways`: `TypeOK`. Besides the types it bounds the attempts at a
  function: one more than there were failures. `Limits` says that an attempt ends with
  the entry point, is still underway, or was one of the failures, and that no attempt
  of a stack that unwinds is counted twice.

`PairsConservedProofs` also has `PoolTypesAlways` (`TypeOK`: no queue exceeds its
capacity, no wire is connected a third time), by `TInv`, which adds to `CInv` that no
worker has started when the caller raised while it filled the queues.

`InteractionNetProofs`, for any number of workers, any functions of the merges and
splits, and any nets that are linear when they are wired:

* `NetsLinear`: `WiresLinear` is an invariant of every net that does not choose by
  arrival (`Deterministic`: templates, `SerialOr`, `SerialAnd`, `CloseAfterContingent`,
  conditionals and the graft that catches an erasure for the callback of a call, no
  ambiguous pair). The inductive invariant `NInv` is `Shaped`
  (everything held is a port over allocated wires with as many of them as its kind
  has, and a wire has a target once an end of it is connected), `Balanced` (the
  ends of each wire add up to two, or to at most two in a net that drops a register)
  and `Served`. The last is about what catches: it drops the wires of whatever it
  meets (`invocations.py` 115-123), so that linearity holds only because it never
  meets a port that has wires. As a wire's two ends are taken one after another, that has to
  be said of both: whatever can meet a catching graft across a wire, waiting in it,
  still to be connected or as its other end, is a value, an erasure, or the result of
  a merge (`Meets`, `ResultOnly`), and a merge's result is a value or an erasure in
  every rule (`ServedKept`, `ConnectServed`, `LaunchedServed`).
  Two more things are stronger than the property. First, the bound holds after an
  interaction has raised too, when ends are lost with the pair: it is what forbids a
  third connect. Second, ends are counted by holder, as positions in pairs and
  pending connects and not as ports, so that a port that is there twice counts twice.
* The steps: a connect moves one end from the pending ones to the used ones and those
  of its port to a waiting wire or a new pair (`ConnectBalanced`); an interaction
  turns the ends of its pair into those of its connects (`BeginBalanced`). The latter
  rests on one lemma per rule that its connects hold exactly the wires of the two
  ports, and each wire of their own twice (`Conserves`: `CommuteConserves`,
  `MergeConserves`, `TemplateConserves`, `ContingentConserves`...,
  together `InteractionConserves`), and on the renaming of these wires to new ones
  being one to one (`CountRenamed` in `WireCounting`).
* `NetTypesAlways`: `TypeOK`, from `Shaped`.
* Assumptions: `LinearAssumption` says of a deterministic net in `Nets` that its
  wiring connects each of its wires twice (once if the observer keeps the other end),
  and of each template and each part that closes an input that it connects its own
  wires twice, its open ends included. TLC evaluates it on all nets of the run `net`;
  that the code's registers refuse a second use is why it is so. `NamesAssumption` says that the labels the rules write are strings,
  `NetAssumption` that the caller is no worker.

`SerialExecutorProofs`:

* `SerialReduces`: every step of the serial executor between two calls is one of
  `InteractionNet`, or leaves it unchanged, under the mapping of the stack to the bag
  of pairs and of the one thread to the caller before `run` and to the worker
  afterwards. It is for any nets that have this executor as their crew
  (`ExecutorAssumption`), and uses that the stack is a sequence of pairs and that
  taking its last element takes one copy out of the bag.
* `CallsLinearAlways`, `SerialTypesAlways`: `CallsLinear` and `TypeOK`, for any list of
  calls on one executor whose nets are linear each (`Linear(net)`, which TLC finds true
  of all nets of the run `registers`; the functions of other modules do not enter). The steps of
  a call are steps of `InteractionNet`, so that `SInv` is `NInv` of the mapped state, taken
  from `InteractionNetProofs` by `INSTANCE` over the linear nets (`Counted`,
  `StepCounted`), and `AssumptionsHold` proves the assumptions of that module for this
  instance. What is left is the step that no rule makes, `CallAgain`: it adds connects
  over wires numbered after all those in use, while the run has no connect pending
  and the stack may hold anything (`WiringLemma`, `CallWires`). That the numbers are
  new is essential: with those of the first call, an end would be connected a third
  time (the mutant `CallAgainOnOldWires`).

Only model-checked, and why:

* every liveness property and every refinement with fairness: the prover handles
  neither liveness under fairness nor ENABLED;
* `ValuesDelivered`, `VariablesMean`, `CallAnswered`: that the order of reduction does
  not matter is a confluence argument over whole reductions, and the values are read
  from a net by recursion over it;
* `NothingLeft`, `RegistersClosed`: they are no consequence of linearity, which allows
  a ring of wires that hang on each other and on no observer;
* `WiresLinear` for nets that choose by arrival: the two grafts of an ambiguous pair
  share their wires, which `Shared` leaves out of the count until the first of them has
  arrived;
* `ControlFlow`'s `TypeOK`, `AnswersAgree`, `OnlyWhatRuns`, `SignalsStay` and `WalksAgree`,
  and what `Registers`, `VariablesFlow` and `Optimizer` build: they are recursive operators
  over statements, adapters and nets, which the prover cannot reach, and their results
  would need induction over them. `Linear(net)` for the nets that `VariablesFlow` makes is
  therefore checked and not proved.

## 7. Not modelled

* Reading Python source, signatures, annotations and type inference, diagnostics,
  rendering of the IR, the special forms: no state beyond their result.
* `CurriedProcess`, which no lowering uses, and the tracing of a register.
* The Python functions that merges and splits call (`runtime.py`, generated code):
  a value keeps the functions that made it, and their order.
* Exceptions in erasures, the exceptions register and `ExceptionSink`: no rule reads
  them. The models say that an erasure arrives, not what it carries.
* The bundle of a graft is the chain of its variables; the exceptions among them,
  the value beside them and the outputs other than the result are left out of
  `VariablesFlow` (`ControlFlow` has the outputs). Calls in the runs nest twice; a
  function that calls itself has no template to copy in this model, its promise is
  in `InetCompile`.
* A for loop's iterator: its channels are those of a while loop, its next item an
  expression that may end or raise.
* The cyclic templates of loops are events of `ControlFlow` instead of copies.
* In `VariablesFlow`: an inverse copied into itself, reading after a deletion, and
  programs whose promises answer each other (`Circular`) are left out of the runs: a
  deleted reference or a circle of loans leaves a net that never comes to its end.
  Chains of different shapes, which the code refuses, are no programs either.
* An executor whose `run` is entered by two threads: `ThreadPoolExecutor` asserts
  `not self.running` only in `connect_ports`, and nothing in the repository does it.

What would add most next: the iterator of a for loop as a net, and functions that
call themselves as templates.
