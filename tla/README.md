# A formal model of TT-Lang

TT-Lang is a Python-embedded language for Tenstorrent devices. A program is an
*operation*: on every node of a grid it starts a compute kernel and two data
movement (DM) kernels, which exchange *blocks* of tiles through *dataflow
buffers* and, between nodes, through *pipes*. The repository holds two
implementations: a functional simulator in Python (`python/sim`, where kernels
are greenlets under a cooperative scheduler) and a compiler (`python/ttl`, the
MLIR passes of `lib/` and `include/`) that generates device code.

The project has three parts: the concurrent core of the simulator; the pipe
protocol that the compiler generates, run on a device; and the toolchain around
them, where what the simulator, the compiler and the launcher compute about one
program must agree with what the program means.

All sources below are relative to `src/`. `PROJECT.json` maps every definition
to its lines and lists the hazards by line, each with the properties that would
catch it, or why none does.

## Inventory

| Component | State it keeps | Operations | Interacts with |
| --- | --- | --- | --- |
| Greenlet scheduler `python/sim/greenlet_scheduler.py` | active kernels with what each is blocked on, last-run timestamps, progress marks | `add_kernel`, `run`, `block_current_kernel`, `block_if_needed`, `_mark_completed` | polls `can_wait` and `can_reserve` of buffers and transfers; switches to kernels |
| Block state machine `blockstate.py` | access state, expected operations, copies out | `initialize`, `validate`, `transition`, `transition_push`, `transition_pop`, `transition_assign_src` | every method of a block |
| Block `dfb.py:65-880`, `block.py` | machine, tensor, slot, sources of a temporary, pending confirmation | copies, stores, operators, `push`, `pop` | its buffer |
| Dataflow buffer `dfb.py:905-1360`, `dfbstate.py` | ring (head, visible, reserved, slots); pending reserved and waited block | `reserve`, `wait`, `push_block`, `pop_block`, automatic push and pop, `validate_no_pending_blocks` | scheduler, blocks |
| Copy transactions `copy.py`, `copyhandlers.py` | completed, performed | `copy()`, `wait`, `can_wait`, groups | both endpoints' machines, pipe queues |
| Pipe queues `copyhandlers.py`, `context_types.py` | per pipe: queue of (tensor, remaining, id, receivers), next id | send at `copy()`, receive at `wait()` | session context, across runs |
| Program and operation `program.py`, `operation.py` | contexts of nodes | find PipeNets, build contexts, rebind and run kernels, validate, clean up | all of the above |
| Pipes, nodes `pipe.py`, `nodecontext.py`, `python/ttl/pipe.py`, `_pipenets` | none (pure) | ranges, membership, active nodes, semaphore counts | program, compiler |
| Copy-wait injection `analysis.py` | injection points, hooks | analysis, monitoring callbacks | copy transactions |
| Simulator numerics `ttnnsim.py`, `math.py`, `sharding.py` | tensor with its origin and sharding | views, locality, cores, collectives, tile operators | blocks |
| Pipe passes and lowering `PipeGraph.cpp`, `PipeLowering.cpp`, `TTLInsertCopyWait.cpp` | pipe graph, intervals, colours; on the device: semaphores, address tables, receive counters | plan; post, send, wait | device runtime (external) |
| PipeNet verification `LaunchNodeDomainAnalysis.cpp`, `TTLVerifyPipeNetGuards.cpp`, `TTLVerifyDFBSPSC.cpp` | domains | check guards, scopes, waits, wait-for graph, single producers | pipe passes |
| Destination registers `TTLAssignDST.cpp`, `TTLScheduleOperations.cpp` | intervals, classes, assignment | copies, linear scan, unrolling, scheduling | lowering |
| Frontend and launch `ttl_api.py`, `ttl_ast.py`, `kernel_ast.py`, `operators.py`, `kernel_runner.py` | kernel cache, thread list, buffer counter, tensor registry; symbol tables | call, compile, launch, emit a runner | passes, device runtime |
| Profiling tools `ttl/_src/*profile*.py`, `perf_summary.py` | none (pure, on logs) | parse, match, total | device logs |
| Block allocation `utils/block_allocation.py` | none (pure) | split work, choose matmul blocks | user programs |
| Other buffer passes, dialect lowering, reporting, command line | | | |

**What is hard here.** Kernels of the simulator are single-threaded but
interleave at every `wait`, `reserve` and `tx.wait`; code before and after such
a call sees a different buffer. The buffer releases blocks by itself, on the
next acquisition or on return. Copies out of a block may be many at once.
Messages of a multicast pipe are taken by each node at its own pace. The
scheduler decides that a program is deadlocked, and must not be wrong in either
direction. On the device, nodes and threads really run at once: a ready
counter is compared for equality, an increment arrives late, semaphores and
address slots are shared, and a receive is told apart only by counting. In the
toolchain the hazards are stale state (a cache key, a global list, the origin
of a view of a view), and two readers of one rule (ranges, shapes, argument
positions) that must read it alike. Nothing is persisted and no message is
lost or duplicated, so no property is about crashes or lossy channels.

## Modules

| Module | Models |
| --- | --- |
| `BlockState` | `blockstate.py`: table, guards, transitions, as operators on a machine record |
| `BlockProtocol` | one block from acquisition to release: `Block`, `CopyTransaction`, operand tracking; ghosts say what really happens to the data |
| `StoreCall` | one `store()` on several blocks at once: the order of its checks and marks; `MCBlockProtocol` checks it beside `BlockProtocol` |
| `BlockChannel` | abstract: a bounded FIFO, each block read before it is given back |
| `DataflowBuffer` | `DataflowBuffer`, `DFBState`, and the wrapper `_tagged` of `program.py` |
| `PipeCopy` | one pipe's queue, a sender's block, receivers on several nodes, several runs |
| `KernelNetwork` | kernels, buffers (counters) and pipes (message counts) as functions of a state, and what a program can do under any schedule |
| `SimProgram` | `GreenletScheduler` running those kernels |
| `PipeProgram` | what the pipe passes read of a module: grid, pipes, kernel functions, nested regions, conditions as lists of SSA values |
| `LaunchDomain` | on which nodes an operation may run, from the guards around it |
| `PipeVerify` | the two verifiers: pipe guards and wait-for graph; single producer and consumer |
| `PipePlan` | inserted waits, slots, live posts, intervals, colours, semaphores, tables |
| `PipeTransfer` | abstract: a transfer takes place when all destinations have posted, and a wait returns after its own |
| `PipeDevice` | the passes in order, then the emitted code of post, send and wait on every node and thread |
| `CopyWait` | which copies get a wait, where, and the events that fire it |
| `NodeCoords` | coordinates of any rank, pipes' ranges, the active set, counts of receivers and semaphores, on both sides |
| `NodeContext` | one call of an operation: kernels' order, PipeNets in reach, each node's copies, rebinding, validation |
| `CopyEndpoints` | which copies the simulator validates and which the compiler emits, with the tiles they move |
| `SimTensor` | views and locality, core sets, work on cores, mesh mapping and collectives |
| `BlockOps` | block operators, element by element; the shapes the compiler gives them |
| `WorkSplit` | work over nodes, blocks of a matmul |
| `Launch` | cache, registries, compiling and launching over several calls, some of which raise |
| `Runner` | arguments, buffers, L1 budget, semaphores of a launch, and the emitted stand-alone runner |
| `KernelAst` | statements, scopes, memory cells and profiling zones of a compiled body, beside Python's meaning |
| `DstAllocation` | copies, live intervals, registers, unrolling, scheduled order, and what the lowered operations do |
| `Profile` | device logs as the cores write them, and the totals the tools make of them |
| `Toolchain` | the parts that compute one answer from one input (`CopyEndpoints`, `Runner`) and what is said of them |
| `MC*` | instances for TLC |
| `*Proofs` | theorems about the module of that name |

How they compose: `BlockState` is extended by `BlockProtocol`, `DataflowBuffer`
and `PipeCopy`, which apply its transition functions to the machines they keep.
`DataflowBuffer` implements `BlockChannel` and `PipeDevice` implements
`PipeTransfer`, each under a refinement mapping. `SimProgram` extends
`KernelNetwork`, whose steps it schedules, and keeps of a buffer only its
counters; that these decide what can be acquired is what `DataflowBuffer` shows.
`PipeDevice` extends `PipePlan`, which extends `PipeVerify`, `LaunchDomain` and
`PipeProgram`: a module is refused by a pass or runs exactly the code and the
plan that the passes computed for it. `MCToolchain` puts the other parts side by
side, each on its own inputs: it extends `Launch`, `CopyWait` and `Toolchain`
and instantiates the rest.

**Correspondence of steps.** A step of the simulator runs from one possible
switch of greenlets to the next. In `DataflowBuffer`, `wait()` is `WaitBegin`
(the automatic pop, up to `block_if_needed`) and `WaitEnd`; `reserve()` likewise;
a copy is started by `copy()` and finished by `tx.wait()`. `_tagged` releases
without yielding, so `Return` pushes and pops at once. In `SimProgram` a step is
one decision of the scheduler or one segment of a call. A call the machine
refuses raises an error that ends the run, so a refusal is a guard and the
behaviour may stop there: the runs of `DataflowBuffer` and `PipeCopy` do not
check for deadlock. `BlockProtocol` does: a held block can always be used or
released. In `PipeDevice` one step is one access to shared memory of the emitted
code (a remote write, an atomic increment, one look at a spinning semaphore, the
payload); an increment in flight arrives by a step of its own. It stops when all
threads have ended or when the module was refused; that it does not stop earlier
is `Terminates`. In `Launch`, `BlockOps`, `Profile` and `CopyWait` a step is one
stage of a call, one operator, one row of a log, one line event. The other parts
compute one answer from one input, and have a state for each input.

Definitions with the comment "Mutant of" are faulty variants of the
definition that follows; no specification uses them. Each shows that one
property notices one plausible bug.

## Runs

| Run | Result | Bounds | What it shows |
| --- | --- | --- | --- |
| `block_protocol` | holds | all 4 kinds of block, up to 4 copies out; 3 blocks of any kinds at once and a temporary | the machine agrees with the copies in flight, a block is released quiet and written, what the machine expects it accepts, a lost read is reported, and no *source* that `store()` marks refuses the mark behind others marked already; of the destination see below |
| `dfb_channel` | holds | ring of 3, 2 data values, 2 copies out, every role assignment | handles follow the ring and share no slot; nothing pending at exit; what one kernel does leaves the other's block and data alone; implements `BlockChannel` |
| `dfb_one_kernel` | holds | ring of 2, one kernel at both ends, stale handles | slots hold data exactly when visible |
| `dfb_stale_pop` | violated | ring of 2 | a stale handle pops a slot nobody waited for |
| `pipe_copy` | holds | 3 receivers, 2 blocks, 3 messages, 2 runs | each node takes each message once and in order; none dropped, none kept |
| `pipe_leak` | violated | 2 runs | a message crosses from one run to the next |
| `sim_program` | holds | 3 kernels, 3 buffers of 1 or 2 slots, a pipe; every script of up to 3 (first kernel) and 2 calls; both algorithms | the answer is right, the run ends, no starvation, resumed calls succeed |
| `sim_multicast` | violated | one program, 2 receivers | a receiver is resumed in vain and the run fails |
| `pipe_device` | holds | 11 kits of modules with up to 2 pipes, 2 or 3 nodes, 3 functions, `Rounds` 2, `BlockCount` 2, `MaxSemaphoreIds` 3 | domains miss no node; one thread at each end of a buffer; a pipe operation runs at its end of the pipe, and a wait has a push to wait for; the ready counter never passes its target; addresses are those of the pipe; data arrive; implements `PipeTransfer`; accepted, matched modules end |
| `pipe_collective` | violated | a pipe and a collective into one buffer | receivers publish different addresses |
| `toolchain` | holds | below | waits, nodes, work, views, collectives, cached kernels, bodies, blocks, contexts, arguments, copies, reports, registers; where the code goes wrong on some inputs, exactly on which |
| `launch_alias` | violated | 2 calls | an operation cached for one tensor passed twice serves a call with two |

**`toolchain`, part by part.** *Waits*: every filling of five skeletons of
statements with copies, waits and others, loops of up to `Trips` = 2. *Nodes*:
grids of one to three axes with every pipe on them. *Work*: grids of up to 4 by
4 and two of three axes, up to 34 units; 1920 matmuls. *Views*: 4 by 4 tensors,
`TileSize` 2, every sharding, cut once or twice; meshes of 2 and 4 devices.
*Launch*: three operations, one with an automatic grid and a keyword and one
that raises, on four devices, two of one architecture with different grids,
`MaxCalls` 3, `MaxCBs` 3. *Bodies*: a compound statement of every kind around
two of eleven statements, and one behind it. *Blocks*: up to `MaxSteps` = 3
operators from every tensor, `TileSide` 2. *Profile*: two cores, `MaxRows` 4,
`MaxRuns` 1. *Contexts*: three names bound in every way to ten kinds of objects,
`NodeIds` {0, 1}. *Runner*: threads in both orders, all combinations of buffers
(of two and three dimensions) and tensors, `L1Budget` 20000 bytes, so that some
launches fit and some do not. *Copies*: every pair of a subscripted tensor, a
block or a pipe. *Registers*: bodies of three operations over two tiles, and of
four with two sums of inputs, 4 registers, 2 tiles; both accumulation modes of
additions and both allocation modes.

**Why the bounds are enough.** The machine counts copies but tests the count
only against one, so four copies reach every case (the proofs cover all
numbers). A ring of three has a wrap, a middle, and room for a visible and a
reserved slot beside the head; the proofs cover every capacity. Three receivers
give a message a first, a middle and a last taker; the proofs cover every set.
Three kernels in a ring of buffers have cycles of waits through full and through
empty buffers. On the device, two rounds let a semaphore be used again after its
reset, a block be written again after its pop, and one node be a round ahead;
the second pipe shares the semaphore, the buffer, the function or the PipeNet
with the first; `MaxSemaphoreIds` = 3 makes one kit exceed the hardware. In the
compiled and computed parts the case distinctions are on axes (one, two, more),
on first, middle and last, and on equal and different, which the inputs contain
in all combinations.

**The bounds in guards** are `MaxReads` (copies out of a block), `MaxTensors`,
`MaxMessages`, `MaxRuns` (`PipeCopy`, `Profile`), `Rounds` (loop around a
function's body), `Trips`, `MaxCalls`, `MaxSteps` and `MaxRows`.

**Fairness.** `SimProgram` states `WF_vars(Next)`: the simulator is one thread
running a loop, and its next step is determined. No fairness among kernels is
assumed: that the scheduler is fair to them is what `PassedAtMostOnce` checks.
`Termination` relies on scripts being finite: a kernel that computes for ever
never returns to the scheduler. `PipeDevice` states `WF_vars(Run)`, that the
device as a whole goes on; a spin that does not succeed is not a step, and the
rounds are finite, so no behaviour goes round in a circle and no stronger
assumption about a single thread or message is needed.

`AnswerIsRight` compares the end of a run with `Settle`, one execution of the
network in which kernels take whatever step they can until none can.
`SettleIsAnySchedule` proves that every execution ends in the same state when
each end of a buffer or a pipe belongs to one kernel.

**What the device's properties assume.** They name the promises of a program the
compiler does not check. *Orderly*: at each node one function receives from a
PipeNet and waits for each receive before it posts the next, a wait is of a
receive before it, and one thread sends on a pipe. *Uniform*: the receivers of a
collective post and push equally often in a round, and have pushed equally often
before posts of equal rank. *Matched*: a source sends as
often as its destinations receive, and buffers are filled as often as emptied.
Without the first, the counting of arrivals confuses senders, and two functions
that send on one pipe spin for the same posts; without the
second, `pipe_collective` shows what happens; without the third, any protocol
would hang.

**What the plan is trusted with.** `PlansOk` says what the colours of the
resource plan are for: two pipes of a node that share a ready counter take
turns, one thread using both, and sending on the one that it has posted before
it does anything with the other. The colouring folds over sorted sequences,
about which nothing can be proved, so the theorems about the device assume
`PlansOk` and the instance states it as an `ASSUME` (`MCPlansOk`): TLC compiles
every module of every kit, computes its plan and looks. An interval that ends
too early makes the assumption false. `BlocksOk` says what the frontend's `with`
statements give the code: a block is reserved before it is posted or pushed and
waited for before it is popped, and while a receive is under way its block is not
pushed and its tile not received into again. A body that calls `push()` before the
`wait()` of its copy is outside it; no pass looks for that. The instance states it
as `MCBlocksOk`.

## What the runs found

1. **A spurious wake-up of multicast receivers** (`sim_multicast`).
   `PipeToBlockHandler.can_wait` asks for the current node; the scheduler polls
   it from the main greenlet, where that raises, and the fallback answers that
   any queued message will do. A receiver that already took the message is
   resumed and `transfer()` fails. With one receiver per pipe the fallback is
   exact, which is why `sim_program` uses one.
2. **A pop of a block nobody waited for** (`dfb_stale_pop`). `pop_block()` tests
   only the visible count when no block is pending; its docstring promises an
   error. A `with dfb.wait() as blk:` whose body pops drops the next block.
3. **Messages that survive the run** (`pipe_leak`). `cleanup_run_context` leaves
   the pipe queues.
4. **Collectives into a buffer whose write pointers differ**
   (`pipe_collective`). The plan compares buffer, type and offset of the
   receivers, not their pushes.
5. **Tensors found by identity** (`launch_alias`). One tensor for two parameters
   is compiled to the last place, and the cache key does not tell.

Two more are stated but have no run: `NeverReadsGarbage` (`BlockProtocol`;
operators and `store()` accept an unwritten block as a source, `dfb.py:641`) and
`DataIsStable` (`PipeCopy`; a message is the sender's own tensor, which it may
overwrite after its `tx.wait()`, `copyhandlers.py:197`).

## Where the code goes wrong, exactly

The properties of `toolchain` do not leave out the inputs on which the code
breaks its rule: they are equivalences, and TLC confirms both sides on every
input. What they delimit:

- *Views* (`LocalityIsOwnership`). The origin of a view is its place in the root
  unless one of its indexings has a start on one axis and no bounds on another:
  `__getitem__` then keeps the parent's origin on all axes
  (`ttnnsim.py:1530-1534`), against its comment (1523-1524).
- *Collectives* (`CollectivesReachAll`). A gather gives every device the pieces of
  its group unless the other mesh axis cuts the gathered dimension and both axes
  have several devices (`ttnnsim.py:2301-2309`; 2253-2254 promises it always).
- *Profiling zones* (`CompiledMeansPython`). Every zone is closed on every path
  unless the body has a PipeNet callback that opens zones of its own and the
  node lacks the role of the callback's first pipe (`ttl_ast.py:490-507`).
- *Registers* (`RegistersKeepValues`). A body stores what it computes exactly when
  no FPU operation is given a register that a copied tile or an SFPU operation
  used before: it adds to whatever is there, and only the intervals of FPU results
  are extended (`TTLAssignDST.cpp:380-425`).
- *Buffers of a node* (`NodesKeepToThemselves`). A node has a buffer of its own,
  released and validated, exactly when the buffer has one name and is in no list
  and no helper's closure (`program.py:326-329`, 377-387; 368 says *all*).
- *Coordinates* (`ActiveSetIsWhoTakesPart`). The coordinates `node()` gives fit
  `grid_size()` for any number of dimensions unless they are fewer than the
  grid's and folding the first axes differs from folding the last
  (`nodecontext.py:122-133`, 171-176; the specification, line 147, folds one way).
- *Zones of several cores* (`ReportsAreTheRun`). A zone that no other core or run
  has is reported with its cycles, however the rows are mixed. A shared one, which
  `auto_profile.py:164` and `signpost_profile.py:60` key without the core, may be
  lost or cut short, and is never reported more often or longer than it was.

Four do not delimit the failing side but name the condition under which they
speak, or speak of less:

- *Cached kernels* (`KernelIsThisCalls`). The cache key has neither the grid of
  the device nor keyword arguments (`ttl_api.py:141-158`, 1403). Both vary in
  the model, with devices of one architecture and two grids. A call gets the
  kernel of one execution of its own body, for a call alike in everything the
  key has; nothing more is true.
- *Injected waits* (`EveryCopyIsWaitedFor`). The wait is put at a line
  (`analysis.py:384-389`). The condition `LinesDecide` is of one copy, not of its
  function: it holds of a copy with a wait in its own or an enclosing
  block behind it, outside any loop it is in, and of one for which the next line
  is the next statement. At the end of an arm or of a loop the wait comes after
  other statements or, as the variable holds another transaction then, never.
- *Copies* (`CopiesAgree`). The compiler takes the start of a range and the extent
  of the block and compares no end and no bound (`operators.py:431`); the property
  is about slices of the block's shape inside the tensor, of any rank.
- *Runners and buffers* (`ProgramHoldsTogether`). The emitted runner gives compute
  threads the default configuration (`kernel_runner.py:732`) and some formats the
  name of bfloat16 (586-601): the property is that it keeps everything else, for
  every configuration and format. The launcher counts the tiles of a block as
  `shape[0] * shape[1]` (408, 673), the compiler with all dimensions
  (`TTLValidateCBBudget.cpp:101-111`): the model does as the launcher, and the
  property is about the bytes that are allocated, not about the tiles that
  threads use of blocks of three dimensions.

One failing case of `store()` is modelled and has no property: the sources are
marked (`dfb.py:671-673`) and the destination refuses `mark_store_complete()`
(675), because the check before (639) lets through access states that the table
refuses. The store is then half done, although the comment at 637-638 says that
state-machine errors come first.

## Where two sides disagree

Further differences met while reading, by module. The runs stay on the side
where both agree, or the property names the condition.

- `BlockState`, `SimProgram`: `ror_count` keeps its last value outside ROR
  although `blockstate.py:452` documents 0. The docstring of
  `_initialization_phase` says that kernels blocked on their first check keep
  timestamp 0, but `block_if_needed` marks progress before it blocks. `wait()`
  and `reserve()` document an error when called again before the release, but
  release by themselves.
- `CopyWait`: a wait in the other branch counts as one; handles waited
  for through a container do not; the pattern of the `GroupTransfer` docstring
  (`copy.py:225-229`) is rejected.
- `NodeCoords`: the simulator's `Pipe` validates three axes only;
  destinations outside the grid are not refused; a pipe of rank 2 on a grid of
  three axes has an active set that `is_dst` does not agree with.
- `NodeContext`: names equal to the wrapper's locals (`args`, `kernels`, `grid`)
  are shadowed. A list of
  tensors is deep-copied, so writes through it are lost. A PipeNet in a list is
  not found; one of another operation at module scope is, and restricts this
  operation's nodes (`pipe.py:387`).
- `CopyEndpoints`: the simulator compares numbers of tiles and copies
  unsubscripted tensors; the compiler refuses. The compiler takes a pipe in
  either direction of its callback.
- `BlockOps`: copies and stores compare the number of tiles, so blocks of other
  shapes and equal number are scrambled; a lower-rank block of an N-dimensional
  tensor breaks `to_list`; `reduce_max` over a reduced axis sees the padding;
  `squeeze` to rank 1 and `unsqueeze` of a rank-1 block fail; the simulator's
  reductions need a `shape` that the compiled ones do not take.
- `SimTensor`: counters of height, width and block sharding ignore leading axes;
  shards are cut from the unpadded shape, so the padding belongs to no core;
  column-major order is ignored; `t[-1]` is empty; `split_work_to_cores` returns
  the full grid.
- `WorkSplit`: a grid of ones alone has no result; the search can exceed its
  memory budget (`MatmulFitsTheBudget` is stated and fails: `Mpc` is stale at
  `block_allocation.py:485`).
- `Launch`: the cache key leaves out scalars, closure values and the L1 budget
  too. With buffers of which no thread captures any, the two sides disagree on the
  base of the addresses. A remaining L1 of 0 means no override. A
  kernel without compute passes the check of kernel counts. An operation that
  calls another loses its registry.
- `Runner`: the emitted runner fails on buffers the compiler allocated and leaves
  out the L1 check and the semaphores' lifetime.
- `KernelAst`: `//` and `%` truncate; negating a boolean is one bit wide; a name
  assigned in a block binds there only; `x = y` shares a cell; a loop variable
  shadows; a name assigned later reads the module's global; `and` and `or`
  evaluate all operands.
  `CompiledMeansPython` is about bodies that compile and rebind no outer name.
- `Profile`: a zone nested in itself loses the outer one; lines with the same text
  are one entry although `auto_profile.py:9-10` promises entries per line.
- `PipeVerify`, `PipePlan`, `PipeDevice`: a wait can be satisfied by another
  sender's arrival (`PipeNets.md:65-66`); arrivals are counted per function and
  the semaphore is per node; the check of queue depth ignores loops
  (`PipeNets.md:381`); a domain stays unknown behind an `if` nobody could
  analyse; a second wait of one handle is accepted, and so are two functions
  that send on one pipe.
- `DstAllocation`: the extension is made on an operation's result, not on the
  class that the scan later expires.

## Theorems

Checked by TLAPS, for every value of the constants under the named assumptions
of the modules (`Cap >= 1`, `MaxReads >= 1`, finite sets, special values differ):

- `BlockProtocolProofs`: `TypeCorrect`, `StateTracksCopies`, `LostReads`,
  `Confirmations` (a block that awaits confirmation accepts it),
  `QuietRelease`, `ExpectationsHold`, from `Invariance`. None is
  inductive: from a state in which the expected set does not belong to the
  access state, any operation could be accepted. `IInv` adds that it does
  (`Consistent`), that the state tracks the copies, that a readable state was
  written, and that a compute kernel's waited block is in RW only after a read
  that awaits confirmation or was stored. `ExpectationsHold` needs in addition
  what each kind of block may expect in each state, which the table gives.
- `DataflowBufferProofs`: `TypeCorrect`, `CountersAgree`, `HandlesAgree` (with
  it, that the two blocks share no slot), `SlotsAgree`, `CleanExit` and
  `EndsAreApart`, from `Invariance`, with and without stale handles. `IInv` is
  about the ring and both blocks at once (`RingOK`): a reserved block in a
  readable state has written data in its slot, which is what makes a pushed slot
  hold data; `Held` ties each block to its kernel and its machine to the copies
  in flight; `PcShape` says that a kernel inside `reserve()` or returned holds
  no block. `EndsAreApart` follows from where the slots of the two ends lie: a
  kernel's steps write no slot but its own block's, and no step of the producer
  is one of the consumer's block. `BufferIsChannel`: without stale handles every
  step is one of `BlockChannel`, or a stutter. The channel's queue is the
  visible slots in ring order, so the proof is one of sequences that wrap
  around: a push appends, a pop takes the tail, and a store into the reserved
  slot leaves the queue alone.
- `PipeCopyProofs`: `TypeCorrect`, `QueueAgrees`, `InOrder`, `KeptUntilTaken`,
  from `Invariance`. `IInv` says that the queue holds the latest messages with
  consecutive ids (`EntriesMatch`), and that a node is in a message's set of
  receivers exactly when it has taken more messages than that one's id. So the
  sets are nested, a later message is never complete before an earlier one, and
  only the first can leave: this is why `transfer()` may search the queue from
  its front and delete where it finds.
- `BlockStateProofs`: what each transition accepts and where it leads, cited by
  the others. The table is read once, there.
- `SimProgramProofs`, of the network: `SettleIsAnySchedule`, by Kahn's argument.
  A kernel's step reads and writes what is its own, and the steps of others can
  make it possible, never impossible; so an execution that cannot go on has got
  as far in every script as any other. It needs `OneKernelPerEnd` and
  `SoleReceivers`.
- `SimProgramProofs`: `AnswerRight`, `ResumedSucceed` and `PassedOnce`, from
  `Invariance`, for every program with `OneKernelPerEnd` and `SoleReceivers`.
  The first is what the compiler checks and the simulator does not; that the
  second is needed is what `sim_multicast` shows. Every scheduler step is a step
  of the network or leaves it alone. `IInv` says which candidates the scheduler
  has polled and found stuck since anything last changed, so that it reports a
  deadlock only in a state from which the network cannot go on; and that a
  kernel passed over is ahead of those that were chosen by timestamp, which
  bounds the passing by one.
- `PipeDeviceProofs`: `DomainsMissNoNode`, `GuardsKept` and `OneThread`, from
  `Invariance`, for every set of modules with `ModulesOk` (operations and their
  regions are finite trees, conditions name earlier values). Along every path to
  an operation the computed domain contains the nodes that take it: an
  induction over the path, where each guard narrows the domain no more than the
  branch does, and an `if` nobody could analyse does not narrow it. So what the
  two verifiers find of the domains holds of the code that runs. The narrowing
  of a callback's domain by its pipe, on which the single-producer check relies,
  is sound only because the guard verifier has run before: the invariant
  follows the order of the passes.
- `PipeDeviceProofs`: `ReadyBounded` and `DeviceIsTransfer`, from
  `CountersCount`, under `ModulesOk` and `PlansOk`, for every number of nodes,
  pipes, functions and rounds. Neither is inductive: a counter says nothing of
  who raised it. `DInv` relates every counter to the places of the threads. A
  receive is open or filled exactly while its thread is between the post and
  the wait (`EndsOk`), and an orderly thread is between at most one such pair of
  a PipeNet. The ready counter plus the increments on their way is the number
  of open receives (`CountOk`), of the one pipe among those sharing the counter
  that has any (`TurnsOk`). So a send that finds its number finds every receive
  open and no increment on its way, and its reset loses none (`SendsOk`). The
  completion counter is ahead of a thread's waits by one exactly when a receive
  of the node is filled and signalled (`DoneOk`); as only one can be awaited,
  the arrival that a wait counts is its own.
- `PipeDeviceProofs`: `SendsFindTheirAddress` and `ConsumersGetTheirTransfer`,
  from `BlocksFlow`, under `BlocksOk` as well: in every orderly and uniform
  module, with as many blocks, rounds and receivers as one likes, a send writes
  to the place its receivers posted for this very transfer, and what a consumer
  pops is what its block was posted for. `FlowInv` relates rings, address tables
  and memory to the open receives. A thread that has reserved finds the ring not
  full until it pushes, and one that has waited finds it not empty until it pops
  (`RoomOk`, `DataOk`; `OneThread` says that nobody else moves that end), so the
  block to be popped is none that is being received into. The transfers of a
  pipe and the pushes of a buffer are counted by the rounds and positions of the
  threads (`PostsOk`, `PushesOk`, with `Ran`), whence two receivers of a
  collective with the same open transfer have the same write pointer, which is
  what *uniform* is for. The slot of an open receive holds its place and the
  place is promised to its transfer (`AddressOk`): another pipe with that slot
  has no open receive by the turns of `CountersCount`, another receive into that
  place belongs to the same thread, and `BlocksOk` rules it out. A promise that
  is not kept is of an open receive (`MemOk`). *Uniform* is stated by counts
  rather than by filtered sequences, of which nothing can be proved; it admits
  more modules that way.
- `LaunchProofs`: `RightKernel`, from `Invariance`, under `CallsOk`. While a body
  runs, the global list is exactly what it has decorated so far and the buffers
  have consecutive indices (`Follows`); collecting turns this into a fact of the
  build (`Collected`); in the cache it becomes one of every call with the
  kernel's key. `CallsOk` says nothing of grids or
  keywords, which the key leaves out, and neither does the theorem; its clause on
  buffers that nobody captures is the disagreement named above.
- `LaunchProofs`: `OrderlyCallsSucceed`, under `CallsOk`: a call whose arguments,
  buffers and grid are in order is launched, whatever was called, failed or
  cached before it. Whether a call fits is a matter of sums over buffers, of
  which a cached kernel has those of the call that compiled it. So the invariant
  (`GInv`) is about two calls at once: what the kernel of a key needs (numbers
  and sizes of buffers, arguments, semaphores) is the same for all calls with
  that key, and the registries a body left behind when it raised are not read
  by the next.
- `ToolchainProofs`: `CopiesAreWaitedFor`, under `ProgramsOk` (statements are
  numbered from top to bottom and nest as Python's do), for bodies of any
  length, depth and number of iterations. What runs behind a statement is
  defined by recursion over the nesting; `BehindIs` and its corollaries turn it
  into a fact about intervals of lines: it leads down in the same block, out of
  it, or back to the head of a loop. `CWInv` says that a copy not waited for is
  on its way to a wait (`WaitsAreComing`): the last statement run was the copy
  and the next event fires its injected wait, or the wait stands below it in its
  own block, in which the program still is. The hypothesis `LinesDecide` is of
  the copy alone: the rest of the body may have copies for which a line is not
  enough, whose waits come late or never, and they do not disturb it.
- `ToolchainProofs`: `SameTilesMove`, for tensors, blocks and subscripts of
  every rank and size: where the simulator and the compiler both take a copy, it
  moves the same tiles to the same places. The simulator enumerates the tiles of
  a view by its own shape, the compiler those of the block; the strides of a
  shape with axes of length one in front are those of the shape without
  (`SameStrides`), so the n-th tile of both is the same (`PlaceInFront`). The
  attempt found an error of the model: `SimCopy` chose between a tensor's and a
  pipe's handler by guards that overlapped, and `CASE` does not say which wins.
- `ToolchainProofs`: `LaunchesHoldTogether`, for any number of tensors, buffers,
  kernels, pipes and cores: a launch that `kernel_runner.py` lets through agrees
  with the ABI the threads were compiled for, its buffers as allocated fit the
  L1, and the emitted runner, when one can be written, differs in compute
  configurations and names of formats only, for every kernel. The arguments of a
  thread are sequences put behind each other; `JoinsHold` says where each
  begins, which is what the compiled thread counts on. `BuffersFit` adds up the
  bytes. The attempt found a launch the model let through and ttnn does not: one
  without buffers, where no budget is checked, and with more memory for pipes
  than the L1 has. ttnn's own refusal is now `AllocationOk`.

Each hypothesis is an `ASSUME` of the instance (`MCOneKernelPerEnd`,
`MCModulesOk`, `MCPlansOk`, `MCBlocksOk`, `MCLaunchCallsOk`, `MCWellNested`, and
`MCEnds` and `MCLaunches` for the classes of endpoints and launches), so TLC
evaluates it on the inputs of the runs.

Only model-checked: that the plans of `PipeDevice` take turns (`PlansOk`), and
the properties of `MCToolchain` other than `KernelIsThisCalls`,
`GoodCallsSucceed`, `EveryCopyIsWaitedFor`, `CopiesAgree` and
`ProgramHoldsTogether`. Out of the prover's reach: liveness (`Termination`,
`Terminates`), and what is computed by folds and filters of sequences or by
recursion over data (colouring, compiled bodies, registers, shards, reports):
the provers know no induction over them.

## Not modelled

- *Simulator reporting, command line, statistics, error text*: output only.
- *Element arithmetic*: an operator stands for its class (one unary, one sum); no
  formats, rounding or random tensors.
- *Dialect lowering*: the rewriting of operations from one dialect to another;
  its meaning lies in two dialects defined elsewhere. What the lowered tile
  operations do to registers is in `DstAllocation`, and what pipe operations
  become is in `PipeDevice`.
- *Other buffer passes* (`TTLFinalizeDFBIndices.cpp`, `TTLInsertSync`,
  coalescing of acquires): rewritings of nested regions whose properties would
  need the operations' semantics.
- *Matmul bodies* in `DstAllocation` (`LowerMatmulCompute` gives them other
  registers) and the choice of subblocks.
- *Byte sizes, NoC numbers and the translation of coordinates* on the device.
- *`GroupTransfer`*: a loop over `wait()`. `set_unrestricted`: temporaries have no
  protocol.
- Exceptions that a kernel catches and goes on after; more than one producer or
  consumer of a buffer in the simulator, which does not check it (the compiler
  does: `OneThreadPerEnd`).

## Plan

1. *Done:* the simulator's core; the compiled pipe protocol with its verifiers;
   the toolchain's parts; proofs about blocks, buffers (with their refinement),
   pipe queues, the scheduler, the pipe verifiers, the device's counters (with
   their refinement), the kernel cache and its calls, injected waits, launched
   programs, the agreement of the two sides on copies, and the addresses and
   data of the device.
2. *Proofs:* `WorkIsSplitExactly`.
3. *Models:* index allocation by live interval (`TTLFinalizeDFBIndices.cpp`);
   matmul bodies in `DstAllocation`; two receives of one kernel waited for out of
   order.
