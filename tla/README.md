# A verification development for MathTS

MathTS is a mathematics library in TypeScript. Most of it is numerics: functions of their arguments, tested
as such. What a test hardly reaches is the small part that keeps state across callbacks, threads and
requests: the worker pool that spreads work over threads, the incremental workbook server, the GPU buffer
and batching layer, the WebAssembly memory pool. This directory models that part in TLA+, checks the models
with TLC and proves theorems about them with TLAPS. Paths below are relative to `src/`.

## Contents

| file | what it is |
|---|---|
| `WorkerPool.tla` | `parallel/src/WorkerPool.ts`, every handler and public call, with the threads as environment |
| `TaskService.tla` | what the callers of a pool are promised, without workers; `WorkerPool` refines it |
| `ParallelMatrix.tla` | `parallel/src/ParallelMatrix.ts` over a pool as `TaskService` promises it |
| `MathWorkerPool.tla` | the life of the pool of `packages/workerpool/src/index.ts` over the `workerpool` library |
| `Blocks.tla` | how these two cut work into ranges |
| `WorkbookSession.tla` | `workbook/src/session.ts` with the graph, the edits and the executor it calls |
| `TopologicalSort.tla` | `topologicalSort` of `workbook/src/graph.ts`, loop by loop |
| `AtomicWrite.tla`, `AtomicFile.tla` | `workbook/src/fs-atomic.ts`, system call by system call, and the atomic register it implements |
| `TimeoutRunner.tla` | `workbook/src/timeout-runner.ts`, the race of deadline, message, error and exit |
| `ServeLoop.tla` | `runServer` of `workbook/src/cli.ts` |
| `MtswFile.tla` | the composition of the last three: `mtsw serve` and `mtsw run --timeout --write` on one file |
| `BufferPool.tla` | `gpu/src/BufferPool.ts`, every method that changes state |
| `GpuDispatch.tla` | contexts, the shared device and its loss, the dispatch queue, the life of a dispatch |
| `BatchExecutor.tla` | `matrix/src/backends/gpu/BatchExecutor.ts` |
| `WasmMemory.tla` | loading and the array pool of `matrix/src/backends/WasmLoader.ts` |
| `WorkerPoolProofs`, `TopologicalSortProofs`, `WorkbookSessionProofs` | inductive invariants and theorems of the module named |
| `MtswFileProofs` | the same for `AtomicWrite`, and for `ServeLoop`, `TimeoutRunner` and their composition |
| `ParallelMatrixProofs`, `ParallelProofs` | the same for `Blocks` and `ParallelMatrix`, and for `MathWorkerPool` and `WasmMemory` |
| `GpuProofs` | the same for `GpuDispatch` and for `BufferPool` |
| `ListFacts.tla` | lemmas about sequences, finite sums and what is left of a list, used by the proof modules |
| `MCWorkerPool`, `MCWorkbookSession`, `MCWorkbook`, `MCGpu`, `MCParallel` | symmetry, instances and combined runs for TLC |
| `*.cfg` | one file per run |
| `PROJECT.json` | components, runs, source map, mutants, findings, hazards, theorems |

`tlc -config pool_safety.cfg MCWorkerPool` runs one check, `tlapm WorkerPoolProofs.tla` checks the proofs.
Definitions named `...Keeps...`, `...Anyway`, `...OffByOne` and the like, marked "a fault" in the modules,
are faulty variants of the definition that follows them: replacing the definition by the variant must break
a property (`PROJECT.json`, `mutants`), which shows that the property can fail.

## Inventory

**Worker pool** (`parallel/src/WorkerPool.ts`). State: the roster of workers, the idle list, a FIFO queue of
tasks, the map of active tasks, a timer per timed task, the set of workers that ever answered, a count of
start-up failures, `terminated`. Operations: `execute`, `terminate`; callbacks for a worker's messages and
errors, for timers, and the continuations of `createWorker`, which is awaited in three places. It interacts
with its threads by messages. Hard: all of these interleave, a message may concern a task that is gone or a
worker that was evicted, spawns fail, `postMessage` throws. Correct when no call is lost or settled wrongly,
no worker leaked or shared, capacity is kept, a crash touches only its own task, and `terminate` leaves
nothing behind.

**Compute pool, parallel matrix** (`parallel/src/ComputePool.ts`, `ParallelMatrix.ts`): clients of the pool
that cut an operation into blocks and join the results. Hard: reconfiguration replaces the shared pool under
running operations, and callers may write to their arrays. Correct when every block is computed once from
the numbers of the call and lands in its place, or the call fails as a whole.

**Workbook session and server** (`workbook/src/session.ts`, `executor.ts`, `edit.ts`, `graph.ts`, `rpc.ts`,
`cli.ts`). State: the open document, a cache of cell results, the set of stale cells, a dirty flag.
Operations: open, add, edit, remove, move, rename, metadata, run (whole or one cell with its ancestors),
save. Requests arrive as lines and are chained one after the other; a run awaits each cell. Hard:
incremental runs reuse results across arbitrary sequences of edits; a run reads state before its awaits and
writes it after. Correct when a cached result is what a run from scratch would give.

**Timeout runner and atomic write** (`workbook/src/timeout-runner.ts`, `fs-atomic.ts`): a deadline, a
message, an error and an exit race to settle one promise; a file is replaced by rename, with retries. Hard:
system calls fail, processes die between them, several write the same file. Correct when the file always
holds one complete text, and nothing outlives its deadline.

**GPU foundation** (`gpu/src`): a buffer pool with eviction, a context whose device may be lost, a shared
device promise, one queue for all dispatches. Correct when no destroyed or busy buffer is handed out, the
byte count matches, a lost device is not handed out again, and dispatches never overlap.

**GPU batching** (`matrix/src/backends/gpu`): operations are queued and flushed as one command buffer, with
an await in between. Correct when each queued operation is submitted exactly once, in order.

**Matrix backends** (`matrix/src/backends`): selection by thresholds with fallback; a pool of WebAssembly
memory blocks. Correct when no block has two owners and its header carries the length asked for.

**MathWorkerPool** (`packages/workerpool/src/index.ts`): lazy start, warm-up, terminate and restart over the
external `workerpool` library; chunked map, filter and reduce.

**Everything else** (core types, typed dispatch, expression language, the function library, tensor,
autograd, plot, assembly): computation without shared state, not modelled.

## WorkerPool

An action is one turn of the event loop that owns the pool. JavaScript runs a turn to completion, so the
code up to an `await` is one action and the code after it another; the threads act between turns.

| actions | code |
|---|---|
| `Execute`, `ExecuteTerminated` | `execute` (343-377); idle worker or queue; timer |
| `Terminate` | `terminate` (383-405) |
| `WorkerStarts`, `WorkerStartFails` | `initialize` (85-98) and `evictAndReplace` (247-257) after `createWorker` |
| `TimeoutReplaced`, `TimeoutStartFails` | `handleTaskTimeout` after its `createWorker` (316-330) |
| `HandleWorkerMessage` | `handleWorkerMessage` (153-187), a known and an unknown task |
| `IgnoreWorkerError`, `HandleWorkerError`, `HandleStartupCap` | `handleWorkerError` (189-224) with the synchronous part of `evictAndReplace` |
| `HandleTaskTimeout` | `handleTaskTimeout` up to its `await` (290-312) |
| `WorkerReplies`, `WorkerFails`, `DropEvents` | the threads: answer, uncaught exception, events of a terminated worker that are never delivered |

`processQueue` is part of every action whose code calls it. `starting` counts the pending `createWorker`
calls of `initialize` and `evictAndReplace`, which continue alike; `timedOut` holds the tasks whose timeout
handler is suspended. A worker is an identity; one that nothing refers to any more may stand for a later
worker, so the number of identities bounds how many are in play at the same time, not how many a behaviour
uses. `workers` is a set, because no code looks at its order.

Abstracted: payloads (only whether they can be cloned matters), task ids (the task itself), error texts, the
counters' getters. The environment is what the pool listens to: a thread answers with a result or an error,
or raises `error`, after which it stops (`worker_threads`) or runs on (browser). A thread that exits without
an event and a message of a third type are not modelled. `AnswersTwice`, `SpawnCanFail` and `Unclonable`
switch environments on.

Properties worth a word:

* `TaskTracked`: a pending promise is in exactly one of queue, active map and suspended timeout handler.
* `RosterOK`: the roster splits into idle and busy workers, each busy one running one task.
* `WorkConserving`: no task waits beside an idle worker. Every path that adds a worker has to drain.
* `MessagesOwned`: `handleWorkerMessage` gives back the sender of a message without comparing it with the
  worker of the task; this invariant is why that is right.
* `ThreadsOwned`: every thread that runs can still be stopped by `terminate`.
* `CapacityKept`: a step that loses a worker starts another, but for the cap, a failed spawn, `terminate`.
* `CrashIsolation`: a running task is rejected only with its own worker or by its own worker.
* `ImplementsService`: the refinement. A task is `running` from dispatch until its promise settles, so the
  abstract capacity also counts a timed-out task that still waits for its replacement worker.
* `QueuedOnlyWhenBusy`: a task queues only while each worker owes an answer (without uncloneable payloads).

### Fairness

`FairSpec` assumes weak fairness of every callback that is due, one condition per worker and task: node and
browsers run every queued callback, every expired timer and every settled promise's continuation. A thread
that was given a task answers it or fails. Nothing is assumed of callers, of `terminate`, of second answers,
of crashes of idle threads. `createWorker` settles one way or the other.

### Runs

| run | instance | shows |
|---|---|---|
| `pool_safety` | 3 tasks, 3 identities, `maxWorkers` 2, cap 2, spawns may fail, threads may answer twice | all safety properties |
| `parallel` (`MCParallel`) | 2 tasks, 2 identities, `maxWorkers` 2, cap 2, spawns may fail | the refinement; timed tasks always settle, others while there is capacity, `terminate` drains |
| `pool_startup_cap` | 1 task, `maxWorkers` 1 | violation: a task submitted after the cap waits for ever |
| `pool_unclonable` | 2 tasks, one uncloneable, `maxWorkers` 1 | violation: the worker that starts is leaked, and so are both tasks |

Two workers and three tasks are the least at which a task queues behind two busy workers, a message for one
task arrives while its worker runs another, and two timeouts overlap; the third identity lets an evicted
worker with events in flight coexist with two live ones. The code's cap is 3; the runs that must hold use 2,
which the start-up failures of two workers pass as well, and `pool_startup_cap` uses 3. Deadlock is not
checked: a pool with all calls settled and no thread failing rightly stops. Tasks are finite, so no counter
needs a bound beyond that: `startupFailures` passes the cap at most once for each worker that is then alive,
because beyond the cap a worker that fails is not replaced. The invariants are closed under permuting tasks
and identities, hence the symmetry; the liveness run uses none. Run `parallel` checks two more components,
below; its first state picks the machine that moves and the others rest, so their states add up.

### Proofs

`WorkerPoolProofs` proves, for any sets of tasks and workers and any setting of the environment constants,
the type invariant, every property that `pool_safety` checks, and the refinement `ImplementsService`. The
inductive invariant is `IndInv`, the conjunction of `TypeOK`, `TaskTracked`, `RosterOK`, `WorkConserving`,
`MessagesOwned`, `ThreadsOwned`, `TerminatedIsQuiet` and `TimersOwned`. None is inductive by itself. For
instance, that a message frees the right worker (`RosterOK`) needs that the sender runs the task
(`MessagesOwned`); that a new task does not reuse a worker with old mail needs `TaskTracked`; that one turn
dispatches at most one task needs `WorkConserving`: when a worker becomes idle either nothing is queued or
nobody else is idle (lemma `Drain`). The layout follows the code: lemmas about the lists (`push`, `shift`,
`splice`), about `ProcessQueue`, one lemma per handler, then `NextIndInv` and the theorems. The only
assumptions are the three named `ASSUME`s of `WorkerPool`.

`CapacityKept` needs numbers. `NeverTooMany` adds to `IndInv` that roster and timed-out set are finite
(`Countable`) and that `Slots`, the workers there or on their way, never exceed `maxWorkers`; lemma
`SlotsStep` shows for each handler that it keeps `Slots` or has one of the reasons that `CapacityKept`
lists. The refinement `PoolIsService` rests on both. A task that callers see as `running` is in the active
map, where each task has a worker of its own, or in the timed-out set, so there are at most `Slots` of them
(`StartedFits`); this is what makes a dispatch a legal `SubmitAndStart` or `Advance` of `TaskService`. Then
each handler is mapped: `execute` to `Submit`, `SubmitAndStart` or, if the payload cannot be cloned,
`Refuse`; messages, worker errors, new workers and the end of a timeout to `Advance` (lemma `Advances`); the
timer of a queued task to `Expire` (`SpliceJoins`: `splice` leaves what was before and after); the start-up
cap to `Abandon`, `terminate` to `Shutdown`; everything else changes nothing a caller sees.

Only model-checked of this module: liveness, which the prover cannot derive from fairness.

## ParallelMatrix, MathWorkerPool, Blocks

Every operation of `ParallelMatrix` has the same shape, so one generic call stands for them. The numbers in
a caller's array are a version: 1 when the call is made, 2 after its caller wrote to it.

| definitions | code (`parallel/src/ParallelMatrix.ts`) |
|---|---|
| `CallSequential`, `CallParallel` | an operation below and above its threshold (295-325 and its siblings) |
| `Pools`, `Current` | `getWorkerPool`, the lazy static pool |
| `Passed` | `toSharedBuffer`: copied now, cloned when posted, or the caller's own shared memory |
| `RowBlocks`, `BlockCount` (`Blocks`) | `blockCount` and the loops that cut rows or elements |
| `Scattered` | gathering the blocks; a sum over blocks combines the same ranges |
| `Configure`, `TerminatePool`, `TerminateEnds` | `configure`, which does not await, and `terminate` before and after its `await` |
| `WorkerJoins`, `TaskStarts`, `TaskAnswers`, `TaskFails`, `PoolGivesUp` | what `WorkerPool` does, as `TaskService` promises it |

`Whole`: a resolved call has every row once, computed from the numbers its array had when it was called, if
it may rely on a copy (`useSharedMemory`, array not already shared). `NoPoolForgotten`: every pool with
threads is the static one, so that `configure` or `terminate` can end it, however these overlap, with one
exception: a pool that a call makes after a `configure` and while a `terminate` is awaited (`during`) is let
go, running, when that `terminate` ends (546-547). `CallsSettle`: also a call whose pool is replaced under
it.

| definitions | code (`packages/workerpool/src`) |
|---|---|
| `Initialize`, `InitializeEnds`, `InitializeFails` | `initialize` (522-566): shared promise, inner pool, readiness |
| `RunSequential`, `RunParallel`, `RunRefused`, `ChunkAnswered`, `ChunkFails` | the `runParallel` skeleton of every operation (2245-2278), `_timedExec` (736-759), `chunk-typed.ts` |
| `TerminateNothing`, `Terminate`, `TerminateEnds` | `terminate` (2350-2358), forced or not |

The library `workerpool` is outside the repository: it runs what it was given, fails it, or rejects it on a
forced `terminate`. It starts workers for a call even on a pool that it was told to end. Any number of
callers `initialize`, run and `terminate` at once; `pending` counts the `_initialize` that wait for the
worker script, `ending` says which `terminate` waits for which pool. `InnerPoolHeld`: the workers that run
are those of the pool the object holds or of one that is being ended, and no job waits for workers that are
gone. Two kinds of pools can run on: one that was created while an `initialize` and a `terminate` overlapped
(`strays`: `_initialize` sets the pool after `terminate` has read it, or `terminate` lets go of one it did
not end, 552 and 2353), and one that got a call while it was being ended (`revived`). A mutant that starts
two pools at once breaks the property: without an overlap nothing is a stray.

Run `parallel` (`MCParallel`): two matrix calls of 0 or 3 rows on up to 2 workers and 2 pools, with one
`terminate` awaited at a time; two jobs of 3 elements in chunks of 2 over 2 inner pools, with two
`terminate` at once; and `WorkerPool` above and `WasmMemory` below. Three rows on two workers give blocks of
2 and 1, the last one short. Two pools are one and its replacement, which is what `configure` or `terminate`
leave behind; a pool lost in between needs no third. `MaxTerminates` and `Enders`, the calls of `terminate`
that overlap, are bounds of the run only: the proofs hold for any.

`ParallelMatrixProofs` proves that the blocks partition any number of rows for any number of workers, that
chunks do for any positive chunk size, and, for any constants, `Whole`, `NoPoolForgotten` and that the state
is well formed. The invariant behind `Whole` says of every call that it has either no tasks or those of a
whole cut of its rows, that a call which may rely on a copy has tasks of the version it was called with, and
that nothing is written before the last answer; the step of that answer uses the partition theorem for "each
row, once". `PoolsInv`, the invariant behind `NoPoolForgotten`, adds that while a `terminate` is awaited an
open static pool was made meanwhile; nothing is assumed of how the calls overlap. That the state is well
formed is not only a matter of types: that a pool's worker count stays between 0 and `maxWorkers` needs that
no more tasks run on a pool than it has workers (`Manned`), since a failing task takes its worker with it.
`Manned` counts the tasks of all calls that run on one pool, so its step follows the set of running tasks
through every action (`WorkersSuffice`).

`ParallelProofs` proves `InnerPoolHeld` over the specification of the run. `MathInv` says of every inner
pool whose workers run which of the four it is: held, being ended, created while `initialize` and
`terminate` overlapped, or called while it was ended; of every job that waits that its pool runs; of
`initPromise`, `initialized` and `pending` which combinations occur as long as nothing crossed. One lemma
per group of actions (`InitStep`, `RunStep`, `JobStep`, `TerminateStep`, `EndStep`) carries it; there is no
assumption on the order of calls.

## WorkbookSession

An action is one request of the server, except `run`, which awaits each cell: `RunStarts`, one `RunCell` per
cell, `RunEnds`. The server chains requests, so no request is taken while a run is on: that is the guard
`Free`, and the mutant that drops it shows what would go wrong if `Session`, which is an exported class,
were used without the chain. The document is a function from cell ids to a content and a set of
dependencies. Contents are the classes that the properties tell apart: an expression that uses all its
dependencies, one that throws, a display or data cell, a test that holds and one that fails. The output of
an expression is the term built from the outputs in its scope, so two outputs are equal only when computed
from the same inputs. Evaluation is taken to be deterministic.

| definitions | code |
|---|---|
| `Open`, `Commit`, `Save`, `RunStarts`, `RunEnds` | `Session.open`, `commit`, `save`, `run` before and after its `await` |
| `AddCell`, `EditContent`, `EditCell`, `RemoveCell`, `RenameCell`, `Touch` | `edit.ts`, followed by `commit` |
| `RunCell`, `Evaluated`, `Scope` | `runReport`'s loop, `executeCell`, `buildScope` in `executor.ts` |
| `Closed`, `DependenciesOf`, `DependentsOf`, `Ancestors`, `HasCycle` | the closures that `graph.ts` computes with explicit stacks |

The order of execution is any order in which dependencies come first. Left out: positions of cells, events,
`runAll` and reactive mode, and a rename whose text replacement also touches a string literal or a local
name in a dependent (the code calls it best effort).

Run `session_safety`: 3 cells, all 5 classes of contents, an empty workbook and every cyclic workbook with
one dependency per cell to open, so edits can both repair a cycle and reach every acyclic graph on three
cells. Three cells are the least with a transitive dependency, a diamond's half and a rename of the middle
of a chain. Its properties: `CacheIsExact` (a kept result equals that of a run from scratch),
`StaleIsExact`, `RefsExist` (with the type invariant), `EditsAddNoCycle`, `RunNeverStuck` (the executor
always finds a next cell), `ReportIsComplete`. `session_empty_only` adds run requests with an empty cell id
and finds the report incomplete.

The dependencies of some cells are defined as the least set that contains them and is closed under
dependency, which is what the stack of `getAncestors` computes in whatever order, and needs no recursion.
`WorkbookSessionProofs` proves the six properties for any cell ids and any set of files, `ReportIsComplete`
for requests without an empty cell id. The inductive invariant `IInv` adds to `CacheIsExact` and
`StaleIsExact` that at most one run is on and what it may rely on (`RunExact`): the document is the one it
began with, which has no cycle; what it has done is what a run from scratch would give; and the outputs it
may hand to a cell are those of exactly the cells that are not stale or done. An edit invalidates the edited
cell with its dependents; that all others keep their results needs that their dependencies are the same
before and after. That an edit makes no cycle and a run always finds a next cell goes by a minimal member:
of the sets of dependencies of some cells one contains no other, since the subsets of a finite set are well
founded (`MinimalMember`, `FirstCell`); this replaces an induction over the graph. The assumptions are
`ContentsAssumption`, `IdsAssumption` (a cell id is neither of the two marks for a request without a cell)
and `FilesAssumption` (a file has finitely many cells, and its references lead to cells, which
`parseWorkbook` checks).

## TopologicalSort

The order in which a run executes its cells is computed once per graph by a depth-first search with an
explicit stack, "so deep chains cannot overflow" (`graph.ts:45`). `WorkbookSession` takes it to be an order
in which dependencies come first; this module models the search itself, one round of a loop per step.

| definitions | code |
|---|---|
| `NextRoot` | one round of the outer loop (46-51) |
| `NextDependency`, `Visit`, `Advanced` | the inner loop with a dependency left (53-59); `frame.i++` before the test |
| `Finish` | the inner loop without one (60-63) |
| `Deps` | `nodes.get(id)?.dependencies ?? []`: an id that is not a node has none |

Positions start at 1 here and at 0 in the code. `Graphs` is the set of arguments. Run `workbook`
(`MCWorkbook`, together with `MtswFile`) takes every graph on three ids whose nodes list at most two
dependencies each, in any order: chains, diamonds' halves, self-loops and longer cycles, a dependency listed
twice, ids that are not nodes, nodes in any map order. Three ids are enough for a node that is reached from
two roots, from two dependents, and while it is still on the stack.

`DependenciesFirst` is the promise for acyclic graphs, `Complete` (everything, each once) holds for all, and
`Terminates` holds under weak fairness of the loop, which is all a sequential program needs.

`TopologicalSortProofs` proves these, the type invariant and `VisitedOnce`, for graphs of any size.
`DependenciesFirst` is not inductive: when a node is finished, a visited dependency of it may still be on
the stack, which is exactly what a cycle looks like. The invariant therefore says that the stack is a path
(`Descends`: any rank that falls along dependencies falls from the bottom of the stack to the top), that a
frame has visited the dependencies it has passed (`Scanned`), and that finished nodes have no unvisited
dependency (`Closed`). If a dependency of the finished top were on the stack, its rank would be both above
and below the top's. `RootsSeen` and `OnlyReferred` give `Complete`. Acyclic is stated as the existence of a
rank, which needs no recursion. The only assumption is `GraphsAssumption`.

## AtomicWrite and AtomicFile

`writeFileAtomic` is synchronous: nothing else of its process runs between its system calls, but another
process may, and the process may die between any two of them. An action is one system call and its outcome.

| definitions | code (`workbook/src/fs-atomic.ts`) |
|---|---|
| `Call` | the name of the temp file from `process.pid` and a counter (37-44) |
| `Create`, `CreateFails`, `Write`, `WriteFails` | `writeFileSync` with flag `wx`: open, then write (45) |
| `Rename`, `RenameLocked`, `RenameFails` | the loop with retries on EPERM, EACCES, EBUSY (47-57) |
| `Unlink`, `UnlinkFails` | the best-effort clean-up (57-63) |
| `Replace` | the process dies and another one takes its role, perhaps with the same pid |

`TempsOwned`: a process owns its temp file, whose content is complete once written; every other temp file is
litter of a death, a failing write or a failing unlink. `ImplementsRegister`: with `file`, `asked` and
`outcome` mapped to themselves the module implements `AtomicFile`, in which the content goes from one
complete text to the next in the step that reports success. `FailureLeavesNoTemp`: a call that throws leaves
no temp file, unless the unlink failed too. That is what `fs-atomic.ts:35` says and not what the code does:
run `temp_left_behind` (one process, one write) is finding 7.

`MtswFileProofs` proves both for any number of processes and pids (shared ones too), any texts and any
number of retries. The invariant is `TypeOK`, `TempsOwned` and that a process has a name and a text exactly
while it is in a call; that no two owners share a name is where `wx` is needed, as the mutant without it
shows. The refinement goes step by step: `Rename` is `Commit`, the failures are `Fail`, all the others
stutter.

## ServeLoop, TimeoutRunner, MtswFile

| definitions | code |
|---|---|
| `ReadLine`, `EndOfInput` | the `line` and `close` events (`cli.ts` 1009-1018) |
| `ProcessLine`, `BeginRequest`, `EndRequest` | `processLine` in the chain `queue = queue.then(...)`; blank lines, parse errors and batches, requests, `shutdown` (948-1004) |
| `FinishAtEnd`, `Signal`, `Exit` | `queue.then(finish)`, SIGINT and SIGTERM, `process.exit` in `main` (1603-1608) |
| `Start`, `WorkerSays`, `WorkerExits` | `runWorkbookWithTimeout` and `run-worker.ts` (25-59) |
| `finish`, `TimerFires`, `Handle` | the settling race (`timeout-runner.ts` 56-102) |
| `SaveBegins`, `ServerWrites`, `SaveEnds` | `Session.save` (191-200) through `AtomicWrite` |
| `CommandStarts`, `CommandWrites`, `CommandEnds` | `run --timeout --write` (`cli.ts` 364-398) |
| `ServerKilled`, `CommandKilled`, `CommandAgain` | deaths, and the command given again, perhaps with the pid of the dead one |

The requests themselves are those of `WorkbookSession`; here they differ only in whether they take one turn,
several, or block the event loop (a save). `OneAnswerEach`: answers come once and in arrival order, and none
is missing when the server ends because its input did. `NothingOutlives`: a settled timed run leaves neither
a timer nor a worker that was not told to end. `WindsDown`: server and command come to their end.
`TempsOwned` and `ImplementsRegister` are checked again here, where the writers are these two programs.

Run `workbook` (`MCWorkbook`, together with `TopologicalSort`): 3 texts, 2 pids, 2 rename attempts, at most
3 writes, inputs of up to 3 lines over all kinds, one kill. Three lines are a request in progress, one
waiting behind it and one still unread. With the command the input has one line, a save, since only saves
meet the command.

Fairness: the event loops run what is due, the clock runs, system calls return, a cell run by the server
ends. A cell run by the timed command need not end: that is what the deadline is for. Signals, kills and
input are not fair.

`MtswFileProofs` proves of the composition, for any texts, pids and bounds: that each of its steps is one of
`AtomicWrite` or leaves the file and the temp files alone (`FileIsWrittenAtomically`), so that the theorems
about `AtomicWrite` hold of the two programs; `NothingOutlives`, which is inductive with the types of the
timed run and that a worker which was never started has no deadline (`RunnerInv`); and `OneAnswerEach`. For
the latter `ServeInv` says where each line is: the queue holds the last ones read, the one being handled
comes just before them, and the lines before that are over. A server that is not done has answered exactly
those of them that are not blank; one that is done has answered a prefix. The assumptions are
`RoleAssumption` and those of `AtomicWrite`.

## BufferPool

No method of the pool awaits, so each is one action; what makes it hard is the long sequence of calls. The
entries are kept as the code keeps them, a list for each class of rounded size and usage, because
`evictToSize` works with positions in these lists. `memory` is the device: the buffers created and not
destroyed. `held` is what the callers of `acquire` hold; they release what they hold, once. An entry's `age`
is the time since `lastUsed`, no longer counted beyond `MaxAge`: ages beyond the timeout matter only for the
order of eviction, where entries whose age is no longer counted may go in either order.

| definitions | code |
|---|---|
| `AcquireCached`, `AcquireNew` | `acquire` (85-127), with the eviction when the limit is passed |
| `Release` | `release` (132-142) |
| `EvictOldBuffers`, `EvictOld`, `TimerFires` | `evictOldBuffers` (180-203), called by acquire, callers and the timer |
| `EvictToSize`, `AllEntries`, `Victims`, `SpliceOut` | `evictToSize` (208-241): recorded indices, sort, destroy, splice |
| `StartAutoEviction`, `StopAutoEviction`, `Clear` | 246-261, 293-311 |

`HandedOut`: what `acquire` returns exists, is large enough, and nobody else holds it. `HeldSurvives`: only
`clear` destroys a buffer in use. `Accounted`: the pool lists every live buffer once, marks it in use
exactly while it is held, and counts its bytes. `IdleIsEvicted`: while the timer is on, no buffer stays idle
for ever; fairness is of the clock and of the timer's callback.

Run `gpu` (`MCGpu`, together with `GpuDispatch`): 3 buffers, 2 callers, sizes 0 and 3 (classes 1 and 4, so a
request of nothing and one that is rounded up), a limit of 5 that the second buffer of 4 passes, timeout 1,
targets 0 or 4 (one class-4 buffer). Three buffers are enough for two of one class and one of another, one
in use between two idle ones, and a class that empties and fills again. It lets `evictToSize` take at most
one buffer of a class in a call (`DeepShrinks`). `buffer_evict_to_size` lifts that and finds that a
destroyed buffer is handed out.

`GpuProofs` proves the three safety properties over `Spec` of the module, for any buffers, callers, sizes,
usages, limits and targets. The invariant has two parts. `PoolInv`: every entry has a buffer of its own,
which at most one caller holds, and is in use exactly while it is held. It is kept even where `evictToSize`
splices at indices that have moved, which is theorem `PoolInvariance`; so that no held buffer is destroyed
(`HeldIsKept`) needs no assumption on `DeepShrinks`. `BytesInv`: the buffers that exist are those of the
entries, each of the size of its class, and `currentCacheSize` is the sum of their sizes. A splice at a
stale index removes another entry than the one whose buffer is destroyed, so this part, and with it
`PoolIsAccounted` and `HandedOutIsFit`, assumes that `DeepShrinks` is FALSE; `buffer_evict_to_size` shows
that the assumption is needed.

Three groups of lemmas carry these proofs. The sums are folds over sets in no particular order; that the sum
of a union of disjoint sets is the sum of the sums, whatever the order, is proved in `ListFacts` by
induction on the size of the subsets, as a least number for which it fails (`Sums`, `SumIs`, `SumOfUnion`,
`SumOfImage`). `Sublist` and `splice` are related to the places they keep (`Selects`, `RemoveAtSelects`), so
that what holds of every entry of a list holds of what is left of it. That the loop of `roundUpToPowerOf2`
ends with a value that is at least its argument (`PowersExist`, `RoundsUp`) is what makes a buffer of the
class large enough. `PoolAssumption` says of the constants that the limits and sizes are natural numbers,
and that sizes and usages, which are machine numbers, are finitely many. Sizes above 2^53, which the loop
does not round up, are not in the model.

## GpuDispatch

One action is one turn between two awaits. Devices and contexts are numbered in the order they come; a
device is live, lost, or lost and reported.

| definitions | code |
|---|---|
| `InitializeGlobal`, `DeviceGranted`, `InitializeFails`, `DestroyGlobal` | `GPUContext.initialize` and the global context (`gpu/src/GPUContext.ts` 104-180, 358-401) |
| `Begin`, `LossReported`, `ResetDevice` | `getGpuDevice`, its loss handler, `resetGpuDevice` (`device.ts` 18-52) |
| `Queue`, `Begin` | `serializeGpu` (`serialize.ts` 25-31) |
| `ResourcesFor`, `ResetResources` | `getResources` and the resets of a module (`functions/src/gpu/elementwise-gpu.ts` 253-278, `fft-gpu.ts` 140-164) |
| `Submit`, `Declines`, `PopsError`, `PopsNothing`, `Maps`, `MapFails` | error scope, submit, readback (`elementwise-gpu.ts` 310-449, `fft-gpu.ts` 218-357) |

Abstracted: shaders, sizes and gates. A dispatch may decline at any of its early returns, its commands may
break a rule of the device. What a lost device does to error scopes and mappings is the environment: it
reports no error, and its buffers cannot be mapped.

`NoSilentZeros`: a dispatch that returns data ran its commands, with one exception: its device is lost and
it read a buffer of another device, and that takes a device granted while the loss of another is not yet
reported (`overtaken`) or a context destroyed while it initialises (`orphaned`). Two histories record these.
`NeverZeros` is the same without the first exception; run `gpu_zeros` (2 dispatches of one module, 2
contexts, 2 devices) finds it violated: finding 6. `SharedDevice`: a reported loss is never in the cache,
and at most one device is live unless `orphaned`. `DispatchSettles`: whatever happened to those before it.
Run `gpu` has 2 dispatches of 2 modules, 2 contexts and 2 devices: one loss, reset or replacement between
any two turns of either dispatch, and a loss that is reported before or after the next device comes.
Fairness: promises of the GPU settle and the event loop runs what is due; losses, resets and callers are not
fair.

`GpuProofs` proves `SharedDevice` and `NoSilentZeros`, for any numbers of dispatches, modules, contexts and
devices and whenever losses are reported, over `Spec` of the module. Neither is inductive. `ContextsInv`
ties the three places that know a device together: a context that is ready has a device of its own whose
loss nobody was told of; unless `orphaned`, only the global context starts, and a device that lives belongs
to it and is its device; what `device.ts` caches is a promise of a context that starts with a listener
attached, or a device it watches. `CallsInv` says what a dispatch holds at each of its awaits. `ZerosInv`
holds whatever happened: commands that did not run have an error the scope still has to report or a device
that is gone, and if data of theirs was read, then from a buffer of another device. `RanInv` is where the
zeros are excluded, unless `orphaned` or `overtaken`: at most one device is not reported lost; a dispatch
that has its device and has not submitted has the only one that may live; and commands that did not run
leave a staging buffer that cannot be mapped, or an error that the scope still has to report. The assumption
`DispatchAssumption` is about the bounds alone.

## BatchExecutor

`QueueOperation`, `FlushBegins`, `FlushEnds`, `FlushNow`, `Clear` are `queueOperation` with its automatic
flush, `flush` before and after its `await` (266-317), `flushSync` (322-336) and `clear` (443-445). Run
`batch_lost_ops`, 3 operations and 2 flushes, finds an operation lost: finding 5. The other promises of the
module fail for the same reason, so there is no passing run.

## WasmMemory

| definitions | code |
|---|---|
| `Load`, `LoadEnds`, `LoadFails`, `Reset` | `WasmLoader.load` (550-575), `core/src/wasm-loader.ts` 249-273, `reset` |
| `AllocateRecycled`, `AllocateNew`, `Fits`, `Recycled` | `acquireFromAsPool`, `makeAs`, `track` (755-969), the header of `wasm-as-header.ts` 15-28 |
| `Release`, `ClearPool` | `release`, `free`, `clearPool` |

`ArraysOwned`: an array is its user's alone, large enough, with the length that was asked for in its header,
and a block is pinned exactly while the pool or a user can reach it. `MemoryBounded`: of one kind and size
at most as many blocks are pinned as users hold at once. In run `parallel`: 2 users, arrays of 8, 16 and 24
bytes with threshold 16 (an exact fit, one twice as large, one that is never pooled), 3 blocks, 2 modules.
`EarlyResets` is FALSE: `reset` is documented "for testing".

`ParallelProofs` proves both properties for any number of users, blocks, modules and array sizes, with
`EarlyResets` FALSE. `WasmInv` is about the module in use: only its memory has blocks, an entry of the pool
is of a block of its own kind and size and is in use exactly while somebody holds that block, and a block is
pinned exactly while the pool or a user reaches it. `MemoryBounded` is a pigeonhole argument on top of it: a
new block of a kind and size is made only if all those that are pinned are held, so one for each user at
most; that a block is recycled before a new one is made is what the step of `AllocateNew` rests on.

## Findings

1. After the start-up cap has emptied the pool, `execute()` without a timeout never settles
   (`WorkerPool.ts:374`; the comment at 201-203 promises failure instead of hanging). Run
   `pool_startup_cap`.
2. A payload that cannot be cloned leaks its worker (`WorkerPool.ts:281`). In the run the task is queued
   when the first worker starts: `postMessage` throws out of `initialize()`, which nobody awaits, the
   promise of the task stays pending, and another task stays queued beside a worker that does nothing. Run
   `pool_unclonable`.
3. `run` with `only: ""` executes nothing and reports success (`session.ts:147` against `executor.ts:277`).
   Run `session_empty_only`.
4. `evictToSize` splices at indices that earlier splices have shifted, so a destroyed buffer stays in the
   pool and is handed out (`BufferPool.ts:235`). Run `buffer_evict_to_size`.
5. `flush` empties the list after its `await`, with the operations queued meanwhile
   (`BatchExecutor.ts:299`). Run `batch_lost_ops`.
6. A dispatch on a device that is lost, but cached until its loss is reported (`device.ts:19-36`), reads a
   buffer of the device that was granted meanwhile, and returns its zeros as data (`elementwise-gpu.ts:343`
   promises "refuse rather than produce zeros"). Run `gpu_zeros`.
7. A write that fails midway leaves its temp file (`fs-atomic.ts:45` stands outside the `try`; line 35 says
   "On any failure the temp file is removed"). Run `temp_left_behind`.

### Divergences without a run

Met while modelling, without a run of their own, because the affected promise is vague, is only met when a
caller does what nobody promised to support, or is outside the bounds.

* After a death a process with the same pid finds its first name taken, and its first save fails with
  EEXIST.
* `run --write` writes back the text it read, so a save of the server meanwhile is lost: the file is atomic,
  the pair read-write is not.
* `timeout-runner.ts:50-52` says the worker is "ALWAYS terminated before this promise settles";
  `terminate()` is requested, not awaited.
* A signal may lose the answer of the request in progress.
* `destroyGlobalGPU` during `initialize` leaves a live device that nothing refers to (`orphaned`). A failed
  initialisation's `null` stays cached until a reset. `serialize.ts:15` speaks for every dispatch, but
  `GPUBackend` does not use it. `fft-gpu.ts:229-231` and `elementwise-gpu.ts` disagree on whether the gates
  stand inside the queue.
* `BatchExecutor` never releases the parameter buffers; `flushSync` swallows errors; two overlapping flushes
  submit twice.
* While the workers of a `ParallelMatrix` pool start, their count is 0 and the first calls run as one block.
  A pool that a call makes after a `configure` and before an awaited `terminate` ends is let go with its
  workers running (`ParallelMatrix.ts:546-547`; `during` in `NoPoolForgotten`).
* `MathWorkerPool.initialize` during a `terminate`, or a `terminate` during an `initialize`, can leave a
  pool that nobody can end (`index.ts:552`, 2353; `strays` in `InnerPoolHeld`), and so can a call on a pool
  that is being ended (`revived`). A rejected `initPromise` is kept until `terminate`; a chunk size of 0 or
  less never advances; a reduce with an initial value that is not neutral counts it once per chunk (a test
  pins that).
* With `EarlyResets`, an array outlives its module (`ArraysOwned` fails), and its release may mark the new
  module's block at the same pointer as free. Arrays above the threshold are never recycled.

## What is proved and what is only model-checked

| | proved (any constants) | model-checked (the instances above) |
|---|---|---|
| worker pool | types, all properties of `pool_safety`, the refinement of `TaskService` | liveness |
| session | types, all properties of `session_safety` | |
| topological sort | types, `DependenciesFirst`, `Complete` | termination |
| atomic write, serve loop, timeout runner | types, `TempsOwned`, the refinement, `NothingOutlives`, `OneAnswerEach`, each of the two programs together | `WindsDown` |
| parallel matrix | types, the partitions, `Whole`, `NoPoolForgotten` | `CallsSettle` |
| `MathWorkerPool`, WebAssembly memory | `InnerPoolHeld`, `ArraysOwned`, `MemoryBounded` | |
| GPU dispatch | types, `SharedDevice`, `NoSilentZeros` | `DispatchSettles` |
| buffer pool | types, `Accounted`, `HeldSurvives`, `HandedOut` | `IdleIsEvicted` |

Assumptions of the proofs are the named `ASSUME`s of the modules, and where a theorem says so: `EarlyResets`
FALSE for `ArraysAreOwned` and `MemoryIsBounded`, `EmptyOnly` FALSE for `ReportsAreComplete`, `DeepShrinks`
FALSE for `PoolIsAccounted` and `HandedOutIsFit`. Without them the property fails, in a run (the last two)
or as described under "Divergences without a run" (the first). The runs use the same values. The exceptions
that histories record (`overtaken`, `orphaned`, `during`, `strays`, `revived`) are part of the properties,
not assumptions: the behaviours that lead to them are in the models, in the runs and in the proofs.

## Not modelled

The repository has about 225,000 lines of implementation; the modules model some 2,500 of them, and no
faithful model can reach a large share. The rest is, by size:

* the function library, CAS, statistics, hypothesis tests, autograd, tensors, plots and WebAssembly kernels:
  floating-point or symbolic functions of their arguments. They keep no state from one call to the next,
  nothing interleaves with them, and what could be wrong in them is a rounding error or a formula, which a
  model checker over small sets of values says nothing about;
* the parser, evaluator, units, number types and typed dispatch: recursion over unbounded trees and strings;
* `ComputePool`: a facade over `MathWorkerPool` that adds thresholds and wraps results;
* documents: parsing, formatting and export of text. The models use only that the parser refuses dangling
  references;
* the other commands of the CLI, and the repository's scripts in `tools`: read, compute, print;
* copies: much of the source exists twice or more (generated wrappers, WebAssembly and TypeScript versions
  of one kernel), so a model of one is a model of nothing else.

Left out of modelled components: warm-up, metrics and adaptive sizing of `MathWorkerPool`; shader caches,
capability detection and private contexts of the GPU; `Sync.ts` and `run-shader.ts`, which move single
buffers; the choice of a matrix backend, a pure function of thresholds, and the numeric kernels behind it;
cell positions, events and reactive mode of the session. A worker thread that exits without an event is not
in the environment of `WorkerPool`.

## Plan

Done: `WorkerPool`, `TaskService`, `WorkbookSession`, `TopologicalSort`, `BufferPool`; the serve loop, the
timeout runner and the atomic write with their composition; `GpuDispatch`, `BatchExecutor`;
`ParallelMatrix`, `MathWorkerPool`, `WasmMemory`; the proofs listed above.

Left: models of the staging buffers of `Sync.ts`, of `AsAllocCache` and of the warm-up of `MathWorkerPool`.
