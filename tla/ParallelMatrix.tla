--------------------------- MODULE ParallelMatrix ---------------------------
(***************************************************************************)
(* parallel/src/ParallelMatrix.ts: matrix operations that are cut into     *)
(* blocks, run as tasks of one static worker pool, and put together again, *)
(* while configure and terminate replace that pool.  A pool is represented *)
(* by what TaskService promises of it: a task starts when a worker is free *)
(* and is settled once, and a terminated pool rejects what it has.         *)
(***************************************************************************)
EXTENDS Blocks, Naturals, Sequences, FiniteSets

CONSTANTS
  Calls,         (* the calls of multiply, add, transpose, ...               *)
  Sizes,         (* rows, or elements, of an operation                       *)
  PoolSize,      (* config.maxWorkers                                        *)
  MaxPools,      (* bound: pools that are created                            *)
  MaxTerminates  (* bound: calls of terminate() that are awaited at a time   *)

ASSUME MatrixAssumption ==
  /\ Sizes \subseteq Nat /\ \E n \in Sizes : \A m \in Sizes : m <= n
  /\ PoolSize \in Nat /\ MaxPools \in Nat /\ MaxTerminates \in Nat

VARIABLES
  pool,          (* the pools that were created                              *)
  workerPool,    (* the static one, 0 if there is none                       *)
  terminating,   (* calls of terminate() between their await and their end   *)
  shared,        (* config.useSharedMemory                                   *)
  input,         (* the version of the numbers in a caller's array           *)
  state,         (* where each call is                                       *)
  size, home,    (* what it works on, and on which pool                      *)
  passing,       (* how its input reaches the workers                        *)
  asked,         (* the version it was called with, if it may rely on a copy *)
  task,          (* its blocks, with the version their worker read           *)
  result         (* for each row, the versions that were written there       *)

matrixVars == <<pool, workerPool, terminating, shared, input, state, size, home,
                passing, asked, task, result>>

Versions == 1..2
NotRead == 0

MaxSize == CHOOSE n \in Sizes : \A m \in Sizes : m <= n
Rows == 0..(MaxSize - 1)

TaskStates == {"queued", "running", "answered", "rejected"}
AllRanges == [from : 0..MaxSize, to : 0..MaxSize]

MatrixTypeOK ==
  /\ pool \in Seq([open : BOOLEAN, spawns : BOOLEAN, workers : 0..PoolSize, during : BOOLEAN])
  /\ workerPool \in 0..Len(pool)
  /\ terminating \in 0..MaxTerminates /\ shared \in BOOLEAN
  /\ input \in [Calls -> Versions] /\ asked \in [Calls -> Versions \cup {NotRead}]
  /\ state \in [Calls -> {"new", "waiting", "resolved", "rejected"}]
  /\ size \in [Calls -> Sizes] /\ home \in [Calls -> 0..MaxPools]
  /\ passing \in [Calls -> {"copied", "cloned", "live"}]
  /\ \A c \in Calls :
       /\ DOMAIN task[c] \subseteq AllRanges
       /\ \A b \in DOMAIN task[c] :
            task[c][b] \in [state : TaskStates, saw : Versions \cup {NotRead}]
  /\ result \in [Calls -> [Rows -> SUBSET (Versions \cup {NotRead})]]

NoTasks == [b \in {} |-> [state |-> "queued", saw |-> NotRead]]
Zeros   == [r \in Rows |-> {}]

MatrixInit ==
  /\ pool = <<>> /\ workerPool = 0 /\ terminating = 0
  /\ shared \in BOOLEAN
  /\ input = [c \in Calls |-> 1] /\ asked = [c \in Calls |-> NotRead]
  /\ state = [c \in Calls |-> "new"]
  /\ size \in [Calls -> Sizes] /\ home = [c \in Calls |-> 0]
  /\ passing = [c \in Calls |-> "copied"]
  /\ task = [c \in Calls |-> NoTasks]
  /\ result = [c \in Calls |-> Zeros]

staticVars == <<pool, workerPool, terminating, shared>>
matrixCallVars == <<input, state, size, home, passing, asked, task, result>>

-----------------------------------------------------------------------------
(* A call *)

(* getWorkerPool: a new pool has no worker yet, and spawns them.  during: was *)
(* it made while a terminate() was awaited (history only)?                   *)
NewPool == [open |-> TRUE, spawns |-> TRUE, workers |-> 0, during |-> terminating > 0]
CanMakePool == workerPool # 0 \/ Len(pool) < MaxPools
Pools   == IF workerPool = 0 THEN Append(pool, NewPool) ELSE pool
Current == IF workerPool = 0 THEN Len(pool) + 1 ELSE workerPool

(* A fault: the array is handed over as it is. *)
PassedAsIs(isShared) == IF isShared THEN "live" ELSE "cloned"

(* toSharedBuffer: copied now, read by the workers from the caller's own     *)
(* shared memory, or cloned when the message is posted.                      *)
Passed(isShared) ==
  IF ~shared THEN (IF isShared THEN "live" ELSE "cloned")
  ELSE IF isShared THEN "live" ELSE "copied"

(* Each row of a block gets the value its worker computed. *)
Scattered(tasks) ==
  [r \in Rows |->
     {tasks[b].saw : b \in {x \in DOMAIN tasks : x.from <= r /\ r < x.to}}]

(* The sequential path: too few elements. *)
CallSequential(c) ==
  /\ state[c] = "new"
  /\ state' = [state EXCEPT ![c] = "resolved"]
  /\ asked' = [asked EXCEPT ![c] = input[c]]
  /\ result' = [result EXCEPT ![c] = [r \in Rows |->
                                        IF r < size[c] THEN {input[c]} ELSE {}]]
  /\ UNCHANGED <<input, size, home, passing, task, staticVars>>

(* The parallel path, one turn: the blocks are cut for the workers there are *)
(* now, and become tasks.  A pool whose terminate() is awaited refuses them; *)
(* no rows make no tasks, and Promise.all of nothing resolves.               *)
CallParallel(c, isShared) ==
  /\ state[c] = "new" /\ CanMakePool
  /\ pool' = Pools /\ workerPool' = Current
  /\ asked' = [asked EXCEPT ![c] = IF shared /\ ~isShared THEN input[c] ELSE NotRead]
  /\ passing' = [passing EXCEPT ![c] = Passed(isShared)]
  /\ home' = [home EXCEPT ![c] = Current]
  /\ LET blocks == RowBlocks(size[c], Pools[Current].workers)
         saw    == IF Passed(isShared) = "copied" THEN input[c] ELSE NotRead
         fate   == IF blocks = {} THEN "resolved"
                   ELSE IF Pools[Current].open THEN "waiting" ELSE "rejected"
     IN  /\ state' = [state EXCEPT ![c] = fate]
         /\ task' = IF fate = "waiting"
                    THEN [task EXCEPT ![c] = [b \in blocks |-> [state |-> "queued", saw |-> saw]]]
                    ELSE task
  /\ UNCHANGED <<terminating, shared, input, size, result>>

(* The caller writes to its array after the call. *)
Mutate(c) ==
  /\ state[c] = "waiting" /\ input[c] = 1
  /\ input' = [input EXCEPT ![c] = 2]
  /\ UNCHANGED <<state, size, home, passing, asked, task, result, staticVars>>

-----------------------------------------------------------------------------
(* What the pool does with the tasks *)

Working(p) == {x \in Calls \X AllRanges :
                 /\ home[x[1]] = p /\ x[2] \in DOMAIN task[x[1]]
                 /\ task[x[1]][x[2]].state = "running"}

(* A worker, the first or a replacement, joins the pool. *)
WorkerJoins(p) ==
  /\ pool[p].open /\ pool[p].spawns /\ pool[p].workers < PoolSize
  /\ pool' = [pool EXCEPT ![p].workers = @ + 1]
  /\ UNCHANGED <<workerPool, terminating, shared, matrixCallVars>>

(* A free worker gets the task; its message is cloned now. *)
TaskStarts(c, b) ==
  /\ task[c][b].state = "queued"
  /\ Cardinality(Working(home[c])) < pool[home[c]].workers
  /\ task' = [task EXCEPT ![c][b].state = "running",
                          ![c][b].saw = IF passing[c] = "cloned" THEN input[c] ELSE @]
  /\ UNCHANGED <<input, state, size, home, passing, asked, result, staticVars>>

(* The worker answers; Promise.all resolves with the last answer, and the    *)
(* blocks are put together.                                                  *)
TaskAnswers(c, b) ==
  /\ task[c][b].state = "running"
  /\ task' = [task EXCEPT ![c][b].state = "answered",
                          ![c][b].saw = IF passing[c] = "live" THEN input[c] ELSE @]
  /\ IF state[c] = "waiting" /\ \A x \in DOMAIN task[c] : task'[c][x].state = "answered"
     THEN /\ state' = [state EXCEPT ![c] = "resolved"]
          /\ result' = [result EXCEPT ![c] = Scattered(task'[c])]
     ELSE UNCHANGED <<state, result>>
  /\ UNCHANGED <<input, size, home, passing, asked, staticVars>>

(* A fault: the call still waits for the others. *)
RejectedUnnoticed(c, b) ==
  /\ task' = [task EXCEPT ![c][b].state = "rejected"]
  /\ UNCHANGED state

(* Promise.all rejects with the first rejection; the other blocks go on. *)
Rejected(c, b) ==
  /\ task' = [task EXCEPT ![c][b].state = "rejected"]
  /\ state' = [state EXCEPT ![c] = IF @ = "waiting" THEN "rejected" ELSE @]

(* The worker reports an error, or crashes and is replaced. *)
TaskFails(c, b) ==
  /\ task[c][b].state = "running"
  /\ Rejected(c, b)
  /\ \/ UNCHANGED pool
     \/ pool' = [pool EXCEPT ![home[c]].workers = @ - 1]
  /\ UNCHANGED <<workerPool, terminating, shared, input, size, home, passing, asked, result>>

(* What p loses at once: the tasks in the states of from. *)
Lost(c, p, from) ==
  {b \in DOMAIN task[c] : home[c] = p /\ task[c][b].state \in from}
Abandoned(p, from) ==
  /\ task' = [c \in Calls |-> [b \in DOMAIN task[c] |->
       IF b \in Lost(c, p, from) THEN [task[c][b] EXCEPT !.state = "rejected"] ELSE task[c][b]]]
  /\ state' = [c \in Calls |-> IF state[c] = "waiting" /\ Lost(c, p, from) # {}
                               THEN "rejected" ELSE state[c]]
  /\ UNCHANGED <<input, size, home, passing, asked, result>>

(* Too many workers failed to start: the pool rejects what waits, and spawns *)
(* no more.                                                                  *)
PoolGivesUp(p) ==
  /\ pool[p].open /\ pool[p].spawns
  /\ pool[p].workers > Cardinality(Working(p))
  /\ pool' = [pool EXCEPT ![p].workers = @ - 1, ![p].spawns = FALSE]
  /\ Abandoned(p, {"queued"})
  /\ UNCHANGED <<workerPool, terminating, shared>>

-----------------------------------------------------------------------------
(* configure and terminate *)

Stopped(p) == [pool EXCEPT ![p].open = FALSE, ![p].workers = 0]

(* A fault: the pool is forgotten, not stopped. *)
ConfigureForgets(useShared) ==
  /\ shared' = useShared
  /\ workerPool' = 0
  /\ UNCHANGED <<pool, terminating, matrixCallVars>>

Configure(useShared) ==
  /\ shared' = useShared
  /\ IF workerPool = 0
     THEN UNCHANGED <<pool, workerPool, matrixCallVars>>
     ELSE /\ pool' = Stopped(workerPool)
          /\ workerPool' = 0
          /\ Abandoned(workerPool, {"queued", "running"})
  /\ UNCHANGED terminating

(* terminate, up to its await; the pool that another call stopped is stopped *)
(* once more.                                                                *)
TerminatePool ==
  /\ workerPool # 0 /\ terminating < MaxTerminates
  /\ pool' = Stopped(workerPool)
  /\ terminating' = terminating + 1
  /\ Abandoned(workerPool, {"queued", "running"})
  /\ UNCHANGED <<workerPool, shared>>

(* After the await: whatever pool is the static one by now is let go. *)
TerminateEnds ==
  /\ terminating > 0
  /\ terminating' = terminating - 1
  /\ workerPool' = 0
  /\ UNCHANGED <<pool, shared, matrixCallVars>>

-----------------------------------------------------------------------------

MatrixNext ==
  \/ \E c \in Calls :
       \/ CallSequential(c) \/ Mutate(c)
       \/ \E isShared \in BOOLEAN : CallParallel(c, isShared)
       \/ \E b \in DOMAIN task[c] : TaskStarts(c, b) \/ TaskAnswers(c, b) \/ TaskFails(c, b)
  \/ \E p \in DOMAIN pool : WorkerJoins(p) \/ PoolGivesUp(p)
  \/ \E useShared \in BOOLEAN : Configure(useShared)
  \/ TerminatePool \/ TerminateEnds

MatrixSpec == MatrixInit /\ [][MatrixNext]_matrixVars

(* Workers start, a free one gets a task, and the kernels end. *)
Joins(p)  == p \in DOMAIN pool /\ WorkerJoins(p)
Begins(c) == \E b \in DOMAIN task[c] : TaskStarts(c, b)
Ends(c)   == \E b \in DOMAIN task[c] : TaskAnswers(c, b) \/ TaskFails(c, b)

MatrixFairness ==
  /\ \A p \in 1..MaxPools : WF_matrixVars(Joins(p))
  /\ \A c \in Calls : WF_matrixVars(Begins(c)) /\ WF_matrixVars(Ends(c))

-----------------------------------------------------------------------------
(* A call that resolves has every row, once, from the numbers its array had *)
(* when it was made, whatever the workers, configure and its caller do      *)
(* meanwhile; with useSharedMemory off, or an array that is shared already, *)
(* the numbers may be newer ones, but every row is still there.             *)
Whole ==
  \A c \in Calls : state[c] = "resolved" =>
    \A r \in Rows :
      /\ (result[c][r] # {}) <=> r < size[c]
      /\ Cardinality({b \in DOMAIN task[c] : b.from <= r /\ r < b.to}) <= 1
      /\ asked[c] # NotRead => result[c][r] \subseteq {asked[c]}

(* Every pool that still runs is the static one, which configure and        *)
(* terminate can reach: none is forgotten with its threads alive, but a pool *)
(* that a call made while a terminate() was awaited, after a configure(),    *)
(* which that terminate() lets go when it ends (ParallelMatrix.ts:546-547).  *)
NoPoolForgotten ==
  \A p \in DOMAIN pool : pool[p].open => p = workerPool \/ pool[p].during

(* Every call settles, also when its pool is replaced under it, unless that *)
(* pool has no worker left and starts none.                                 *)
Spent(p) == p # 0 /\ p <= Len(pool) /\ pool[p].workers = 0 /\ ~pool[p].spawns
CallsSettle ==
  \A c \in Calls : state[c] = "waiting" ~> state[c] # "waiting" \/ Spent(home[c])
=============================================================================
