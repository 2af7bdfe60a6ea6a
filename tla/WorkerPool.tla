----------------------------- MODULE WorkerPool -----------------------------
(***************************************************************************)
(* parallel/src/WorkerPool.ts: a pool of worker threads fed from one FIFO  *)
(* queue.  One action is one turn of the event loop that owns the pool (a  *)
(* public call, a timer, a worker's event, or the continuation of an       *)
(* awaited createWorker); threads run between the turns.                   *)
(*                                                                         *)
(* A worker is an identity.  A thread that left the pool and has nothing   *)
(* in flight is garbage, and a later createWorker may reuse its identity.  *)
(***************************************************************************)
EXTENDS Integers, Sequences, FiniteSets, SequencesExt

CONSTANTS
  Tasks,               (* the calls of execute(), one task id each           *)
  Workers,             (* identities for worker threads                      *)
  NoWorker,            (* not a worker                                       *)
  MaxWorkers,          (* the constructor's maxWorkers, once resolved        *)
  MaxStartupFailures,  (* MAX_STARTUP_FAILURES                               *)
  SpawnCanFail,        (* may createWorker reject?                           *)
  AnswersTwice,        (* may a worker script answer one task twice?         *)
  Unclonable           (* tasks whose payload makes postMessage throw        *)

ASSUME NoWorkerAssumption == NoWorker \notin Workers
ASSUME MaxAssumption ==
  /\ MaxWorkers \in Nat \ {0}
  /\ MaxStartupFailures \in Nat \ {0}
ASSUME EnvironmentAssumption ==
  /\ SpawnCanFail \in BOOLEAN
  /\ AnswersTwice \in BOOLEAN
  /\ Unclonable \subseteq Tasks

VARIABLES
  workers,           (* the roster, a set: its order is never used           *)
  availableWorkers,  (* idle workers, taken from the front                   *)
  taskQueue,         (* tasks no worker has picked up, oldest first          *)
  activeTasks,       (* activeTasks[t] = t's worker, NoWorker: not in the map *)
  terminated,
  readyWorkers,      (* workers that delivered a message                     *)
  startupFailures,
  promise,           (* what the caller of execute() sees                    *)
  timers,            (* tasks whose timer is armed                           *)
  starting,          (* createWorker calls of initialize and evictAndReplace *)
  timedOut,          (* tasks whose handleTaskTimeout awaits createWorker    *)
  threads,           (* threads that run                                     *)
  posted,            (* <<w, t>>: t was posted to w, w still works on it     *)
  replies,           (* <<w, t, type>>: messages on their way to the pool    *)
  errors             (* workers whose 'error' event is on its way            *)

poolVars   == <<workers, availableWorkers, taskQueue, activeTasks, terminated,
                readyWorkers, startupFailures>>
callVars   == <<promise, timers, starting, timedOut>>
threadVars == <<threads, posted, replies, errors>>
vars == <<poolVars, callVars, threadVars>>

Outcome == {"none", "pending", "resolved", "rejected"}
Reply   == {"result", "error"}

TypeOK ==
  /\ workers \subseteq Workers
  /\ availableWorkers \in Seq(Workers)
  /\ taskQueue \in Seq(Tasks)
  /\ activeTasks \in [Tasks -> Workers \cup {NoWorker}]
  /\ terminated \in BOOLEAN
  /\ readyWorkers \subseteq Workers
  /\ startupFailures \in Nat
  /\ promise \in [Tasks -> Outcome]
  /\ timers \subseteq Tasks
  /\ starting \in Nat
  /\ timedOut \subseteq Tasks
  /\ threads \subseteq Workers
  /\ posted \subseteq Workers \X Tasks
  /\ replies \subseteq Workers \X Tasks \X Reply
  /\ errors \subseteq Workers

(* The constructor: initialize() has started MaxWorkers createWorker calls. *)
Init ==
  /\ workers = {}
  /\ availableWorkers = <<>>
  /\ taskQueue = <<>>
  /\ activeTasks = [t \in Tasks |-> NoWorker]
  /\ terminated = FALSE
  /\ readyWorkers = {}
  /\ startupFailures = 0
  /\ promise = [t \in Tasks |-> "none"]
  /\ timers = {}
  /\ starting = MaxWorkers
  /\ timedOut = {}
  /\ threads = {}
  /\ posted = {}
  /\ replies = {}
  /\ errors = {}

-----------------------------------------------------------------------------
(* Helpers *)

Queued  == ToSet(taskQueue)
Active  == {t \in Tasks : activeTasks[t] # NoWorker}
Idle    == ToSet(availableWorkers)
isBusy(w)    == \E t \in Tasks : activeTasks[t] = w
RunningOnAny(w) == Active   (* a fault: not only w's tasks *)
RunningOn(w) == {t \in Tasks : activeTasks[t] = w}

(* resolve() or reject() for every task of S: a promise settles only once. *)
Settle(S, outcome) ==
  [t \in Tasks |-> IF t \in S /\ promise[t] = "pending" THEN outcome ELSE promise[t]]

(* Faulty variants of Without (see the mutants): nothing is removed;        *)
(* everything from x on goes (splice without a count).                      *)
WithoutNothing(s, x) == s
WithoutTail(s, x) ==
  IF Contains(s, x) THEN SubSeq(s, 1, (CHOOSE i \in 1..Len(s) : s[i] = x) - 1) ELSE s

(* splice(indexOf(x), 1), or filter((y) => y !== x): neither list ever     *)
(* holds an element twice (TaskTracked, RosterOK), so they agree.          *)
Without(s, x) ==
  IF Contains(s, x)
  THEN LET at == CHOOSE i \in 1..Len(s) : s[i] = x
       IN  [i \in 1..(Len(s) - 1) |-> IF i < at THEN s[i] ELSE s[i + 1]]
  ELSE s

(* Faulty variants of Evict: without dead.terminate(); without the filter on *)
(* workers.                                                                  *)
EvictKeepsThread(dead) ==
  /\ workers' = workers \ {dead}
  /\ availableWorkers' = Without(availableWorkers, dead)
  /\ UNCHANGED <<threads, posted>>
EvictKeepsRoster(dead) ==
  /\ availableWorkers' = Without(availableWorkers, dead)
  /\ threads' = threads \ {dead}
  /\ posted' = {p \in posted : p[1] # dead}
  /\ UNCHANGED workers

(* dead.terminate() and the filters on workers and availableWorkers. *)
Evict(dead) ==
  /\ workers' = workers \ {dead}
  /\ availableWorkers' = Without(availableWorkers, dead)
  /\ threads' = threads \ {dead}
  /\ posted' = {p \in posted : p[1] # dead}

(* A fault: the loop stops with one task left. *)
DispatchedOffByOne(queue, available) ==
  IF queue = <<>> THEN 0 ELSE Min({Len(queue) - 1, Len(available)})

(* How many rounds processQueue's loop makes: until a list is empty, or    *)
(* until a postMessage throws (its task has left the queue by then).       *)
Dispatched(queue, available) ==
  LET rounds == IF Len(queue) <= Len(available) THEN Len(queue) ELSE Len(available)
  IN  CHOOSE n \in 0..rounds :
        /\ n = rounds \/ (n > 0 /\ queue[n] \in Unclonable)
        /\ \A j \in 1..(n - 1) : queue[j] \notin Unclonable

(* A fault: the last element is read but not shifted. *)
RestAfterPeek(s, n) == IF n = 0 THEN s ELSE SubSeq(s, n, Len(s))

(* What n calls of shift() leave. *)
Rest(s, n) == SubSeq(s, n + 1, Len(s))

(* processQueue on the given queue, idle workers and active tasks: the     *)
(* oldest task goes to the worker that has been idle longest, and so on.   *)
ProcessQueue(queue, available, active) ==
  LET n         == Dispatched(queue, available)
      RoundOf(t) == {k \in 1..n : queue[k] = t}
      Reaches(k) == available[k] \in threads' /\ queue[k] \notin Unclonable
  IN  /\ taskQueue' = Rest(queue, n)
      /\ availableWorkers' = Rest(available, n)
      /\ activeTasks' = [t \in Tasks |->
           IF RoundOf(t) = {} THEN active[t]
                              ELSE available[CHOOSE k \in RoundOf(t) : TRUE]]
      /\ posted' = posted \cup
           {<<available[k], queue[k]>> : k \in {j \in 1..n : Reaches(j)}}

(* An identity nothing refers to any more. *)
Fresh(w) ==
  /\ w \notin workers
  /\ w \notin threads
  /\ w \notin errors
  /\ \A p \in posted : p[1] # w
  /\ \A m \in replies : m[1] # w

-----------------------------------------------------------------------------
(* Public calls *)

(* execute(): an idle worker takes the task at once, otherwise it queues.  *)
(* A postMessage that throws rejects the promise (the executor throws) and *)
(* leaves the task in activeTasks.                                         *)
Execute(t, timed) ==
  /\ promise[t] = "none"
  /\ ~terminated
  /\ timers' = IF timed THEN timers \cup {t} ELSE timers
  /\ IF availableWorkers # <<>>
     THEN LET w == Head(availableWorkers)
              sent == t \notin Unclonable
          IN  /\ availableWorkers' = Tail(availableWorkers)
              /\ activeTasks' = [activeTasks EXCEPT ![t] = w]
              /\ posted' = IF sent /\ w \in threads THEN posted \cup {<<w, t>>} ELSE posted
              /\ promise' = [promise EXCEPT ![t] = IF sent THEN "pending" ELSE "rejected"]
              /\ UNCHANGED taskQueue
     ELSE /\ taskQueue' = Append(taskQueue, t)
          /\ promise' = [promise EXCEPT ![t] = "pending"]
          /\ UNCHANGED <<availableWorkers, activeTasks, posted>>
  /\ UNCHANGED <<workers, terminated, readyWorkers, startupFailures, starting,
                 timedOut, threads, replies, errors>>

(* execute() after terminate(): rejected before a timer is armed. *)
ExecuteTerminated(t) ==
  /\ promise[t] = "none"
  /\ terminated
  /\ promise' = [promise EXCEPT ![t] = "rejected"]
  /\ UNCHANGED <<poolVars, timers, starting, timedOut, threadVars>>

(* terminate(); a second call finds everything empty and changes nothing. *)
Terminate ==
  /\ ~terminated
  /\ terminated' = TRUE
  /\ promise' = Settle(Queued \cup Active, "rejected")
  /\ timers' = timers \ (Queued \cup Active)
  /\ taskQueue' = <<>>
  /\ activeTasks' = [t \in Tasks |-> NoWorker]
  /\ threads' = threads \ workers
  /\ posted' = {p \in posted : p[1] \notin workers}
  /\ workers' = {}
  /\ availableWorkers' = <<>>
  /\ UNCHANGED <<readyWorkers, startupFailures, starting, timedOut, replies, errors>>

-----------------------------------------------------------------------------
(* Continuations of createWorker *)

(* A fault: nobody asks whether the pool was terminated meanwhile. *)
JoinAnyway(w) ==
  /\ Fresh(w)
  /\ workers' = workers \cup {w}
  /\ threads' = threads \cup {w}
  /\ readyWorkers' = readyWorkers \ {w}
  /\ ProcessQueue(taskQueue, Append(availableWorkers, w), activeTasks)

(* A new worker joins the roster as idle and the queue is drained; a pool  *)
(* terminated meanwhile terminates it instead.                             *)
Join(w) ==
  /\ Fresh(w)
  /\ IF terminated
     THEN UNCHANGED <<workers, availableWorkers, taskQueue, activeTasks,
                      readyWorkers, threads, posted>>
     ELSE /\ workers' = workers \cup {w}
          /\ threads' = threads \cup {w}
          /\ readyWorkers' = readyWorkers \ {w}
          /\ ProcessQueue(taskQueue, Append(availableWorkers, w), activeTasks)

(* initialize() and evictAndReplace() resume. *)
WorkerStarts(w) ==
  /\ starting > 0
  /\ starting' = starting - 1
  /\ Join(w)
  /\ UNCHANGED <<terminated, startupFailures, promise, timers, timedOut, replies, errors>>

(* createWorker() rejects: initialize() ends in an unhandled rejection,    *)
(* evictAndReplace() logs.  Neither tries again.                           *)
WorkerStartFails ==
  /\ SpawnCanFail
  /\ starting > 0
  /\ starting' = starting - 1
  /\ UNCHANGED <<poolVars, promise, timers, timedOut, threadVars>>

(* handleTaskTimeout() resumes: the replacement joins, then the task that  *)
(* timed out is rejected.                                                  *)
TimeoutReplaced(t, w) ==
  /\ t \in timedOut
  /\ timedOut' = timedOut \ {t}
  /\ Join(w)
  /\ promise' = Settle({t}, "rejected")
  /\ UNCHANGED <<terminated, startupFailures, timers, starting, replies, errors>>

(* A fault: the catch returns. *)
TimeoutStartFailsSilently(t) ==
  /\ SpawnCanFail
  /\ t \in timedOut
  /\ timedOut' = timedOut \ {t}
  /\ UNCHANGED <<poolVars, promise, timers, starting, threadVars>>

(* The same when createWorker() rejects: logged, the task is rejected. *)
TimeoutStartFails(t) ==
  /\ SpawnCanFail
  /\ t \in timedOut
  /\ timedOut' = timedOut \ {t}
  /\ promise' = Settle({t}, "rejected")
  /\ UNCHANGED <<poolVars, timers, starting, threadVars>>

-----------------------------------------------------------------------------
(* Events of the worker threads *)

(* A fault: a worker that runs another task is given back too. *)
GivesBackBusy(w) == w \in workers /\ w \notin Idle

(* May the sender of a message for an unknown task be given back? *)
GivesBack(w) == w \in workers /\ w \notin Idle /\ ~isBusy(w)

(* handleWorkerMessage: w's message for task t.  The task may be gone, then *)
(* w is given back unless it was evicted, is free already or runs another   *)
(* task.                                                                    *)
HandleWorkerMessage(w, t, type) ==
  /\ <<w, t, type>> \in replies
  /\ replies' = replies \ {<<w, t, type>>}
  /\ readyWorkers' = readyWorkers \cup {w}
  /\ startupFailures' = 0
  /\ UNCHANGED <<workers, terminated, starting, timedOut, threads, errors>>
  /\ \/ /\ t \in Active
        /\ promise' = Settle({t}, IF type = "result" THEN "resolved" ELSE "rejected")
        /\ timers' = timers \ {t}
        /\ ProcessQueue(taskQueue, Append(availableWorkers, w),
                        [activeTasks EXCEPT ![t] = NoWorker])
     \/ /\ t \notin Active
        /\ UNCHANGED <<promise, timers>>
        /\ IF GivesBack(w)
           THEN ProcessQueue(taskQueue, Append(availableWorkers, w), activeTasks)
           ELSE UNCHANGED <<taskQueue, availableWorkers, activeTasks, posted>>

(* handleWorkerError for a worker that is not in the roster (any more). *)
IgnoreWorkerError(w) ==
  /\ w \in errors
  /\ w \notin workers
  /\ errors' = errors \ {w}
  /\ UNCHANGED <<poolVars, callVars, threads, posted, replies>>

(* A fault: the timers of the rejected tasks stay armed. *)
FailTasksKeepTimers(w, others) ==
  /\ promise' = Settle(RunningOn(w) \cup others, "rejected")
  /\ activeTasks' = [t \in Tasks |-> IF activeTasks[t] = w THEN NoWorker ELSE activeTasks[t]]
  /\ UNCHANGED timers

(* What handleWorkerError does first: only w's own tasks are rejected. *)
FailTasksOf(w, others) ==
  /\ promise' = Settle(RunningOn(w) \cup others, "rejected")
  /\ timers' = timers \ (RunningOn(w) \cup others)
  /\ activeTasks' = [t \in Tasks |-> IF activeTasks[t] = w THEN NoWorker ELSE activeTasks[t]]

CountsAsStartupFailure(w) == w \notin readyWorkers

(* handleWorkerError: w is evicted, its tasks fail, a replacement starts. *)
HandleWorkerError(w) ==
  /\ w \in errors
  /\ w \in workers
  /\ CountsAsStartupFailure(w) => startupFailures + 1 < MaxStartupFailures
  /\ errors' = errors \ {w}
  /\ startupFailures' = IF CountsAsStartupFailure(w) THEN startupFailures + 1 ELSE startupFailures
  /\ FailTasksOf(w, {})
  /\ Evict(w)
  /\ starting' = IF terminated THEN starting ELSE starting + 1
  /\ UNCHANGED <<taskQueue, terminated, readyWorkers, timedOut, replies>>

(* handleWorkerError at the cap: w is evicted and not replaced, and every  *)
(* queued task fails too.                                                  *)
HandleStartupCap(w) ==
  /\ w \in errors
  /\ w \in workers
  /\ CountsAsStartupFailure(w)
  /\ startupFailures + 1 >= MaxStartupFailures
  /\ errors' = errors \ {w}
  /\ startupFailures' = startupFailures + 1
  /\ FailTasksOf(w, Queued)
  /\ taskQueue' = <<>>
  /\ Evict(w)
  /\ UNCHANGED <<terminated, readyWorkers, starting, timedOut, replies>>

(* handleTaskTimeout up to its await.  A queued task leaves the queue and  *)
(* is rejected at once; a running one costs its worker and is rejected     *)
(* when the replacement is there.                                          *)
HandleTaskTimeout(t) ==
  /\ t \in timers
  /\ timers' = timers \ {t}
  /\ \/ /\ t \in Queued
        /\ taskQueue' = Without(taskQueue, t)
        /\ promise' = Settle({t}, "rejected")
        /\ UNCHANGED <<workers, availableWorkers, activeTasks, timedOut, threads, posted>>
     \/ /\ t \notin Queued
        /\ t \in Active
        /\ activeTasks' = [activeTasks EXCEPT ![t] = NoWorker]
        /\ timedOut' = timedOut \cup {t}
        /\ Evict(activeTasks[t])
        /\ UNCHANGED <<taskQueue, promise>>
     \/ /\ t \notin Queued \cup Active
        /\ UNCHANGED <<workers, availableWorkers, taskQueue, activeTasks, promise,
                       timedOut, threads, posted>>
  /\ UNCHANGED <<terminated, readyWorkers, startupFailures, starting, replies, errors>>

-----------------------------------------------------------------------------
(* The threads, and what is in flight between them and the pool *)

(* A thread answers a task; a script may post more than one answer for it. *)
WorkerReplies(w, t, type, again) ==
  /\ w \in threads
  /\ <<w, t>> \in posted
  /\ again => AnswersTwice
  /\ replies' = replies \cup {<<w, t, type>>}
  /\ posted' = IF again THEN posted ELSE posted \ {<<w, t>>}
  /\ UNCHANGED <<poolVars, callVars, threads, errors>>

(* An uncaught exception: worker_threads stops the thread, a browser keeps *)
(* it running.                                                             *)
WorkerFails(w, stops) ==
  /\ w \in threads
  /\ errors' = errors \cup {w}
  /\ threads' = IF stops THEN threads \ {w} ELSE threads
  /\ posted' = IF stops THEN {p \in posted : p[1] # w} ELSE posted
  /\ UNCHANGED <<poolVars, callVars, replies>>

(* What an evicted worker still had in flight may never be delivered. *)
DropEvents(w) ==
  /\ w \notin workers
  /\ w \notin threads
  /\ errors' = errors \ {w}
  /\ replies' = {m \in replies : m[1] # w}
  /\ <<errors', replies'>> # <<errors, replies>>
  /\ UNCHANGED <<poolVars, callVars, threads, posted>>

Next ==
  \/ \E t \in Tasks, timed \in BOOLEAN : Execute(t, timed)
  \/ \E t \in Tasks : ExecuteTerminated(t)
  \/ Terminate
  \/ \E w \in Workers : WorkerStarts(w)
  \/ WorkerStartFails
  \/ \E t \in Tasks, w \in Workers : TimeoutReplaced(t, w)
  \/ \E t \in Tasks : TimeoutStartFails(t)
  \/ \E w \in Workers, t \in Tasks, type \in Reply : HandleWorkerMessage(w, t, type)
  \/ \E w \in Workers : IgnoreWorkerError(w)
  \/ \E w \in Workers : HandleWorkerError(w)
  \/ \E w \in Workers : HandleStartupCap(w)
  \/ \E t \in Tasks : HandleTaskTimeout(t)
  \/ \E w \in Workers, t \in Tasks, type \in Reply, again \in BOOLEAN :
       WorkerReplies(w, t, type, again)
  \/ \E w \in Workers, stops \in BOOLEAN : WorkerFails(w, stops)
  \/ \E w \in Workers : DropEvents(w)

Spec == Init /\ [][Next]_vars

(* The event loop runs every callback that is due: events, timers and      *)
(* continuations of createWorker (which settles).  A thread that was given *)
(* a task answers it or fails; callers, terminate() and a thread's second  *)
(* answers or idle crashes are not fair.                                   *)
Fairness ==
  /\ \A w \in Workers, t \in Tasks :
       WF_vars(\E type \in Reply : HandleWorkerMessage(w, t, type))
  /\ \A w \in Workers :
       /\ WF_vars(HandleWorkerError(w) \/ HandleStartupCap(w) \/ IgnoreWorkerError(w))
       /\ WF_vars(DropEvents(w))
  /\ WF_vars((\E w \in Workers : WorkerStarts(w)) \/ WorkerStartFails)
  /\ \A t \in Tasks :
       /\ WF_vars((\E w \in Workers : TimeoutReplaced(t, w)) \/ TimeoutStartFails(t))
       /\ WF_vars(HandleTaskTimeout(t))
  /\ \A w \in Workers, t \in Tasks :
       WF_vars(\/ \E type \in Reply : WorkerReplies(w, t, type, FALSE)
               \/ <<w, t>> \in posted /\ \E stops \in BOOLEAN : WorkerFails(w, stops))

FairSpec == Spec /\ Fairness

-----------------------------------------------------------------------------
(* Safety *)

Pending(t) == promise[t] = "pending"
Settled(t) == promise[t] \in {"resolved", "rejected"}
Slots      == Cardinality(workers) + starting + Cardinality(timedOut)

(* No call is lost: a pending task is in exactly one place that will settle *)
(* it (the queue, once; activeTasks; a handleTaskTimeout that awaits its    *)
(* replacement), and what is there is pending.  Only an execute() whose     *)
(* postMessage threw leaves a rejected task behind (WorkerPool.ts:268-283). *)
TaskTracked ==
  /\ IsInjective(taskQueue)
  /\ Queued \cap Active = {}
  /\ timedOut \cap (Queued \cup Active) = {}
  /\ \A t \in Tasks : Pending(t) => t \in Queued \cup Active \cup timedOut
  /\ \A t \in Queued : Pending(t)
  /\ \A t \in Active \cup timedOut : Pending(t) \/ (t \in Unclonable /\ Settled(t))

(* The roster splits into idle workers, each listed once, and workers that  *)
(* run exactly one task: none is leaked, shared or handed out after its     *)
(* eviction, however messages, timeouts and crashes interleave              *)
(* (WorkerPool.ts:157-186, 243-244, 310-311).                               *)
RosterOK ==
  /\ IsInjective(availableWorkers)
  /\ \A w \in Workers : w \in workers <=> (w \in Idle \/ isBusy(w))
  /\ \A w \in Idle : ~isBusy(w)
  /\ \A t, u \in Active : activeTasks[t] = activeTasks[u] => t = u

(* No task waits beside an idle worker: every path that adds a worker       *)
(* drains the queue (WorkerPool.ts:97, 167, 186, 254, 323, 370).            *)
WorkConserving == taskQueue = <<>> \/ availableWorkers = <<>>

(* What is in flight about a task that runs comes from the worker that runs *)
(* it, so handleWorkerMessage may give back the sender without comparing it *)
(* with task.worker (WorkerPool.ts:156, 185).                               *)
MessagesOwned ==
  \A w \in Workers, t \in Tasks :
    (<<w, t>> \in posted \/ \E type \in Reply : <<w, t, type>> \in replies)
      => /\ promise[t] # "none"
         /\ t \notin Queued
         /\ t \in Active => activeTasks[t] = w

(* Every running thread is in the roster, so terminate() can stop it, and a *)
(* thread that dropped out has its work withdrawn (WorkerPool.ts:86-91,     *)
(* 246-251, 305, 316-317, 400-404).                                         *)
ThreadsOwned ==
  /\ threads \subseteq workers
  /\ \A p \in posted : p[1] \in threads
  /\ workers \subseteq threads \cup errors

(* After terminate() nothing runs, waits or is timed: only a timed-out task *)
(* whose replacement is still starting is not settled (WorkerPool.ts:383).  *)
TerminatedIsQuiet ==
  terminated =>
    /\ workers = {} /\ threads = {} /\ timers = {}
    /\ taskQueue = <<>> /\ availableWorkers = <<>> /\ Active = {}
    /\ \A t \in Tasks : Pending(t) => t \in timedOut

(* A timer never outlives its task in the pool: whoever settles the task    *)
(* clears its timer (WorkerPool.ts:173, 196, 217).  A stale timer would     *)
(* keep the event loop alive, and only the check at 299 would keep it from  *)
(* a worker that runs somebody else's task by then.                         *)
TimersOwned == timers \subseteq Queued \cup Active

(* The pool never grows beyond maxWorkers and keeps its capacity through    *)
(* crashes and timeouts; only the startup cap, a spawn that failed and      *)
(* terminate() shrink it (class doc, WorkerPool.ts:39-43).                  *)
CapacityKept ==
  [][/\ Slots' <= Slots
     /\ Slots' < Slots =>
          \/ terminated'
          \/ startupFailures' > startupFailures /\ startupFailures' >= MaxStartupFailures
          \/ SpawnCanFail /\ workers' = workers]_vars

(* A crash is isolated: a running task is rejected only by its own worker's *)
(* error message or together with its own worker's eviction.  Other workers *)
(* are untouched (class doc, WorkerPool.ts:40-42).                          *)
CrashIsolation ==
  [][\A t \in Active :
       Pending(t) /\ promise'[t] = "rejected" =>
         \/ <<activeTasks[t], t, "error">> \in replies
         \/ activeTasks[t] \notin workers']_vars

(* What the callers of execute() see of each task. *)
ServiceStatus ==
  [t \in Tasks |->
     CASE promise[t] = "none"            -> "new"
       [] Pending(t) /\ t \in Queued     -> "waiting"
       [] Pending(t) /\ t \notin Queued  -> "running"
       [] OTHER                          -> promise[t]]

(* The pool implements the service its callers see. *)
Service == INSTANCE TaskService WITH
  Capacity <- MaxWorkers,
  waiting  <- taskQueue,
  open     <- ~terminated,
  status   <- ServiceStatus
ImplementsService == Service!Spec

-----------------------------------------------------------------------------
(* Liveness *)

(* Nothing is left that could ever run a task. *)
Exhausted == workers = {} /\ starting = 0 /\ timedOut = {}

(* A task with a timeout settles, whatever its worker does and even when    *)
(* the pool has no worker left (WorkerPool.ts:290-331).                     *)
TimedTaskSettles == \A t \in Tasks : t \in timers ~> Settled(t)

(* A task without a timeout settles too as long as the pool has capacity.   *)
TaskSettlesUnlessExhausted == \A t \in Tasks : Pending(t) ~> (Settled(t) \/ Exhausted)

(* terminate() ends everything, the workers still starting included.        *)
TerminateDrains ==
  terminated ~> (/\ threads = {} /\ starting = 0 /\ timedOut = {}
                 /\ \A t \in Tasks : ~Pending(t))

(* What the startup cap's comment promises (WorkerPool.ts:201-203): tasks   *)
(* fail instead of hanging.                                                 *)
EveryTaskSettles == \A t \in Tasks : Pending(t) ~> Settled(t)

(* "queues tasks when no worker is free" (class doc, WorkerPool.ts:35): a   *)
(* task queues only while every worker of the roster owes somebody a result *)
(* or an error.                                                             *)
QueuedOnlyWhenBusy ==
  taskQueue # <<>> =>
    \A w \in workers : \E t \in Tasks :
      /\ activeTasks[t] = w
      /\ \/ <<w, t>> \in posted
         \/ \E type \in Reply : <<w, t, type>> \in replies
         \/ w \in errors
=============================================================================
