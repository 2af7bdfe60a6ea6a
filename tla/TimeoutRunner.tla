--------------------------- MODULE TimeoutRunner ---------------------------
(***************************************************************************)
(* workbook/src/timeout-runner.ts: one workbook run in a worker thread     *)
(* with a deadline.  The deadline and the worker's 'message', 'error' and  *)
(* 'exit' events race to settle one promise.  The worker is run-worker.ts. *)
(***************************************************************************)
EXTENDS Sequences

VARIABLES
  started,   (* runWorkbookWithTimeout was called                            *)
  timer,     (* the deadline is armed                                        *)
  worker,    (* the thread: it runs, has said all it will, is being          *)
             (* terminated, or is gone                                       *)
  events,    (* its events on their way, oldest first                        *)
  settled,
  result     (* how the promise settled                                      *)

vars == <<started, timer, worker, events, settled, result>>

(* What a worker can end with: a report, a failure (a parse or setup error  *)
(* it posts, or an uncaught one), or an exit without a word.                *)
Events == {"report", "failure", "exit"}

TypeOK ==
  /\ started \in BOOLEAN /\ timer \in BOOLEAN /\ settled \in BOOLEAN
  /\ worker \in {"none", "runs", "said", "stopping", "gone"}
  /\ events \in Seq(Events)
  /\ result \in {"none", "report", "failure", "timeout"}

Init ==
  /\ started = FALSE /\ timer = FALSE /\ settled = FALSE
  /\ worker = "none"
  /\ events = <<>>
  /\ result = "none"

Start ==
  /\ ~started
  /\ started' = TRUE
  /\ timer' = TRUE
  /\ worker' = "runs"
  /\ UNCHANGED <<events, settled, result>>

-----------------------------------------------------------------------------
(* The worker *)

(* main() ends with a message, or throws. *)
WorkerSays(event) ==
  /\ worker = "runs"
  /\ worker' = "said"
  /\ events' = Append(events, event)
  /\ UNCHANGED <<started, timer, settled, result>>

(* The thread ends, because its work is done, on process.exit in a cell, or *)
(* because it is terminated.                                                *)
WorkerExits ==
  /\ worker \in {"runs", "said", "stopping"}
  /\ worker' = "gone"
  /\ events' = Append(events, "exit")
  /\ UNCHANGED <<started, timer, settled, result>>

-----------------------------------------------------------------------------
(* The coordinator *)

Terminated == IF worker \in {"runs", "said"} THEN "stopping" ELSE worker

(* A fault: the worker is left alone. *)
FinishLeavesWorker(how) ==
  IF settled THEN UNCHANGED <<timer, worker, settled, result>>
  ELSE settled' = TRUE /\ timer' = FALSE /\ result' = how /\ UNCHANGED worker

finish(how) ==
  IF settled THEN UNCHANGED <<timer, worker, settled, result>>
  ELSE /\ settled' = TRUE
       /\ timer' = FALSE
       /\ worker' = Terminated
       /\ result' = how

(* A fault: the deadline is looked at when an event comes. *)
TimerFiresLate ==
  /\ timer /\ events # <<>>
  /\ finish("timeout")
  /\ UNCHANGED <<started, events>>

TimerFires ==
  /\ timer
  /\ finish("timeout")
  /\ UNCHANGED <<started, events>>

(* A report, even one with failed cells, resolves; all else rejects. *)
Handle ==
  /\ events # <<>>
  /\ finish(IF Head(events) = "report" THEN "report" ELSE "failure")
  /\ events' = Tail(events)
  /\ UNCHANGED started

-----------------------------------------------------------------------------
(* "The worker is ALWAYS terminated before this promise settles - on        *)
(* timeout, on success, and on error" (timeout-runner.ts 50-52): a settled  *)
(* promise has no worker that was not told to end, and no armed deadline.   *)
NothingOutlives ==
  settled => ~timer /\ worker \in {"stopping", "gone"}
=============================================================================
