---------------------------- MODULE TaskService ----------------------------
(***************************************************************************)
(* What a caller of a worker pool is promised, with no worker in sight:    *)
(* tasks wait in submission order, at most Capacity of them run at once, a *)
(* task is settled once and for all, and a closed service starts nothing.  *)
(* WorkerPool implements this specification (WorkerPool!Service).          *)
(***************************************************************************)
EXTENDS Naturals, Sequences, FiniteSets

CONSTANTS
  Tasks,     (* the calls of execute()                       *)
  Capacity   (* how many tasks may run at the same time      *)

VARIABLES
  status,    (* where each task is                           *)
  waiting,   (* the tasks not started yet, oldest first      *)
  open       (* FALSE from the shutdown on                   *)

vars == <<status, waiting, open>>

Status  == {"new", "waiting", "running", "resolved", "rejected"}
Running == {t \in Tasks : status[t] = "running"}

TypeOK ==
  /\ status \in [Tasks -> Status]
  /\ waiting \in Seq(Tasks)
  /\ open \in BOOLEAN

Init ==
  /\ status = [t \in Tasks |-> "new"]
  /\ waiting = <<>>
  /\ open = TRUE

-----------------------------------------------------------------------------

(* A new task joins the end of the line. *)
Submit(t) ==
  /\ open
  /\ status[t] = "new"
  /\ status' = [status EXCEPT ![t] = "waiting"]
  /\ waiting' = Append(waiting, t)
  /\ UNCHANGED open

(* A new task starts at once: nobody waits and a slot is free. *)
SubmitAndStart(t) ==
  /\ open
  /\ status[t] = "new"
  /\ waiting = <<>>
  /\ Cardinality(Running) < Capacity
  /\ status' = [status EXCEPT ![t] = "running"]
  /\ UNCHANGED <<waiting, open>>

(* A new task is turned away. *)
Refuse(t) ==
  /\ status[t] = "new"
  /\ status' = [status EXCEPT ![t] = "rejected"]
  /\ UNCHANGED <<waiting, open>>

(* Some running tasks are settled and the oldest waiting ones, as many as  *)
(* there are free slots or fewer, start in the same step.                  *)
Advance(outcome, n) ==
  LET done == DOMAIN outcome
  IN  /\ done \subseteq Running
      /\ n <= Len(waiting)
      /\ n > 0 => open
      /\ Cardinality(Running \ done) + n <= Capacity
      /\ status' = [t \in Tasks |->
           CASE t \in done -> outcome[t]
             [] \E k \in 1..n : waiting[k] = t -> "running"
             [] OTHER -> status[t]]
      /\ waiting' = SubSeq(waiting, n + 1, Len(waiting))
      /\ UNCHANGED open

(* A waiting task runs out of time; the others keep their order. *)
Expire(k) ==
  /\ status' = [status EXCEPT ![waiting[k]] = "rejected"]
  /\ waiting' = SubSeq(waiting, 1, k - 1) \o SubSeq(waiting, k + 1, Len(waiting))
  /\ UNCHANGED open

(* Every waiting task is rejected, with the tasks of failed that run. *)
Abandon(failed) ==
  /\ failed \subseteq Running
  /\ status' = [t \in Tasks |-> IF status[t] = "waiting" \/ t \in failed
                                THEN "rejected" ELSE status[t]]
  /\ waiting' = <<>>

(* The service closes; a task it cannot stop yet is rejected later. *)
Shutdown(failed) ==
  /\ open
  /\ open' = FALSE
  /\ Abandon(failed)

Next ==
  \/ \E t \in Tasks : Submit(t) \/ SubmitAndStart(t) \/ Refuse(t)
  \/ \E done \in SUBSET Running, n \in 0..Len(waiting) :
       \E outcome \in [done -> {"resolved", "rejected"}] : Advance(outcome, n)
  \/ \E k \in 1..Len(waiting) : Expire(k)
  \/ \E failed \in SUBSET Running : Shutdown(failed) \/ (Abandon(failed) /\ UNCHANGED open)

Spec == Init /\ [][Next]_vars
=============================================================================
