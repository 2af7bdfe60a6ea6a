--------------------------- MODULE BatchExecutor ---------------------------
(***************************************************************************)
(* matrix/src/backends/gpu/BatchExecutor.ts: operations wait in a list and *)
(* are sent to the GPU together.  Only flush awaits, between the submit and *)
(* the moment it empties the list.                                         *)
(***************************************************************************)
EXTENDS Naturals, Sequences, SequencesExt

CONSTANTS
  Ops,                (* the operations a program queues, each once          *)
  Flushes,            (* its calls of flush()                                *)
  MaxBatchSize,       (* options.maxBatchSize                                *)
  AutoFlush,          (* options.autoFlush                                   *)
  WaitForCompletion   (* options.waitForCompletion                           *)

VARIABLES
  operations,   (* the list                                                  *)
  queued,       (* the operations that were ever queued                      *)
  submitted,    (* how often each operation reached the GPU                  *)
  dropped,      (* the operations that clear() removed                       *)
  flush         (* where each flush is                                       *)

vars == <<operations, queued, submitted, dropped, flush>>

TypeOK ==
  /\ operations \in Seq(Ops)
  /\ queued \subseteq Ops /\ dropped \subseteq Ops
  /\ submitted \in [Ops -> Nat]
  /\ flush \in [Flushes -> {"new", "waiting", "succeeded", "failed"}]

Init ==
  /\ operations = <<>>
  /\ queued = {} /\ dropped = {}
  /\ submitted = [o \in Ops |-> 0]
  /\ flush = [f \in Flushes |-> "new"]

-----------------------------------------------------------------------------

(* One command buffer with every operation of the list. *)
Submitted(list) == [o \in Ops |-> IF o \in ToSet(list) THEN submitted[o] + 1 ELSE submitted[o]]

(* flushSync; an error leaves the list as it is. *)
FlushSync(list) ==
  \/ submitted' = Submitted(list) /\ operations' = <<>>
  \/ operations' = list /\ UNCHANGED submitted

FlushNow ==
  /\ operations # <<>>
  /\ FlushSync(operations)
  /\ UNCHANGED <<queued, dropped, flush>>

QueueOperation(o) ==
  LET list == Append(operations, o)
  IN  /\ o \notin queued
      /\ queued' = queued \cup {o}
      /\ IF AutoFlush /\ Len(list) >= MaxBatchSize
         THEN FlushSync(list)
         ELSE operations' = list /\ UNCHANGED submitted
      /\ UNCHANGED <<dropped, flush>>

(* flush, up to its await. *)
FlushBegins(f) ==
  /\ flush[f] = "new"
  /\ \/ /\ operations = <<>>
        /\ flush' = [flush EXCEPT ![f] = "succeeded"]
        /\ UNCHANGED <<operations, submitted>>
     \/ /\ operations # <<>>
        /\ submitted' = Submitted(operations)
        /\ IF WaitForCompletion
           THEN flush' = [flush EXCEPT ![f] = "waiting"] /\ UNCHANGED operations
           ELSE flush' = [flush EXCEPT ![f] = "succeeded"] /\ operations' = <<>>
     \/ /\ operations # <<>>        (* encoding or submitting throws *)
        /\ flush' = [flush EXCEPT ![f] = "failed"]
        /\ UNCHANGED <<operations, submitted>>
  /\ UNCHANGED <<queued, dropped>>

(* The GPU has worked it off, or the wait is rejected. *)
FlushEnds(f) ==
  /\ flush[f] = "waiting"
  /\ \/ flush' = [flush EXCEPT ![f] = "succeeded"] /\ operations' = <<>>
     \/ flush' = [flush EXCEPT ![f] = "failed"] /\ UNCHANGED operations
  /\ UNCHANGED <<queued, submitted, dropped>>

Clear ==
  /\ dropped' = dropped \cup ToSet(operations)
  /\ operations' = <<>>
  /\ UNCHANGED <<queued, submitted, flush>>

Next ==
  \/ \E o \in Ops : QueueOperation(o)
  \/ \E f \in Flushes : FlushBegins(f) \/ FlushEnds(f)
  \/ FlushNow \/ Clear

Spec == Init /\ [][Next]_vars

-----------------------------------------------------------------------------
(* Only clear() takes an operation out of the list "without executing"     *)
(* (BatchExecutor.ts 441): every other one waits, or has reached the GPU.   *)
NothingDropped ==
  \A o \in queued : o \in ToSet(operations) \/ submitted[o] > 0 \/ o \in dropped
=============================================================================
