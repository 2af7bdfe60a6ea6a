----------------------------- MODULE AtomicFile -----------------------------
(***************************************************************************)
(* What writeFileAtomic promises the processes that share a workbook file: *)
(* the file goes from one complete text to the next in a single step, a    *)
(* write that is reported as done is that step, and a write that fails or  *)
(* whose process dies before it changes nothing.  AtomicWrite implements   *)
(* this specification (AtomicWrite!Register).                              *)
(***************************************************************************)
CONSTANTS
  Procs,    (* the processes that write                        *)
  Texts,    (* complete contents of the file                   *)
  Nothing   (* what a process that does not write has asked for *)

VARIABLES
  file,     (* the content of the file                         *)
  asked,    (* asked[p]: the text of p's call, until it returns *)
  outcome   (* how p's last call ended                         *)

vars == <<file, asked, outcome>>

Init ==
  /\ file \in Texts
  /\ asked = [p \in Procs |-> Nothing]
  /\ outcome = [p \in Procs |-> "none"]

Begin(p, text) ==
  /\ asked[p] = Nothing
  /\ asked' = [asked EXCEPT ![p] = text]
  /\ outcome' = [outcome EXCEPT ![p] = "none"]
  /\ UNCHANGED file

Commit(p) ==
  /\ asked[p] \in Texts
  /\ file' = asked[p]
  /\ asked' = [asked EXCEPT ![p] = Nothing]
  /\ outcome' = [outcome EXCEPT ![p] = "written"]

Fail(p) ==
  /\ asked[p] # Nothing
  /\ asked' = [asked EXCEPT ![p] = Nothing]
  /\ outcome' = [outcome EXCEPT ![p] = "failed"]
  /\ UNCHANGED file

(* The process ends, and another one takes its role. *)
Vanish(p) ==
  /\ asked' = [asked EXCEPT ![p] = Nothing]
  /\ outcome' = [outcome EXCEPT ![p] = "none"]
  /\ UNCHANGED file

Next ==
  \E p \in Procs :
    (\E text \in Texts : Begin(p, text)) \/ Commit(p) \/ Fail(p) \/ Vanish(p)

Spec == Init /\ [][Next]_vars
=============================================================================
