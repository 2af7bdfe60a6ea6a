---------------------------- MODULE AtomicWrite ----------------------------
(***************************************************************************)
(* workbook/src/fs-atomic.ts: writeFileAtomic as the system calls it makes *)
(* in order, each of which may fail, in several processes on one file.     *)
(* The function is synchronous: nothing else of the same process runs      *)
(* between the calls, but another process may, or the process dies.        *)
(***************************************************************************)
EXTENDS Naturals

CONSTANTS
  Procs,           (* roles: the process in a role may die and be replaced   *)
  Pids,            (* process ids                                            *)
  Texts,           (* complete contents                                      *)
  Partial,         (* the content of a file that is not written to its end   *)
  Nothing,         (* no text                                                *)
  NoTemp,          (* no temp file                                           *)
  RenameAttempts,  (* RENAME_ATTEMPTS                                        *)
  MaxWrites        (* bound: the calls of one process                        *)

ASSUME WriteAssumption ==
  /\ Partial \notin Texts /\ Nothing \notin Texts
  /\ RenameAttempts \in Nat \ {0} /\ MaxWrites \in Nat
  /\ NoTemp \notin Pids \X Nat

VARIABLES
  file,      (* the content of the file                                      *)
  temps,     (* the temp files that exist beside it, with their contents     *)
  pid,       (* process.pid; processes in different containers may share one *)
  counter,   (* the module's counter of each process                         *)
  at,        (* where each process is in writeFileAtomic                     *)
  asked,     (* the content it was called with                               *)
  tmp,       (* the temp file it uses                                        *)
  attempt,   (* the renames it tried                                         *)
  outcome,   (* how its last call ended                                      *)
  litter     (* the temp files that nobody will remove                       *)

diskVars  == <<file, temps, litter>>
writeVars == <<diskVars, pid, counter, at, asked, tmp, attempt, outcome>>

Names == Pids \X Nat
Steps == {"idle", "create", "write", "rename", "cleanup"}

TypeOK ==
  /\ file \in Texts \cup {Partial}
  /\ DOMAIN temps \subseteq Names
  /\ \A n \in DOMAIN temps : temps[n] \in Texts \cup {Partial}
  /\ pid \in [Procs -> Pids]
  /\ counter \in [Procs -> Nat]
  /\ at \in [Procs -> Steps]
  /\ asked \in [Procs -> Texts \cup {Nothing}]
  /\ tmp \in [Procs -> Names \cup {NoTemp}]
  /\ attempt \in [Procs -> 1..RenameAttempts]
  /\ outcome \in [Procs -> {"none", "written", "failed"}]
  /\ litter \subseteq Names

WriteInit ==
  /\ file \in Texts
  /\ temps = <<>>
  /\ pid \in [Procs -> Pids]
  /\ counter = [p \in Procs |-> 0]
  /\ at = [p \in Procs |-> "idle"]
  /\ asked = [p \in Procs |-> Nothing]
  /\ tmp = [p \in Procs |-> NoTemp]
  /\ attempt = [p \in Procs |-> 1]
  /\ outcome = [p \in Procs |-> "none"]
  /\ litter = {}

-----------------------------------------------------------------------------
(* The directory *)

With(name, content) ==
  [n \in DOMAIN temps \cup {name} |-> IF n = name THEN content ELSE temps[n]]
Without(name) == [n \in DOMAIN temps \ {name} |-> temps[n]]

(* Faulty variants: the file is created whether it exists or not (flag 'w').*)
CreatableAnyway(name) == TRUE

(* flag 'wx' *)
Creatable(name) == name \notin DOMAIN temps

-----------------------------------------------------------------------------
(* The call *)

(* The call, up to the first system call: the name of the temp file. *)
Call(p, text) ==
  /\ at[p] = "idle"
  /\ counter[p] < MaxWrites
  /\ at' = [at EXCEPT ![p] = "create"]
  /\ asked' = [asked EXCEPT ![p] = text]
  /\ tmp' = [tmp EXCEPT ![p] = <<pid[p], counter[p]>>]
  /\ counter' = [counter EXCEPT ![p] = @ + 1]
  /\ attempt' = [attempt EXCEPT ![p] = 1]
  /\ outcome' = [outcome EXCEPT ![p] = "none"]
  /\ UNCHANGED <<diskVars, pid>>

(* It returns or throws. *)
Return(p, result) ==
  /\ at' = [at EXCEPT ![p] = "idle"]
  /\ asked' = [asked EXCEPT ![p] = Nothing]
  /\ tmp' = [tmp EXCEPT ![p] = NoTemp]
  /\ outcome' = [outcome EXCEPT ![p] = result]
  /\ UNCHANGED <<pid, counter, attempt>>

Goto(p, step) ==
  /\ at' = [at EXCEPT ![p] = step]
  /\ UNCHANGED <<pid, counter, asked, tmp, outcome>>

Create(p) ==
  /\ at[p] = "create"
  /\ Creatable(tmp[p])
  /\ temps' = With(tmp[p], Partial)
  /\ Goto(p, "write")
  /\ UNCHANGED <<file, litter, attempt>>

(* The file exists, or cannot be created: no clean-up, it is not ours. *)
CreateFails(p) ==
  /\ at[p] = "create"
  /\ Return(p, "failed")
  /\ UNCHANGED diskVars

Write(p) ==
  /\ at[p] = "write"
  /\ temps' = With(tmp[p], asked[p])
  /\ Goto(p, "rename")
  /\ UNCHANGED <<file, litter, attempt>>

(* The disk is full: this is outside the try, so the file stays. *)
WriteFails(p) ==
  /\ at[p] = "write"
  /\ litter' = litter \cup {tmp[p]}
  /\ Return(p, "failed")
  /\ UNCHANGED <<file, temps>>

Rename(p) ==
  /\ at[p] = "rename"
  /\ file' = temps[tmp[p]]
  /\ temps' = Without(tmp[p])
  /\ Return(p, "written")
  /\ UNCHANGED litter

(* Another process holds the target open: sleep, and try again. *)
RenameLocked(p) ==
  /\ at[p] = "rename"
  /\ attempt[p] < RenameAttempts
  /\ attempt' = [attempt EXCEPT ![p] = @ + 1]
  /\ UNCHANGED <<diskVars, pid, counter, at, asked, tmp, outcome>>

(* A fault: the error is thrown past the clean-up. *)
RenameFailsAtOnce(p) ==
  /\ at[p] = "rename"
  /\ Return(p, "failed")
  /\ UNCHANGED diskVars

(* Any other error, or one lock too many. *)
RenameFails(p) ==
  /\ at[p] = "rename"
  /\ Goto(p, "cleanup")
  /\ UNCHANGED <<diskVars, attempt>>

Unlink(p) ==
  /\ at[p] = "cleanup"
  /\ temps' = Without(tmp[p])
  /\ Return(p, "failed")
  /\ UNCHANGED <<file, litter>>

(* The error of the unlink is swallowed. *)
UnlinkFails(p) ==
  /\ at[p] = "cleanup"
  /\ litter' = litter \cup {tmp[p]}
  /\ Return(p, "failed")
  /\ UNCHANGED <<file, temps>>

(* The process ends, wherever it is, and its temp file stays.  The process  *)
(* that takes its role counts from 0 again.                                 *)
Replace(p, newPid) ==
  /\ litter' = IF at[p] \in {"write", "rename", "cleanup"}
               THEN litter \cup {tmp[p]} ELSE litter
  /\ pid' = [pid EXCEPT ![p] = newPid]
  /\ counter' = [counter EXCEPT ![p] = 0]
  /\ at' = [at EXCEPT ![p] = "idle"]
  /\ asked' = [asked EXCEPT ![p] = Nothing]
  /\ tmp' = [tmp EXCEPT ![p] = NoTemp]
  /\ attempt' = [attempt EXCEPT ![p] = 1]
  /\ outcome' = [outcome EXCEPT ![p] = "none"]
  /\ UNCHANGED <<file, temps>>

(* The steps of a call once it is made. *)
WriteStep(p) ==
  \/ Create(p) \/ CreateFails(p)
  \/ Write(p) \/ WriteFails(p)
  \/ Rename(p) \/ RenameLocked(p) \/ RenameFails(p)
  \/ Unlink(p) \/ UnlinkFails(p)

WriteNext ==
  \E p \in Procs :
    \/ \E text \in Texts : Call(p, text)
    \/ WriteStep(p)
    \/ \E newPid \in Pids : Replace(p, newPid)

WriteSpec == WriteInit /\ [][WriteNext]_writeVars

-----------------------------------------------------------------------------
(* A process that has created its temp file owns it: the file exists, is no *)
(* other process's, and is complete once it has been written.  Any further  *)
(* temp file was left behind by a death, a failing write or a failing       *)
(* unlink; a failing rename leaves none.                                    *)
Owners == {p \in Procs : at[p] \in {"write", "rename", "cleanup"}}
TempsOwned ==
  /\ \A p \in Owners : tmp[p] \in DOMAIN temps \ litter
  /\ \A p, q \in Owners : tmp[p] = tmp[q] => p = q
  /\ \A p \in Owners : at[p] # "write" => temps[tmp[p]] = asked[p]
  /\ DOMAIN temps = {tmp[p] : p \in Owners} \cup litter

(* "On any failure the temp file is removed" (fs-atomic.ts 35), unless the  *)
(* unlink fails too ("best-effort cleanup", 61): not what the code does, as *)
(* the write that follows the creation of the file is outside the try (45). *)
FailureLeavesNoTemp ==
  [][\A p \in Owners :
       outcome'[p] = "failed" => tmp[p] \notin DOMAIN temps' \/ at[p] = "cleanup"]_writeVars

(* writeFileAtomic makes the file an atomic register (fs-atomic.ts 29-33):  *)
(* whatever fails, whoever dies, and whoever else writes, its content goes  *)
(* from one complete text to the next, at the step a call reports as done.  *)
Register == INSTANCE AtomicFile
ImplementsRegister == Register!Spec
=============================================================================
