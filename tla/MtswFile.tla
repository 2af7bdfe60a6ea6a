------------------------------ MODULE MtswFile ------------------------------
(***************************************************************************)
(* Two programs on one workbook file: `mtsw serve`, which saves on request, *)
(* and `mtsw run --timeout --write` (cli.ts), which runs the file it read   *)
(* in a worker and writes the results back.  Both write with               *)
(* writeFileAtomic, and either may be killed at any time.                  *)
(***************************************************************************)
EXTENDS AtomicWrite, Sequences

CONSTANTS
  Server, Cli,    (* the two roles                                *)
  ServerText,     (* what the server's document serializes to     *)
  CliText,        (* the file as the command read it, with results *)
  MaxLines,
  MaxKills        (* bound: processes that are killed             *)

ASSUME RoleAssumption ==
  /\ Procs = {Server, Cli} /\ Server # Cli
  /\ {ServerText, CliText} \subseteq Texts
  /\ MaxLines \in Nat /\ MaxKills \in Nat

VARIABLES
  lines, read, queue, current, out, closed, done, stopper, exited,
  started, timer, worker, events, settled, result,
  command,        (* where the command is                         *)
  kills

Serve  == INSTANCE ServeLoop
Runner == INSTANCE TimeoutRunner

serveVars   == <<lines, read, queue, current, out, closed, done, stopper, exited>>
runnerVars  == <<started, timer, worker, events, settled, result>>
commandVars == <<runnerVars, command>>
vars == <<writeVars, serveVars, commandVars, kills>>

Init ==
  /\ WriteInit /\ file \notin {ServerText, CliText}
  /\ Serve!ServeInit
  /\ Runner!Init
  /\ command \in {"new", "none"}
  /\ kills = 0

-----------------------------------------------------------------------------
(* The server *)

ServeTurn ==
  /\ \/ Serve!ReadLine \/ Serve!EndOfInput
     \/ Serve!ProcessLine \/ Serve!FinishAtEnd
     \/ Serve!BeginRequest("run")
  /\ UNCHANGED <<writeVars, commandVars, kills>>

ServeRunEnds ==
  /\ Serve!EndRequest("run")
  /\ UNCHANGED <<writeVars, commandVars, kills>>

Signal == Serve!Signal /\ UNCHANGED <<writeVars, commandVars, kills>>
ServeExits == Serve!Exit /\ UNCHANGED <<writeVars, commandVars, kills>>

(* save: Session.save calls writeFileAtomic, and the answer follows it. *)
SaveBegins ==
  /\ Serve!BeginRequest("save")
  /\ Call(Server, ServerText)
  /\ UNCHANGED <<commandVars, kills>>
SaveEnds ==
  /\ at[Server] = "idle"
  /\ Serve!EndRequest("save")
  /\ UNCHANGED <<writeVars, commandVars, kills>>

ServerWrites ==
  /\ ~exited
  /\ WriteStep(Server)
  /\ UNCHANGED <<serveVars, commandVars, kills>>

ServerKilled ==
  /\ kills < MaxKills
  /\ Serve!Killed
  /\ Replace(Server, pid[Server])
  /\ kills' = kills + 1
  /\ UNCHANGED commandVars

-----------------------------------------------------------------------------
(* The command *)

CommandStarts ==
  /\ command = "new"
  /\ Runner!Start
  /\ command' = "runs"
  /\ UNCHANGED <<writeVars, serveVars, kills>>

RunnerTurn ==
  /\ command = "runs"
  /\ Runner!TimerFires \/ Runner!Handle
  /\ UNCHANGED <<writeVars, serveVars, command, kills>>

WorkerStep ==
  /\ \/ \E event \in Runner!Events \ {"exit"} : Runner!WorkerSays(event)
     \/ Runner!WorkerExits
  /\ UNCHANGED <<writeVars, serveVars, command, kills>>

(* Only a report is written back. *)
CommandWrites ==
  /\ command = "runs"
  /\ result = "report"
  /\ Call(Cli, CliText)
  /\ command' = "writes"
  /\ UNCHANGED <<serveVars, runnerVars, kills>>

CliWrites ==
  /\ command = "writes"
  /\ WriteStep(Cli)
  /\ UNCHANGED <<serveVars, commandVars, kills>>

(* process.exit, which ends the worker too. *)
CommandEnds ==
  /\ \/ command = "runs" /\ result \in {"failure", "timeout"}
     \/ command = "writes" /\ at[Cli] = "idle"
  /\ command' = "ended"
  /\ worker' = "gone"
  /\ timer' = FALSE
  /\ UNCHANGED <<writeVars, serveVars, started, events, settled, result, kills>>

(* The command is killed, and may be given again. *)
CommandKilled ==
  /\ command \in {"runs", "writes"}
  /\ kills < MaxKills
  /\ \E n \in Pids : Replace(Cli, n)
  /\ command' = "killed"
  /\ worker' = "gone"
  /\ timer' = FALSE
  /\ kills' = kills + 1
  /\ UNCHANGED <<serveVars, started, events, settled, result>>
CommandAgain ==
  /\ command = "killed"
  /\ command' = "new"
  /\ started' = FALSE /\ timer' = FALSE /\ settled' = FALSE
  /\ worker' = "none" /\ events' = <<>> /\ result' = "none"
  /\ UNCHANGED <<writeVars, serveVars, kills>>

-----------------------------------------------------------------------------

Next ==
  \/ ServeTurn \/ ServeRunEnds \/ Signal \/ ServeExits
  \/ SaveBegins \/ ServerWrites \/ SaveEnds \/ ServerKilled
  \/ CommandStarts \/ RunnerTurn \/ WorkerStep
  \/ CommandWrites \/ CliWrites \/ CommandEnds
  \/ CommandKilled \/ CommandAgain

Spec == Init /\ [][Next]_vars

(* The event loops run what is due, the clock runs, system calls return,    *)
(* and a cell run by the server ends (one run by the command need not).     *)
Fairness ==
  /\ WF_vars(ServeTurn) /\ WF_vars(ServeRunEnds) /\ WF_vars(ServeExits)
  /\ WF_vars(SaveBegins) /\ WF_vars(ServerWrites) /\ WF_vars(SaveEnds)
  /\ WF_vars(RunnerTurn)
  /\ WF_vars(CommandWrites) /\ WF_vars(CliWrites) /\ WF_vars(CommandEnds)

FairSpec == Spec /\ Fairness

-----------------------------------------------------------------------------
SystemTypeOK ==
  /\ TypeOK
  /\ Serve!TypeOK
  /\ Runner!TypeOK
  /\ command \in {"new", "none", "runs", "writes", "ended", "killed"}
  /\ kills \in 0..MaxKills

(* Every line that is taken up is answered once, in order, and none is left *)
(* unanswered when the input has ended (ServeLoop); the state is well       *)
(* formed.                                                                  *)
OneAnswerEach == SystemTypeOK /\ Serve!OneAnswerEach /\ Serve!NothingLostAtEnd

(* No worker thread outlives its deadline or its promise (TimeoutRunner).   *)
NothingOutlives == Runner!NothingOutlives

(* When its input has ended, or after a shutdown or a signal, the server    *)
(* comes to an end, and a command with a deadline does in any case: no      *)
(* chain of requests, lock on the file or endless cell holds them up.       *)
WindsDown ==
  /\ closed \/ done ~> exited
  /\ command = "runs" ~> command \in {"ended", "killed"}
=============================================================================
