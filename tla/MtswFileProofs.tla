-------------------------- MODULE MtswFileProofs ---------------------------
(***************************************************************************)
(* What holds of MtswFile for any texts, process ids and bounds: the file  *)
(* is written as AtomicWrite describes it, whoever writes; every line the  *)
(* server takes up is answered once and in order; no worker outlives its   *)
(* deadline.                                                               *)
(***************************************************************************)
EXTENDS MtswFile, ListFacts

-----------------------------------------------------------------------------
(* The register: AtomicWrite.tla for every number of writers and contents.  *)

(* A process that is in a call has a text and a temp name for it. *)
CallsOK ==
  \A p \in Procs :
    /\ at[p] = "idle" <=> asked[p] = Nothing
    /\ at[p] # "idle" => tmp[p] \in Names

IndInv == TypeOK /\ CallsOK /\ TempsOwned

-----------------------------------------------------------------------------
LEMMA InitInv == WriteInit => IndInv
  BY WriteAssumption
  DEF WriteInit, IndInv, TypeOK, CallsOK, TempsOwned, Owners, Names, Steps

(* The steps that neither create nor remove a temp file. *)
LEMMA CallInv ==
  ASSUME IndInv, NEW p \in Procs, NEW text \in Texts, Call(p, text)
  PROVE  IndInv'
  <1>1. TypeOK'
    BY WriteAssumption DEF IndInv, TypeOK, Call, diskVars, Names, Steps
  <1>2. CallsOK'
    BY WriteAssumption DEF IndInv, TypeOK, CallsOK, Call, Names
  <1>3. TempsOwned'
    <2>1. Owners' = Owners /\ \A q \in Owners : q # p
      BY DEF Owners, Call, IndInv, TypeOK
    <2> QED BY <2>1 DEF IndInv, TypeOK, TempsOwned, Call, diskVars, Owners
  <1> QED BY <1>1, <1>2, <1>3 DEF IndInv

LEMMA WriteStepInv ==
  ASSUME IndInv, NEW p \in Procs, WriteStep(p)
  PROVE  IndInv'
  <1> USE DEF IndInv
  <1>1. CASE Create(p)
    <2>1. TypeOK'
      BY <1>1 DEF TypeOK, CallsOK, Create, With, Goto, Steps
    <2>2. CallsOK'
      BY <1>1 DEF TypeOK, CallsOK, Create, Goto
    <2>3. TempsOwned'
      <3>1. Owners' = Owners \cup {p} /\ p \notin Owners
        BY <1>1 DEF Owners, Create, Goto, TypeOK
      <3>2. tmp[p] \notin DOMAIN temps
        BY <1>1 DEF Create, Creatable
      <3>3. DOMAIN temps' = DOMAIN temps \cup {tmp[p]}
        BY <1>1 DEF Create, With
      <3>4. \A q \in Owners : temps'[tmp[q]] = temps[tmp[q]] /\ at'[q] = at[q]
        BY <1>1, <3>1, <3>2 DEF Create, With, Goto, TempsOwned, Owners, TypeOK
      <3>5. tmp' = tmp /\ asked' = asked /\ litter' = litter /\ at'[p] = "write"
        BY <1>1 DEF Create, Goto, TypeOK
      <3>6. litter \subseteq DOMAIN temps
        BY DEF TempsOwned
      <3> QED BY <3>1, <3>2, <3>3, <3>4, <3>5, <3>6 DEF TempsOwned
    <2> QED BY <2>1, <2>2, <2>3
  <1>2. CASE CreateFails(p)
    <2>1. TypeOK'
      BY <1>2 DEF TypeOK, CreateFails, Return, diskVars, Steps
    <2>2. CallsOK'
      BY <1>2, WriteAssumption DEF TypeOK, CallsOK, CreateFails, Return
    <2>3. TempsOwned'
      <3>1. Owners' = Owners /\ p \notin Owners
        BY <1>2 DEF Owners, CreateFails, Return, TypeOK
      <3> QED BY <1>2, <3>1 DEF TempsOwned, CreateFails, Return, diskVars, TypeOK, Owners
    <2> QED BY <2>1, <2>2, <2>3
  <1>3. CASE Write(p)
    <2>1. asked[p] \in Texts
      BY <1>3 DEF TypeOK, CallsOK, Write
    <2>2. TypeOK'
      BY <1>3, <2>1 DEF TypeOK, CallsOK, Write, With, Goto, Steps
    <2>3. CallsOK'
      BY <1>3 DEF TypeOK, CallsOK, Write, Goto
    <2>4. TempsOwned'
      <3>1. Owners' = Owners /\ p \in Owners
        BY <1>3 DEF Owners, Write, Goto, TypeOK
      <3>2. DOMAIN temps' = DOMAIN temps
        BY <1>3, <3>1 DEF Write, With, TempsOwned
      <3>3. \A q \in Owners : q # p => temps'[tmp[q]] = temps[tmp[q]] /\ at'[q] = at[q]
        BY <1>3, <3>1 DEF Write, With, Goto, TempsOwned, Owners, TypeOK
      <3>4. temps'[tmp[p]] = asked[p]
        BY <1>3 DEF Write, With
      <3>5. tmp' = tmp /\ asked' = asked /\ litter' = litter
        BY <1>3 DEF Write, Goto
      <3> QED BY <3>1, <3>2, <3>3, <3>4, <3>5 DEF TempsOwned
    <2> QED BY <2>2, <2>3, <2>4
  <1>4. CASE Rename(p) \/ Unlink(p)
    <2>1. p \in Owners /\ tmp[p] \in DOMAIN temps
      BY <1>4 DEF Owners, Rename, Unlink, TempsOwned
    <2>2. TypeOK'
      BY <1>4, <2>1 DEF TypeOK, Rename, Unlink, Without, Return, Steps
    <2>3. CallsOK'
      BY <1>4, WriteAssumption DEF TypeOK, CallsOK, Rename, Unlink, Return
    <2>4. TempsOwned'
      <3>1. Owners' = Owners \ {p}
        BY <1>4 DEF Owners, Rename, Unlink, Return, TypeOK
      <3>2. DOMAIN temps' = DOMAIN temps \ {tmp[p]}
        BY <1>4 DEF Rename, Unlink, Without
      <3>3. \A q \in Owners \ {p} :
              /\ tmp'[q] = tmp[q] /\ asked'[q] = asked[q] /\ at'[q] = at[q]
              /\ tmp[q] # tmp[p]
              /\ temps'[tmp[q]] = temps[tmp[q]]
        BY <1>4, <2>1 DEF Rename, Unlink, Without, Return, TempsOwned, Owners, TypeOK
      <3>4. litter' = litter /\ tmp[p] \notin litter
        BY <1>4, <2>1 DEF Rename, Unlink, TempsOwned
      <3> QED BY <2>1, <3>1, <3>2, <3>3, <3>4 DEF TempsOwned
    <2> QED BY <2>2, <2>3, <2>4
  <1>5. CASE WriteFails(p) \/ UnlinkFails(p)
    <2>1. p \in Owners /\ tmp[p] \in DOMAIN temps
      BY <1>5 DEF Owners, WriteFails, UnlinkFails, TempsOwned
    <2>2. TypeOK'
      BY <1>5, <2>1 DEF TypeOK, WriteFails, UnlinkFails, Return, Steps
    <2>3. CallsOK'
      BY <1>5, WriteAssumption DEF TypeOK, CallsOK, WriteFails, UnlinkFails, Return
    <2>4. TempsOwned'
      <3>1. Owners' = Owners \ {p}
        BY <1>5 DEF Owners, WriteFails, UnlinkFails, Return, TypeOK
      <3>2. temps' = temps /\ litter' = litter \cup {tmp[p]}
        BY <1>5 DEF WriteFails, UnlinkFails
      <3>3. \A q \in Owners \ {p} :
              /\ tmp'[q] = tmp[q] /\ asked'[q] = asked[q] /\ at'[q] = at[q]
              /\ tmp[q] # tmp[p]
        BY <1>5, <2>1 DEF WriteFails, UnlinkFails, Return, TempsOwned, Owners, TypeOK
      <3> QED BY <2>1, <3>1, <3>2, <3>3 DEF TempsOwned
    <2> QED BY <2>2, <2>3, <2>4
  <1>6. CASE RenameLocked(p) \/ RenameFails(p)
    <2>1. TypeOK'
      BY <1>6, WriteAssumption
      DEF TypeOK, RenameLocked, RenameFails, Goto, diskVars, Steps
    <2>2. CallsOK'
      BY <1>6 DEF TypeOK, CallsOK, RenameLocked, RenameFails, Goto
    <2>3. TempsOwned'
      <3>1. Owners' = Owners
        BY <1>6 DEF Owners, RenameLocked, RenameFails, Goto, TypeOK
      <3>2. \A q \in Owners : at'[q] # "write" => at[q] # "write"
        BY <1>6 DEF Owners, RenameLocked, RenameFails, Goto, TypeOK
      <3>3. temps' = temps /\ tmp' = tmp /\ asked' = asked /\ litter' = litter
        BY <1>6 DEF RenameLocked, RenameFails, Goto, diskVars
      <3> QED BY <3>1, <3>2, <3>3 DEF TempsOwned
    <2> QED BY <2>1, <2>2, <2>3
  <1> QED BY <1>1, <1>2, <1>3, <1>4, <1>5, <1>6 DEF WriteStep

LEMMA ReplaceInv ==
  ASSUME IndInv, NEW p \in Procs, NEW newPid \in Pids, Replace(p, newPid)
  PROVE  IndInv'
  <1> USE DEF IndInv
  <1>1. p \in Owners => tmp[p] \in DOMAIN temps
    BY DEF TempsOwned
  <1>2. litter' = IF p \in Owners THEN litter \cup {tmp[p]} ELSE litter
    BY DEF Replace, Owners
  <1>3. TypeOK'
    BY <1>1, <1>2, WriteAssumption DEF TypeOK, Replace, Steps
  <1>4. CallsOK'
    BY WriteAssumption DEF TypeOK, CallsOK, Replace
  <1>5. TempsOwned'
    <2>1. Owners' = Owners \ {p}
      BY DEF Owners, Replace, TypeOK
    <2>2. \A q \in Owners \ {p} :
            /\ tmp'[q] = tmp[q] /\ asked'[q] = asked[q] /\ at'[q] = at[q]
            /\ p \in Owners => tmp[q] # tmp[p]
      BY DEF Replace, TempsOwned, Owners, TypeOK
    <2>3. temps' = temps
      BY DEF Replace
    <2> QED BY <1>1, <1>2, <2>1, <2>2, <2>3 DEF TempsOwned
  <1> QED BY <1>3, <1>4, <1>5

LEMMA StepInv == IndInv /\ [WriteNext]_writeVars => IndInv'
  <1> SUFFICES ASSUME IndInv, [WriteNext]_writeVars PROVE IndInv'
    OBVIOUS
  <1>1. CASE WriteNext
    BY <1>1, CallInv, WriteStepInv, ReplaceInv DEF WriteNext
  <1>2. CASE UNCHANGED writeVars
    BY <1>2
    DEF IndInv, TypeOK, CallsOK, TempsOwned, Owners, writeVars, diskVars
  <1> QED BY <1>1, <1>2

(* The strengthened invariant. *)
THEOREM WriteInvariance == WriteSpec => []IndInv
  BY InitInv, StepInv, PTL DEF WriteSpec

(* A temp file belongs to one process, and is complete when it is renamed   *)
(* over the workbook; any other temp file is accounted for.                 *)
THEOREM TempsBelongToOne == WriteSpec => []TempsOwned
  <1>1. IndInv => TempsOwned
    BY DEF IndInv
  <1> QED BY <1>1, WriteInvariance, PTL

-----------------------------------------------------------------------------
(* The refinement *)

LEMMA InitRefines == WriteInit => Register!Init
  BY DEF WriteInit, Register!Init

LEMMA StepRefines ==
  ASSUME IndInv, [WriteNext]_writeVars
  PROVE  [Register!Next]_(Register!vars)
  <1> USE DEF IndInv
  <1>1. ASSUME NEW p \in Procs, NEW text \in Texts, Call(p, text)
        PROVE  Register!Begin(p, text)
    BY <1>1 DEF Call, Register!Begin, diskVars, CallsOK
  <1>2. ASSUME NEW p \in Procs, Rename(p)
        PROVE  Register!Commit(p)
    <2>1. p \in Owners /\ at[p] # "write" /\ at[p] # "idle"
      BY <1>2 DEF Rename, Owners
    <2>2. temps[tmp[p]] = asked[p] /\ asked[p] \in Texts
      BY <2>1 DEF TempsOwned, CallsOK, TypeOK
    <2> QED BY <1>2, <2>2 DEF Rename, Return, Register!Commit
  <1>3. ASSUME NEW p \in Procs,
               CreateFails(p) \/ WriteFails(p) \/ Unlink(p) \/ UnlinkFails(p)
        PROVE  Register!Fail(p)
    <2>1. asked[p] # Nothing
      BY <1>3 DEF CreateFails, WriteFails, Unlink, UnlinkFails, CallsOK
    <2> QED BY <1>3, <2>1
            DEF CreateFails, WriteFails, Unlink, UnlinkFails, Return, diskVars, Register!Fail
  <1>4. ASSUME NEW p \in Procs,
               Create(p) \/ Write(p) \/ RenameLocked(p) \/ RenameFails(p)
        PROVE  UNCHANGED Register!vars
    BY <1>4 DEF Create, Write, RenameLocked, RenameFails, Goto, diskVars, Register!vars
  <1>5. ASSUME NEW p \in Procs, NEW newPid \in Pids, Replace(p, newPid)
        PROVE  Register!Vanish(p)
    BY <1>5 DEF Replace, Register!Vanish
  <1>6. CASE WriteNext
    BY <1>1, <1>2, <1>3, <1>4, <1>5, <1>6 DEF WriteNext, WriteStep, Register!Next
  <1>7. CASE UNCHANGED writeVars
    BY <1>7 DEF writeVars, diskVars, Register!vars
  <1> QED BY <1>6, <1>7

(* Whatever fails and whoever dies, the workbook file is an atomic register.*)
THEOREM WritesAreAtomic == WriteSpec => ImplementsRegister
  BY InitRefines, StepRefines, WriteInvariance, PTL
  DEF WriteSpec, ImplementsRegister, Register!Spec

-----------------------------------------------------------------------------

-----------------------------------------------------------------------------
(* The file *)

(* A step of the system is a step of AtomicWrite, or leaves its state alone. *)
LEMMA FileSteps ==
  ASSUME IndInv, [Next]_vars
  PROVE  [WriteNext]_writeVars
<1>1. Server \in Procs /\ Cli \in Procs /\ ServerText \in Texts /\ CliText \in Texts
  BY RoleAssumption
<1>2. CASE SaveBegins \/ CommandWrites
  BY <1>1, <1>2 DEF SaveBegins, CommandWrites, WriteNext
<1>3. CASE ServerWrites \/ CliWrites
  BY <1>1, <1>3 DEF ServerWrites, CliWrites, WriteNext
<1>4. CASE CommandKilled
  BY <1>1, <1>4 DEF CommandKilled, WriteNext
<1>5. CASE ServerKilled
  <2>1. pid[Server] \in Pids /\ Replace(Server, pid[Server])
    BY <1>1, <1>5 DEF ServerKilled, IndInv, TypeOK
  <2>. QED
    BY <1>1, <2>1 DEF WriteNext
<1>6. CASE \/ ServeTurn \/ ServeRunEnds \/ Signal \/ ServeExits \/ SaveEnds
           \/ CommandStarts \/ RunnerTurn \/ WorkerStep \/ CommandEnds \/ CommandAgain
           \/ UNCHANGED vars
  <2>1. UNCHANGED writeVars
    BY <1>6 DEF ServeTurn, ServeRunEnds, Signal, ServeExits, SaveEnds, CommandStarts,
                RunnerTurn, WorkerStep, CommandEnds, CommandAgain, vars
  <2>. QED
    BY <2>1
<1>. QED
  BY <1>2, <1>3, <1>4, <1>5, <1>6 DEF Next

(* The invariant of the atomic write holds while two programs use it and    *)
(* are killed and started again.                                            *)
THEOREM FileInvariance == Spec => []IndInv
<1>1. Init => IndInv
  BY InitInv DEF Init
<1>2. IndInv /\ [Next]_vars => IndInv'
  BY FileSteps, StepInv
<1>. QED
  BY <1>1, <1>2, PTL DEF Spec

(* The server's saves and the command's writes are calls of AtomicWrite: no *)
(* other step of either program touches the file or a temp file.            *)
THEOREM FileIsWrittenAtomically == Spec => WriteSpec
<1>1. Init => WriteInit
  BY DEF Init
<1>2. IndInv /\ [Next]_vars => [WriteNext]_writeVars
  BY FileSteps
<1>. QED
  BY <1>1, <1>2, FileInvariance, PTL DEF Spec, WriteSpec

(* Whoever is killed, every temp file has one owner or is accounted for     *)
(* (fs-atomic.ts:35-60).                                                    *)
THEOREM TempsHaveOwners == Spec => []TempsOwned
BY FileIsWrittenAtomically, TempsBelongToOne, PTL

(* Server and command share the file as an atomic register (fs-atomic.ts    *)
(* 29-33).                                                                  *)
THEOREM FileIsRegister == Spec => ImplementsRegister
BY FileIsWrittenAtomically, WritesAreAtomic, PTL

-----------------------------------------------------------------------------
(* The worker *)

(* A worker that was never started has no deadline and says nothing. *)
RunnerInv ==
  /\ Runner!TypeOK
  /\ Runner!NothingOutlives
  /\ ~started => worker = "none"
  /\ worker = "none" => ~timer /\ ~settled /\ events = <<>>
  /\ command \in {"new", "none", "runs", "writes", "ended", "killed"}
  /\ kills \in 0..MaxKills
  /\ command = "new" => ~started
  /\ command \in {"runs", "writes"} => started
  /\ result # "none" => settled

(* The state of a timed run is well formed, and a run that is settled left  *)
(* nothing, whenever the command is killed (timeout-runner.ts:56-102).      *)
THEOREM RunnerInvariance == Spec => []RunnerInv
<1>1. Init => RunnerInv
  <2>. SUFFICES ASSUME Init PROVE RunnerInv
    OBVIOUS
  <2>1. Runner!Init /\ command \in {"new", "none"} /\ kills = 0 /\ kills \in 0..MaxKills
    BY RoleAssumption DEF Init
  <2>2. <<>> \in Seq(Runner!Events)
    BY EmptySeq
  <2>. QED
    BY <2>1, <2>2 DEF Runner!Init, RunnerInv, Runner!TypeOK, Runner!NothingOutlives
<1>2. ASSUME RunnerInv, [Next]_vars PROVE RunnerInv'
  <2>. USE <1>2 DEF RunnerInv, Runner!NothingOutlives
  <2>1. CASE CommandStarts
    BY <2>1 DEF CommandStarts, Runner!Start, Runner!TypeOK
  <2>2. CASE RunnerTurn /\ Runner!TimerFires
    BY <2>2 DEF RunnerTurn, Runner!TimerFires, Runner!finish, Runner!Terminated, Runner!TypeOK
  <2>3. CASE RunnerTurn /\ Runner!Handle
    <3>1. events # <<>> /\ events' = Tail(events) /\ events \in Seq(Runner!Events)
      BY <2>3 DEF Runner!Handle, Runner!TypeOK
    <3>2. events' \in Seq(Runner!Events)
      BY <3>1, HeadTailProperties
    <3>. QED
      BY <2>3, <3>1, <3>2 DEF RunnerTurn, Runner!Handle, Runner!finish, Runner!Terminated, Runner!TypeOK
  <2>4. CASE WorkerStep
    <3>1. PICK event \in Runner!Events : events' = Append(events, event)
      BY <2>4 DEF WorkerStep, Runner!WorkerSays, Runner!WorkerExits, Runner!Events
    <3>2. events' \in Seq(Runner!Events)
      BY <3>1, AppendProperties DEF Runner!TypeOK
    <3>. QED
      BY <2>4, <3>2 DEF WorkerStep, Runner!WorkerSays, Runner!WorkerExits, Runner!TypeOK
  <2>5. CASE CommandWrites
    BY <2>5 DEF CommandWrites, runnerVars, Runner!TypeOK
  <2>6. CASE CommandEnds
    BY <2>6 DEF CommandEnds, Runner!TypeOK
  <2>7. CASE CommandKilled
    <3>1. /\ command \in {"runs", "writes"} /\ command' = "killed"
          /\ worker' = "gone" /\ timer' = FALSE
          /\ UNCHANGED <<started, events, settled, result>>
      BY <2>7 DEF CommandKilled
    <3>2. kills' \in 0..MaxKills
      BY <2>7, RoleAssumption DEF CommandKilled
    <3>. QED
      BY <3>1, <3>2 DEF Runner!TypeOK
  <2>8. CASE CommandAgain
    <3>1. <<>> \in Seq(Runner!Events)
      BY EmptySeq
    <3>. QED
      BY <2>8, <3>1 DEF CommandAgain, Runner!TypeOK
  <2>9. CASE ServerKilled
    BY <2>9, RoleAssumption DEF ServerKilled, commandVars, runnerVars, Runner!TypeOK
  <2>10. CASE \/ ServeTurn \/ ServeRunEnds \/ Signal \/ ServeExits
              \/ SaveBegins \/ SaveEnds \/ ServerWrites \/ CliWrites \/ UNCHANGED vars
    BY <2>10 DEF ServeTurn, ServeRunEnds, Signal, ServeExits, SaveBegins, SaveEnds,
                 ServerWrites, CliWrites, vars, commandVars, runnerVars, Runner!TypeOK
  <2>. QED
    BY <1>2, <2>1, <2>2, <2>3, <2>4, <2>5, <2>6, <2>7, <2>8, <2>9, <2>10 DEF Next, RunnerTurn
<1>. QED
  BY <1>1, <1>2, PTL DEF Spec

(* However the deadline, the report, an error, an exit and a kill race, a   *)
(* settled promise leaves no worker that was not told to end and no armed   *)
(* deadline (timeout-runner.ts:50-52).                                      *)
THEOREM WorkersEnd == Spec => []NothingOutlives
<1>1. RunnerInv => NothingOutlives
  BY DEF RunnerInv, NothingOutlives
<1>. QED
  BY <1>1, RunnerInvariance, PTL

-----------------------------------------------------------------------------
(* The server's answers *)

(* Lines that have begun and are over. *)
Over == read - Len(queue) - (IF current = 0 THEN 0 ELSE 1)

Increasing(s) == \A i, j \in DOMAIN s : i < j => s[i] < s[j]

(* The queue holds the last lines read, the line being handled is the one   *)
(* before them, and the lines before that are answered; a server that is    *)
(* done passes over a line only after the last one it answered.             *)
ServeInv ==
  /\ lines \in Seq(Serve!Kinds) /\ Len(lines) <= MaxLines
  /\ read \in 0..Len(lines)
  /\ queue \in Seq(1..read) /\ Len(queue) <= read
  /\ \A i \in 1..Len(queue) : queue[i] = read - Len(queue) + i
  /\ current \in 0..read /\ (current # 0 => current = read - Len(queue))
  /\ out \in Seq(1..read) /\ Increasing(out)
  /\ ToSet(out) \subseteq Serve!Answerable(Over)
  /\ \A line \in ToSet(out) : Serve!Answerable(line) \subseteq ToSet(out)
  /\ ~done \/ current # 0 => ToSet(out) = Serve!Answerable(Over)
  /\ closed \in BOOLEAN /\ done \in BOOLEAN /\ exited \in BOOLEAN
  /\ closed /\ ~done => read = Len(lines)
  /\ stopper \in {"none", "eof", "shutdown", "signal"}
  /\ done <=> stopper # "none"
  /\ stopper = "eof" => /\ read = Len(lines) /\ queue = <<>> /\ current = 0
                        /\ ToSet(out) = Serve!Answerable(Len(lines))
  /\ current # 0 => lines[current] # "blank"

ServeStep ==
  \/ Serve!ReadLine \/ Serve!EndOfInput \/ Serve!ProcessLine
  \/ \E kind \in {"run", "save"} : Serve!BeginRequest(kind) \/ Serve!EndRequest(kind)
  \/ Serve!FinishAtEnd \/ Serve!Signal \/ Serve!Exit \/ Serve!Killed

LEMMA ServeSteps ==
  ASSUME [Next]_vars
  PROVE  ServeStep \/ UNCHANGED serveVars
BY DEF Next, vars, ServeStep, ServeTurn, ServeRunEnds, Signal, ServeExits,
       SaveBegins, SaveEnds, ServerWrites, ServerKilled, CommandStarts, RunnerTurn, WorkerStep,
       CommandWrites, CliWrites, CommandEnds, CommandKilled, CommandAgain

(* The lines that can be answered, from one line to the next. *)
LEMMA AnswerableNext ==
  ASSUME NEW l \in Nat \ {0}
  PROVE  /\ Serve!Answerable(l) = IF lines[l] = "blank" THEN Serve!Answerable(l - 1)
                                                      ELSE Serve!Answerable(l - 1) \cup {l}
         /\ \A x \in Serve!Answerable(l) : Serve!Answerable(x) \subseteq Serve!Answerable(l)
<1>1. 1..l = 1..(l - 1) \cup {l}
  OBVIOUS
<1>2. \A x \in 1..l : 1..x \subseteq 1..l
  OBVIOUS
<1>. QED
  BY <1>1, <1>2 DEF Serve!Answerable

(* The answer to the line after the last one answered. *)
LEMMA AnswerNext ==
  ASSUME read \in Nat, out \in Seq(1..read), Increasing(out), NEW l \in 1..read,
         ToSet(out) = Serve!Answerable(l - 1), lines[l] # "blank"
  PROVE  /\ Append(out, l) \in Seq(1..read)
         /\ Increasing(Append(out, l))
         /\ ToSet(Append(out, l)) = Serve!Answerable(l)
<1>1. /\ Len(out) \in Nat /\ DOMAIN out = 1..Len(out)
      /\ \A i \in 1..Len(out) : out[i] \in 1..read
  BY LenProperties, ElementOfSeq
<1>2. /\ Append(out, l) \in Seq(1..read) /\ Len(Append(out, l)) = Len(out) + 1
      /\ \A i \in 1..Len(out) : Append(out, l)[i] = out[i]
      /\ Append(out, l)[Len(out) + 1] = l
  BY AppendProperties
<1>3. DOMAIN Append(out, l) = 1..Len(out) \cup {Len(out) + 1}
  BY <1>1, <1>2, LenProperties
<1>4. ToSet(Append(out, l)) = ToSet(out) \cup {l}
  BY <1>1, <1>2, <1>3 DEF ToSet
<1>5. \A i \in 1..Len(out) : out[i] < l
  <2>1. \A i \in 1..Len(out) : out[i] \in Serve!Answerable(l - 1)
    BY <1>1 DEF ToSet
  <2>. QED
    BY <1>1, <2>1 DEF Serve!Answerable
<1>6. Increasing(Append(out, l))
  BY <1>1, <1>2, <1>3, <1>5 DEF Increasing
<1>. QED
  BY <1>2, <1>4, <1>6, AnswerableNext

(* The first line of the queue is the one after those that have begun. *)
LEMMA QueueHead ==
  ASSUME ServeInv, queue # <<>>
  PROVE  /\ Head(queue) = read - Len(queue) + 1 /\ Head(queue) \in 1..read
         /\ Len(queue) \in Nat \ {0} /\ read \in Nat
         /\ Tail(queue) \in Seq(1..read) /\ Len(Tail(queue)) = Len(queue) - 1
         /\ \A i \in 1..Len(Tail(queue)) : Tail(queue)[i] = read - Len(Tail(queue)) + i
<1>1. /\ read \in Nat /\ queue \in Seq(1..read)
      /\ \A i \in 1..Len(queue) : queue[i] = read - Len(queue) + i
  BY LenProperties DEF ServeInv
<1>2. Len(queue) \in Nat \ {0}
  BY <1>1, EmptySeq
<1>3. /\ Head(queue) \in 1..read /\ Tail(queue) \in Seq(1..read)
      /\ Len(Tail(queue)) = Len(queue) - 1
      /\ \A i \in 1..Len(Tail(queue)) : Tail(queue)[i] = queue[i + 1]
  BY <1>1, HeadTailProperties
<1>4. Head(queue) = queue[1]
  BY <1>1, <1>2
<1>5. \A i \in 1..Len(Tail(queue)) : Tail(queue)[i] = read - Len(Tail(queue)) + i
  BY <1>1, <1>2, <1>3
<1>. QED
  BY <1>1, <1>2, <1>3, <1>4, <1>5

LEMMA ReadLineInv ==
  ASSUME ServeInv, Serve!ReadLine
  PROVE  ServeInv'
<1>1. /\ closed => done
      /\ read < Len(lines)
      /\ read' = read + 1 /\ queue' = Append(queue, read + 1)
      /\ UNCHANGED <<lines, current, out, closed, done, stopper, exited>>
  BY DEF ServeInv, Serve!ReadLine
<1>2. read \in Nat /\ Len(lines) \in Nat /\ Len(queue) \in Nat
  BY LenProperties DEF ServeInv
<1>3. queue \in Seq(1..(read + 1)) /\ out \in Seq(1..(read + 1))
  <2>1. 1..read \subseteq 1..(read + 1)
    BY <1>2
  <2>. QED
    BY <2>1, SeqMonotonic DEF ServeInv
<1>4. /\ queue' \in Seq(1..(read + 1)) /\ Len(queue') = Len(queue) + 1
      /\ \A i \in 1..Len(queue) : queue'[i] = queue[i]
      /\ queue'[Len(queue) + 1] = read + 1
  BY <1>1, <1>2, <1>3, AppendProperties
<1>5. \A i \in 1..Len(queue') : queue'[i] = read' - Len(queue') + i
  <2>1. \A i \in 1..Len(queue) : queue[i] = read - Len(queue) + i
    BY DEF ServeInv
  <2>2. 1..Len(queue') = 1..Len(queue) \cup {Len(queue) + 1}
    BY <1>2, <1>4
  <2>. QED
    BY <1>1, <1>2, <1>4, <2>1, <2>2
<1>6. Over' = Over /\ \A n : Serve!Answerable(n)' = Serve!Answerable(n)
  BY <1>1, <1>2, <1>4 DEF Over, Serve!Answerable
<1>7. stopper # "eof"
  <2>1. stopper = "eof" => read = Len(lines)
    BY DEF ServeInv
  <2>. QED
    BY <1>1, <1>2, <2>1
<1>8. /\ current' \in 0..read' /\ (current' # 0 => current' = read' - Len(queue'))
      /\ Len(queue') <= read' /\ read' \in 0..Len(lines')
  <2>1. /\ current \in 0..read /\ (current # 0 => current = read - Len(queue))
        /\ Len(queue) <= read
    BY DEF ServeInv
  <2>. QED
    BY <1>1, <1>2, <1>4, <2>1
<1>9. /\ ToSet(out') \subseteq Serve!Answerable(Over)'
      /\ \A x \in ToSet(out') : Serve!Answerable(x)' \subseteq ToSet(out')
      /\ ~done' \/ current' # 0 => ToSet(out') = Serve!Answerable(Over)'
  BY <1>1, <1>6 DEF ServeInv, Serve!Answerable
<1>10. /\ lines' \in Seq(Serve!Kinds) /\ Len(lines') <= MaxLines
       /\ closed' \in BOOLEAN /\ done' \in BOOLEAN /\ exited' \in BOOLEAN
       /\ stopper' \in {"none", "eof", "shutdown", "signal"}
       /\ done' <=> stopper' # "none"
       /\ current' # 0 => lines'[current'] # "blank"
       /\ Increasing(out')
  BY <1>1 DEF ServeInv
<1>11. queue' \in Seq(1..read') /\ out' \in Seq(1..read') /\ (closed' => done') /\ stopper' # "eof"
  BY <1>1, <1>3, <1>4, <1>7
<1>. QED
  BY <1>5, <1>8, <1>9, <1>10, <1>11 DEF ServeInv, Increasing

LEMMA ProcessLineInv ==
  ASSUME ServeInv, Serve!ProcessLine
  PROVE  ServeInv'
<1>. DEFINE line == Head(queue)
<1>1. /\ current = 0 /\ queue # <<>> /\ queue' = Tail(queue)
      /\ out' = IF done \/ lines[line] = "blank" THEN out ELSE Append(out, line)
      /\ UNCHANGED <<lines, read, current, exited>>
      /\ \/ ~done /\ done' = TRUE /\ closed' = TRUE /\ stopper' = "shutdown"
         \/ UNCHANGED <<closed, done, stopper>>
  BY DEF Serve!ProcessLine, Serve!Turn, Serve!finish
<1>2. /\ line = Over + 1 /\ line \in 1..read /\ read \in Nat /\ Over \in Nat
      /\ Len(queue) \in Nat \ {0}
      /\ queue' \in Seq(1..read) /\ Len(queue') = Len(queue) - 1
      /\ \A i \in 1..Len(queue') : queue'[i] = read - Len(queue') + i
  BY <1>1, QueueHead DEF ServeInv, Over
<1>3. Over' = Over + 1 /\ \A n : Serve!Answerable(n)' = Serve!Answerable(n)
  BY <1>1, <1>2 DEF Over, Serve!Answerable
<1>. HIDE DEF line
<1>4. /\ Serve!Answerable(line) = IF lines[line] = "blank" THEN Serve!Answerable(Over)
                                                      ELSE Serve!Answerable(Over) \cup {line}
      /\ \A x \in Serve!Answerable(line) : Serve!Answerable(x) \subseteq Serve!Answerable(line)
  <2>1. line \in Nat \ {0} /\ line - 1 = Over
    BY <1>2
  <2>. QED
    BY <2>1, AnswerableNext
<1>5. /\ out' \in Seq(1..read) /\ Increasing(out')
      /\ ToSet(out') \subseteq Serve!Answerable(Over + 1)
      /\ \A x \in ToSet(out') : Serve!Answerable(x) \subseteq ToSet(out')
      /\ ~done => ToSet(out') = Serve!Answerable(Over + 1)
  <2>1. CASE done \/ lines[line] = "blank"
    BY <1>1, <1>2, <1>4, <2>1 DEF ServeInv
  <2>2. CASE ~done /\ lines[line] # "blank"
    <3>1. ToSet(out) = Serve!Answerable(line - 1) /\ out' = Append(out, line)
      BY <1>1, <1>2, <2>2 DEF ServeInv
    <3>2. out' \in Seq(1..read) /\ Increasing(out') /\ ToSet(out') = Serve!Answerable(line)
      BY <1>2, <2>2, <3>1, AnswerNext DEF ServeInv
    <3>. QED
      BY <1>2, <1>4, <3>2
  <2>. QED
    BY <2>1, <2>2
<1>6. stopper # "eof"
  BY <1>1 DEF ServeInv
<1>7. current' = 0 /\ Len(queue') <= read'
  BY <1>1, <1>2 DEF ServeInv
<1>8. done => done'
  BY <1>1 DEF ServeInv
<1>9. /\ ToSet(out') \subseteq Serve!Answerable(Over)'
      /\ \A x \in ToSet(out') : Serve!Answerable(x)' \subseteq ToSet(out')
      /\ ~done' => ToSet(out') = Serve!Answerable(Over)'
  BY <1>3, <1>5, <1>8 DEF Serve!Answerable
<1>10. /\ closed' \in BOOLEAN /\ done' \in BOOLEAN /\ exited' \in BOOLEAN
       /\ stopper' \in {"none", "eof", "shutdown", "signal"}
       /\ done' <=> stopper' # "none"
       /\ stopper' # "eof"
       /\ closed' /\ ~done' => read' = Len(lines')
  <2>1. /\ closed \in BOOLEAN /\ done \in BOOLEAN /\ exited \in BOOLEAN
        /\ stopper \in {"none", "eof", "shutdown", "signal"}
        /\ done <=> stopper # "none"
        /\ closed /\ ~done => read = Len(lines)
    BY DEF ServeInv
  <2>2. UNCHANGED <<exited, read, lines>>
    BY <1>1
  <2>3. CASE ~done /\ done' = TRUE /\ closed' = TRUE /\ stopper' = "shutdown"
    BY <2>1, <2>2, <2>3
  <2>4. CASE UNCHANGED <<closed, done, stopper>>
    BY <1>6, <2>1, <2>2, <2>4
  <2>. QED
    BY <1>1, <2>3, <2>4
<1>. QED
  BY <1>1, <1>2, <1>5, <1>7, <1>9, <1>10 DEF ServeInv, Increasing

LEMMA BeginInv ==
  ASSUME ServeInv, NEW kind \in {"run", "save"}, Serve!BeginRequest(kind)
  PROVE  ServeInv'
<1>. DEFINE line == Head(queue)
<1>1. /\ current = 0 /\ queue # <<>> /\ queue' = Tail(queue) /\ ~done
      /\ current' = line /\ lines[line] # "blank"
      /\ UNCHANGED <<lines, read, out, closed, done, stopper, exited>>
  BY DEF Serve!BeginRequest, Serve!Turn
<1>2. /\ line = read - Len(queue) + 1 /\ line \in 1..read /\ read \in Nat
      /\ Len(queue) \in Nat \ {0}
      /\ queue' \in Seq(1..read) /\ Len(queue') = Len(queue) - 1
      /\ \A i \in 1..Len(queue') : queue'[i] = read - Len(queue') + i
  BY <1>1, QueueHead
<1>. HIDE DEF line
<1>3. Over' = Over /\ \A n : Serve!Answerable(n)' = Serve!Answerable(n)
  <2>0. line # 0
    BY <1>2
  <2>1. current' # 0
    BY <1>1, <2>0
  <2>2. Over = read - Len(queue) - 0 /\ Over' = read - Len(queue') - 1
    BY <1>1, <2>1 DEF Over
  <2>. QED
    BY <1>1, <1>2, <2>2 DEF Serve!Answerable
<1>4. stopper # "eof"
  BY <1>1 DEF ServeInv
<1>5. current' \in 1..read /\ current' = read' - Len(queue') /\ Len(queue') <= read'
  BY <1>1, <1>2 DEF ServeInv
<1>6. ToSet(out') = Serve!Answerable(Over)' /\ \A x \in ToSet(out') : Serve!Answerable(x)' \subseteq ToSet(out')
  BY <1>1, <1>3 DEF ServeInv, Serve!Answerable
<1>7. /\ lines' \in Seq(Serve!Kinds) /\ Len(lines') <= MaxLines /\ read' \in 0..Len(lines')
      /\ out' \in Seq(1..read') /\ Increasing(out')
      /\ closed' \in BOOLEAN /\ done' \in BOOLEAN /\ exited' \in BOOLEAN
      /\ closed' /\ ~done' => read' = Len(lines')
      /\ stopper' \in {"none", "eof", "shutdown", "signal"}
      /\ done' <=> stopper' # "none"
      /\ lines'[current'] # "blank"
  BY <1>1 DEF ServeInv
<1>8. /\ queue' \in Seq(1..read') /\ current' \in 0..read' /\ stopper' # "eof"
      /\ \A i \in 1..Len(queue') : queue'[i] = read' - Len(queue') + i
  BY <1>1, <1>2, <1>4, <1>5
<1>. QED
  BY <1>5, <1>6, <1>7, <1>8 DEF ServeInv, Increasing

LEMMA EndInv ==
  ASSUME ServeInv, NEW kind \in {"run", "save"}, Serve!EndRequest(kind)
  PROVE  ServeInv'
<1>1. /\ current # 0 /\ out' = Append(out, current) /\ current' = 0
      /\ UNCHANGED <<lines, read, queue, closed, done, stopper, exited>>
  BY DEF Serve!EndRequest
<1>2. /\ read \in Nat /\ current \in 1..read /\ current = read - Len(queue)
      /\ Over = current - 1 /\ lines[current] # "blank"
  BY <1>1, LenProperties DEF ServeInv, Over
<1>3. /\ out' \in Seq(1..read) /\ Increasing(out') /\ ToSet(out') = Serve!Answerable(current)
      /\ \A x \in Serve!Answerable(current) : Serve!Answerable(x) \subseteq Serve!Answerable(current)
  BY <1>1, <1>2, AnswerNext, AnswerableNext DEF ServeInv
<1>4. Over' = current /\ \A n : Serve!Answerable(n)' = Serve!Answerable(n)
  BY <1>1, <1>2 DEF Over, Serve!Answerable
<1>5. stopper # "eof"
  BY <1>1 DEF ServeInv
<1>6. ToSet(out') = Serve!Answerable(Over)' /\ \A x \in ToSet(out') : Serve!Answerable(x)' \subseteq ToSet(out')
  BY <1>1, <1>3, <1>4 DEF Serve!Answerable
<1>. QED
  BY <1>1, <1>2, <1>3, <1>5, <1>6 DEF ServeInv, Increasing

LEMMA ServeStepInv ==
  ASSUME ServeInv, ServeStep \/ UNCHANGED serveVars
  PROVE  ServeInv'
<1>1. ASSUME UNCHANGED <<lines, read, queue, current, out>>
      PROVE  /\ Over' = Over
             /\ \A n : Serve!Answerable(n)' = Serve!Answerable(n)
  BY <1>1 DEF Over, Serve!Answerable
<1>2. CASE UNCHANGED serveVars
  BY <1>2 DEF serveVars, ServeInv, Over, Serve!Answerable, Increasing
<1>3. CASE Serve!EndOfInput
  BY <1>3 DEF Serve!EndOfInput, ServeInv, Over, Serve!Answerable, Increasing
<1>4. CASE Serve!Signal
  BY <1>4 DEF Serve!Signal, Serve!finish, ServeInv, Over, Serve!Answerable, Increasing
<1>5. CASE Serve!Exit \/ Serve!Killed
  <2>1. exited' = TRUE /\ UNCHANGED <<lines, read, queue, current, out, closed, done, stopper>>
    BY <1>5 DEF Serve!Exit, Serve!Killed
  <2>. QED
    BY <1>1, <2>1 DEF ServeInv, Increasing, Serve!Answerable
<1>6. CASE Serve!FinishAtEnd
  <2>1. /\ closed /\ ~done /\ queue = <<>> /\ current = 0
        /\ done' = TRUE /\ closed' = TRUE /\ stopper' = "eof"
        /\ UNCHANGED <<lines, read, queue, current, out, exited>>
    BY <1>6 DEF Serve!FinishAtEnd, Serve!Drained, Serve!finish
  <2>2. read = Len(lines) /\ Len(queue) = 0 /\ read \in Nat
    BY <2>1, EmptySeq, LenProperties DEF ServeInv
  <2>3. ToSet(out) = Serve!Answerable(Len(lines))
    BY <2>1, <2>2 DEF ServeInv, Over
  <2>. QED
    BY <2>1, <2>2, <2>3 DEF ServeInv, Over, Serve!Answerable, Increasing
<1>. QED
  BY <1>2, <1>3, <1>4, <1>5, <1>6, ReadLineInv, ProcessLineInv, BeginInv, EndInv DEF ServeStep

(* The strengthened invariant of the serve loop, for any number of lines.   *)
THEOREM ServeInvariance == Spec => []ServeInv
<1>1. Init => ServeInv
  <2>. SUFFICES ASSUME Init PROVE ServeInv
    OBVIOUS
  <2>1. /\ lines \in UNION {[1..n -> Serve!Kinds] : n \in 0..MaxLines}
        /\ read = 0 /\ queue = <<>> /\ current = 0 /\ out = <<>>
        /\ closed = FALSE /\ done = FALSE /\ stopper = "none" /\ exited = FALSE
    BY DEF Init, Serve!ServeInit
  <2>2. lines \in Seq(Serve!Kinds) /\ Len(lines) \in Nat /\ Len(lines) <= MaxLines
    <3>1. PICK n \in 0..MaxLines : lines \in [1..n -> Serve!Kinds]
      BY <2>1
    <3>2. n \in Nat
      BY RoleAssumption
    <3>. QED
      BY <3>1, <3>2, RoleAssumption
  <2>3. queue \in Seq(1..0) /\ out \in Seq(1..0) /\ Len(queue) = 0 /\ DOMAIN out = {} /\ ToSet(out) = {}
    <3>1. <<>> \in Seq(1..0) /\ Len(<<>>) = 0
      BY EmptySeq
    <3>2. DOMAIN <<>> = {}
      BY <3>1, LenProperties
    <3>. QED
      BY <2>1, <3>1, <3>2, EmptyList
  <2>4. Over = 0 /\ Serve!Answerable(0) = {}
    <3>1. 1..0 = {}
      OBVIOUS
    <3>2. Over = 0 - 0 - 0
      BY <2>1, <2>3 DEF Over
    <3>3. Serve!Answerable(0) = {}
      BY <3>1 DEF Serve!Answerable
    <3>. QED
      BY <3>2, <3>3
  <2>5. /\ queue \in Seq(1..read) /\ out \in Seq(1..read) /\ Len(queue) <= read
        /\ read \in 0..Len(lines) /\ current \in 0..read
        /\ \A i \in 1..Len(queue) : queue[i] = read - Len(queue) + i
        /\ Increasing(out)
    BY <2>1, <2>2, <2>3 DEF Increasing
  <2>6. /\ closed = FALSE /\ done = FALSE /\ stopper = "none" /\ exited = FALSE /\ current = 0
        /\ ToSet(out) = {} /\ Serve!Answerable(Over) = {}
    BY <2>1, <2>3, <2>4
  <2>. QED
    BY <2>2, <2>5, <2>6 DEF ServeInv
<1>2. ServeInv /\ [Next]_vars => ServeInv'
  BY ServeSteps, ServeStepInv
<1>. QED
  BY <1>1, <1>2, PTL DEF Spec

(* However long its predecessors took, whatever is still queued when the    *)
(* input ends, and wherever a shutdown or a signal falls, every line that   *)
(* began is answered once and in order (cli.ts:1006-1015).                  *)
THEOREM AnswersInOrder == Spec => []OneAnswerEach
<1>1. ServeInv /\ RunnerInv /\ IndInv => OneAnswerEach
  <2>. SUFFICES ASSUME ServeInv, RunnerInv, IndInv PROVE OneAnswerEach
    OBVIOUS
  <2>1. Serve!TypeOK
    BY DEF ServeInv, Serve!TypeOK
  <2>2. Serve!OneAnswerEach
    BY DEF ServeInv, Serve!OneAnswerEach, Over, Increasing, Serve!ToSet, ToSet
  <2>3. Serve!NothingLostAtEnd
    BY DEF ServeInv, Serve!NothingLostAtEnd, Serve!ToSet, ToSet
  <2>. QED
    BY <2>1, <2>2, <2>3 DEF OneAnswerEach, SystemTypeOK, IndInv, RunnerInv
<1>. QED
  BY <1>1, ServeInvariance, RunnerInvariance, FileInvariance, PTL
=============================================================================
