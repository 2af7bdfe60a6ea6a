----------------------------- MODULE ServeLoop -----------------------------
(***************************************************************************)
(* workbook/src/cli.ts, runServer: the loop of `mtsw serve`.  Each line of *)
(* stdin is chained behind the one before it, the end of the input waits   *)
(* for the chain, and a shutdown request or a signal does not.             *)
(***************************************************************************)
EXTENDS Naturals, Sequences, SequencesExt

CONSTANT MaxLines   (* bound: the length of the input *)

VARIABLES
  lines,     (* what each line of the input is                               *)
  read,      (* how many 'line' events there were                            *)
  queue,     (* lines whose processLine has not begun, oldest first          *)
  current,   (* the line whose processLine awaits its request, 0 if none     *)
  out,       (* the lines answered, in the order of the answers              *)
  closed,    (* the input is closed                                          *)
  done,
  stopper,   (* what called finish first                                     *)
  exited     (* the process has ended                                        *)

serveVars == <<lines, read, queue, current, out, closed, done, stopper, exited>>

(* malformed: not JSON, or a batch; query: any request that is answered     *)
(* within its turn; run and save take several turns or block.               *)
Kinds == {"blank", "malformed", "query", "run", "save", "shutdown"}

TypeOK ==
  /\ lines \in Seq(Kinds) /\ Len(lines) <= MaxLines
  /\ read \in 0..Len(lines)
  /\ queue \in Seq(1..read)
  /\ current \in 0..read
  /\ out \in Seq(1..read)
  /\ closed \in BOOLEAN /\ done \in BOOLEAN /\ exited \in BOOLEAN
  /\ stopper \in {"none", "eof", "shutdown", "signal"}

ServeInit ==
  /\ lines \in UNION {[1..n -> Kinds] : n \in 0..MaxLines}
  /\ read = 0
  /\ queue = <<>>
  /\ current = 0
  /\ out = <<>>
  /\ closed = FALSE
  /\ done = FALSE
  /\ stopper = "none"
  /\ exited = FALSE

(* A save is synchronous: while it lasts, the event loop stands still. *)
Blocked == current # 0 /\ lines[current] = "save"

-----------------------------------------------------------------------------
(* Input *)

(* After a close of its own making readline may still deliver lines it has. *)
ReadLine ==
  /\ ~exited /\ (~closed \/ done) /\ ~Blocked
  /\ read < Len(lines)
  /\ read' = read + 1
  /\ queue' = Append(queue, read + 1)
  /\ UNCHANGED <<lines, current, out, closed, done, stopper, exited>>

EndOfInput ==
  /\ ~exited /\ ~closed /\ ~Blocked
  /\ read = Len(lines)
  /\ closed' = TRUE
  /\ UNCHANGED <<lines, read, queue, current, out, done, stopper, exited>>

-----------------------------------------------------------------------------
(* processLine *)

finish(who) ==
  /\ done' = TRUE
  /\ closed' = TRUE
  /\ stopper' = IF done THEN stopper ELSE who

(* A fault: a line does not wait for the one before it. *)
TurnAtOnce == queue # <<>> /\ ~Blocked

(* The chain: a line begins when its predecessor is over. *)
Turn == queue # <<>> /\ current = 0

(* queue.then(finish), with the queue as it is at the 'close' event. *)
Drained == queue = <<>> /\ current = 0

(* A line that is over within its turn: dropped when the server is done or  *)
(* the line is blank, otherwise answered.                                   *)
ProcessLine ==
  /\ ~exited /\ Turn
  /\ LET line == Head(queue)
         kind == lines[line]
     IN  /\ done \/ kind \notin {"run", "save"}
         /\ out' = IF done \/ kind = "blank" THEN out ELSE Append(out, line)
         /\ IF ~done /\ kind = "shutdown"
            THEN finish("shutdown")
            ELSE UNCHANGED <<closed, done, stopper>>
  /\ queue' = Tail(queue)
  /\ UNCHANGED <<lines, read, current, exited>>

(* A run reaches its await; a save enters writeFileAtomic. *)
BeginRequest(kind) ==
  /\ ~exited /\ Turn /\ ~done
  /\ lines[Head(queue)] = kind
  /\ current' = Head(queue)
  /\ queue' = Tail(queue)
  /\ UNCHANGED <<lines, read, out, closed, done, stopper, exited>>

(* It is answered, with its result or with its error, also when the server  *)
(* is done but the process has not ended yet.                               *)
EndRequest(kind) ==
  /\ ~exited /\ current # 0 /\ lines[current] = kind
  /\ out' = Append(out, current)
  /\ current' = 0
  /\ UNCHANGED <<lines, read, queue, closed, done, stopper, exited>>

-----------------------------------------------------------------------------
(* The end *)

FinishAtEnd ==
  /\ ~exited /\ closed /\ ~done
  /\ Drained
  /\ finish("eof")
  /\ UNCHANGED <<lines, read, queue, current, out, exited>>

(* SIGINT or SIGTERM. *)
Signal ==
  /\ ~exited /\ ~done /\ ~Blocked
  /\ finish("signal")
  /\ UNCHANGED <<lines, read, queue, current, out, exited>>

(* The promise of runServer resolves, and main calls process.exit. *)
Exit ==
  /\ done /\ ~exited /\ ~Blocked
  /\ exited' = TRUE
  /\ UNCHANGED <<lines, read, queue, current, out, closed, done, stopper>>

(* The process is killed. *)
Killed ==
  /\ ~exited
  /\ exited' = TRUE
  /\ UNCHANGED <<lines, read, queue, current, out, closed, done, stopper>>

-----------------------------------------------------------------------------
Answerable(upTo) == {line \in 1..upTo : lines[line] # "blank"}

(* "requests are processed strictly in arrival order" (cli.ts 1006): every  *)
(* line that began is answered, once, in order, however long its            *)
(* predecessors took; after a shutdown or a signal no line is passed over.  *)
OneAnswerEach ==
  /\ \A i, j \in DOMAIN out : i < j => out[i] < out[j]
  /\ LET begun == read - Len(queue) - (IF current = 0 THEN 0 ELSE 1)
     IN  IF done THEN \A line \in ToSet(out) : Answerable(line) \subseteq ToSet(out)
                 ELSE ToSet(out) = Answerable(begun)

(* "wait for queued requests to finish processing (and writing) before      *)
(* resolving - otherwise the last responses are lost" (cli.ts 1014-1015).   *)
NothingLostAtEnd == stopper = "eof" => ToSet(out) = Answerable(Len(lines))
=============================================================================
