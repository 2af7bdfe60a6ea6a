--------------------------- MODULE MathWorkerPool ---------------------------
(***************************************************************************)
(* The life of a MathWorkerPool (packages/workerpool/src/index.ts): one    *)
(* inner pool of the workerpool library at a time, created by initialize,  *)
(* used by runParallel, and ended by terminate.                            *)
(***************************************************************************)
EXTENDS Blocks, FiniteSets

CONSTANTS
  Jobs,        (* calls of map, sum, dot, ...                                *)
  Lengths,     (* of their data                                              *)
  ChunkSize,   (* config.chunkSize                                           *)
  MaxInner,    (* bound: inner pools that are created                        *)
  Enders       (* bound: the calls of terminate() that overlap               *)

VARIABLES
  inner,        (* this.pool, 0 for null                                     *)
  live,         (* the inner pools whose workers run                         *)
  made,         (* the inner pools created so far                            *)
  initialized,
  initPromise,  (* what initialize returns to whoever joins it               *)
  pending,      (* how many _initialize wait for the worker script           *)
  ending,       (* the inner pool a terminate() waits for, 0 if none, and    *)
                (* the calls that ran on it then                             *)
  revived,      (* inner pools that started workers for a call made since    *)
                (* their last terminate()                                    *)
  enabled,      (* config.enabled                                            *)
  job,          (* what became of each call                                  *)
  crossed,      (* history: did an initialize and a terminate overlap?       *)
  strays        (* history: the inner pools that were created meanwhile      *)

poolVars == <<inner, live, made, initialized, initPromise, pending, ending, revived,
              enabled, crossed, strays>>
mathVars == <<poolVars, job>>

Pools == 1..MaxInner

TypeOK ==
  /\ inner \in 0..MaxInner /\ made \in 0..MaxInner
  /\ live \subseteq Pools /\ revived \subseteq Pools /\ strays \subseteq Pools
  /\ initialized \in BOOLEAN /\ enabled \in BOOLEAN /\ crossed \in BOOLEAN
  /\ initPromise \in {"none", "pending", "resolved", "rejected"}
  /\ pending \in Nat
  /\ ending \in [Enders -> [pool : 0..MaxInner, calls : SUBSET Jobs]]
  /\ \A j \in Jobs : job[j].state \in {"new", "waiting", "resolved", "rejected"}

Idle == [pool |-> 0, calls |-> {}]

MathInit ==
  /\ inner = 0 /\ live = {} /\ made = 0
  /\ initialized = FALSE /\ initPromise = "none" /\ pending = 0
  /\ ending = [k \in Enders |-> Idle] /\ revived = {}
  /\ enabled \in BOOLEAN
  /\ job \in [Jobs -> [state : {"new"}, length : Lengths, on : {0}, left : {{}}]]
  /\ crossed = FALSE /\ strays = {}

(* The inner pools that a terminate() waits for. *)
Ending == {ending[k].pool : k \in Enders} \ {0}

-----------------------------------------------------------------------------
(* initialize *)

(* A fault: initPromise is not looked at. *)
StartsTwice == ~initialized

(* Whoever calls while one is under way joins it. *)
Starts == ~initialized /\ initPromise = "none"

(* initialize and terminate overlap until neither is under way. *)
Crosses(now) == crossed' = ((crossed \/ now) /\ (pending' > 0 \/ Ending' # {}))

Initialize ==
  /\ Starts
  /\ made + pending < MaxInner
  /\ IF enabled
     THEN initPromise' = "pending" /\ pending' = pending + 1 /\ UNCHANGED initialized
     ELSE initPromise' = "resolved" /\ initialized' = TRUE /\ UNCHANGED pending
  /\ UNCHANGED <<inner, live, made, ending, revived, enabled, job, strays>>
  /\ Crosses(Ending # {})

(* The rest of _initialize; a promise that terminate dropped is nobody's.   *)
Outcome(o) == IF initPromise = "pending" THEN o ELSE initPromise

InitializeEnds ==
  /\ pending > 0
  /\ pending' = pending - 1
  /\ made' = made + 1
  /\ inner' = made + 1 /\ live' = live \cup {made + 1}
  /\ initialized' = TRUE
  /\ initPromise' = Outcome("resolved")
  /\ strays' = IF crossed THEN strays \cup {made + 1} ELSE strays
  /\ UNCHANGED <<ending, revived, enabled, job>>
  /\ Crosses(FALSE)

(* The script is not found, or createPool throws; the rejected promise stays *)
(* until a terminate().                                                      *)
InitializeFails ==
  /\ pending > 0
  /\ pending' = pending - 1
  /\ initPromise' = Outcome("rejected")
  /\ UNCHANGED <<inner, live, made, initialized, ending, revived, enabled, job, strays>>
  /\ Crosses(FALSE)

-----------------------------------------------------------------------------
(* runParallel *)

(* shouldParallelize says no: the pool is null, disabled, or n is small. *)
RunSequential(j) ==
  /\ job[j].state = "new"
  /\ job' = [job EXCEPT ![j].state = "resolved"]
  /\ UNCHANGED poolVars

(* All chunks are sent to the inner pool in one turn.  The library starts   *)
(* workers for them even if it has been told to end those it has.           *)
RunParallel(j) ==
  /\ job[j].state = "new" /\ inner # 0
  /\ LET chunks == Chunks(job[j].length, ChunkSize)
     IN  /\ job' = [job EXCEPT ![j] = [@ EXCEPT
                      !.state = IF chunks = {} THEN "resolved" ELSE "waiting",
                      !.on = inner, !.left = chunks]]
         /\ revived' = IF chunks # {} /\ inner \in Ending THEN revived \cup {inner} ELSE revived
  /\ UNCHANGED <<inner, live, made, initialized, initPromise, pending, ending, enabled,
                 crossed, strays>>

(* forceParallel without an inner pool: sending the first chunk throws. *)
RunRefused(j) ==
  /\ job[j].state = "new" /\ inner = 0
  /\ Chunks(job[j].length, ChunkSize) # {}
  /\ job' = [job EXCEPT ![j].state = "rejected"]
  /\ UNCHANGED poolVars

ChunkAnswered(j, chunk) ==
  /\ job[j].state = "waiting"
  /\ job' = [job EXCEPT ![j].left = @ \ {chunk},
                        ![j].state = IF job[j].left = {chunk} THEN "resolved" ELSE @]
  /\ UNCHANGED poolVars

(* An error, a timeout, or a worker that is gone. *)
ChunkFails(j) ==
  /\ job[j].state = "waiting"
  /\ job' = [job EXCEPT ![j].state = "rejected"]
  /\ UNCHANGED poolVars

-----------------------------------------------------------------------------
(* terminate *)

(* this.pool is let go, whichever it is by now. *)
Reset ==
  /\ inner' = 0 /\ initialized' = FALSE /\ initPromise' = "none"
  /\ UNCHANGED <<made, pending, enabled, strays>>

On(pool) == {j \in Jobs : job[j].state = "waiting" /\ job[j].on = pool}

(* Without an inner pool there is nothing to wait for. *)
TerminateNothing ==
  /\ inner = 0
  /\ Reset
  /\ UNCHANGED <<live, ending, revived, job>>
  /\ Crosses(pending > 0)

(* force: the library rejects what runs, and kills the workers. *)
Terminate(k, force) ==
  /\ inner # 0 /\ ending[k].pool = 0
  /\ ending' = [ending EXCEPT ![k] = [pool |-> inner,
                                      calls |-> IF force THEN {} ELSE On(inner)]]
  /\ revived' = revived \ {inner}
  /\ job' = IF force
            THEN [j \in Jobs |-> IF j \in On(inner) THEN [job[j] EXCEPT !.state = "rejected"]
                                 ELSE job[j]]
            ELSE job
  /\ UNCHANGED <<inner, live, made, initialized, initPromise, pending, enabled, strays>>
  /\ Crosses(pending > 0)

(* What ran has ended, and with the last terminate() of it the workers of    *)
(* the pool are gone, but those it started meanwhile.                        *)
TerminateEnds(k) ==
  /\ ending[k].pool # 0
  /\ \A j \in ending[k].calls : job[j].state # "waiting"
  /\ ending' = [ending EXCEPT ![k] = Idle]
  /\ live' = live \ ({ending[k].pool} \ (Ending' \cup revived))
  /\ Reset
  /\ UNCHANGED <<revived, job>>
  /\ Crosses(FALSE)

-----------------------------------------------------------------------------

MathNext ==
  \/ Initialize \/ InitializeEnds \/ InitializeFails
  \/ \E j \in Jobs :
       \/ RunSequential(j) \/ RunParallel(j) \/ RunRefused(j) \/ ChunkFails(j)
       \/ \E chunk \in job[j].left : ChunkAnswered(j, chunk)
  \/ TerminateNothing
  \/ \E k \in Enders : TerminateEnds(k) \/ \E force \in BOOLEAN : Terminate(k, force)

-----------------------------------------------------------------------------
(* The workers that run are those of the pool the object holds, so that     *)
(* terminate() can end them, or of one that is being ended, however many    *)
(* callers initialize, run and terminate at once; and no call waits for     *)
(* workers that are gone.  Two kinds of pools run on: one that was created  *)
(* while an initialize and a terminate overlapped (index.ts:552, 2353), and *)
(* one that got a call while a terminate() of it was awaited.               *)
InnerPoolHeld ==
  /\ TypeOK
  /\ live \subseteq {inner} \cup Ending \cup strays \cup revived
  /\ inner # 0 => inner \in live
  /\ \A j \in Jobs : job[j].state = "waiting" => job[j].on \in live
=============================================================================
