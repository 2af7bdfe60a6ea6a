----------------------------- MODULE MCParallel -----------------------------
(***************************************************************************)
(* What the numeric code computes on, in one run: the pool of threads, the *)
(* matrix operations that use one, the pools of the workerpool package and *)
(* the memory of the WebAssembly module.  The first state says which       *)
(* machine moves, the others rest, so that their states add up.            *)
(***************************************************************************)
EXTENDS WorkerPool, ParallelMatrix

CONSTANTS
  Jobs, Lengths, ChunkSize, MaxInner, Enders,
  Users, Arrays, Threshold, MaxBlocks, MaxModules, EarlyResets

(* What MathWorkerPool and WasmMemory take for granted of theirs. *)
ASSUME ParallelAssumption ==
  /\ Lengths \subseteq Nat /\ ChunkSize \in Nat /\ ChunkSize > 0
  /\ MaxInner \in Nat
  /\ IsFiniteSet(Users) /\ Arrays \subseteq Nat /\ Threshold \in Nat
  /\ MaxBlocks \in Nat /\ MaxModules \in Nat /\ EarlyResets \in BOOLEAN

VARIABLES
  part,   (* "threads", "matrix", "math" or "wasm" *)
  inner, live, made, initialized, initPromise, pending, ending, revived, enabled, job,
  crossed, strays,
  wasmModule, loading, loads, begun, memory, entries, array

Math == INSTANCE MathWorkerPool
Wasm == INSTANCE WasmMemory

mathVars == <<inner, live, made, initialized, initPromise, pending, ending, revived, enabled,
              job, crossed, strays>>
wasmVars == <<wasmModule, loading, loads, begun, memory, entries, array>>
all == <<part, vars, matrixVars, mathVars, wasmVars>>

(* Where a machine rests, it has one state. *)
MatrixRests == shared /\ \A c \in Calls : size[c] = MaxSize
MathRests   == enabled /\ \A j \in Jobs : job[j].length = CHOOSE n \in Lengths : TRUE

MCInit ==
  /\ part \in {"threads", "matrix", "math", "wasm"}
  /\ Init /\ Wasm!WasmInit
  /\ MatrixInit /\ (part # "matrix" => MatrixRests)
  /\ Math!MathInit /\ (part # "math" => MathRests)

MCNext ==
  \/ part = "threads" /\ Next /\ UNCHANGED <<part, matrixVars, mathVars, wasmVars>>
  \/ part = "matrix" /\ MatrixNext /\ UNCHANGED <<part, vars, mathVars, wasmVars>>
  \/ part = "math" /\ Math!MathNext /\ UNCHANGED <<part, vars, matrixVars, wasmVars>>
  \/ part = "wasm" /\ Wasm!WasmNext /\ UNCHANGED <<part, vars, matrixVars, mathVars>>

(* WorkerPool's Fairness, where the pool of threads moves. *)
Threads == part = "threads"
ThreadsFairness ==
  /\ \A w \in Workers, t \in Tasks :
       WF_vars(Threads /\ \E type \in Reply : HandleWorkerMessage(w, t, type))
  /\ \A w \in Workers :
       /\ WF_vars(Threads /\ (\/ HandleWorkerError(w) \/ HandleStartupCap(w)
                              \/ IgnoreWorkerError(w)))
       /\ WF_vars(Threads /\ DropEvents(w))
  /\ WF_vars(Threads /\ ((\E w \in Workers : WorkerStarts(w)) \/ WorkerStartFails))
  /\ \A t \in Tasks :
       /\ WF_vars(Threads /\ ((\E w \in Workers : TimeoutReplaced(t, w)) \/ TimeoutStartFails(t)))
       /\ WF_vars(Threads /\ HandleTaskTimeout(t))
  /\ \A w \in Workers, t \in Tasks :
       WF_vars(Threads /\ (\/ \E type \in Reply : WorkerReplies(w, t, type, FALSE)
                           \/ <<w, t>> \in posted /\ \E stops \in BOOLEAN : WorkerFails(w, stops)))

MCSpec == MCInit /\ [][MCNext]_all /\ ThreadsFairness /\ MatrixFairness

-----------------------------------------------------------------------------
(* The workers that run can be ended, and no call waits for gone ones; the  *)
(* state is well formed.                                                    *)
InnerPoolHeld == MatrixTypeOK /\ Math!InnerPoolHeld

(* An array in WebAssembly memory is its user's alone, as it was asked for. *)
ArraysOwned == Wasm!ArraysOwned

(* Recycling keeps the WebAssembly memory bounded.                          *)
MemoryBounded == Wasm!MemoryBounded
=============================================================================
