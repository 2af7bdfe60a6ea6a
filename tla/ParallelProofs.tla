--------------------------- MODULE ParallelProofs ---------------------------
(***************************************************************************)
(* MathWorkerPool and WasmMemory for any number of calls, users, pools,    *)
(* modules and blocks, over the specification that the run checks: the     *)
(* workers that run can be ended; an array in WebAssembly memory is its    *)
(* user's alone; recycling bounds that memory.                             *)
(***************************************************************************)
EXTENDS MCParallel, ParallelMatrixProofs

-----------------------------------------------------------------------------
(* MathWorkerPool *)

IsJob(x) ==
  /\ x = [state |-> x.state, length |-> x.length, on |-> x.on, left |-> x.left]
  /\ x.state \in {"new", "waiting", "resolved", "rejected"}

Counts ==
  /\ inner \in Nat /\ made \in Nat /\ pending \in Nat
  /\ inner <= made /\ made + pending <= MaxInner

PoolOK ==
  /\ Counts
  /\ initialized \in BOOLEAN /\ enabled \in BOOLEAN /\ crossed \in BOOLEAN
  /\ initPromise \in {"none", "pending", "resolved", "rejected"}

SetsOK ==
  /\ live \subseteq 1..made /\ revived \subseteq 1..made /\ strays \subseteq 1..made
  /\ ending \in [Enders -> [pool : Nat, calls : SUBSET Jobs]]
  /\ \A k \in Enders : ending[k].pool <= made

JobsOK == job = [j \in Jobs |-> job[j]] /\ \A j \in Jobs : IsJob(job[j])

(* One initialize is under way, with no terminate and no pool beside it,    *)
(* unless they overlapped; then the pool it may replace is a stray.         *)
CrossOK ==
  /\ pending > 0 /\ Math!Ending # {} => crossed
  /\ pending > 1 => crossed
  /\ pending > 0 /\ initPromise # "pending" => crossed
  /\ pending > 0 /\ inner # 0 => inner \in strays
  /\ \A k \in Enders : ending[k].pool \notin {0, inner} /\ inner # 0 => inner \in strays

(* A terminate() waits for the calls that run on its pool, but for those    *)
(* that were made since.                                                    *)
Awaited(j) ==
  \/ job[j].on \in revived
  \/ \E k \in Enders : ending[k].pool = job[j].on /\ j \in ending[k].calls

HeldOK ==
  /\ inner # 0 => initialized /\ inner \in live
  /\ live \subseteq {inner} \cup Math!Ending \cup strays \cup revived
  /\ \A j \in Jobs : job[j].state = "waiting" =>
       job[j].on \in live /\ (job[j].on \in Math!Ending => Awaited(j))

MathInv == PoolOK /\ SetsOK /\ JobsOK /\ CrossOK /\ HeldOK

LEMMA MathInit == Math!MathInit => MathInv
  <1> SUFFICES ASSUME Math!MathInit PROVE MathInv
    OBVIOUS
  <1>0. /\ inner = 0 /\ made = 0 /\ pending = 0 /\ initialized = FALSE /\ initPromise = "none"
        /\ enabled \in BOOLEAN /\ crossed = FALSE
    BY DEF Math!MathInit
  <1>1. PoolOK
    <2>1. Counts
      BY <1>0, ParallelAssumption DEF Counts
    <2> QED BY <1>0, <2>1 DEF PoolOK
  <1>2. job = [j \in Jobs |-> job[j]]
    BY DEF Math!MathInit
  <1>3. ASSUME NEW j \in Jobs PROVE IsJob(job[j]) /\ job[j].state = "new"
    <2>1. job[j] \in [state : {"new"}, length : Lengths, on : {0}, left : {{}}]
      BY DEF Math!MathInit
    <2> QED BY <2>1 DEF IsJob
  <1>4. live = {} /\ revived = {} /\ strays = {} /\ ending = [k \in Enders |-> [pool |-> 0, calls |-> {}]]
    BY DEF Math!MathInit, Math!Idle
  <1>5. SetsOK /\ CrossOK /\ HeldOK
    BY <1>0, <1>3, <1>4 DEF SetsOK, CrossOK, HeldOK
  <1> QED BY <1>1, <1>2, <1>3, <1>5 DEF MathInv, JobsOK

LEMMA MathHeld == MathInv => Math!InnerPoolHeld
  <1> SUFFICES ASSUME MathInv PROVE Math!InnerPoolHeld
    OBVIOUS
  <1>1. Counts /\ made <= MaxInner
    BY ParallelAssumption DEF MathInv, PoolOK, Counts
  <1>2. ending \in [Enders -> [pool : 0..MaxInner, calls : SUBSET Jobs]]
    <2>1. ASSUME NEW k \in Enders PROVE ending[k] \in [pool : 0..MaxInner, calls : SUBSET Jobs]
      <3>1. ending[k] \in [pool : Nat, calls : SUBSET Jobs] /\ ending[k].pool <= made
        BY DEF MathInv, SetsOK
      <3>2. ending[k].pool \in 0..MaxInner
        BY <1>1, <3>1, ParallelAssumption DEF Counts
      <3> QED BY <3>1, <3>2
    <2> QED BY <2>1 DEF MathInv, SetsOK
  <1>3. /\ inner \in 0..MaxInner /\ made \in 0..MaxInner
        /\ live \subseteq Math!Pools /\ revived \subseteq Math!Pools /\ strays \subseteq Math!Pools
    BY <1>1, ParallelAssumption DEF MathInv, SetsOK, Counts, Math!Pools
  <1>4. Math!TypeOK
    BY <1>1, <1>2, <1>3 DEF MathInv, PoolOK, Counts, JobsOK, IsJob, Math!TypeOK
  <1> QED BY <1>4 DEF MathInv, HeldOK, Math!InnerPoolHeld

(* The calls and the pools they run on: what a step on one of them keeps.   *)
LEMMA JobStep ==
  ASSUME MathInv, NEW j \in Jobs, job' = [i \in Jobs |-> job'[i]],
         \A i \in Jobs : i # j => job'[i] = job[i],
         IsJob(job'[j]), UNCHANGED Math!poolVars,
         job'[j].state = "waiting" => job[j].state = "waiting" /\ job'[j].on = job[j].on
  PROVE  MathInv'
  <1>1. \A i \in Jobs : IsJob(job[i])
    BY DEF MathInv, JobsOK
  <1>2. JobsOK'
    BY <1>1 DEF JobsOK
  <1>3. PoolOK' /\ SetsOK' /\ CrossOK'
    BY DEF MathInv, PoolOK, Counts, SetsOK, CrossOK, Math!poolVars, Math!Ending
  <1>4. HeldOK'
    <2>1. UNCHANGED <<inner, initialized, live, strays, revived, ending>>
      BY DEF Math!poolVars
    <2>2. Math!Ending' = Math!Ending
      BY <2>1 DEF Math!Ending
    <2>3. ASSUME NEW i \in Jobs, job'[i].state = "waiting"
          PROVE  job'[i].on \in live /\ (job'[i].on \in Math!Ending => Awaited(i)')
      <3>1. job[i].state = "waiting" /\ job'[i].on = job[i].on
        BY <2>3
      <3>2. job[i].on \in live /\ (job[i].on \in Math!Ending => Awaited(i))
        BY <3>1 DEF MathInv, HeldOK
      <3> QED BY <2>1, <3>1, <3>2 DEF Awaited
    <2> QED BY <2>1, <2>2, <2>3 DEF MathInv, HeldOK
  <1> QED BY <1>2, <1>3, <1>4 DEF MathInv

(* A step of initialize or terminate that keeps the calls and those that    *)
(* are awaited.                                                             *)
LEMMA InitStep ==
  ASSUME MathInv, Math!Initialize \/ Math!InitializeEnds \/ Math!InitializeFails
  PROVE  MathInv'
  <1> USE ParallelAssumption
  <1>1. /\ UNCHANGED <<ending, revived, enabled, job>> /\ Math!Ending' = Math!Ending
    BY DEF Math!Initialize, Math!InitializeEnds, Math!InitializeFails, Math!Ending
  <1>2. JobsOK'
    BY <1>1 DEF MathInv, JobsOK
  <1>3. CASE Math!Initialize
    <2>0. /\ UNCHANGED <<inner, live, made, strays>> /\ made + pending < MaxInner
          /\ ~initialized /\ initPromise = "none"
          /\ crossed' = ((crossed \/ Math!Ending # {}) /\ (pending' > 0 \/ Math!Ending' # {}))
      BY <1>3 DEF Math!Initialize, Math!Starts, Math!Crosses
    <2>1. \/ initPromise' = "pending" /\ pending' = pending + 1 /\ initialized' = initialized
          \/ initPromise' = "resolved" /\ initialized' = TRUE /\ pending' = pending
      BY <1>3 DEF Math!Initialize
    <2>2. inner = 0
      BY <2>0 DEF MathInv, HeldOK
    <2>3. Counts'
      BY <2>0, <2>1 DEF MathInv, PoolOK, Counts
    <2>4. PoolOK'
      <3>1. initialized' \in BOOLEAN /\ initPromise' \in {"none", "pending", "resolved", "rejected"}
        BY <2>1 DEF MathInv, PoolOK
      <3>2. crossed' \in BOOLEAN /\ enabled' \in BOOLEAN
        BY <1>1, <2>0 DEF MathInv, PoolOK
      <3> QED BY <2>3, <3>1, <3>2 DEF PoolOK
    <2>5. SetsOK'
      BY <1>1, <2>0 DEF MathInv, SetsOK
    <2>6. CrossOK'
      <3>1. pending > 0 => crossed
        BY <2>0 DEF MathInv, CrossOK
      <3>2. pending \in Nat /\ pending' \in Nat
        BY <2>3 DEF MathInv, PoolOK, Counts
      <3>3. pending' > 1 => crossed'
        <4>1. pending' > 1 => pending > 0 /\ pending' > 0
          BY <2>1, <3>2
        <4> QED BY <2>0, <3>1, <4>1
      <3>4. pending' > 0 /\ Math!Ending' # {} => crossed'
        BY <1>1, <2>0
      <3>5. pending' > 0 /\ initPromise' # "pending" => crossed'
        BY <2>0, <2>1, <3>1
      <3> QED BY <2>0, <2>2, <3>3, <3>4, <3>5 DEF CrossOK
    <2>7. HeldOK'
      BY <1>1, <2>0, <2>2 DEF MathInv, HeldOK, Awaited
    <2> QED BY <1>2, <2>4, <2>5, <2>6, <2>7 DEF MathInv
  <1>4. CASE Math!InitializeEnds
    <2>0. /\ pending > 0 /\ pending' = pending - 1 /\ made' = made + 1 /\ inner' = made + 1
          /\ live' = live \cup {made + 1} /\ initialized' = TRUE
          /\ initPromise' = Math!Outcome("resolved")
          /\ strays' = IF crossed THEN strays \cup {made + 1} ELSE strays
          /\ crossed' = ((crossed \/ FALSE) /\ (pending' > 0 \/ Math!Ending' # {}))
      BY <1>4 DEF Math!InitializeEnds, Math!Crosses
    <2>1. Counts /\ Counts'
      BY <2>0 DEF MathInv, PoolOK, Counts
    <2>2. PoolOK'
      BY <1>1, <2>0, <2>1 DEF MathInv, PoolOK, Math!Outcome
    <2>3. SetsOK'
      BY <1>1, <2>0, <2>1 DEF MathInv, SetsOK, Counts
    <2>4. CrossOK'
      <3>1. pending' > 0 \/ Math!Ending # {} => crossed
        BY <2>0, <2>1 DEF MathInv, CrossOK, Counts
      <3>2. pending' > 0 \/ Math!Ending # {} => crossed' /\ inner' \in strays'
        BY <1>1, <2>0, <3>1
      <3>3. \A k \in Enders : ending'[k].pool # 0 => Math!Ending # {}
        BY <1>1 DEF Math!Ending
      <3>4. pending' > 1 => pending' > 0
        BY <2>1 DEF Counts
      <3> QED BY <1>1, <3>2, <3>3, <3>4 DEF CrossOK
    <2>5. HeldOK'
      <3>1. inner # 0 => inner \in strays
        BY <2>0 DEF MathInv, CrossOK
      <3>2. strays \subseteq strays'
        BY <2>0
      <3>3. live' \subseteq {inner'} \cup Math!Ending' \cup strays' \cup revived'
        <4>1. 0 \notin live
          BY <2>1 DEF MathInv, SetsOK, Counts
        <4> QED BY <1>1, <2>0, <3>1, <3>2, <4>1 DEF MathInv, HeldOK
      <3>4. \A j \in Jobs : job'[j].state = "waiting" =>
              job'[j].on \in live' /\ (job'[j].on \in Math!Ending' => Awaited(j)')
        BY <1>1, <2>0 DEF MathInv, HeldOK, Awaited
      <3> QED BY <2>0, <3>3, <3>4 DEF HeldOK
    <2> QED BY <1>2, <2>2, <2>3, <2>4, <2>5 DEF MathInv
  <1>5. CASE Math!InitializeFails
    <2>0. /\ pending > 0 /\ pending' = pending - 1
          /\ initPromise' = Math!Outcome("rejected")
          /\ UNCHANGED <<inner, live, made, initialized, strays>>
          /\ crossed' = ((crossed \/ FALSE) /\ (pending' > 0 \/ Math!Ending' # {}))
      BY <1>5 DEF Math!InitializeFails, Math!Crosses
    <2>1. Counts /\ Counts'
      BY <2>0 DEF MathInv, PoolOK, Counts
    <2>2. PoolOK'
      BY <1>1, <2>0, <2>1 DEF MathInv, PoolOK, Math!Outcome
    <2>3. SetsOK'
      BY <1>1, <2>0 DEF MathInv, SetsOK
    <2>4. CrossOK'
      <3>1. pending' > 0 => crossed /\ crossed'
        <4>1. pending' > 0 => pending > 1
          BY <2>0, <2>1 DEF Counts
        <4> QED BY <2>0, <4>1 DEF MathInv, CrossOK
      <3>2. pending' > 1 => pending' > 0
        BY <2>1 DEF Counts
      <3>3. inner # 0 => inner \in strays
        BY <2>0 DEF MathInv, CrossOK
      <3> QED BY <1>1, <2>0, <3>1, <3>2, <3>3 DEF CrossOK
    <2>5. HeldOK'
      BY <1>1, <2>0 DEF MathInv, HeldOK, Awaited
    <2> QED BY <1>2, <2>2, <2>3, <2>4, <2>5 DEF MathInv
  <1> QED BY <1>3, <1>4, <1>5

(* A call on the inner pool; while that is being ended, the pool revives.   *)
LEMMA RunStep ==
  ASSUME MathInv, NEW j \in Jobs, Math!RunParallel(j)
  PROVE  MathInv'
  <1>0. /\ inner # 0
        /\ UNCHANGED <<inner, live, made, initialized, initPromise, pending, ending, enabled,
                       crossed, strays>>
    BY DEF Math!RunParallel
  <1>1. PICK st, rest : /\ job' = [job EXCEPT ![j] = [@ EXCEPT
                                    !.state = st, !.on = inner, !.left = rest]]
                        /\ st \in {"waiting", "resolved"}
                        /\ revived' = IF st = "waiting" /\ inner \in Math!Ending
                                      THEN revived \cup {inner} ELSE revived
    <2> DEFINE chunks == Math!Chunks(job[j].length, ChunkSize)
               st == IF chunks = {} THEN "resolved" ELSE "waiting"
    <2>1. /\ job' = [job EXCEPT ![j] = [@ EXCEPT !.state = st, !.on = inner, !.left = chunks]]
          /\ revived' = IF chunks # {} /\ inner \in Math!Ending THEN revived \cup {inner}
                        ELSE revived
      BY DEF Math!RunParallel
    <2>2. st \in {"waiting", "resolved"} /\ (st = "waiting" <=> chunks # {})
      OBVIOUS
    <2>3. revived' = IF st = "waiting" /\ inner \in Math!Ending THEN revived \cup {inner} ELSE revived
      BY <2>1, <2>2
    <2> HIDE DEF st, chunks
    <2> QED BY <2>1, <2>2, <2>3
  <1>2. job'[j] = [state |-> st, length |-> job[j].length, on |-> inner, left |-> rest]
    <2>1. PICK s, l, o, f : job[j] = [state |-> s, length |-> l, on |-> o, left |-> f]
      BY DEF MathInv, JobsOK, IsJob
    <2>2. job'[j] = [job[j] EXCEPT !.state = st, !.on = inner, !.left = rest]
      BY <1>1 DEF MathInv, JobsOK
    <2> QED BY <2>1, <2>2
  <1>3. \A i \in Jobs : i # j => job'[i] = job[i]
    BY <1>1 DEF MathInv, JobsOK
  <1>4. job' = [i \in Jobs |-> job'[i]]
    BY <1>1 DEF MathInv, JobsOK
  <1>5. JobsOK'
    BY <1>1, <1>2, <1>3, <1>4 DEF MathInv, JobsOK, IsJob
  <1>6. Math!Ending' = Math!Ending
    BY <1>0 DEF Math!Ending
  <1>7. PoolOK' /\ CrossOK'
    BY <1>0, <1>6 DEF MathInv, PoolOK, Counts, CrossOK
  <1>8. SetsOK'
    <2>1. inner \in 1..made
      BY <1>0 DEF MathInv, PoolOK, Counts
    <2>2. revived' \subseteq 1..made
      BY <1>1, <2>1 DEF MathInv, SetsOK
    <2> QED BY <1>0, <2>2 DEF MathInv, SetsOK
  <1>9. HeldOK'
    <2>1. revived \subseteq revived'
      BY <1>1
    <2>2. ASSUME NEW i \in Jobs, job'[i].state = "waiting"
          PROVE  job'[i].on \in live /\ (job'[i].on \in Math!Ending => Awaited(i)')
      <3>1. CASE i = j
        <4>1. job'[i].on = inner /\ st = "waiting"
          BY <1>2, <2>2, <3>1
        <4>2. inner \in Math!Ending => inner \in revived'
          BY <1>1, <4>1
        <4> QED BY <1>0, <4>1, <4>2 DEF MathInv, HeldOK, Awaited
      <3>2. CASE i # j
        <4>1. job'[i] = job[i]
          BY <1>3, <3>2
        <4>2. job[i].on \in live /\ (job[i].on \in Math!Ending => Awaited(i))
          BY <2>2, <4>1 DEF MathInv, HeldOK
        <4> QED BY <1>0, <2>1, <4>1, <4>2 DEF Awaited
      <3> QED BY <3>1, <3>2
    <2> QED BY <1>0, <1>6, <2>1, <2>2 DEF MathInv, HeldOK
  <1> QED BY <1>5, <1>7, <1>8, <1>9 DEF MathInv

(* terminate lets the inner pool go; the workers of a pool go with the last *)
(* terminate() of it.                                                       *)
LEMMA EndStep ==
  ASSUME MathInv, Math!TerminateNothing \/ \E k \in Enders : Math!TerminateEnds(k)
  PROVE  MathInv'
  <1> USE ParallelAssumption
  <1>1. /\ inner' = 0 /\ initialized' = FALSE /\ initPromise' = "none"
        /\ UNCHANGED <<made, pending, enabled, strays, revived, job>>
    BY DEF Math!TerminateNothing, Math!TerminateEnds, Math!Reset
  <1>2. JobsOK'
    BY <1>1 DEF MathInv, JobsOK
  <1>3. Counts /\ Counts'
    BY <1>1 DEF MathInv, PoolOK, Counts
  <1>4. CASE Math!TerminateNothing
    <2>0. /\ inner = 0 /\ UNCHANGED <<live, ending>> /\ Math!Ending' = Math!Ending
          /\ crossed' = ((crossed \/ pending > 0) /\ (pending' > 0 \/ Math!Ending' # {}))
      BY <1>4 DEF Math!TerminateNothing, Math!Crosses, Math!Ending
    <2>1. PoolOK'
      BY <1>1, <1>3, <2>0 DEF MathInv, PoolOK
    <2>2. SetsOK'
      BY <1>1, <2>0 DEF MathInv, SetsOK
    <2>3. CrossOK'
      <3>1. pending > 1 => pending > 0
        BY <1>3 DEF Counts
      <3>2. pending' > 0 => crossed'
        BY <1>1, <2>0
      <3> QED BY <1>1, <3>1, <3>2 DEF CrossOK
    <2>4. HeldOK'
      BY <1>1, <2>0 DEF MathInv, HeldOK, Awaited
    <2> QED BY <1>2, <2>1, <2>2, <2>3, <2>4 DEF MathInv
  <1>5. ASSUME NEW k \in Enders, Math!TerminateEnds(k) PROVE MathInv'
    <2> DEFINE p == ending[k].pool
    <2>0. /\ p # 0 /\ \A j \in ending[k].calls : job[j].state # "waiting"
          /\ ending' = [ending EXCEPT ![k] = [pool |-> 0, calls |-> {}]]
          /\ live' = live \ ({p} \ (Math!Ending' \cup revived))
          /\ crossed' = ((crossed \/ FALSE) /\ (pending' > 0 \/ Math!Ending' # {}))
      BY <1>5 DEF Math!TerminateEnds, Math!Crosses, Math!Idle
    <2>1. ending \in [Enders -> [pool : Nat, calls : SUBSET Jobs]]
      BY DEF MathInv, SetsOK
    <2>2. /\ ending'[k] = [pool |-> 0, calls |-> {}]
          /\ \A m \in Enders : m # k => ending'[m] = ending[m]
      BY <2>0, <2>1
    <2>3. /\ Math!Ending' \subseteq Math!Ending /\ Math!Ending \subseteq Math!Ending' \cup {p}
          /\ Math!Ending # {}
      BY <2>0, <2>2 DEF Math!Ending
    <2>4. PoolOK'
      BY <1>1, <1>3, <2>0 DEF MathInv, PoolOK
    <2>5. SetsOK'
      <3>1. ending' \in [Enders -> [pool : Nat, calls : SUBSET Jobs]]
        BY <2>0, <2>1
      <3>2. \A m \in Enders : ending'[m].pool <= made
        BY <1>3, <2>2 DEF MathInv, SetsOK, Counts
      <3>3. live' \subseteq 1..made
        BY <2>0 DEF MathInv, SetsOK
      <3> QED BY <1>1, <3>1, <3>2, <3>3 DEF MathInv, SetsOK
    <2>6. CrossOK'
      <3>1. pending > 0 => crossed
        BY <2>3 DEF MathInv, CrossOK
      <3>2. pending' > 0 => crossed'
        BY <1>1, <2>0, <3>1
      <3>3. pending' > 1 => pending' > 0
        BY <1>3 DEF Counts
      <3> QED BY <1>1, <3>2, <3>3 DEF CrossOK
    <2>7. HeldOK'
      <3>1. p = inner \/ inner = 0 \/ inner \in strays
        BY <2>0 DEF MathInv, CrossOK
      <3>2. live' \subseteq {inner'} \cup Math!Ending' \cup strays' \cup revived'
        <4> SUFFICES ASSUME NEW x \in live', x \notin Math!Ending', x \notin strays, x \notin revived
                     PROVE  FALSE
          BY <1>1
        <4>1. x \in live /\ x # p
          BY <2>0
        <4>2. x = inner
          BY <2>3, <4>1 DEF MathInv, HeldOK
        <4>3. x # 0
          BY <1>3, <4>1 DEF MathInv, SetsOK, Counts
        <4> QED BY <3>1, <4>1, <4>2, <4>3
      <3>3. ASSUME NEW j \in Jobs, job'[j].state = "waiting"
            PROVE  job'[j].on \in live' /\ (job'[j].on \in Math!Ending' => Awaited(j)')
        <4>1. /\ job[j].state = "waiting" /\ job[j].on \in live
              /\ job[j].on \in Math!Ending => Awaited(j)
          BY <1>1, <3>3 DEF MathInv, HeldOK
        <4>2. j \notin ending[k].calls
          BY <2>0, <4>1
        <4>3. job[j].on \in Math!Ending => Awaited(j)'
          BY <1>1, <2>2, <4>1, <4>2 DEF Awaited
        <4>4. p \in Math!Ending
          BY <2>0 DEF Math!Ending
        <4>5. job[j].on = p => p \in Math!Ending' \cup revived
          <5> SUFFICES ASSUME job[j].on = p, p \notin revived PROVE p \in Math!Ending'
            OBVIOUS
          <5>1. PICK m \in Enders : ending[m].pool = p /\ j \in ending[m].calls
            BY <4>1, <4>4 DEF Awaited
          <5>2. m # k
            BY <4>2, <5>1
          <5> QED BY <2>0, <2>2, <5>1, <5>2 DEF Math!Ending
        <4>6. job[j].on \in live'
          BY <2>0, <4>1, <4>5
        <4> QED BY <1>1, <2>3, <4>3, <4>6
      <3> QED BY <1>1, <3>2, <3>3 DEF HeldOK
    <2> QED BY <1>2, <2>4, <2>5, <2>6, <2>7 DEF MathInv
  <1> QED BY <1>4, <1>5

(* terminate, up to its await: it waits for the calls that run, if it does  *)
(* not reject them.                                                         *)
LEMMA TerminateStep ==
  ASSUME MathInv, NEW k \in Enders, NEW force \in BOOLEAN, Math!Terminate(k, force)
  PROVE  MathInv'
  <1> DEFINE old == [j \in Jobs |-> IF j \in Math!On(inner)
                                   THEN [job[j] EXCEPT !.state = "rejected"] ELSE job[j]]
             calls == IF force THEN {} ELSE Math!On(inner)
  <1>0. /\ inner # 0 /\ ending[k].pool = 0
        /\ ending' = [ending EXCEPT ![k] = [pool |-> inner, calls |-> calls]]
        /\ revived' = revived \ {inner}
        /\ job' = IF force THEN old ELSE job
        /\ UNCHANGED <<inner, live, made, initialized, initPromise, pending, enabled, strays>>
        /\ crossed' = ((crossed \/ pending > 0) /\ (pending' > 0 \/ Math!Ending' # {}))
    BY DEF Math!Terminate, Math!Crosses
  <1>1. Counts /\ Counts'
    BY <1>0 DEF MathInv, PoolOK, Counts
  <1>2. PoolOK'
    BY <1>0, <1>1 DEF MathInv, PoolOK
  <1>3. ending \in [Enders -> [pool : Nat, calls : SUBSET Jobs]] /\ calls \subseteq Jobs
    BY DEF MathInv, SetsOK, Math!On
  <1> HIDE DEF calls
  <1>4. /\ ending'[k] = [pool |-> inner, calls |-> calls]
        /\ \A m \in Enders : m # k => ending'[m] = ending[m]
    BY <1>0, <1>3
  <1>5. Math!Ending' = Math!Ending \cup {inner}
    BY <1>0, <1>4 DEF Math!Ending
  <1>6. SetsOK'
    <2>1. ending' \in [Enders -> [pool : Nat, calls : SUBSET Jobs]]
      BY <1>0, <1>1, <1>3 DEF Counts
    <2>2. \A m \in Enders : ending'[m].pool <= made
      BY <1>1, <1>4 DEF MathInv, SetsOK, Counts
    <2> QED BY <1>0, <2>1, <2>2 DEF MathInv, SetsOK
  <1>7. CrossOK'
    <2>1. pending > 0 => crossed'
      BY <1>0
    <2>2. pending > 1 => pending > 0
      BY <1>1 DEF Counts
    <2>3. \A m \in Enders : ending'[m].pool \notin {0, inner} => ending[m].pool \notin {0, inner}
      BY <1>4
    <2> QED BY <1>0, <2>1, <2>2, <2>3 DEF MathInv, CrossOK
  <1>8. \A j \in Jobs : /\ IsJob(job'[j]) /\ job'[j].on = job[j].on
                        /\ job'[j].state = "waiting" =>
                             job[j].state = "waiting" /\ (job[j].on = inner => j \in calls)
    <2> SUFFICES ASSUME NEW j \in Jobs
                 PROVE  /\ IsJob(job'[j]) /\ job'[j].on = job[j].on
                        /\ job'[j].state = "waiting" =>
                             job[j].state = "waiting" /\ (job[j].on = inner => j \in calls)
      OBVIOUS
    <2>1. PICK s, l, o, f : /\ job[j] = [state |-> s, length |-> l, on |-> o, left |-> f]
                            /\ s \in {"new", "waiting", "resolved", "rejected"}
      BY DEF MathInv, JobsOK, IsJob
    <2>2. CASE force /\ j \in Math!On(inner)
      <3>1. job'[j] = [job[j] EXCEPT !.state = "rejected"]
        BY <1>0, <2>2
      <3>2. job'[j] = [state |-> "rejected", length |-> l, on |-> o, left |-> f]
        BY <2>1, <3>1
      <3> QED BY <2>1, <3>2 DEF IsJob
    <2>3. CASE force /\ j \notin Math!On(inner)
      <3>1. job'[j] = job[j] /\ ~(job[j].state = "waiting" /\ job[j].on = inner)
        BY <1>0, <2>3 DEF Math!On
      <3> QED BY <3>1 DEF MathInv, JobsOK
    <2>4. CASE ~force
      <3>1. job'[j] = job[j] /\ (job[j].state = "waiting" /\ job[j].on = inner => j \in calls)
        BY <1>0, <2>4 DEF calls, Math!On
      <3> QED BY <3>1 DEF MathInv, JobsOK
    <2> QED BY <2>2, <2>3, <2>4
  <1>9. JobsOK'
    <2>1. job' = [j \in Jobs |-> job'[j]]
      BY <1>0 DEF MathInv, JobsOK
    <2> QED BY <1>8, <2>1 DEF JobsOK
  <1>10. HeldOK'
    <2>1. ASSUME NEW j \in Jobs, job'[j].state = "waiting"
          PROVE  job'[j].on \in live /\ (job'[j].on \in Math!Ending' => Awaited(j)')
      <3>1. /\ job'[j].on = job[j].on /\ job[j].on \in live
            /\ job[j].on \in Math!Ending => Awaited(j)
            /\ job[j].on = inner => j \in calls
        BY <1>8, <2>1 DEF MathInv, HeldOK
      <3>2. CASE job[j].on = inner
        BY <1>4, <3>1, <3>2 DEF Awaited
      <3>3. CASE job[j].on # inner
        <4>1. job[j].on \in Math!Ending' => Awaited(j)
          BY <1>5, <3>1, <3>3
        <4>2. job[j].on # 0
          BY <3>1, <1>1 DEF MathInv, SetsOK, Counts
        <4>3. Awaited(j) => Awaited(j)'
          BY <1>0, <1>4, <3>1, <3>3, <4>2 DEF Awaited
        <4> QED BY <3>1, <4>1, <4>3
      <3> QED BY <3>2, <3>3
    <2> QED BY <1>0, <1>5, <2>1 DEF MathInv, HeldOK
  <1> QED BY <1>2, <1>6, <1>7, <1>9, <1>10 DEF MathInv

LEMMA MathStep ==
  ASSUME MathInv, [Math!MathNext]_mathVars
  PROVE  MathInv'
  <1>0. CASE UNCHANGED mathVars
    <2>1. Math!Ending' = Math!Ending
      BY <1>0 DEF mathVars, Math!Ending
    <2> QED BY <1>0, <2>1
            DEF MathInv, PoolOK, Counts, SetsOK, JobsOK, CrossOK, HeldOK, Awaited, mathVars
  <1>1. \A j \in Jobs : /\ IsJob(job[j])
                        /\ \E s, l, o, f : job[j] = [state |-> s, length |-> l, on |-> o, left |-> f]
    BY DEF MathInv, JobsOK, IsJob
  <1>2. ASSUME NEW j \in Jobs, NEW s \in {"resolved", "rejected"},
               job' = [job EXCEPT ![j].state = s], UNCHANGED Math!poolVars
        PROVE  MathInv'
    <2>1. PICK st, l, o, f : job[j] = [state |-> st, length |-> l, on |-> o, left |-> f]
      BY <1>1
    <2>2. job'[j] = [job[j] EXCEPT !.state = s]
      BY <1>2 DEF MathInv, JobsOK
    <2>3. job'[j] = [state |-> s, length |-> l, on |-> o, left |-> f]
      BY <2>1, <2>2
    <2>4. IsJob(job'[j]) /\ job'[j].state # "waiting"
      BY <2>3 DEF IsJob
    <2>5. job' = [i \in Jobs |-> job'[i]] /\ \A i \in Jobs : i # j => job'[i] = job[i]
      BY <1>2 DEF MathInv, JobsOK
    <2> QED BY <1>2, <2>4, <2>5, JobStep
  <1>3. ASSUME NEW j \in Jobs, NEW chunk \in job[j].left, Math!ChunkAnswered(j, chunk)
        PROVE  MathInv'
    <2>1. PICK st, l, o, f : job[j] = [state |-> st, length |-> l, on |-> o, left |-> f]
      BY <1>1
    <2>2. PICK s, rest : /\ job' = [job EXCEPT ![j].left = rest, ![j].state = s]
                         /\ s \in {"waiting", "resolved"}
      BY <1>3 DEF Math!ChunkAnswered
    <2>3. job'[j] = [[job[j] EXCEPT !.left = rest] EXCEPT !.state = s]
      BY <2>2 DEF MathInv, JobsOK
    <2>4. job'[j] = [state |-> s, length |-> l, on |-> o, left |-> rest]
      <3>1. [job[j] EXCEPT !.left = rest] = [state |-> st, length |-> l, on |-> o, left |-> rest]
        BY <2>1
      <3> QED BY <2>3, <3>1
    <2>5. IsJob(job'[j]) /\ job'[j].on = job[j].on
      <3>1. IsJob(job'[j])
        <4>1. s \in {"waiting", "resolved"}
          BY <2>2
        <4> QED BY <2>4, <4>1 DEF IsJob
      <3>2. job[j].on = o /\ job'[j].on = o
        BY <2>1, <2>4
      <3> QED BY <3>1, <3>2
    <2>6. job' = [i \in Jobs |-> job'[i]] /\ \A i \in Jobs : i # j => job'[i] = job[i]
      BY <2>2 DEF MathInv, JobsOK
    <2>7. job[j].state = "waiting" /\ UNCHANGED Math!poolVars
      BY <1>3 DEF Math!ChunkAnswered
    <2> QED BY <2>5, <2>6, <2>7, JobStep
  <1>4. ASSUME NEW j \in Jobs, Math!RunSequential(j) \/ Math!RunRefused(j) \/ Math!ChunkFails(j)
        PROVE  MathInv'
    BY <1>2, <1>4 DEF Math!RunSequential, Math!RunRefused, Math!ChunkFails
  <1>5. CASE Math!Initialize \/ Math!InitializeEnds \/ Math!InitializeFails
    BY <1>5, InitStep
  <1>6. ASSUME NEW j \in Jobs, Math!RunParallel(j) PROVE MathInv'
    BY <1>6, RunStep
  <1>7. CASE Math!TerminateNothing \/ \E k \in Enders : Math!TerminateEnds(k)
    BY <1>7, EndStep
  <1>8. ASSUME NEW k \in Enders, NEW force \in BOOLEAN, Math!Terminate(k, force) PROVE MathInv'
    BY <1>8, TerminateStep
  <1> QED BY <1>0, <1>3, <1>4, <1>5, <1>6, <1>7, <1>8 DEF Math!MathNext

-----------------------------------------------------------------------------
(* WasmMemory *)

HeldAt(p)   == \E u \in Users : Wasm!Holds(u) /\ array[u].ptr = p
PooledAt(p) == \E k \in Wasm!Kinds : \E e \in entries[k] : e.ptr = p

LoadsOK ==
  /\ wasmModule \in 0..MaxModules /\ loading \in 0..MaxModules /\ begun \in 0..MaxModules
  /\ loads = {loading} \ {0}
  /\ wasmModule # 0 => loading = 0

(* Only the module in use has blocks. *)
MemoryOK ==
  /\ memory = [g \in 1..MaxModules |-> memory[g]]
  /\ \A g \in 1..MaxModules :
       /\ memory[g] \in Seq(Wasm!Block) /\ Len(memory[g]) <= MaxBlocks
       /\ g # wasmModule => memory[g] = <<>>

(* An entry is of a block of its kind and size, in use as long as it is held. *)
EntryOK(k, e) ==
  /\ wasmModule # 0
  /\ e \in [module : {wasmModule}, ptr : DOMAIN memory[wasmModule], size : Arrays, inUse : BOOLEAN]
  /\ e.size <= Threshold
  /\ memory[wasmModule][e.ptr].kind = k /\ memory[wasmModule][e.ptr].size = e.size
  /\ e.inUse <=> HeldAt(e.ptr)

EntriesOK ==
  /\ entries = [k \in Wasm!Kinds |-> entries[k]]
  /\ \A k \in Wasm!Kinds : \A e \in entries[k] : EntryOK(k, e)
  /\ \A k \in Wasm!Kinds : \A e, f \in entries[k] : e.ptr = f.ptr => e = f

ArrayOK(u) ==
  /\ wasmModule # 0 /\ array[u].module = wasmModule
  /\ array[u].ptr \in DOMAIN memory[wasmModule]
  /\ memory[wasmModule][array[u].ptr].header = array[u].bytes
  /\ memory[wasmModule][array[u].ptr].size >= array[u].bytes

HoldersOK ==
  /\ array \in [Users -> [module : 0..MaxModules, ptr : 0..MaxBlocks, bytes : Arrays \cup {0}]]
  /\ \A u \in Users : Wasm!Holds(u) => ArrayOK(u)
  /\ \A u, v \in Users : Wasm!Holds(u) /\ Wasm!Holds(v) /\ array[u].ptr = array[v].ptr => u = v

PinsOK ==
  wasmModule # 0 =>
    \A p \in DOMAIN memory[wasmModule] :
      memory[wasmModule][p].pinned <=> PooledAt(p) \/ HeldAt(p)

WasmInv == LoadsOK /\ MemoryOK /\ EntriesOK /\ HoldersOK /\ PinsOK

LEMMA WasmInit == Wasm!WasmInit => WasmInv
  <1> SUFFICES ASSUME Wasm!WasmInit PROVE WasmInv
    OBVIOUS
  <1>1. LoadsOK
    BY ParallelAssumption DEF LoadsOK, Wasm!WasmInit
  <1>2. MemoryOK
    <2>1. \A g \in 1..MaxModules : memory[g] = <<>>
      BY DEF Wasm!WasmInit
    <2>2. <<>> \in Seq(Wasm!Block) /\ Len(<<>>) = 0
      OBVIOUS
    <2> QED BY <2>1, <2>2, ParallelAssumption DEF MemoryOK, Wasm!WasmInit
  <1>3. EntriesOK
    BY DEF EntriesOK, Wasm!WasmInit
  <1>4. HoldersOK
    <2>1. array = [u \in Users |-> [module |-> 0, ptr |-> 0, bytes |-> 0]]
      BY DEF Wasm!WasmInit, Wasm!NoArray
    <2>2. \A u \in Users : ~Wasm!Holds(u)
      BY <2>1 DEF Wasm!Holds, Wasm!NoArray
    <2> QED BY <2>1, <2>2, ParallelAssumption DEF HoldersOK
  <1>5. PinsOK
    BY DEF PinsOK, Wasm!WasmInit
  <1> QED BY <1>1, <1>2, <1>3, <1>4, <1>5 DEF WasmInv

-----------------------------------------------------------------------------
(* What the steps of the memory keep *)

LEMMA LoadInv ==
  ASSUME WasmInv, UNCHANGED <<wasmModule, memory, entries, array>>, LoadsOK'
  PROVE  WasmInv'
  <1>1. \A p : (HeldAt(p)' <=> HeldAt(p)) /\ (PooledAt(p)' <=> PooledAt(p))
    BY DEF HeldAt, PooledAt, Wasm!Holds
  <1>2. \A k, e : EntryOK(k, e) => EntryOK(k, e)'
    BY <1>1 DEF EntryOK
  <1>3. MemoryOK' /\ EntriesOK' /\ PinsOK'
    BY <1>1, <1>2 DEF WasmInv, MemoryOK, EntriesOK, PinsOK
  <1>4. HoldersOK'
    BY DEF WasmInv, HoldersOK, ArrayOK, Wasm!Holds
  <1> QED BY <1>3, <1>4 DEF WasmInv

(* A load ends while there is no module: nothing is held or pooled.         *)
LEMMA LoadEndsInv ==
  ASSUME WasmInv, NEW g \in loads, Wasm!LoadEnds(g)
  PROVE  WasmInv'
  <1>1. g = loading /\ g # 0 /\ wasmModule = 0 /\ g \in 1..MaxModules
    BY ParallelAssumption DEF WasmInv, LoadsOK
  <1>2. wasmModule' = g /\ loading' = 0 /\ loads' = {} /\ UNCHANGED <<begun, memory, entries, array>>
    BY <1>1 DEF WasmInv, LoadsOK, Wasm!LoadEnds
  <1>3. \A h \in 1..MaxModules : memory[h] = <<>>
    BY <1>1, ParallelAssumption DEF WasmInv, MemoryOK
  <1>4. \A k \in Wasm!Kinds : entries[k] = {}
    BY <1>1 DEF WasmInv, EntriesOK, EntryOK
  <1>5. \A u \in Users : ~Wasm!Holds(u)
    BY <1>1 DEF WasmInv, HoldersOK, ArrayOK
  <1>6. LoadsOK'
    BY <1>1, <1>2, ParallelAssumption DEF WasmInv, LoadsOK
  <1>7. MemoryOK'
    BY <1>2, <1>3 DEF WasmInv, MemoryOK
  <1>8. EntriesOK'
    BY <1>2, <1>4 DEF WasmInv, EntriesOK
  <1>9. HoldersOK'
    BY <1>2, <1>5 DEF WasmInv, HoldersOK, Wasm!Holds
  <1>10. PinsOK'
    <2>1. memory'[g] = <<>>
      BY <1>1, <1>2, <1>3
    <2> QED BY <1>2, <2>1 DEF PinsOK
  <1> QED BY <1>6, <1>7, <1>8, <1>9, <1>10 DEF WasmInv

(* The module in use, and its blocks. *)
LEMMA InUse ==
  ASSUME WasmInv, wasmModule # 0
  PROVE  /\ wasmModule \in 1..MaxModules
         /\ memory[wasmModule] \in Seq(Wasm!Block)
         /\ DOMAIN memory[wasmModule] = 1..Len(memory[wasmModule])
         /\ Len(memory[wasmModule]) \in 0..MaxBlocks
  <1>1. wasmModule \in 1..MaxModules
    BY ParallelAssumption DEF WasmInv, LoadsOK
  <1>2. memory[wasmModule] \in Seq(Wasm!Block) /\ Len(memory[wasmModule]) <= MaxBlocks
    BY <1>1 DEF WasmInv, MemoryOK
  <1>3. Len(memory[wasmModule]) \in Nat /\ DOMAIN memory[wasmModule] = 1..Len(memory[wasmModule])
    BY <1>2
  <1> QED BY <1>1, <1>2, <1>3, ParallelAssumption

(* The blocks of the module in use become new. *)
LEMMA MemoryChanges ==
  ASSUME WasmInv, wasmModule # 0, NEW new \in Seq(Wasm!Block), Len(new) <= MaxBlocks,
         memory' = [memory EXCEPT ![wasmModule] = new], wasmModule' = wasmModule
  PROVE  MemoryOK' /\ memory'[wasmModule] = new
  <1>1. wasmModule \in 1..MaxModules
    BY InUse
  <1> QED BY <1>1 DEF WasmInv, MemoryOK

(* User u gets block p, which nobody held. *)
LEMMA HandsOut ==
  ASSUME WasmInv, wasmModule # 0, wasmModule' = wasmModule,
         NEW u \in Users, ~Wasm!Holds(u), NEW p \in 1..MaxBlocks, NEW bytes \in Arrays,
         Wasm!Hands(u, p, bytes), ~HeldAt(p)
  PROVE  /\ array' \in [Users -> [module : 0..MaxModules, ptr : 0..MaxBlocks, bytes : Arrays \cup {0}]]
         /\ array'[u] = [module |-> wasmModule, ptr |-> p, bytes |-> bytes]
         /\ \A v \in Users : v # u => array'[v] = array[v]
         /\ \A v \in Users : Wasm!Holds(v)' <=> v = u \/ Wasm!Holds(v)
         /\ \A q : HeldAt(q)' <=> q = p \/ HeldAt(q)
         /\ \A v, x \in Users :
              Wasm!Holds(v)' /\ Wasm!Holds(x)' /\ array'[v].ptr = array'[x].ptr => v = x
  <1> DEFINE T == [module : 0..MaxModules, ptr : 0..MaxBlocks, bytes : Arrays \cup {0}]
  <1>1. array \in [Users -> T]
    BY DEF WasmInv, HoldersOK
  <1>2. PICK a : a = [module |-> wasmModule, ptr |-> p, bytes |-> bytes]
    OBVIOUS
  <1>3. a \in T /\ a # Wasm!NoArray /\ a.ptr = p
    BY <1>2, InUse, ParallelAssumption DEF Wasm!NoArray
  <1>4. array' = [array EXCEPT ![u] = a]
    BY <1>2 DEF Wasm!Hands
  <1> HIDE DEF T
  <1>5. array' \in [Users -> T] /\ array'[u] = a
    BY <1>1, <1>3, <1>4
  <1>6. \A v \in Users : v # u => array'[v] = array[v]
    BY <1>1, <1>4
  <1>7. \A v \in Users : Wasm!Holds(v)' <=> v = u \/ Wasm!Holds(v)
    BY <1>3, <1>5, <1>6 DEF Wasm!Holds
  <1>8. \A q : HeldAt(q)' <=> q = p \/ HeldAt(q)
    BY <1>3, <1>5, <1>6, <1>7 DEF HeldAt
  <1>9. \A v, x \in Users :
          Wasm!Holds(v)' /\ Wasm!Holds(x)' /\ array'[v].ptr = array'[x].ptr => v = x
    BY <1>3, <1>5, <1>6, <1>7 DEF HeldAt, WasmInv, HoldersOK
  <1> QED BY <1>2, <1>5, <1>6, <1>7, <1>8, <1>9 DEF T

(* What the other users hold stays theirs when block p is another's. *)
LEMMA OthersHold ==
  ASSUME WasmInv, NEW u \in Users, NEW p, wasmModule' = wasmModule,
         \A v \in Users : v # u => array'[v] = array[v],
         \A q \in DOMAIN memory[wasmModule] : q # p =>
           /\ q \in DOMAIN memory'[wasmModule]
           /\ memory'[wasmModule][q] = memory[wasmModule][q],
         NEW v \in Users, v # u, Wasm!Holds(v), array[v].ptr # p
  PROVE  ArrayOK(v)'
  <1>1. ArrayOK(v)
    BY DEF WasmInv, HoldersOK
  <1> QED BY <1>1 DEF ArrayOK

-----------------------------------------------------------------------------
(* A block that is recycled for another length. *)
LEMMA Recycles ==
  ASSUME NEW old \in Seq(Wasm!Block), NEW p \in DOMAIN old, NEW bytes \in Arrays
  PROVE  LET new == Wasm!Recycled(old, p, bytes)
         IN  /\ new \in Seq(Wasm!Block) /\ DOMAIN new = DOMAIN old /\ Len(new) = Len(old)
             /\ \A q \in DOMAIN old : q # p => new[q] = old[q]
             /\ new[p].header = bytes /\ new[p].kind = old[p].kind /\ new[p].size = old[p].size
             /\ new[p].pinned = old[p].pinned
  <1>1. PICK b : b = [old[p] EXCEPT !.header = bytes]
    OBVIOUS
  <1>2. old[p] \in Wasm!Block
    OBVIOUS
  <1>3. b \in Wasm!Block /\ b.header = bytes /\ b.kind = old[p].kind /\ b.size = old[p].size
        /\ b.pinned = old[p].pinned
    BY <1>1, <1>2 DEF Wasm!Block
  <1>4. Wasm!Recycled(old, p, bytes) = [old EXCEPT ![p] = b]
    BY <1>1 DEF Wasm!Recycled
  <1> QED BY <1>3, <1>4

LEMMA RecycledInv ==
  ASSUME WasmInv, NEW u \in Users, NEW kind \in Wasm!Kinds, NEW bytes \in Arrays,
         Wasm!AllocateRecycled(u, kind, bytes)
  PROVE  WasmInv'
  <1> DEFINE old == memory[wasmModule]
  <1>0. wasmModule # 0 /\ ~Wasm!Holds(u)
        /\ wasmModule' = wasmModule /\ UNCHANGED <<loading, loads, begun>>
    BY DEF Wasm!AllocateRecycled
  <1>1. PICK e \in Wasm!Fits(kind, bytes) :
          /\ entries' = [entries EXCEPT ![kind] = (@ \ {e}) \cup {[e EXCEPT !.inUse = TRUE]}]
          /\ memory' = [memory EXCEPT ![wasmModule] = Wasm!Recycled(@, e.ptr, bytes)]
          /\ Wasm!Hands(u, e.ptr, bytes)
    BY DEF Wasm!AllocateRecycled
  <1>2. e \in entries[kind] /\ ~e.inUse /\ e.size >= bytes
    BY <1>1 DEF Wasm!Fits
  <1>3. EntryOK(kind, e)
    BY <1>2 DEF WasmInv, EntriesOK
  <1>4. PICK p : p = e.ptr
    OBVIOUS
  <1>5. /\ old \in Seq(Wasm!Block) /\ DOMAIN old = 1..Len(old) /\ Len(old) <= MaxBlocks
        /\ wasmModule \in 1..MaxModules
    BY <1>0, InUse
  <1>6. p \in DOMAIN old /\ p \in 1..MaxBlocks /\ ~HeldAt(p)
        /\ old[p].kind = kind /\ old[p].size = e.size /\ old[p].size >= bytes
    <2>1. p \in DOMAIN old /\ ~HeldAt(p) /\ old[p].kind = kind /\ old[p].size = e.size
      BY <1>2, <1>3, <1>4 DEF EntryOK
    <2>2. p \in 1..MaxBlocks
      BY <2>1, <1>5, ParallelAssumption
    <2> QED BY <1>2, <2>1, <2>2
  <1>7. PICK new : new = Wasm!Recycled(old, p, bytes)
    OBVIOUS
  <1>8. /\ new \in Seq(Wasm!Block) /\ DOMAIN new = DOMAIN old /\ Len(new) = Len(old)
        /\ \A q \in DOMAIN old : q # p => new[q] = old[q]
        /\ new[p].header = bytes /\ new[p].kind = old[p].kind /\ new[p].size = old[p].size
        /\ new[p].pinned = old[p].pinned
    <2> HIDE DEF old
    <2> QED BY <1>5, <1>6, <1>7, Recycles
  <1>9. memory' = [memory EXCEPT ![wasmModule] = new]
    BY <1>1, <1>4, <1>7
  <1>10. MemoryOK' /\ memory'[wasmModule] = new
    BY <1>0, <1>5, <1>8, <1>9, MemoryChanges
  <1>11. /\ array' \in [Users -> [module : 0..MaxModules, ptr : 0..MaxBlocks, bytes : Arrays \cup {0}]]
         /\ array'[u] = [module |-> wasmModule, ptr |-> p, bytes |-> bytes]
         /\ \A v \in Users : v # u => array'[v] = array[v]
         /\ \A v \in Users : Wasm!Holds(v)' <=> v = u \/ Wasm!Holds(v)
         /\ \A q : HeldAt(q)' <=> q = p \/ HeldAt(q)
         /\ \A v, x \in Users :
              Wasm!Holds(v)' /\ Wasm!Holds(x)' /\ array'[v].ptr = array'[x].ptr => v = x
    BY <1>0, <1>1, <1>4, <1>6, HandsOut
  <1>12. PICK f : f = [e EXCEPT !.inUse = TRUE]
    OBVIOUS
  <1>13. f = [module |-> wasmModule, ptr |-> p, size |-> e.size, inUse |-> TRUE]
    BY <1>3, <1>4, <1>12 DEF EntryOK
  <1>14. /\ entries' = [k \in Wasm!Kinds |-> entries'[k]]
         /\ entries'[kind] = (entries[kind] \ {e}) \cup {f}
         /\ \A k \in Wasm!Kinds : k # kind => entries'[k] = entries[k]
    BY <1>1, <1>12 DEF WasmInv, EntriesOK
  <1>15. \A q : PooledAt(q)' <=> PooledAt(q)
    BY <1>2, <1>4, <1>13, <1>14 DEF PooledAt
  <1>16. HoldersOK'
    <2>1. ArrayOK(u)'
      BY <1>0, <1>6, <1>8, <1>10, <1>11 DEF ArrayOK
    <2>2. ASSUME NEW v \in Users, v # u, Wasm!Holds(v) PROVE ArrayOK(v)'
      <3>1. array[v].ptr # p
        BY <1>6, <2>2 DEF HeldAt
      <3>2. \A q \in DOMAIN memory[wasmModule] : q # p =>
              q \in DOMAIN memory'[wasmModule] /\ memory'[wasmModule][q] = memory[wasmModule][q]
        BY <1>8, <1>10
      <3> QED BY <1>0, <1>11, <2>2, <3>1, <3>2, OthersHold
    <2> QED BY <1>11, <2>1, <2>2 DEF HoldersOK
  <1>17. EntriesOK'
    <2>1. ASSUME NEW k \in Wasm!Kinds, NEW x \in entries[k], x # e PROVE EntryOK(k, x)' /\ x.ptr # p
      <3>1. EntryOK(k, x)
        BY DEF WasmInv, EntriesOK
      <3>2. x.ptr # p
        <4>1. CASE k = kind
          BY <1>2, <1>4, <2>1, <4>1 DEF WasmInv, EntriesOK
        <4>2. CASE k # kind
          BY <1>6, <3>1, <4>2 DEF EntryOK
        <4> QED BY <4>1, <4>2
      <3>3. HeldAt(x.ptr)' <=> HeldAt(x.ptr)
        BY <1>11, <3>2
      <3> QED BY <1>0, <1>8, <1>10, <3>1, <3>2, <3>3 DEF EntryOK
    <2>2. EntryOK(kind, f)' /\ f.ptr = p
      <3>1. HeldAt(p)'
        BY <1>11
      <3>2. e.size \in Arrays /\ e.size <= Threshold
        BY <1>3 DEF EntryOK
      <3> QED BY <1>0, <1>6, <1>8, <1>10, <1>13, <3>1, <3>2 DEF EntryOK
    <2>3. ASSUME NEW k \in Wasm!Kinds, NEW x \in entries'[k], NEW y \in entries'[k], x.ptr = y.ptr
          PROVE  x = y
      BY <1>14, <2>1, <2>2, <2>3 DEF WasmInv, EntriesOK
    <2>4. \A k \in Wasm!Kinds : k # kind => e \notin entries[k]
      BY <1>6, <1>4 DEF WasmInv, EntriesOK, EntryOK
    <2>5. ASSUME NEW k \in Wasm!Kinds, NEW x \in entries'[k] PROVE EntryOK(k, x)'
      BY <1>14, <2>1, <2>2, <2>4
    <2> QED BY <1>14, <2>3, <2>5 DEF EntriesOK
  <1>18. PinsOK'
    <2>1. PooledAt(p)
      BY <1>2, <1>4 DEF PooledAt
    <2>2. \A q \in DOMAIN old : old[q].pinned <=> PooledAt(q) \/ HeldAt(q)
      BY <1>0 DEF WasmInv, PinsOK
    <2>3. ASSUME NEW q \in DOMAIN new PROVE new[q].pinned <=> PooledAt(q)' \/ HeldAt(q)'
      BY <1>8, <1>11, <1>15, <2>1, <2>2
    <2> QED BY <1>0, <1>10, <2>3 DEF PinsOK
  <1>19. LoadsOK'
    BY <1>0 DEF WasmInv, LoadsOK
  <1> QED BY <1>10, <1>16, <1>17, <1>18, <1>19 DEF WasmInv

(* An entry of another block is as it was. *)
LEMMA EntryKept ==
  ASSUME WasmInv, NEW k \in Wasm!Kinds, NEW e \in entries[k], wasmModule' = wasmModule,
         e.ptr \in DOMAIN memory'[wasmModule],
         memory'[wasmModule][e.ptr].kind = memory[wasmModule][e.ptr].kind,
         memory'[wasmModule][e.ptr].size = memory[wasmModule][e.ptr].size,
         HeldAt(e.ptr)' <=> HeldAt(e.ptr)
  PROVE  EntryOK(k, e)'
  <1>1. EntryOK(k, e)
    BY DEF WasmInv, EntriesOK
  <1> QED BY <1>1 DEF EntryOK

LEMMA NewInv ==
  ASSUME WasmInv, NEW u \in Users, NEW kind \in Wasm!Kinds, NEW bytes \in Arrays,
         Wasm!AllocateNew(u, kind, bytes)
  PROVE  WasmInv'
  <1> DEFINE old == memory[wasmModule]
  <1>0. wasmModule # 0 /\ ~Wasm!Holds(u) /\ Len(old) < MaxBlocks
        /\ wasmModule' = wasmModule /\ UNCHANGED <<loading, loads, begun>>
    BY DEF Wasm!AllocateNew
  <1>1. /\ old \in Seq(Wasm!Block) /\ DOMAIN old = 1..Len(old) /\ Len(old) \in 0..MaxBlocks
        /\ wasmModule \in 1..MaxModules
    BY <1>0, InUse
  <1>2. PICK p : p = Len(old) + 1
    OBVIOUS
  <1>3. PICK b : b = [kind |-> kind, size |-> bytes, header |-> bytes, pinned |-> TRUE]
    OBVIOUS
  <1>4. PICK new : new = Append(old, b)
    OBVIOUS
  <1>5. PICK f : f = [module |-> wasmModule, ptr |-> p, size |-> bytes, inUse |-> TRUE]
    OBVIOUS
  <1>6. /\ memory' = [memory EXCEPT ![wasmModule] = new]
        /\ entries' = IF bytes > Threshold THEN entries
                      ELSE [entries EXCEPT ![kind] = @ \cup {f}]
        /\ Wasm!Hands(u, p, bytes)
    BY <1>2, <1>3, <1>4, <1>5 DEF Wasm!AllocateNew
  <1>7. /\ new \in Seq(Wasm!Block) /\ Len(new) = p /\ DOMAIN new = DOMAIN old \cup {p}
        /\ \A q \in DOMAIN old : new[q] = old[q]
        /\ new[p] = b
    <2>1. b \in Wasm!Block
      BY <1>3 DEF Wasm!Block
    <2> HIDE DEF old
    <2> QED BY <1>1, <1>2, <1>4, <2>1
  <1>8. p \in 1..MaxBlocks /\ p \notin DOMAIN old
    BY <1>0, <1>1, <1>2, ParallelAssumption
  <1>9. ~HeldAt(p)
    BY <1>8 DEF HeldAt, WasmInv, HoldersOK, ArrayOK
  <1>10. \A k \in Wasm!Kinds : \A x \in entries[k] : x.ptr \in DOMAIN old /\ x.ptr # p
    BY <1>8 DEF WasmInv, EntriesOK, EntryOK
  <1>11. MemoryOK' /\ memory'[wasmModule] = new
    <2>1. Len(new) <= MaxBlocks
      BY <1>7, <1>8, ParallelAssumption
    <2> HIDE DEF old
    <2> QED BY <1>0, <1>6, <1>7, <2>1, MemoryChanges
  <1>12. /\ array' \in [Users -> [module : 0..MaxModules, ptr : 0..MaxBlocks, bytes : Arrays \cup {0}]]
         /\ array'[u] = [module |-> wasmModule, ptr |-> p, bytes |-> bytes]
         /\ \A v \in Users : v # u => array'[v] = array[v]
         /\ \A v \in Users : Wasm!Holds(v)' <=> v = u \/ Wasm!Holds(v)
         /\ \A q : HeldAt(q)' <=> q = p \/ HeldAt(q)
         /\ \A v, x \in Users :
              Wasm!Holds(v)' /\ Wasm!Holds(x)' /\ array'[v].ptr = array'[x].ptr => v = x
    BY <1>0, <1>6, <1>8, <1>9, HandsOut
  <1>13. HoldersOK'
    <2>1. p \in DOMAIN new /\ new[p].header = bytes /\ new[p].size >= bytes
      BY <1>3, <1>7, ParallelAssumption
    <2>2. ArrayOK(u)'
      BY <1>0, <1>11, <1>12, <2>1 DEF ArrayOK
    <2>3. ASSUME NEW v \in Users, v # u, Wasm!Holds(v) PROVE ArrayOK(v)'
      <3>1. array[v].ptr # p
        BY <1>9, <2>3 DEF HeldAt
      <3>2. \A q \in DOMAIN memory[wasmModule] : q # p =>
              q \in DOMAIN memory'[wasmModule] /\ memory'[wasmModule][q] = memory[wasmModule][q]
        BY <1>7, <1>11
      <3> QED BY <1>0, <1>12, <2>3, <3>1, <3>2, OthersHold
    <2> QED BY <1>12, <2>2, <2>3 DEF HoldersOK
  <1>14. \A k \in Wasm!Kinds : \A x \in entries[k] : EntryOK(k, x)'
    <2> SUFFICES ASSUME NEW k \in Wasm!Kinds, NEW x \in entries[k] PROVE EntryOK(k, x)'
      OBVIOUS
    <2>1. memory'[wasmModule][x.ptr] = memory[wasmModule][x.ptr] /\ x.ptr \in DOMAIN memory'[wasmModule]
      BY <1>7, <1>10, <1>11
    <2>2. HeldAt(x.ptr)' <=> HeldAt(x.ptr)
      BY <1>10, <1>12
    <2> QED BY <1>0, <2>1, <2>2, EntryKept
  <1>15. EntriesOK' /\ \A q \in DOMAIN old : PooledAt(q)' <=> PooledAt(q)
    <2>1. CASE bytes > Threshold
      BY <1>6, <1>14, <2>1 DEF WasmInv, EntriesOK, PooledAt
    <2>2. CASE ~(bytes > Threshold)
      <3>1. /\ entries' = [k \in Wasm!Kinds |-> entries'[k]]
            /\ entries'[kind] = entries[kind] \cup {f}
            /\ \A k \in Wasm!Kinds : k # kind => entries'[k] = entries[k]
        BY <1>6, <2>2 DEF WasmInv, EntriesOK
      <3>2. EntryOK(kind, f)'
        <4>1. HeldAt(p)'
          BY <1>12
        <4>2. bytes <= Threshold
          BY <2>2, ParallelAssumption
        <4> QED BY <1>0, <1>3, <1>5, <1>7, <1>11, <4>1, <4>2 DEF EntryOK
      <3>3. ASSUME NEW k \in Wasm!Kinds, NEW x \in entries'[k], NEW y \in entries'[k], x.ptr = y.ptr
            PROVE  x = y
        <4>1. \A z, w \in entries[k] : z.ptr = w.ptr => z = w
          BY DEF WasmInv, EntriesOK
        <4>2. f.ptr = p
          BY <1>5
        <4>3. CASE k = kind
          BY <1>10, <3>1, <3>3, <4>1, <4>2, <4>3
        <4>4. CASE k # kind
          BY <3>1, <3>3, <4>1, <4>4
        <4> QED BY <4>3, <4>4
      <3>4. \A q \in DOMAIN old : PooledAt(q)' <=> PooledAt(q)
        BY <1>5, <1>8, <3>1 DEF PooledAt
      <3>5. \A k \in Wasm!Kinds : \A x \in entries'[k] : EntryOK(k, x)'
        BY <1>14, <3>1, <3>2
      <3> QED BY <3>1, <3>3, <3>4, <3>5 DEF EntriesOK
    <2> QED BY <2>1, <2>2
  <1>16. PinsOK'
    <2>1. \A q \in DOMAIN old : old[q].pinned <=> PooledAt(q) \/ HeldAt(q)
      BY <1>0 DEF WasmInv, PinsOK
    <2>2. ASSUME NEW q \in DOMAIN new PROVE new[q].pinned <=> PooledAt(q)' \/ HeldAt(q)'
      <3>1. CASE q = p
        BY <1>3, <1>7, <1>12, <3>1
      <3>2. CASE q # p
        BY <1>7, <1>12, <1>15, <2>1, <3>2
      <3> QED BY <3>1, <3>2
    <2> QED BY <1>0, <1>11, <2>2 DEF PinsOK
  <1>17. LoadsOK'
    BY <1>0 DEF WasmInv, LoadsOK
  <1> QED BY <1>11, <1>13, <1>15, <1>16, <1>17 DEF WasmInv

(* A block that is unpinned. *)
LEMMA Unpins ==
  ASSUME NEW old \in Seq(Wasm!Block), NEW S
  PROVE  /\ Wasm!Unpinned(old, S) \in Seq(Wasm!Block)
         /\ Len(Wasm!Unpinned(old, S)) = Len(old)
         /\ DOMAIN Wasm!Unpinned(old, S) = DOMAIN old
         /\ \A q \in DOMAIN old :
              /\ q \notin S => Wasm!Unpinned(old, S)[q] = old[q]
              /\ Wasm!Unpinned(old, S)[q].kind = old[q].kind
              /\ Wasm!Unpinned(old, S)[q].size = old[q].size
              /\ Wasm!Unpinned(old, S)[q].header = old[q].header
              /\ q \in S => Wasm!Unpinned(old, S)[q].pinned = FALSE
  <1>1. PICK new : new = Wasm!Unpinned(old, S)
    OBVIOUS
  <1>2. new = [i \in DOMAIN old |-> IF i \in S THEN [old[i] EXCEPT !.pinned = FALSE] ELSE old[i]]
    BY <1>1 DEF Wasm!Unpinned
  <1>3. ASSUME NEW q \in DOMAIN old
        PROVE  /\ new[q] \in Wasm!Block
               /\ q \notin S => new[q] = old[q]
               /\ new[q].kind = old[q].kind /\ new[q].size = old[q].size
               /\ new[q].header = old[q].header
               /\ q \in S => new[q].pinned = FALSE
    <2>1. old[q] \in Wasm!Block
      OBVIOUS
    <2>2. CASE q \in S
      <3>1. PICK b : b = [old[q] EXCEPT !.pinned = FALSE]
        OBVIOUS
      <3>2. b \in Wasm!Block /\ b.kind = old[q].kind /\ b.size = old[q].size
            /\ b.header = old[q].header /\ b.pinned = FALSE
        BY <2>1, <3>1 DEF Wasm!Block
      <3>3. new[q] = b
        BY <1>2, <2>2, <3>1
      <3> QED BY <2>2, <3>2, <3>3
    <2>3. CASE q \notin S
      BY <1>2, <2>1, <2>3
    <2> QED BY <2>2, <2>3
  <1>4. DOMAIN new = DOMAIN old /\ DOMAIN old = 1..Len(old) /\ Len(old) \in Nat
    BY <1>2
  <1>5. new = [i \in 1..Len(old) |-> new[i]]
    BY <1>2, <1>4
  <1>6. new \in [1..Len(old) -> Wasm!Block]
    BY <1>3, <1>4, <1>5
  <1>7. new \in Seq(Wasm!Block) /\ Len(new) = Len(old)
    BY <1>4, <1>6
  <1> QED BY <1>1, <1>3, <1>4, <1>7

-----------------------------------------------------------------------------
LEMMA ReleaseInv ==
  ASSUME WasmInv, NEW u \in Users, Wasm!Release(u)
  PROVE  WasmInv'
  <1> DEFINE old == memory[wasmModule]
  <1>0. /\ Wasm!Holds(u) /\ array' = [array EXCEPT ![u] = Wasm!NoArray]
        /\ wasmModule' = wasmModule /\ UNCHANGED <<loading, loads, begun>>
    BY DEF Wasm!Release
  <1>1. ArrayOK(u) /\ wasmModule # 0
    BY <1>0 DEF WasmInv, HoldersOK, ArrayOK
  <1>2. /\ old \in Seq(Wasm!Block) /\ DOMAIN old = 1..Len(old) /\ Len(old) <= MaxBlocks
        /\ wasmModule \in 1..MaxModules
    BY <1>1, InUse
  <1>3. PICK p : p = array[u].ptr
    OBVIOUS
  <1>4. p \in DOMAIN old /\ HeldAt(p)
    BY <1>0, <1>1, <1>3 DEF ArrayOK, HeldAt
  <1> DEFINE T == [module : 0..MaxModules, ptr : 0..MaxBlocks, bytes : Arrays \cup {0}]
  <1>5. array \in [Users -> T]
    BY DEF WasmInv, HoldersOK
  <1>6. Wasm!NoArray \in T
    BY ParallelAssumption DEF Wasm!NoArray
  <1> HIDE DEF T
  <1>7. array' \in [Users -> T] /\ array'[u] = Wasm!NoArray
        /\ \A v \in Users : v # u => array'[v] = array[v]
    BY <1>0, <1>5, <1>6
  <1>8. \A v \in Users : Wasm!Holds(v)' <=> v # u /\ Wasm!Holds(v)
    BY <1>7 DEF Wasm!Holds
  <1>9. \A q : HeldAt(q)' <=> q # p /\ HeldAt(q)
    BY <1>0, <1>3, <1>7, <1>8 DEF HeldAt, WasmInv, HoldersOK
  <1>10. ASSUME NEW new \in Seq(Wasm!Block), Len(new) = Len(old), DOMAIN new = DOMAIN old,
                memory' = [memory EXCEPT ![wasmModule] = new],
                \A q \in DOMAIN old : q # p => new[q] = old[q]
         PROVE  MemoryOK' /\ memory'[wasmModule] = new /\ HoldersOK'
    <2>1. Len(new) <= MaxBlocks
      BY <1>2, <1>10
    <2>2. MemoryOK' /\ memory'[wasmModule] = new
      BY <1>0, <1>1, <1>10, <2>1, MemoryChanges
    <2>3. ASSUME NEW v \in Users, v # u, Wasm!Holds(v) PROVE ArrayOK(v)'
      <3>1. array[v].ptr # p
        BY <1>0, <1>3, <2>3 DEF WasmInv, HoldersOK
      <3>2. \A q \in DOMAIN memory[wasmModule] : q # p =>
              q \in DOMAIN memory'[wasmModule] /\ memory'[wasmModule][q] = memory[wasmModule][q]
        BY <1>10, <2>2
      <3> QED BY <1>0, <1>7, <2>3, <3>1, <3>2, OthersHold
    <2>4. \A v, x \in Users :
            Wasm!Holds(v)' /\ Wasm!Holds(x)' /\ array'[v].ptr = array'[x].ptr => v = x
      BY <1>7, <1>8 DEF WasmInv, HoldersOK
    <2> QED BY <1>7, <1>8, <2>2, <2>3, <2>4 DEF HoldersOK, T
  <1>11. LoadsOK'
    BY <1>0 DEF WasmInv, LoadsOK
  <1>12. \A q \in DOMAIN old : old[q].pinned <=> PooledAt(q) \/ HeldAt(q)
    BY <1>1 DEF WasmInv, PinsOK
  <1>13. PooledAt(p) <=> Wasm!EntriesAt(p) # {}
    BY DEF PooledAt, Wasm!EntriesAt
  <1>14. CASE PooledAt(p)
    <2>1. /\ entries' = [k \in Wasm!Kinds |->
                {IF e.ptr = p THEN [e EXCEPT !.inUse = FALSE] ELSE e : e \in entries[k]}]
          /\ memory' = memory
      BY <1>3, <1>13, <1>14 DEF Wasm!Release
    <2>2. memory' = [memory EXCEPT ![wasmModule] = old]
      BY <2>1 DEF WasmInv, MemoryOK
    <2>3. MemoryOK' /\ memory'[wasmModule] = old /\ HoldersOK'
      BY <1>2, <1>10, <2>2
    <2>4. ASSUME NEW k \in Wasm!Kinds, NEW e \in entries[k], e.ptr # p
          PROVE  EntryOK(k, e)'
      <3>1. EntryOK(k, e)
        BY DEF WasmInv, EntriesOK
      <3>2. HeldAt(e.ptr)' <=> HeldAt(e.ptr)
        BY <1>9, <2>4
      <3> QED BY <1>0, <2>1, <3>1, <3>2 DEF EntryOK
    <2>5. ASSUME NEW k \in Wasm!Kinds, NEW e \in entries[k], e.ptr = p
          PROVE  EntryOK(k, [e EXCEPT !.inUse = FALSE])' /\ [e EXCEPT !.inUse = FALSE].ptr = p
      <3>1. EntryOK(k, e)
        BY DEF WasmInv, EntriesOK
      <3>2. PICK f : f = [e EXCEPT !.inUse = FALSE]
        OBVIOUS
      <3>3. f = [module |-> wasmModule, ptr |-> p, size |-> e.size, inUse |-> FALSE]
        BY <2>5, <3>1, <3>2 DEF EntryOK
      <3>4. EntryOK(k, f)'
        BY <1>0, <1>9, <2>1, <2>5, <3>1, <3>3 DEF EntryOK
      <3> QED BY <3>2, <3>3, <3>4
    <2>6. \A q : PooledAt(q)' <=> PooledAt(q)
      <3> DEFINE Now(e) == IF e.ptr = p THEN [e EXCEPT !.inUse = FALSE] ELSE e
      <3>1. \A k \in Wasm!Kinds : \A e \in entries[k] : Now(e).ptr = e.ptr
        BY <2>5
      <3>2. \A k \in Wasm!Kinds : entries'[k] = {Now(e) : e \in entries[k]}
        BY <2>1
      <3> HIDE DEF Now
      <3> QED BY <3>1, <3>2 DEF PooledAt
    <2>7. EntriesOK'
      <3>1. \A k \in Wasm!Kinds : \A x \in entries'[k] : EntryOK(k, x)'
        BY <2>1, <2>4, <2>5
      <3>2. ASSUME NEW k \in Wasm!Kinds, NEW x \in entries'[k], NEW y \in entries'[k], x.ptr = y.ptr
            PROVE  x = y
        <4>1. PICK e \in entries[k] : x = IF e.ptr = p THEN [e EXCEPT !.inUse = FALSE] ELSE e
          BY <2>1
        <4>2. PICK d \in entries[k] : y = IF d.ptr = p THEN [d EXCEPT !.inUse = FALSE] ELSE d
          BY <2>1
        <4>3. x.ptr = e.ptr /\ y.ptr = d.ptr
          BY <2>5, <4>1, <4>2
        <4>4. e = d
          BY <3>2, <4>3 DEF WasmInv, EntriesOK
        <4> QED BY <4>1, <4>2, <4>4
      <3> QED BY <2>1, <3>1, <3>2 DEF EntriesOK
    <2>8. PinsOK'
      BY <1>0, <1>9, <1>12, <1>14, <2>3, <2>6 DEF PinsOK
    <2> QED BY <1>11, <2>3, <2>7, <2>8 DEF WasmInv
  <1>15. CASE ~PooledAt(p)
    <2>0. PICK S : S = {p}
      OBVIOUS
    <2>1. PICK new : new = Wasm!Unpinned(old, S)
      OBVIOUS
    <2>2. memory' = [memory EXCEPT ![wasmModule] = new] /\ entries' = entries
      BY <1>1, <1>3, <1>13, <1>15, <2>0, <2>1 DEF Wasm!Release
    <2>3. /\ new \in Seq(Wasm!Block) /\ Len(new) = Len(old) /\ DOMAIN new = DOMAIN old
          /\ \A q \in DOMAIN old : q # p => new[q] = old[q]
          /\ \A q \in DOMAIN old : new[q].kind = old[q].kind /\ new[q].size = old[q].size
          /\ new[p].pinned = FALSE
      <3>1. /\ new \in Seq(Wasm!Block) /\ Len(new) = Len(old) /\ DOMAIN new = DOMAIN old
            /\ \A q \in DOMAIN old :
                 /\ q \notin S => new[q] = old[q]
                 /\ new[q].kind = old[q].kind /\ new[q].size = old[q].size
                 /\ q \in S => new[q].pinned = FALSE
        BY <1>2, <2>1, Unpins
      <3> QED BY <1>4, <2>0, <3>1
    <2>4. MemoryOK' /\ memory'[wasmModule] = new /\ HoldersOK'
      BY <1>10, <2>2, <2>3
    <2>5. EntriesOK' /\ \A q : PooledAt(q)' <=> PooledAt(q)
      <3>1. ASSUME NEW k \in Wasm!Kinds, NEW e \in entries[k] PROVE EntryOK(k, e)'
        <4>1. EntryOK(k, e)
          BY DEF WasmInv, EntriesOK
        <4>2. e.ptr # p /\ e.ptr \in DOMAIN old
          BY <1>15, <4>1 DEF PooledAt, EntryOK
        <4>3. HeldAt(e.ptr)' <=> HeldAt(e.ptr)
          BY <1>9, <4>2
        <4>4. memory'[wasmModule][e.ptr] = memory[wasmModule][e.ptr] /\ e.ptr \in DOMAIN memory'[wasmModule]
          BY <2>3, <2>4, <4>2
        <4> QED BY <1>0, <4>3, <4>4, EntryKept
      <3>2. \A q : PooledAt(q)' <=> PooledAt(q)
        BY <2>2 DEF PooledAt
      <3> QED BY <2>2, <3>1, <3>2 DEF WasmInv, EntriesOK
    <2>6. PinsOK'
      <3> SUFFICES ASSUME NEW q \in DOMAIN new PROVE new[q].pinned <=> PooledAt(q)' \/ HeldAt(q)'
        BY <1>0, <2>4 DEF PinsOK
      <3>1. CASE q = p
        BY <1>9, <1>15, <2>3, <2>5, <3>1
      <3>2. CASE q # p
        BY <1>9, <1>12, <2>3, <2>5, <3>2
      <3> QED BY <3>1, <3>2
    <2> QED BY <1>11, <2>4, <2>5, <2>6 DEF WasmInv
  <1> QED BY <1>14, <1>15

LEMMA ClearInv ==
  ASSUME WasmInv, Wasm!ClearPool
  PROVE  WasmInv'
  <1> DEFINE old == memory[wasmModule]
  <1>0. wasmModule # 0 /\ wasmModule' = wasmModule /\ UNCHANGED <<loading, loads, begun, array>>
    BY DEF Wasm!ClearPool
  <1>1. PICK S : S = {e.ptr : e \in Wasm!Released}
    OBVIOUS
  <1>2. PICK new : new = Wasm!Unpinned(old, S)
    OBVIOUS
  <1>3. /\ memory' = [memory EXCEPT ![wasmModule] = new]
        /\ entries' = [k \in Wasm!Kinds |-> {}]
    BY <1>1, <1>2 DEF Wasm!ClearPool
  <1>4. /\ old \in Seq(Wasm!Block) /\ Len(old) <= MaxBlocks
        /\ wasmModule \in 1..MaxModules
    BY <1>0, InUse
  <1>5. /\ new \in Seq(Wasm!Block) /\ Len(new) = Len(old) /\ DOMAIN new = DOMAIN old
        /\ \A q \in DOMAIN old :
             /\ q \notin S => new[q] = old[q]
             /\ new[q].size = old[q].size /\ new[q].header = old[q].header
             /\ q \in S => new[q].pinned = FALSE
    BY <1>2, <1>4, Unpins
  <1>6. MemoryOK' /\ memory'[wasmModule] = new
    <2>1. Len(new) <= MaxBlocks
      BY <1>4, <1>5
    <2> HIDE DEF old
    <2> QED BY <1>0, <1>3, <1>5, <2>1, MemoryChanges
  <1>7. EntriesOK' /\ \A q : ~PooledAt(q)'
    BY <1>3 DEF EntriesOK, PooledAt
  <1>8. \A q : HeldAt(q)' <=> HeldAt(q)
    BY <1>0 DEF HeldAt, Wasm!Holds
  <1>9. HoldersOK'
    <2>1. \A u \in Users : ArrayOK(u) => ArrayOK(u)'
      BY <1>0, <1>5, <1>6 DEF ArrayOK
    <2> QED BY <1>0, <2>1 DEF WasmInv, HoldersOK, Wasm!Holds
  <1>10. PinsOK'
    <2> SUFFICES ASSUME NEW q \in DOMAIN old PROVE new[q].pinned <=> HeldAt(q)
      BY <1>0, <1>5, <1>6, <1>7, <1>8 DEF PinsOK
    <2>1. old[q].pinned <=> PooledAt(q) \/ HeldAt(q)
      BY <1>0 DEF WasmInv, PinsOK
    <2>2. CASE q \in S
      <3>1. PICK k \in Wasm!Kinds : \E e \in entries[k] : e.ptr = q /\ ~e.inUse
        BY <1>1, <2>2 DEF Wasm!Released
      <3>2. ~HeldAt(q)
        BY <3>1 DEF WasmInv, EntriesOK, EntryOK
      <3> QED BY <1>5, <2>2, <3>2
    <2>3. CASE q \notin S
      <3>1. PooledAt(q) => HeldAt(q)
        BY <1>1, <2>3 DEF PooledAt, Wasm!Released, WasmInv, EntriesOK, EntryOK
      <3> QED BY <1>5, <2>1, <2>3, <3>1
    <2> QED BY <2>2, <2>3
  <1>11. LoadsOK'
    BY <1>0 DEF WasmInv, LoadsOK
  <1> QED BY <1>6, <1>7, <1>9, <1>10, <1>11 DEF WasmInv

(* reset() when nothing is loading or in use. *)
LEMMA ResetInv ==
  ASSUME WasmInv, Wasm!Reset, EarlyResets = FALSE
  PROVE  WasmInv'
  <1>1. loads = {} /\ (\A u \in Users : ~Wasm!Holds(u)) /\ wasmModule' = 0 /\ loading' = 0
        /\ UNCHANGED <<loads, begun, array>>
    BY DEF Wasm!Reset
  <1>2. LoadsOK'
    BY <1>1, ParallelAssumption DEF WasmInv, LoadsOK
  <1>3. HoldersOK'
    BY <1>1 DEF WasmInv, HoldersOK, Wasm!Holds
  <1>4. PinsOK'
    BY <1>1 DEF PinsOK
  <1>5. MemoryOK' /\ EntriesOK'
    <2>1. CASE wasmModule = 0
      <3>1. UNCHANGED <<memory, entries>>
        BY <2>1 DEF Wasm!Reset
      <3>2. \A k \in Wasm!Kinds : entries[k] = {}
        BY <2>1 DEF WasmInv, EntriesOK, EntryOK
      <3> QED BY <1>1, <2>1, <3>1, <3>2 DEF WasmInv, MemoryOK, EntriesOK
    <2>2. CASE wasmModule # 0
      <3>1. memory' = [memory EXCEPT ![wasmModule] = <<>>] /\ entries' = [k \in Wasm!Kinds |-> {}]
        BY <1>1, <2>2 DEF Wasm!Reset
      <3>2. <<>> \in Seq(Wasm!Block) /\ Len(<<>>) <= MaxBlocks
        BY ParallelAssumption
      <3>3. wasmModule \in 1..MaxModules
        BY <2>2, InUse
      <3>4. MemoryOK'
        BY <1>1, <3>1, <3>2, <3>3 DEF WasmInv, MemoryOK
      <3> QED BY <3>1, <3>4 DEF EntriesOK
    <2> QED BY <2>1, <2>2
  <1> QED BY <1>2, <1>3, <1>4, <1>5 DEF WasmInv

LEMMA WasmStep ==
  ASSUME WasmInv, [Wasm!WasmNext]_wasmVars, EarlyResets = FALSE
  PROVE  WasmInv'
  <1>1. CASE UNCHANGED wasmVars
    BY <1>1, LoadInv DEF wasmVars, WasmInv, LoadsOK
  <1>2. CASE Wasm!Load
    <2>1. LoadsOK'
      <3>1. loads = {} /\ begun \in 0..MaxModules /\ begun < MaxModules
        BY <1>2 DEF Wasm!Load, WasmInv, LoadsOK
      <3>2. PICK g \in 1..MaxModules : g = begun + 1
        BY <3>1, ParallelAssumption
      <3>3. begun' = g /\ loading' = g /\ loads' = {g} /\ wasmModule' = 0
        BY <1>2, <3>1, <3>2 DEF Wasm!Load
      <3>4. g # 0 /\ g \in 0..MaxModules /\ 0 \in 0..MaxModules
        BY <3>2, ParallelAssumption
      <3> QED BY <3>3, <3>4 DEF LoadsOK
    <2> QED BY <1>2, <2>1, LoadInv DEF Wasm!Load
  <1>3. ASSUME NEW g \in loads, Wasm!LoadEnds(g) PROVE WasmInv'
    BY <1>3, LoadEndsInv
  <1>4. ASSUME NEW g \in loads, Wasm!LoadFails(g) PROVE WasmInv'
    <2>1. LoadsOK'
      BY <1>4, ParallelAssumption DEF Wasm!LoadFails, WasmInv, LoadsOK
    <2> QED BY <1>4, <2>1, LoadInv DEF Wasm!LoadFails
  <1>5. CASE Wasm!ClearPool
    BY <1>5, ClearInv
  <1>6. CASE Wasm!Reset
    BY <1>6, ResetInv
  <1>7. ASSUME NEW u \in Users, Wasm!Release(u) PROVE WasmInv'
    BY <1>7, ReleaseInv
  <1>8. ASSUME NEW u \in Users, NEW kind \in Wasm!Kinds, NEW bytes \in Arrays,
               Wasm!AllocateRecycled(u, kind, bytes) \/ Wasm!AllocateNew(u, kind, bytes)
        PROVE  WasmInv'
    BY <1>8, RecycledInv, NewInv
  <1> QED BY <1>1, <1>2, <1>3, <1>4, <1>5, <1>6, <1>7, <1>8 DEF Wasm!WasmNext

-----------------------------------------------------------------------------
(* What the invariant says *)

LEMMA AtMostOne ==
  ASSUME NEW S, \A x, y \in S : x = y
  PROVE  Cardinality(S) <= 1
  <1>1. CASE S = {}
    BY <1>1, FS_EmptySet
  <1>2. CASE S # {}
    <2>1. PICK x : S = {x}
      BY <1>2
    <2> QED BY <2>1, FS_Singleton
  <1> QED BY <1>1, <1>2

LEMMA SameCardinality == \A S : Wasm!Cardinality(S) = Cardinality(S)
  BY DEF Wasm!Cardinality, Cardinality

LEMMA Owned == WasmInv => Wasm!ArraysOwned
  <1> SUFFICES ASSUME WasmInv PROVE Wasm!ArraysOwned
    OBVIOUS
  <1>1. Wasm!TypeOK
    <2>1. wasmModule \in 0..MaxModules /\ loading \in 0..MaxModules /\ begun \in 0..MaxModules
          /\ loads \subseteq 1..MaxModules
      BY ParallelAssumption DEF WasmInv, LoadsOK
    <2>2. memory \in [1..MaxModules -> Seq(Wasm!Block)]
      BY DEF WasmInv, MemoryOK
    <2>3. ASSUME NEW k \in Wasm!Kinds, NEW e \in entries[k]
          PROVE  e \in [module : 1..MaxModules, ptr : 1..MaxBlocks, size : Arrays, inUse : BOOLEAN]
      <3>1. EntryOK(k, e)
        BY DEF WasmInv, EntriesOK
      <3>2. wasmModule \in 1..MaxModules /\ DOMAIN memory[wasmModule] \subseteq 1..MaxBlocks
        BY <3>1, InUse, ParallelAssumption DEF EntryOK
      <3> QED BY <3>1, <3>2 DEF EntryOK
    <2>4. \A u \in Users :
            array[u] \in [module : 0..MaxModules, ptr : 0..MaxBlocks, bytes : Arrays \cup {0}]
      BY DEF WasmInv, HoldersOK
    <2> QED BY <2>1, <2>2, <2>3, <2>4 DEF Wasm!TypeOK
  <1>2. ASSUME NEW u \in Users, Wasm!Holds(u)
        PROVE  /\ array[u].module = wasmModule
               /\ memory[wasmModule][array[u].ptr].header = array[u].bytes
               /\ memory[wasmModule][array[u].ptr].size >= array[u].bytes
    BY <1>2 DEF WasmInv, HoldersOK, ArrayOK
  <1>3. ASSUME NEW g \in 1..MaxModules, NEW p \in DOMAIN memory[g]
        PROVE  LET pooled == {e \in Wasm!EntriesAt(p) : e.module = g}
               IN  /\ Cardinality(Wasm!Using(g, p)) <= 1 /\ Cardinality(pooled) <= 1
                   /\ \A e \in pooled : e.inUse <=> Wasm!Using(g, p) # {}
                   /\ memory[g][p].pinned <=> pooled # {} \/ Wasm!Using(g, p) # {}
    <2> DEFINE pooled == {e \in Wasm!EntriesAt(p) : e.module = g}
    <2>1. g = wasmModule /\ wasmModule # 0
      BY <1>3 DEF WasmInv, MemoryOK
    <2>2. Wasm!Using(g, p) # {} <=> HeldAt(p)
      BY <1>2, <2>1 DEF Wasm!Using, HeldAt
    <2>3. \A e \in pooled : \E k \in Wasm!Kinds : e \in entries[k] /\ e.ptr = p
      BY DEF Wasm!EntriesAt
    <2>4. pooled # {} <=> PooledAt(p)
      <3>1. \A k \in Wasm!Kinds : \A e \in entries[k] : e.module = g
        BY <2>1 DEF WasmInv, EntriesOK, EntryOK
      <3> QED BY <3>1 DEF Wasm!EntriesAt, PooledAt
    <2>5. \A e \in pooled : e.inUse <=> HeldAt(p)
      BY <2>3 DEF WasmInv, EntriesOK, EntryOK
    <2>6. \A e, f \in pooled : e = f
      BY <2>3 DEF WasmInv, EntriesOK, EntryOK
    <2>7. \A u, v \in Wasm!Using(g, p) : u = v
      BY DEF Wasm!Using, WasmInv, HoldersOK
    <2>8. memory[g][p].pinned <=> PooledAt(p) \/ HeldAt(p)
      BY <2>1 DEF WasmInv, PinsOK
    <2>9. Cardinality(Wasm!Using(g, p)) <= 1 /\ Cardinality(pooled) <= 1
      BY <2>6, <2>7, AtMostOne
    <2> QED BY <2>2, <2>4, <2>5, <2>8, <2>9
  <1>4. \A e \in UNION {entries[k] : k \in Wasm!Kinds} : e.module = wasmModule
    BY DEF WasmInv, EntriesOK, EntryOK
  <1>5. \A u \in Users : Wasm!Holds(u) =>
          /\ array[u].module = wasmModule
          /\ LET block == memory[wasmModule][array[u].ptr]
             IN  block.header = array[u].bytes /\ block.size >= array[u].bytes
    BY <1>2
  <1>6. \A g \in 1..MaxModules : \A ptr \in DOMAIN memory[g] :
          LET pooled == {e \in Wasm!EntriesAt(ptr) : e.module = g}
          IN  /\ Cardinality(Wasm!Using(g, ptr)) <= 1 /\ Cardinality(pooled) <= 1
              /\ \A e \in pooled : e.inUse <=> Wasm!Using(g, ptr) # {}
              /\ memory[g][ptr].pinned <=> pooled # {} \/ Wasm!Using(g, ptr) # {}
    BY <1>3
  <1> QED BY <1>1, <1>4, <1>5, <1>6, SameCardinality DEF Wasm!ArraysOwned

-----------------------------------------------------------------------------
(* The bound: a block of the pool is new only when every pinned one of its   *)
(* kind and size is held, and each by another user than the one that asks.   *)

PinnedOf(k, s) ==
  {p \in DOMAIN memory[wasmModule] :
     /\ memory[wasmModule][p].kind = k /\ memory[wasmModule][p].size = s
     /\ memory[wasmModule][p].pinned}

Bounded ==
  wasmModule # 0 =>
    \A k \in Wasm!Kinds, s \in Arrays :
      s <= Threshold => Cardinality(PinnedOf(k, s)) <= Cardinality(Users)

LEMMA PinnedFinite ==
  ASSUME WasmInv, wasmModule # 0, NEW k, NEW s
  PROVE  IsFiniteSet(PinnedOf(k, s))
  <1>1. PinnedOf(k, s) \subseteq 1..Len(memory[wasmModule]) /\ Len(memory[wasmModule]) \in Nat
    BY InUse, ParallelAssumption DEF PinnedOf
  <1>2. IsFiniteSet(1..Len(memory[wasmModule]))
    BY <1>1, FS_Interval
  <1> QED BY <1>1, <1>2, FS_Subset

(* Blocks that only change their header or are unpinned. *)
LEMMA NoMorePinned ==
  ASSUME WasmInv, Bounded, wasmModule' = wasmModule,
         wasmModule # 0 =>
           \A p \in DOMAIN memory'[wasmModule] :
             /\ p \in DOMAIN memory[wasmModule]
             /\ memory'[wasmModule][p].kind = memory[wasmModule][p].kind
             /\ memory'[wasmModule][p].size = memory[wasmModule][p].size
             /\ memory'[wasmModule][p].pinned => memory[wasmModule][p].pinned
  PROVE  Bounded'
  <1> SUFFICES ASSUME wasmModule # 0, NEW k \in Wasm!Kinds, NEW s \in Arrays, s <= Threshold
               PROVE  Cardinality(PinnedOf(k, s)') <= Cardinality(Users)
    BY DEF Bounded
  <1>1. PinnedOf(k, s)' \subseteq PinnedOf(k, s)
    BY DEF PinnedOf
  <1>2. IsFiniteSet(PinnedOf(k, s))
    BY PinnedFinite
  <1>3. Cardinality(PinnedOf(k, s)) <= Cardinality(Users)
    BY DEF Bounded
  <1>4. /\ Cardinality(PinnedOf(k, s)') <= Cardinality(PinnedOf(k, s))
        /\ IsFiniteSet(PinnedOf(k, s)')
    BY <1>1, <1>2, FS_Subset
  <1>5. /\ Cardinality(PinnedOf(k, s)) \in Nat /\ Cardinality(PinnedOf(k, s)') \in Nat
        /\ Cardinality(Users) \in Nat
    BY <1>2, <1>4, ParallelAssumption, FS_CardinalityType
  <1> QED BY <1>3, <1>4, <1>5

(* Sets whose elements are held by different users of a set are no larger.  *)
LEMMA HeldByOthers ==
  ASSUME WasmInv, NEW u \in Users, ~Wasm!Holds(u), NEW S, \A p \in S : HeldAt(p)
  PROVE  IsFiniteSet(S) /\ Cardinality(S) + 1 <= Cardinality(Users)
         /\ Cardinality(S) \in Nat /\ Cardinality(Users) \in Nat
  <1> DEFINE Holder(p) == CHOOSE v \in Users : Wasm!Holds(v) /\ array[v].ptr = p
             f == [p \in S |-> Holder(p)]
             Others == Users \ {u}
  <1>1. ASSUME NEW p \in S
        PROVE  Holder(p) \in Users /\ Wasm!Holds(Holder(p)) /\ array[Holder(p)].ptr = p
    BY <1>1 DEF HeldAt
  <1>2. \A p \in S : Holder(p) \in Others /\ array[Holder(p)].ptr = p
    BY <1>1
  <1> HIDE DEF Holder
  <1>3. f \in Injection(S, Others)
    <2>1. f \in [S -> Others]
      BY <1>2
    <2>2. ASSUME NEW p \in S, NEW q \in S, f[p] = f[q] PROVE p = q
      <3>1. Holder(p) = Holder(q)
        BY <2>2
      <3> QED BY <1>2, <3>1
    <2> QED BY <2>1, <2>2 DEF Injection, IsInjective
  <1>4. IsFiniteSet(Others) /\ Cardinality(Others) = Cardinality(Users) - 1
    BY ParallelAssumption, FS_RemoveElement
  <1>5. IsFiniteSet(S) /\ Cardinality(S) <= Cardinality(Others)
    BY <1>3, <1>4, FS_Injection
  <1>6. Cardinality(S) \in Nat /\ Cardinality(Users) \in Nat
    BY <1>5, ParallelAssumption, FS_CardinalityType
  <1> QED BY <1>4, <1>5, <1>6

LEMMA NewBounded ==
  ASSUME WasmInv, Bounded, NEW u \in Users, NEW kind \in Wasm!Kinds, NEW bytes \in Arrays,
         Wasm!AllocateNew(u, kind, bytes)
  PROVE  Bounded'
  <1> DEFINE old == memory[wasmModule]
             b   == [kind |-> kind, size |-> bytes, header |-> bytes, pinned |-> TRUE]
  <1>0. wasmModule # 0 /\ ~Wasm!Holds(u) /\ wasmModule' = wasmModule
        /\ (bytes > Threshold \/ Wasm!Fits(kind, bytes) = {})
    BY DEF Wasm!AllocateNew
  <1>1. old \in Seq(Wasm!Block) /\ wasmModule \in 1..MaxModules /\ b \in Wasm!Block
    BY <1>0, InUse DEF Wasm!Block
  <1>2. memory'[wasmModule] = Append(old, b)
    <2>1. memory' = [memory EXCEPT ![wasmModule] = Append(@, b)]
      BY DEF Wasm!AllocateNew
    <2> HIDE DEF b
    <2> QED BY <1>1, <2>1 DEF WasmInv, MemoryOK
  <1>3. PICK p : p = Len(old) + 1
    OBVIOUS
  <1>4. /\ DOMAIN memory'[wasmModule] = DOMAIN old \cup {p} /\ p \notin DOMAIN old
        /\ memory'[wasmModule][p] = b
        /\ \A q \in DOMAIN old : memory'[wasmModule][q] = old[q]
    <2> HIDE DEF old, b
    <2> QED BY <1>1, <1>2, <1>3
  <1> SUFFICES ASSUME NEW k \in Wasm!Kinds, NEW s \in Arrays, s <= Threshold
               PROVE  Cardinality(PinnedOf(k, s)') <= Cardinality(Users)
    BY <1>0 DEF Bounded
  <1>5. CASE k # kind \/ s # bytes
    <2>1. PinnedOf(k, s)' = PinnedOf(k, s)
      BY <1>0, <1>4, <1>5 DEF PinnedOf
    <2> QED BY <1>0, <2>1 DEF Bounded
  <1>6. CASE k = kind /\ s = bytes
    <2>1. PinnedOf(k, s)' = PinnedOf(k, s) \cup {p}
      BY <1>0, <1>4, <1>6 DEF PinnedOf
    <2>2. ASSUME NEW q \in PinnedOf(k, s) PROVE HeldAt(q)
      <3>1. q \in DOMAIN old /\ old[q].kind = kind /\ old[q].size = bytes /\ old[q].pinned
        BY <1>6 DEF PinnedOf
      <3>2. PooledAt(q) \/ HeldAt(q)
        BY <1>0, <3>1 DEF WasmInv, PinsOK
      <3>3. ASSUME NEW j \in Wasm!Kinds, NEW e \in entries[j], e.ptr = q PROVE HeldAt(q)
        <4>1. EntryOK(j, e)
          BY DEF WasmInv, EntriesOK
        <4>2. j = kind /\ e.size = bytes
          BY <3>1, <3>3, <4>1 DEF EntryOK
        <4>3. bytes \in Nat /\ Threshold \in Nat
          BY ParallelAssumption
        <4>4. e.size >= bytes /\ e.size <= 2 * bytes
          BY <4>2, <4>3
        <4>5. Wasm!Fits(kind, bytes) = {}
          BY <1>0, <1>6, <4>3
        <4>6. e.inUse
          BY <4>2, <4>4, <4>5 DEF Wasm!Fits
        <4> QED BY <3>3, <4>1, <4>6 DEF EntryOK
      <3> QED BY <3>2, <3>3 DEF PooledAt
    <2>3. IsFiniteSet(PinnedOf(k, s)) /\ Cardinality(PinnedOf(k, s)) + 1 <= Cardinality(Users)
          /\ Cardinality(PinnedOf(k, s)) \in Nat /\ Cardinality(Users) \in Nat
      BY <1>0, <2>2, HeldByOthers
    <2>4. p \notin PinnedOf(k, s)
      BY <1>4 DEF PinnedOf
    <2>5. Cardinality(PinnedOf(k, s) \cup {p}) = Cardinality(PinnedOf(k, s)) + 1
      BY <2>3, <2>4, FS_AddElement
    <2> QED BY <2>1, <2>3, <2>5
  <1> QED BY <1>5, <1>6

LEMMA RecycledBounded ==
  ASSUME WasmInv, Bounded, NEW u \in Users, NEW kind \in Wasm!Kinds, NEW bytes \in Arrays,
         Wasm!AllocateRecycled(u, kind, bytes)
  PROVE  Bounded'
  <1> DEFINE old == memory[wasmModule]
  <1>1. wasmModule # 0 /\ wasmModule' = wasmModule
    BY DEF Wasm!AllocateRecycled
  <1>2. PICK e \in Wasm!Fits(kind, bytes) :
          memory' = [memory EXCEPT ![wasmModule] = Wasm!Recycled(@, e.ptr, bytes)]
    BY DEF Wasm!AllocateRecycled
  <1>3. e.ptr \in DOMAIN old
    <2>1. EntryOK(kind, e)
      BY DEF Wasm!Fits, WasmInv, EntriesOK
    <2> QED BY <2>1 DEF EntryOK
  <1>4. old \in Seq(Wasm!Block) /\ wasmModule \in 1..MaxModules
    BY <1>1, InUse
  <1>5. memory'[wasmModule] = Wasm!Recycled(old, e.ptr, bytes)
    BY <1>2, <1>4 DEF WasmInv, MemoryOK
  <1>6. PICK new : new = Wasm!Recycled(old, e.ptr, bytes)
    OBVIOUS
  <1>7. /\ DOMAIN new = DOMAIN old
        /\ \A q \in DOMAIN old : q # e.ptr => new[q] = old[q]
        /\ new[e.ptr].kind = old[e.ptr].kind /\ new[e.ptr].size = old[e.ptr].size
        /\ new[e.ptr].pinned = old[e.ptr].pinned
    <2> HIDE DEF old
    <2> QED BY <1>3, <1>4, <1>6, Recycles
  <1>8. memory'[wasmModule] = new
    BY <1>5, <1>6
  <1> QED BY <1>1, <1>7, <1>8, NoMorePinned

LEMMA UnpinsInUse ==
  ASSUME WasmInv, wasmModule # 0, NEW S, NEW new, new = Wasm!Unpinned(memory[wasmModule], S)
  PROVE  \A p \in DOMAIN new :
           /\ p \in DOMAIN memory[wasmModule]
           /\ new[p].kind = memory[wasmModule][p].kind
           /\ new[p].size = memory[wasmModule][p].size
           /\ new[p].pinned => memory[wasmModule][p].pinned
  <1> DEFINE old == memory[wasmModule]
  <1>1. old \in Seq(Wasm!Block)
    BY InUse
  <1> HIDE DEF old
  <1>2. /\ DOMAIN new = DOMAIN old
        /\ \A q \in DOMAIN old :
             /\ q \notin S => new[q] = old[q]
             /\ new[q].kind = old[q].kind
             /\ new[q].size = old[q].size
             /\ q \in S => new[q].pinned = FALSE
    <2>1. new = Wasm!Unpinned(old, S)
      BY DEF old
    <2>2. /\ DOMAIN Wasm!Unpinned(old, S) = DOMAIN old
          /\ \A q \in DOMAIN old :
               /\ q \notin S => Wasm!Unpinned(old, S)[q] = old[q]
               /\ Wasm!Unpinned(old, S)[q].kind = old[q].kind
               /\ Wasm!Unpinned(old, S)[q].size = old[q].size
               /\ Wasm!Unpinned(old, S)[q].header = old[q].header
               /\ q \in S => Wasm!Unpinned(old, S)[q].pinned = FALSE
      BY <1>1, Unpins, Zenon
    <2> QED BY <2>1, <2>2
  <1>3. \A p \in DOMAIN new :
          /\ p \in DOMAIN old
          /\ new[p].kind = old[p].kind
          /\ new[p].size = old[p].size
          /\ new[p].pinned => old[p].pinned
    BY <1>2
  <1> QED BY <1>3 DEF old

LEMMA UnpinBounded ==
  ASSUME WasmInv, Bounded, wasmModule' = wasmModule, NEW S,
         wasmModule # 0 =>
           memory' = [memory EXCEPT ![wasmModule] = Wasm!Unpinned(@, S)]
  PROVE  Bounded'
  <1>1. ASSUME wasmModule # 0
        PROVE  memory'[wasmModule] = Wasm!Unpinned(memory[wasmModule], S)
    <2>1. wasmModule \in 1..MaxModules
      BY <1>1, InUse
    <2> QED BY <1>1, <2>1 DEF WasmInv, MemoryOK
  <1> QED BY <1>1, UnpinsInUse, NoMorePinned

LEMMA WasmBounded ==
  ASSUME WasmInv, Bounded, [Wasm!WasmNext]_wasmVars, EarlyResets = FALSE
  PROVE  Bounded'
  <1>1. ASSUME UNCHANGED <<wasmModule, memory>> PROVE Bounded'
    BY <1>1, NoMorePinned
  <1>2. CASE UNCHANGED wasmVars \/ Wasm!Load \/ \E g \in loads : Wasm!LoadFails(g)
    BY <1>1, <1>2 DEF wasmVars, Wasm!Load, Wasm!LoadFails
  <1>3. ASSUME NEW g \in loads, Wasm!LoadEnds(g) PROVE Bounded'
    <2>1. wasmModule = 0 /\ g \in 1..MaxModules /\ wasmModule' = g /\ memory' = memory
      BY <1>3, ParallelAssumption DEF WasmInv, LoadsOK, Wasm!LoadEnds
    <2>2. memory'[g] = <<>>
      BY <2>1, ParallelAssumption DEF WasmInv, MemoryOK
    <2>3. \A k, s : PinnedOf(k, s)' = {}
      BY <2>1, <2>2 DEF PinnedOf
    <2>4. Cardinality({}) = 0 /\ Cardinality(Users) \in Nat
      BY ParallelAssumption, FS_EmptySet, FS_CardinalityType
    <2> QED BY <2>3, <2>4 DEF Bounded
  <1>4. CASE Wasm!ClearPool
    BY <1>4, UnpinBounded DEF Wasm!ClearPool
  <1>5. CASE Wasm!Reset
    BY <1>5 DEF Bounded, Wasm!Reset
  <1>6. ASSUME NEW u \in Users, Wasm!Release(u) PROVE Bounded'
    <2>1. CASE Wasm!EntriesAt(array[u].ptr) # {}
      BY <1>1, <1>6, <2>1 DEF Wasm!Release
    <2>2. CASE Wasm!EntriesAt(array[u].ptr) = {}
      BY <1>6, <2>2, UnpinBounded DEF Wasm!Release
    <2> QED BY <2>1, <2>2
  <1>7. ASSUME NEW u \in Users, NEW kind \in Wasm!Kinds, NEW bytes \in Arrays,
               Wasm!AllocateRecycled(u, kind, bytes) \/ Wasm!AllocateNew(u, kind, bytes)
        PROVE  Bounded'
    BY <1>7, RecycledBounded, NewBounded
  <1> QED BY <1>2, <1>3, <1>4, <1>5, <1>6, <1>7 DEF Wasm!WasmNext

LEMMA BoundHolds == WasmInv /\ Bounded => Wasm!MemoryBounded
  <1> SUFFICES ASSUME WasmInv, Bounded, NEW g \in 1..MaxModules,
                      NEW k \in Wasm!Kinds, NEW s \in Arrays, s <= Threshold
               PROVE  Cardinality({p \in DOMAIN memory[g] :
                        memory[g][p].kind = k /\ memory[g][p].size = s /\ memory[g][p].pinned})
                      <= Cardinality(Users)
    BY SameCardinality DEF Wasm!MemoryBounded
  <1> DEFINE S == {p \in DOMAIN memory[g] :
                     memory[g][p].kind = k /\ memory[g][p].size = s /\ memory[g][p].pinned}
  <1>1. CASE g = wasmModule
    <2>1. S = PinnedOf(k, s) /\ wasmModule # 0
      BY <1>1 DEF PinnedOf
    <2> QED BY <2>1 DEF Bounded
  <1>2. CASE g # wasmModule
    <2>1. memory[g] = <<>>
      BY <1>2 DEF WasmInv, MemoryOK
    <2>2. S = {}
      BY <2>1
    <2>3. Cardinality({}) = 0 /\ Cardinality(Users) \in Nat
      BY ParallelAssumption, FS_EmptySet, FS_CardinalityType
    <2> QED BY <2>2, <2>3
  <1> QED BY <1>1, <1>2

-----------------------------------------------------------------------------
(* Of the four machines one moves, the others rest. *)

LEMMA Machines ==
  ASSUME [MCNext]_all
  PROVE  [MatrixNext]_matrixVars /\ [Math!MathNext]_mathVars /\ [Wasm!WasmNext]_wasmVars
  BY DEF MCNext, all

(* An array in WebAssembly memory is its user's alone, in the memory of the  *)
(* module in use, with its length in the header, and its block is pinned     *)
(* exactly while it can be reached, for any number of users and loads, if    *)
(* reset() keeps to its purpose.                                             *)
THEOREM ArraysAreOwned ==
  ASSUME EarlyResets = FALSE
  PROVE  MCSpec => []ArraysOwned
  <1>1. MCInit => WasmInv
    BY WasmInit DEF MCInit
  <1>2. WasmInv /\ [MCNext]_all => WasmInv'
    BY WasmStep, Machines
  <1>3. WasmInv => ArraysOwned
    BY Owned DEF ArraysOwned
  <1> QED BY <1>1, <1>2, <1>3, PTL DEF MCSpec

(* Of the blocks of one kind and size that the pool recycles, no more are    *)
(* pinned than there are users, for any sequence of allocations.             *)
THEOREM MemoryIsBounded ==
  ASSUME EarlyResets = FALSE
  PROVE  MCSpec => []MemoryBounded
  <1>1. MCInit => WasmInv /\ Bounded
    BY WasmInit DEF MCInit, Bounded, Wasm!WasmInit
  <1>2. WasmInv /\ Bounded /\ [MCNext]_all => (WasmInv /\ Bounded)'
    BY WasmStep, WasmBounded, Machines
  <1>3. WasmInv /\ Bounded => MemoryBounded
    BY BoundHolds DEF MemoryBounded
  <1> QED BY <1>1, <1>2, <1>3, PTL DEF MCSpec

(* A MathWorkerPool that has threads is the one terminate() can reach or is  *)
(* ending, and no call waits for a pool that is gone, however initialize,    *)
(* the calls and terminate overlap; only a pool created while initialize and *)
(* terminate overlapped, or called while it was being ended, can be lost.    *)
(* The block pool beside it is well formed: never more tasks than workers,   *)
(* never more workers than configured.                                       *)
THEOREM InnerPoolIsHeld == MCSpec => []InnerPoolHeld
  <1>1. MCInit => MathInv /\ TypesInv
    BY MathInit, TypesInit DEF MCInit
  <1>2. MathInv /\ TypesInv /\ [MCNext]_all => (MathInv /\ TypesInv)'
    BY MathStep, TypesStep, Machines
  <1>3. MathInv /\ TypesInv => InnerPoolHeld
    BY MathHeld, TypesTyped DEF InnerPoolHeld
  <1> QED BY <1>1, <1>2, <1>3, PTL DEF MCSpec
=============================================================================
