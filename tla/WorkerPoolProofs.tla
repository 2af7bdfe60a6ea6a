-------------------------- MODULE WorkerPoolProofs --------------------------
(***************************************************************************)
(* Proofs about WorkerPool, for any number of workers, tasks and failures. *)
(***************************************************************************)
EXTENDS WorkerPool, ListFacts, FiniteSetTheorems

-----------------------------------------------------------------------------
(* Removal from a list *)

(* splice or filter of one element. *)
LEMMA RemoveOne ==
  ASSUME NEW S, NEW s \in Seq(S), IsInjective(s), NEW e
  PROVE  /\ Without(s, e) \in Seq(S)
         /\ IsInjective(Without(s, e))
         /\ ToSet(Without(s, e)) = ToSet(s) \ {e}
<1> DEFINE n == Len(s)
           r == Without(s, e)
<1>1. DOMAIN s = 1..n /\ n \in Nat /\ \A i \in 1..n : s[i] \in S
  BY LenProperties, ElementOfSeq
<1>2. CASE \A i \in 1..n : s[i] # e
  <2>1. r = s
    BY <1>2 DEF Without, Contains
  <2>2. e \notin ToSet(s)
    BY <1>1, <1>2 DEF ToSet
  <2>. QED
    BY <2>1, <2>2
<1>3. CASE \E i \in 1..n : s[i] = e
  <2>1. PICK k \in 1..n :
          /\ s[k] = e
          /\ r = [i \in 1..(n - 1) |-> IF i < k THEN s[i] ELSE s[i + 1]]
    BY <1>3 DEF Without, Contains
  <2>2. n \in Nat \ {0} /\ n - 1 \in Nat /\ k \in Nat
    BY <1>1
  <2>3. \A i \in 1..(n - 1) :
          \E j \in 1..n : j # k /\ r[i] = s[j] /\ j = IF i < k THEN i ELSE i + 1
    BY <2>1, <2>2
  <2>4. r \in [1..(n - 1) -> S]
    BY <1>1, <2>1, <2>2
  <2>5. r \in Seq(S) /\ DOMAIN r = 1..(n - 1)
    BY <2>2, <2>4
  <2>6. IsInjective(r)
    <3> SUFFICES ASSUME NEW a \in 1..(n - 1), NEW b \in 1..(n - 1), r[a] = r[b]
                 PROVE  a = b
      BY <2>5 DEF IsInjective
    <3>1. PICK j \in 1..n : r[a] = s[j] /\ j = IF a < k THEN a ELSE a + 1
      BY <2>3
    <3>2. PICK l \in 1..n : r[b] = s[l] /\ l = IF b < k THEN b ELSE b + 1
      BY <2>3
    <3>3. j = l
      BY <1>1, <3>1, <3>2 DEF IsInjective
    <3>. QED
      BY <2>2, <3>1, <3>2, <3>3
  <2>7. ASSUME NEW x \in ToSet(r)
        PROVE  x \in ToSet(s) /\ x # e
    <3>1. PICK i \in 1..(n - 1) : x = r[i]
      BY <2>5 DEF ToSet
    <3>2. PICK j \in 1..n : j # k /\ x = s[j]
      BY <2>3, <3>1
    <3>. QED
      BY <1>1, <2>1, <3>2 DEF ToSet, IsInjective
  <2>8. ASSUME NEW x \in ToSet(s), x # e
        PROVE  x \in ToSet(r)
    <3>1. PICK j \in 1..n : x = s[j] /\ j # k
      BY <1>1, <2>1, <2>8 DEF ToSet
    <3>2. PICK i \in 1..(n - 1) : j = IF i < k THEN i ELSE i + 1
      <4>1. CASE j < k
        BY <2>2, <4>1
      <4>2. CASE j > k
        <5>1. j - 1 \in 1..(n - 1) /\ ~(j - 1 < k) /\ (j - 1) + 1 = j
          BY <2>2, <4>2
        <5>. QED
          BY <5>1
      <4>. QED
        BY <2>2, <3>1, <4>1, <4>2
    <3>3. x = r[i]
      BY <2>1, <3>1, <3>2
    <3>. QED
      BY <2>5, <3>3 DEF ToSet
  <2>. QED
    BY <2>5, <2>6, <2>7, <2>8
<1>. QED
  BY <1>2, <1>3

-----------------------------------------------------------------------------
(* processQueue *)

Safe ==
  /\ TaskTracked
  /\ RosterOK
  /\ WorkConserving
  /\ MessagesOwned
  /\ ThreadsOwned
  /\ TerminatedIsQuiet
  /\ TimersOwned

(* The inductive invariant. *)
IndInv == TypeOK /\ Safe

(* With an empty queue the loop does nothing. *)
LEMMA DrainNothing ==
  ASSUME NEW available \in Seq(Workers),
         NEW active \in [Tasks -> Workers \cup {NoWorker}],
         ProcessQueue(<<>>, available, active)
  PROVE  /\ taskQueue' = <<>>
         /\ availableWorkers' = available
         /\ activeTasks' = active
         /\ posted' = posted
<1>1. Len(<<>>) = 0 /\ Len(available) \in Nat
  BY EmptySeq, LenProperties
<1>2. Dispatched(<<>>, available) = 0
  BY <1>1 DEF Dispatched
<1>3. \A t \in Tasks : {k \in 1..0 : <<>>[k] = t} = {}
  OBVIOUS
<1>4. activeTasks' = [t \in Tasks |-> active[t]]
  BY <1>2, <1>3 DEF ProcessQueue, Rest
<1>5. taskQueue' = SubSeq(<<>>, 1, 0) /\ availableWorkers' = SubSeq(available, 1, Len(available))
  BY <1>1, <1>2 DEF ProcessQueue, Rest
<1>6. posted' = posted
  BY <1>2 DEF ProcessQueue, Rest
<1>. QED
  BY <1>4, <1>5, <1>6, SubSeqEmpty, SubSeqFull

(* With one idle worker the loop makes one round. *)
LEMMA DrainOne ==
  ASSUME NEW queue \in Seq(Tasks), queue # <<>>,
         NEW w \in Workers,
         NEW active \in [Tasks -> Workers \cup {NoWorker}],
         ProcessQueue(queue, <<w>>, active)
  PROVE  /\ taskQueue' = Tail(queue)
         /\ availableWorkers' = <<>>
         /\ activeTasks' = [active EXCEPT ![Head(queue)] = w]
         /\ posted' = posted \cup (IF w \in threads' /\ Head(queue) \notin Unclonable
                                   THEN {<<w, Head(queue)>>} ELSE {})
<1>1. Len(<<w>>) = 1 /\ Len(queue) \in Nat \ {0} /\ Head(queue) = queue[1]
  BY EmptySeq, LenProperties
<1>2. Dispatched(queue, <<w>>) = 1
  <2>1. (IF Len(queue) <= 1 THEN Len(queue) ELSE 1) = 1
    BY <1>1
  <2>2. Dispatched(queue, <<w>>) =
          CHOOSE n \in 0..1 : /\ n = 1 \/ (n > 0 /\ queue[n] \in Unclonable)
                              /\ \A j \in 1..(n - 1) : queue[j] \notin Unclonable
    BY <1>1, <2>1 DEF Dispatched
  <2>. QED
    BY <2>2
<1>3. taskQueue' = Tail(queue)
  BY <1>1, <1>2, TailIsSubSeq DEF ProcessQueue, Rest
<1>4. availableWorkers' = <<>>
  BY <1>1, <1>2, SubSeqEmpty DEF ProcessQueue, Rest
<1>5. activeTasks' = [active EXCEPT ![Head(queue)] = w]
  <2>1. 1..1 = {1}
    OBVIOUS
  <2>2. activeTasks' = [t \in Tasks |->
          IF {k \in 1..1 : queue[k] = t} = {} THEN active[t]
          ELSE <<w>>[CHOOSE k \in {k \in 1..1 : queue[k] = t} : TRUE]]
    BY <1>2 DEF ProcessQueue, Rest
  <2>3. ASSUME NEW t \in Tasks
        PROVE  activeTasks'[t] = IF t = queue[1] THEN w ELSE active[t]
    <3>1. CASE t = queue[1]
      <4>1. {k \in 1..1 : queue[k] = t} = {1}
        BY <3>1
      <4>. QED
        BY <2>2, <3>1, <4>1
    <3>2. CASE t # queue[1]
      <4>1. {k \in 1..1 : queue[k] = t} = {}
        BY <3>2
      <4>. QED
        BY <2>2, <3>2, <4>1
    <3>. QED
      BY <3>1, <3>2
  <2> DEFINE g == activeTasks'
  <2>4. g = [t \in Tasks |-> g[t]]
    BY <2>2
  <2> HIDE DEF g
  <2>5. g = [t \in Tasks |-> IF t = queue[1] THEN w ELSE active[t]]
    BY <2>3, <2>4 DEF g
  <2>6. [active EXCEPT ![Head(queue)] = w]
          = [t \in Tasks |-> IF t = queue[1] THEN w ELSE active[t]]
    BY <1>1
  <2>. QED
    BY <2>5, <2>6 DEF g
<1>6. posted' = posted \cup (IF w \in threads' /\ Head(queue) \notin Unclonable
                             THEN {<<w, Head(queue)>>} ELSE {})
  BY <1>1, <1>2 DEF ProcessQueue, Rest
<1>. QED
  BY <1>3, <1>4, <1>5, <1>6

(* A worker that becomes idle either stays idle, and nothing was queued, or *)
(* takes the oldest task.                                                   *)
LEMMA Drain ==
  ASSUME TypeOK, WorkConserving,
         IsInjective(taskQueue), IsInjective(availableWorkers),
         NEW w \in Workers, w \notin Idle,
         NEW active \in [Tasks -> Workers \cup {NoWorker}],
         ProcessQueue(taskQueue, Append(availableWorkers, w), active)
  PROVE  \/ /\ taskQueue = <<>> /\ taskQueue' = <<>> /\ Queued = {} /\ Queued' = {}
            /\ availableWorkers' \in Seq(Workers) /\ IsInjective(availableWorkers')
            /\ Idle' = Idle \cup {w}
            /\ activeTasks' = active
            /\ posted' = posted
         \/ \E t \in Queued :
              /\ taskQueue' \in Seq(Tasks) /\ IsInjective(taskQueue')
              /\ Queued' = Queued \ {t}
              /\ Idle = {} /\ availableWorkers' = <<>> /\ Idle' = {}
              /\ activeTasks' = [active EXCEPT ![t] = w]
              /\ posted' \subseteq posted \cup {<<w, t>>}
              /\ w \in threads' \/ posted' = posted
<1>1. availableWorkers \in Seq(Workers) /\ taskQueue \in Seq(Tasks)
  BY DEF TypeOK
<1>2. CASE taskQueue = <<>>
  <2>1. /\ Append(availableWorkers, w) \in Seq(Workers)
        /\ IsInjective(Append(availableWorkers, w))
        /\ ToSet(Append(availableWorkers, w)) = Idle \cup {w}
    BY <1>1, PushNew DEF Idle
  <2>2. /\ taskQueue' = <<>>
        /\ availableWorkers' = Append(availableWorkers, w)
        /\ activeTasks' = active
        /\ posted' = posted
    BY <1>2, <2>1, DrainNothing
  <2>. QED
    BY <1>2, <2>1, <2>2, EmptyList DEF Idle, Queued
<1>3. CASE taskQueue # <<>>
  <2>1. availableWorkers = <<>> /\ Append(availableWorkers, w) = <<w>>
    <3>1. availableWorkers = <<>>
      BY <1>3 DEF WorkConserving
    <3>2. Append(<<>>, w) = <<w>>
      OBVIOUS
    <3>. QED
      BY <3>1, <3>2
  <2>2. /\ taskQueue' = Tail(taskQueue)
        /\ availableWorkers' = <<>>
        /\ activeTasks' = [active EXCEPT ![Head(taskQueue)] = w]
        /\ posted' = posted \cup (IF w \in threads' /\ Head(taskQueue) \notin Unclonable
                                  THEN {<<w, Head(taskQueue)>>} ELSE {})
    BY <1>1, <1>3, <2>1, DrainOne
  <2>3. /\ Head(taskQueue) \in Queued
        /\ Tail(taskQueue) \in Seq(Tasks) /\ IsInjective(Tail(taskQueue))
        /\ ToSet(Tail(taskQueue)) = Queued \ {Head(taskQueue)}
    BY <1>1, <1>3, ShiftFirst DEF Queued
  <2>. QED
    BY <2>1, <2>2, <2>3, EmptyList DEF Idle, Queued
<1>. QED
  BY <1>2, <1>3

-----------------------------------------------------------------------------
(* The steps *)

(* What the invariant says of the two lists, as sets. *)
LEMMA Lists ==
  ASSUME IndInv
  PROVE  /\ availableWorkers \in Seq(Workers) /\ taskQueue \in Seq(Tasks)
         /\ IsInjective(availableWorkers) /\ IsInjective(taskQueue)
         /\ Idle \subseteq Workers /\ Queued \subseteq Tasks
         /\ Queued = {} <=> taskQueue = <<>>
         /\ Idle = {} <=> availableWorkers = <<>>
<1>1. /\ availableWorkers \in Seq(Workers) /\ taskQueue \in Seq(Tasks)
      /\ IsInjective(availableWorkers) /\ IsInjective(taskQueue)
  BY DEF IndInv, Safe, TypeOK, RosterOK, TaskTracked
<1>. QED
  BY <1>1, NoElement DEF Idle, Queued

(* execute() keeps the invariant. *)
LEMMA ExecuteStep ==
  ASSUME IndInv, NEW t \in Tasks, NEW timed \in BOOLEAN, Execute(t, timed)
  PROVE  IndInv'
<1> USE DEF IndInv, Safe
<1>1. /\ availableWorkers \in Seq(Workers) /\ taskQueue \in Seq(Tasks)
      /\ IsInjective(availableWorkers) /\ IsInjective(taskQueue)
  BY Lists
<1>2. Idle \subseteq Workers /\ Queued \subseteq Tasks
  BY Lists
<1>3. promise[t] = "none" /\ t \notin Queued /\ t \notin Active /\ t \notin timedOut
  BY DEF Execute, TaskTracked, Pending, Settled
<1>4. CASE availableWorkers # <<>>
  <2> DEFINE w == Head(availableWorkers)
  <2>1. /\ w \in Workers /\ w \in Idle
        /\ availableWorkers' \in Seq(Workers) /\ IsInjective(availableWorkers')
        /\ Idle' = Idle \ {w}
    <3>1. availableWorkers' = Tail(availableWorkers)
      BY <1>4 DEF Execute
    <3>. QED
      BY <1>1, <1>4, <3>1, ShiftFirst DEF Idle
  <2>2. taskQueue = <<>> /\ taskQueue' = taskQueue /\ Queued = {} /\ Queued' = {}
    BY <1>4, EmptyList DEF Execute, WorkConserving, Queued
  <2>3. /\ activeTasks' = [activeTasks EXCEPT ![t] = w]
        /\ posted' \subseteq posted \cup {<<w, t>>}
        /\ w \in threads \/ posted' = posted
        /\ promise' = [promise EXCEPT ![t] = IF t \in Unclonable THEN "rejected" ELSE "pending"]
        /\ timers' \subseteq timers \cup {t}
        /\ ~terminated
    BY <1>4 DEF Execute
  <2>4. UNCHANGED <<workers, terminated, readyWorkers, startupFailures, starting,
                    timedOut, threads, replies, errors>>
    BY DEF Execute
  <2> HIDE DEF w
  <2>5. Active' = Active \cup {t} /\ w # NoWorker
    BY <2>1, <2>3, NoWorkerAssumption DEF Active, TypeOK
  <2>6. TypeOK'
    BY <2>1, <2>2, <2>3, <2>4 DEF TypeOK, Outcome
  <2>7. TaskTracked'
    BY <1>1, <1>3, <2>2, <2>3, <2>4, <2>5 DEF TaskTracked, Pending, Settled, TypeOK
  <2>8. RosterOK'
    <3>1. \A v \in Workers : isBusy(v)' <=> (isBusy(v) \/ v = w)
      BY <1>3, <2>1, <2>3, NoWorkerAssumption DEF isBusy, TypeOK, Active
    <3>2. \A u \in Tasks : activeTasks[u] # w
      BY <2>1 DEF RosterOK, isBusy
    <3>3. \A u1, u2 \in Active' : activeTasks'[u1] = activeTasks'[u2] => u1 = u2
      BY <2>3, <2>5, <3>2 DEF RosterOK, TypeOK, Active
    <3>. QED
      BY <1>2, <2>1, <2>4, <3>1, <3>3 DEF RosterOK
  <2>9. WorkConserving'
    BY <2>2 DEF WorkConserving
  <2>10. MessagesOwned'
    BY <1>3, <2>2, <2>3, <2>4, <2>5 DEF MessagesOwned, TypeOK, Active
  <2>11. ThreadsOwned'
    BY <2>3, <2>4 DEF ThreadsOwned
  <2>12. TerminatedIsQuiet' /\ TimersOwned'
    BY <2>2, <2>3, <2>4, <2>5 DEF TerminatedIsQuiet, TimersOwned
  <2>. QED
    BY <2>6, <2>7, <2>8, <2>9, <2>10, <2>11, <2>12
<1>5. CASE availableWorkers = <<>>
  <2>1. /\ taskQueue' \in Seq(Tasks) /\ IsInjective(taskQueue')
        /\ Queued' = Queued \cup {t}
    <3>1. taskQueue' = Append(taskQueue, t)
      BY <1>5 DEF Execute
    <3>. QED
      BY <1>1, <1>3, <3>1, PushNew DEF Queued
  <2>2. /\ UNCHANGED <<availableWorkers, activeTasks, posted>>
        /\ promise' = [promise EXCEPT ![t] = "pending"]
        /\ timers' \subseteq timers \cup {t}
        /\ ~terminated
    BY <1>5 DEF Execute
  <2>3. UNCHANGED <<workers, terminated, readyWorkers, startupFailures, starting,
                    timedOut, threads, replies, errors>>
    BY DEF Execute
  <2>4. Active' = Active /\ Idle' = Idle /\ \A v \in Workers : isBusy(v)' = isBusy(v)
    BY <2>2 DEF Active, Idle, isBusy
  <2>5. TypeOK'
    BY <2>1, <2>2, <2>3 DEF TypeOK, Outcome
  <2>6. TaskTracked'
    BY <1>2, <1>3, <2>1, <2>2, <2>3, <2>4 DEF TaskTracked, Pending, Settled, TypeOK
  <2>7. RosterOK'
    BY <1>2, <2>2, <2>3, <2>4 DEF RosterOK
  <2>8. WorkConserving'
    BY <1>5, <2>2 DEF WorkConserving
  <2>9. MessagesOwned'
    BY <1>3, <2>1, <2>2, <2>3, <2>4 DEF MessagesOwned, TypeOK
  <2>10. ThreadsOwned'
    BY <2>2, <2>3 DEF ThreadsOwned
  <2>11. TerminatedIsQuiet' /\ TimersOwned'
    BY <2>1, <2>2, <2>3, <2>4 DEF TerminatedIsQuiet, TimersOwned
  <2>. QED
    BY <2>5, <2>6, <2>7, <2>8, <2>9, <2>10, <2>11
<1>. QED
  BY <1>4, <1>5

(* execute() after terminate() keeps the invariant. *)
LEMMA ExecuteTerminatedStep ==
  ASSUME IndInv, NEW t \in Tasks, ExecuteTerminated(t)
  PROVE  IndInv'
<1> USE DEF IndInv, Safe
<1>1. promise[t] = "none" /\ t \notin Queued /\ t \notin Active /\ t \notin timedOut
  BY DEF ExecuteTerminated, TaskTracked, Pending, Settled
<1>2. /\ promise' = [promise EXCEPT ![t] = "rejected"]
      /\ UNCHANGED <<poolVars, timers, starting, timedOut, threadVars>>
  BY DEF ExecuteTerminated
<1>3. /\ Active' = Active /\ Idle' = Idle /\ Queued' = Queued
      /\ \A v \in Workers : isBusy(v)' = isBusy(v)
  BY <1>2 DEF Active, Idle, Queued, isBusy, poolVars
<1>4. TypeOK'
  BY <1>2 DEF TypeOK, Outcome, poolVars, threadVars
<1>5. TaskTracked'
  BY <1>1, <1>2, <1>3, Lists DEF TaskTracked, Pending, Settled, TypeOK, poolVars
<1>6. RosterOK' /\ WorkConserving'
  BY <1>2, <1>3, Lists DEF RosterOK, WorkConserving, poolVars
<1>7. MessagesOwned'
  BY <1>1, <1>2, <1>3 DEF MessagesOwned, TypeOK, poolVars, threadVars
<1>8. ThreadsOwned' /\ TerminatedIsQuiet' /\ TimersOwned'
  BY <1>2, <1>3 DEF ThreadsOwned, TerminatedIsQuiet, TimersOwned, Pending, TypeOK, poolVars, threadVars
<1>. QED
  BY <1>4, <1>5, <1>6, <1>7, <1>8

(* terminate() keeps the invariant. *)
LEMMA TerminateStep ==
  ASSUME IndInv, Terminate
  PROVE  IndInv'
<1> USE DEF IndInv, Safe
<1>1. /\ taskQueue' = <<>> /\ availableWorkers' = <<>>
      /\ Queued' = {} /\ Idle' = {} /\ Active' = {}
      /\ \A v \in Workers : ~isBusy(v)'
      /\ IsInjective(taskQueue') /\ IsInjective(availableWorkers')
  BY EmptyList, NoWorkerAssumption DEF Terminate, Queued, Idle, Active, isBusy
<1>2. /\ workers' = {} /\ threads' = {} /\ posted' = {}
      /\ promise' = Settle(Queued \cup Active, "rejected")
      /\ timers' = {} /\ terminated' = TRUE
      /\ UNCHANGED <<readyWorkers, startupFailures, starting, timedOut, replies, errors>>
  <2>1. threads \subseteq workers /\ \A p \in posted : p[1] \in workers
    BY DEF ThreadsOwned
  <2>2. timers \subseteq Queued \cup Active
    BY DEF TimersOwned
  <2>. QED
    BY <2>1, <2>2 DEF Terminate
<1>3. TypeOK'
  BY <1>1, <1>2 DEF TypeOK, Outcome, Settle, Terminate
<1>4. TaskTracked'
  BY <1>1, <1>2 DEF TaskTracked, Pending, Settled, Settle, TypeOK
<1>5. RosterOK' /\ WorkConserving' /\ ThreadsOwned' /\ TimersOwned'
  BY <1>1, <1>2 DEF RosterOK, WorkConserving, ThreadsOwned, TimersOwned, Active
<1>6. MessagesOwned'
  BY <1>1, <1>2 DEF MessagesOwned, Settle, TypeOK
<1>7. TerminatedIsQuiet'
  BY <1>1, <1>2, <1>4 DEF TerminatedIsQuiet, TaskTracked
<1>. QED
  BY <1>3, <1>4, <1>5, <1>6, <1>7

(* Which promises a settlement changes. *)
LEMMA Settling ==
  ASSUME TypeOK, NEW S, NEW outcome \in {"resolved", "rejected"},
         promise' = Settle(S, outcome)
  PROVE  \A t \in Tasks : /\ Pending(t)' <=> (Pending(t) /\ t \notin S)
                          /\ Settled(t)' <=> (Settled(t) \/ (Pending(t) /\ t \in S))
                          /\ promise[t] # "none" => promise'[t] # "none"
                          /\ promise'[t] \in Outcome
BY DEF Pending, Settled, Settle, TypeOK, Outcome

(* A createWorker that ends without a new roster member, and the rejection  *)
(* of timed-out tasks S, keep the invariant.                                *)
LEMMA NoJoinKeeps ==
  ASSUME IndInv, NEW S \in SUBSET timedOut,
         timedOut' = timedOut \ S, promise' = Settle(S, "rejected"),
         starting' \in Nat,
         UNCHANGED <<poolVars, timers, threadVars>>
  PROVE  IndInv'
<1> USE DEF IndInv, Safe
<1>1. UNCHANGED <<workers, availableWorkers, taskQueue, activeTasks, terminated,
                  readyWorkers, startupFailures, threads, posted, replies, errors>>
  BY DEF poolVars, threadVars
<1>2. /\ Active' = Active /\ Idle' = Idle /\ Queued' = Queued
      /\ \A v \in Workers : isBusy(v)' = isBusy(v)
  BY <1>1 DEF Active, Idle, Queued, isBusy
<1>3. TypeOK'
  BY <1>1 DEF TypeOK, Outcome, Settle
<1>4. TaskTracked'
  <2>1. \A t \in Tasks : /\ Pending(t)' <=> (Pending(t) /\ t \notin S)
                         /\ Settled(t) => Settled(t)'
    BY Settling
  <2>2. Queued \subseteq Tasks /\ timedOut \subseteq Tasks /\ Active \subseteq Tasks
    BY Lists DEF Active, TypeOK
  <2>3. \A t \in Queued' \cup Active' : t \notin S
    BY <1>2 DEF TaskTracked
  <2>. QED
    BY <1>1, <1>2, <2>1, <2>2, <2>3 DEF TaskTracked
<1>5. RosterOK' /\ WorkConserving'
  BY <1>1, <1>2, Lists DEF RosterOK, WorkConserving
<1>6. MessagesOwned'
  BY <1>1, <1>2 DEF MessagesOwned, Settle, TypeOK
<1>7. ThreadsOwned' /\ TerminatedIsQuiet' /\ TimersOwned'
  <2>1. \A t \in Tasks : Pending(t)' => Pending(t) /\ t \notin S
    BY DEF Pending, Settle, TypeOK
  <2>. QED
    BY <1>1, <1>2, <2>1 DEF ThreadsOwned, TerminatedIsQuiet, TimersOwned
<1>. QED
  BY <1>3, <1>4, <1>5, <1>6, <1>7

(* A new worker joins and drains the queue, and timed-out tasks S are       *)
(* rejected: the invariant is kept.                                         *)
LEMMA JoinKeeps ==
  ASSUME IndInv, NEW w \in Workers, Join(w), NEW S \in SUBSET timedOut,
         timedOut' = timedOut \ S, promise' = Settle(S, "rejected"),
         starting' \in Nat,
         UNCHANGED <<terminated, startupFailures, timers, replies, errors>>
  PROVE  IndInv'
<1> USE DEF IndInv, Safe
<1>1. CASE terminated
  <2>1. UNCHANGED <<poolVars, timers, threadVars>>
    BY <1>1 DEF Join, poolVars, threadVars
  <2>. QED
    BY <2>1, NoJoinKeeps
<1>2. CASE ~terminated
  <2>1. /\ workers' = workers \cup {w} /\ threads' = threads \cup {w}
        /\ readyWorkers' = readyWorkers \ {w}
        /\ ProcessQueue(taskQueue, Append(availableWorkers, w), activeTasks)
        /\ w \notin workers /\ w \notin threads
        /\ \A p \in posted : p[1] # w
        /\ \A m \in replies : m[1] # w
    BY <1>2 DEF Join, Fresh
  <2>2. w \notin Idle /\ ~isBusy(w)
    BY <2>1 DEF RosterOK
  <2>3. activeTasks \in [Tasks -> Workers \cup {NoWorker}]
    BY DEF TypeOK
  <2>4. \A t \in Tasks : /\ Pending(t)' <=> (Pending(t) /\ t \notin S)
                         /\ Settled(t) => Settled(t)'
                         /\ promise[t] # "none" => promise'[t] # "none"
    BY Settling
  <2>0. Queued \subseteq Tasks /\ timedOut \subseteq Tasks /\ Active \subseteq Tasks
    BY Lists DEF Active, TypeOK
  <2>5. CASE /\ taskQueue = <<>> /\ taskQueue' = <<>> /\ Queued = {} /\ Queued' = {}
             /\ availableWorkers' \in Seq(Workers) /\ IsInjective(availableWorkers')
             /\ Idle' = Idle \cup {w}
             /\ activeTasks' = activeTasks
             /\ posted' = posted
    <3>1. Active' = Active /\ \A v \in Workers : isBusy(v)' = isBusy(v)
      BY <2>5 DEF Active, isBusy
    <3>2. TypeOK'
      BY <2>1, <2>5 DEF TypeOK, Outcome, Settle
    <3>3. TaskTracked'
      <4>1. IsInjective(taskQueue') /\ \A t \in Active' : t \notin S
        BY <2>5, <3>1, EmptyList DEF TaskTracked
      <4>. QED
        BY <2>0, <2>4, <2>5, <3>1, <4>1 DEF TaskTracked
    <3>4. RosterOK' /\ WorkConserving'
      BY <2>1, <2>2, <2>5, <3>1, Lists DEF RosterOK, WorkConserving
    <3>5. MessagesOwned'
      BY <2>4, <2>5, <3>1 DEF MessagesOwned
    <3>6. ThreadsOwned' /\ TerminatedIsQuiet' /\ TimersOwned'
      BY <1>2, <2>1, <2>5, <3>1 DEF ThreadsOwned, TerminatedIsQuiet, TimersOwned
    <3>. QED
      BY <3>2, <3>3, <3>4, <3>5, <3>6
  <2>6. CASE \E t \in Queued :
               /\ taskQueue' \in Seq(Tasks) /\ IsInjective(taskQueue')
               /\ Queued' = Queued \ {t}
               /\ Idle = {} /\ availableWorkers' = <<>> /\ Idle' = {}
               /\ activeTasks' = [activeTasks EXCEPT ![t] = w]
               /\ posted' \subseteq posted \cup {<<w, t>>}
               /\ w \in threads' \/ posted' = posted
    <3>1. PICK u \in Queued :
               /\ taskQueue' \in Seq(Tasks) /\ IsInjective(taskQueue')
               /\ Queued' = Queued \ {u}
               /\ Idle = {} /\ availableWorkers' = <<>> /\ Idle' = {}
               /\ activeTasks' = [activeTasks EXCEPT ![u] = w]
               /\ posted' \subseteq posted \cup {<<w, u>>}
      BY <2>6
    <3>2. /\ u \in Tasks /\ u \notin Active /\ u \notin timedOut /\ Pending(u)
          /\ w # NoWorker
      BY Lists, NoWorkerAssumption DEF TaskTracked
    <3>3. /\ Active' = Active \cup {u}
          /\ \A v \in Workers : isBusy(v)' <=> (isBusy(v) \/ v = w)
      BY <2>3, <3>1, <3>2, NoWorkerAssumption DEF Active, isBusy
    <3>4. TypeOK'
      BY <2>1, <3>1, <3>2 DEF TypeOK, Outcome, Settle
    <3>5. TaskTracked'
      <4>1. \A t \in Queued' \cup Active' : t \notin S
        BY <3>1, <3>2, <3>3 DEF TaskTracked
      <4>2. /\ Queued' \cap Active' = {}
            /\ timedOut' \cap (Queued' \cup Active') = {}
        BY <3>1, <3>2, <3>3 DEF TaskTracked
      <4>3. \A t \in Tasks : Pending(t)' => t \in Queued' \cup Active' \cup timedOut'
        BY <2>4, <3>1, <3>3 DEF TaskTracked
      <4>4. \A t \in Queued' : Pending(t)'
        BY <2>0, <2>4, <3>1, <4>1 DEF TaskTracked
      <4>5. \A t \in Active' \cup timedOut' : Pending(t)' \/ (t \in Unclonable /\ Settled(t)')
        BY <2>0, <2>4, <3>2, <3>3, <4>1 DEF TaskTracked
      <4>. QED
        BY <3>1, <4>2, <4>3, <4>4, <4>5 DEF TaskTracked
    <3>6. RosterOK'
      <4>1. \A t, x \in Active' : activeTasks'[t] = activeTasks'[x] => t = x
        BY <2>2, <2>3, <3>1, <3>2, <3>3 DEF RosterOK, Active, isBusy
      <4>2. IsInjective(availableWorkers')
        BY <3>1, EmptyList
      <4>. QED
        BY <2>1, <2>2, <3>1, <3>3, <4>1, <4>2 DEF RosterOK
    <3>7. WorkConserving'
      BY <3>1 DEF WorkConserving
    <3>8. MessagesOwned'
      <4> SUFFICES ASSUME NEW v \in Workers, NEW x \in Tasks,
                          \/ <<v, x>> \in posted'
                          \/ \E type \in Reply : <<v, x, type>> \in replies'
                   PROVE  /\ promise'[x] # "none"
                          /\ x \notin Queued'
                          /\ x \in Active' => activeTasks'[x] = v
        BY DEF MessagesOwned
      <4>1. CASE <<v, x>> \in posted \/ \E type \in Reply : <<v, x, type>> \in replies
        <5>1. /\ promise[x] # "none" /\ x \notin Queued
              /\ x \in Active => activeTasks[x] = v
          BY <4>1 DEF MessagesOwned
        <5>. QED
          BY <2>3, <2>4, <3>1, <3>3, <5>1 DEF Active
      <4>2. CASE v = w /\ x = u
        BY <2>3, <2>4, <3>1, <3>2, <4>2 DEF Pending
      <4>. QED
        BY <3>1, <4>1, <4>2
    <3>9. ThreadsOwned' /\ TerminatedIsQuiet' /\ TimersOwned'
      BY <1>2, <2>1, <3>1, <3>3 DEF ThreadsOwned, TerminatedIsQuiet, TimersOwned
    <3>. QED
      BY <3>4, <3>5, <3>6, <3>7, <3>8, <3>9
  <2>7. WorkConserving /\ IsInjective(taskQueue) /\ IsInjective(availableWorkers)
    BY Lists
  <2>. QED
    BY <2>1, <2>2, <2>3, <2>5, <2>6, <2>7, Drain
<1>. QED
  BY <1>1, <1>2

(* The continuations of createWorker keep the invariant. *)
LEMMA SpawnStep ==
  ASSUME IndInv,
         \/ \E w \in Workers : WorkerStarts(w)
         \/ WorkerStartFails
         \/ \E t \in Tasks, w \in Workers : TimeoutReplaced(t, w)
         \/ \E t \in Tasks : TimeoutStartFails(t)
  PROVE  IndInv'
<1>1. TypeOK
  BY DEF IndInv
<1>2. promise = Settle({}, "rejected")
  BY <1>1 DEF Settle, TypeOK
<1>3. CASE \E w \in Workers : WorkerStarts(w)
  <2>1. PICK w \in Workers : WorkerStarts(w)
    BY <1>3
  <2>2. starting' \in Nat
    BY <1>1, <2>1 DEF WorkerStarts, TypeOK
  <2>3. /\ Join(w) /\ promise' = promise /\ timedOut' = timedOut \ {}
        /\ UNCHANGED <<terminated, startupFailures, timers, replies, errors>>
    BY <2>1 DEF WorkerStarts
  <2>. QED
    BY <1>2, <2>2, <2>3, JoinKeeps
<1>4. CASE WorkerStartFails
  <2>1. starting' \in Nat
    BY <1>1, <1>4 DEF WorkerStartFails, TypeOK
  <2>2. /\ promise' = promise /\ timedOut' = timedOut \ {}
        /\ UNCHANGED <<poolVars, timers, threadVars>>
    BY <1>4 DEF WorkerStartFails
  <2>. QED
    BY <1>2, <2>1, <2>2, NoJoinKeeps
<1>5. CASE \E t \in Tasks, w \in Workers : TimeoutReplaced(t, w)
  <2>1. PICK t \in Tasks, w \in Workers : TimeoutReplaced(t, w)
    BY <1>5
  <2>2. starting' \in Nat
    BY <1>1, <2>1 DEF TimeoutReplaced, TypeOK
  <2>3. /\ Join(w) /\ promise' = Settle({t}, "rejected")
        /\ timedOut' = timedOut \ {t} /\ {t} \subseteq timedOut
        /\ UNCHANGED <<terminated, startupFailures, timers, replies, errors>>
    BY <2>1 DEF TimeoutReplaced
  <2>. QED
    BY <2>2, <2>3, JoinKeeps
<1>6. CASE \E t \in Tasks : TimeoutStartFails(t)
  <2>1. PICK t \in Tasks : TimeoutStartFails(t)
    BY <1>6
  <2>2. starting' \in Nat
    BY <1>1, <2>1 DEF TimeoutStartFails, TypeOK
  <2>3. /\ promise' = Settle({t}, "rejected")
        /\ timedOut' = timedOut \ {t} /\ {t} \subseteq timedOut
        /\ UNCHANGED <<poolVars, timers, threadVars>>
    BY <2>1 DEF TimeoutStartFails
  <2>. QED
    BY <2>2, <2>3, NoJoinKeeps
<1>. QED
  BY <1>3, <1>4, <1>5, <1>6

(* A message keeps the invariant: it comes from the worker that runs the    *)
(* task, which is therefore neither idle nor evicted.                       *)
LEMMA MessageStep ==
  ASSUME IndInv, NEW w \in Workers, NEW t \in Tasks, NEW type \in Reply,
         HandleWorkerMessage(w, t, type)
  PROVE  IndInv'
<1> USE DEF IndInv, Safe
<1>1. /\ <<w, t, type>> \in replies
      /\ replies' \subseteq replies
      /\ readyWorkers' = readyWorkers \cup {w}
      /\ startupFailures' = 0
      /\ UNCHANGED <<workers, terminated, starting, timedOut, threads, errors>>
  BY DEF HandleWorkerMessage
<1>2. activeTasks \in [Tasks -> Workers \cup {NoWorker}] /\ Active \subseteq Tasks
  BY DEF TypeOK, Active
<1>3. Queued \subseteq Tasks /\ timedOut \subseteq Tasks /\ Idle \subseteq Workers
  BY Lists DEF TypeOK
<1>4. CASE t \notin Active
  <2>1. ~(w \in workers /\ w \notin Idle /\ ~isBusy(w))
    BY DEF RosterOK
  <2>2. UNCHANGED <<promise, timers, taskQueue, availableWorkers, activeTasks, posted>>
    BY <1>4, <2>1 DEF HandleWorkerMessage, GivesBack
  <2>3. /\ Active' = Active /\ Idle' = Idle /\ Queued' = Queued
        /\ \A v \in Workers : isBusy(v)' = isBusy(v)
    BY <2>2 DEF Active, Idle, Queued, isBusy
  <2>4. TypeOK'
    BY <1>1, <2>2 DEF TypeOK
  <2>5. TaskTracked'
    BY <1>1, <2>2, <2>3 DEF TaskTracked, Pending, Settled
  <2>6. RosterOK' /\ WorkConserving' /\ ThreadsOwned' /\ TimersOwned'
    <3>1. IsInjective(availableWorkers')
      BY <2>2, Lists
    <3>2. RosterOK'
      BY <1>1, <1>3, <2>2, <2>3, <3>1 DEF RosterOK
    <3>. QED
      BY <1>1, <2>2, <2>3, <3>2 DEF WorkConserving, ThreadsOwned, TimersOwned
  <2>7. MessagesOwned'
    BY <1>1, <2>2, <2>3 DEF MessagesOwned
  <2>8. TerminatedIsQuiet'
    BY <1>1, <2>2, <2>3 DEF TerminatedIsQuiet, Pending
  <2>. QED
    BY <2>4, <2>5, <2>6, <2>7, <2>8
<1>5. CASE t \in Active
  <2> DEFINE freed   == [activeTasks EXCEPT ![t] = NoWorker]
             outcome == IF type = "result" THEN "resolved" ELSE "rejected"
  <2>1. activeTasks[t] = w /\ t \notin Queued /\ t \notin timedOut /\ w # NoWorker
    BY <1>1, <1>5, NoWorkerAssumption DEF MessagesOwned, TaskTracked
  <2>2. w \in workers /\ w \notin Idle /\ ~terminated
    BY <1>5, <2>1 DEF RosterOK, isBusy, TerminatedIsQuiet
  <2>3. /\ promise' = Settle({t}, outcome) /\ outcome \in {"resolved", "rejected"}
        /\ timers' = timers \ {t}
        /\ ProcessQueue(taskQueue, Append(availableWorkers, w), freed)
    BY <1>5 DEF HandleWorkerMessage
  <2>4. /\ freed \in [Tasks -> Workers \cup {NoWorker}]
        /\ freed[t] = NoWorker /\ \A x \in Tasks : x # t => freed[x] = activeTasks[x]
    BY <1>2
  <2>5. \A x \in Tasks : activeTasks[x] = w => x = t
    BY <1>5, <2>1 DEF RosterOK, Active
  <2> HIDE DEF freed, outcome
  <2>6. \A x \in Tasks : /\ Pending(x)' <=> (Pending(x) /\ x # t)
                         /\ Settled(x) => Settled(x)'
                         /\ promise[x] # "none" => promise'[x] # "none"
                         /\ promise'[x] \in Outcome
    BY <2>3, Settling
  <2>7. promise' \in [Tasks -> Outcome] /\ timers' \subseteq Tasks
    <3>1. promise' = [x \in Tasks |-> promise'[x]]
      BY <2>3 DEF Settle
    <3>. QED
      BY <2>3, <2>6, <3>1 DEF TypeOK
  <2>8. WorkConserving /\ IsInjective(taskQueue) /\ IsInjective(availableWorkers)
    BY Lists
  <2>9. CASE /\ taskQueue = <<>> /\ taskQueue' = <<>> /\ Queued = {} /\ Queued' = {}
             /\ availableWorkers' \in Seq(Workers) /\ IsInjective(availableWorkers')
             /\ Idle' = Idle \cup {w}
             /\ activeTasks' = freed
             /\ posted' = posted
    <3>1. /\ Active' = Active \ {t}
          /\ \A v \in Workers : isBusy(v)' <=> (isBusy(v) /\ v # w)
      BY <1>2, <2>1, <2>4, <2>5, <2>9, NoWorkerAssumption DEF Active, isBusy
    <3>2. TypeOK'
      BY <1>1, <2>4, <2>7, <2>9 DEF TypeOK
    <3>3. TaskTracked'
      BY <1>1, <1>2, <1>3, <2>1, <2>6, <2>8, <2>9, <3>1 DEF TaskTracked
    <3>4. RosterOK' /\ WorkConserving'
      <4>1. \A x, y \in Active' : activeTasks'[x] = activeTasks'[y] => x = y
        BY <1>2, <2>4, <2>9, <3>1 DEF RosterOK
      <4>. QED
        BY <1>1, <1>3, <2>2, <2>9, <3>1, <4>1 DEF RosterOK, WorkConserving
    <3>5. MessagesOwned'
      BY <1>1, <2>4, <2>6, <2>9, <3>1 DEF MessagesOwned
    <3>6. ThreadsOwned' /\ TerminatedIsQuiet' /\ TimersOwned'
      BY <1>1, <2>2, <2>3, <2>9, <3>1 DEF ThreadsOwned, TerminatedIsQuiet, TimersOwned
    <3>. QED
      BY <3>2, <3>3, <3>4, <3>5, <3>6
  <2>10. CASE \E u \in Queued :
               /\ taskQueue' \in Seq(Tasks) /\ IsInjective(taskQueue')
               /\ Queued' = Queued \ {u}
               /\ Idle = {} /\ availableWorkers' = <<>> /\ Idle' = {}
               /\ activeTasks' = [freed EXCEPT ![u] = w]
               /\ posted' \subseteq posted \cup {<<w, u>>}
               /\ w \in threads' \/ posted' = posted
    <3>1. PICK u \in Queued :
               /\ taskQueue' \in Seq(Tasks) /\ IsInjective(taskQueue')
               /\ Queued' = Queued \ {u}
               /\ Idle = {} /\ availableWorkers' = <<>> /\ Idle' = {}
               /\ activeTasks' = [freed EXCEPT ![u] = w]
               /\ posted' \subseteq posted \cup {<<w, u>>}
               /\ w \in threads' \/ posted' = posted
      BY <2>10
    <3>2. /\ u \in Tasks /\ u \notin Active /\ u \notin timedOut /\ Pending(u) /\ u # t
      BY <1>3, <1>5 DEF TaskTracked
    <3>3. /\ activeTasks' \in [Tasks -> Workers \cup {NoWorker}]
          /\ activeTasks'[u] = w /\ activeTasks'[t] = NoWorker
          /\ \A x \in Tasks : x # t /\ x # u => activeTasks'[x] = activeTasks[x]
      BY <2>4, <3>1, <3>2
    <3>4. /\ Active' = (Active \ {t}) \cup {u}
          /\ \A v \in Workers : isBusy(v)' <=> isBusy(v)
      <4>1. Active' = (Active \ {t}) \cup {u}
        BY <2>1, <3>2, <3>3 DEF Active
      <4>2. isBusy(w) /\ isBusy(w)'
        BY <1>2, <1>5, <2>1, <3>2, <3>3 DEF isBusy
      <4>3. \A v \in Workers : v # w => (isBusy(v)' <=> isBusy(v))
        BY <2>1, <3>2, <3>3, NoWorkerAssumption DEF isBusy, Active
      <4>. QED
        BY <4>1, <4>2, <4>3
    <3>5. TypeOK'
      BY <1>1, <2>7, <3>1, <3>2, <3>3 DEF TypeOK
    <3>6. TaskTracked'
      <4>1. /\ Queued' \cap Active' = {}
            /\ timedOut' \cap (Queued' \cup Active') = {}
        BY <1>1, <3>1, <3>2, <3>4 DEF TaskTracked
      <4>2. \A x \in Tasks : Pending(x)' => x \in Queued' \cup Active' \cup timedOut'
        BY <1>1, <2>6, <3>1, <3>4 DEF TaskTracked
      <4>3. \A x \in Queued' : Pending(x)'
        BY <1>3, <2>1, <2>6, <3>1 DEF TaskTracked
      <4>4. \A x \in Active' \cup timedOut' : Pending(x)' \/ (x \in Unclonable /\ Settled(x)')
        BY <1>1, <1>2, <1>3, <2>1, <2>6, <3>2, <3>4 DEF TaskTracked
      <4>. QED
        BY <3>1, <4>1, <4>2, <4>3, <4>4 DEF TaskTracked
    <3>7. RosterOK' /\ WorkConserving'
      <4>1. \A x, y \in Active' : activeTasks'[x] = activeTasks'[y] => x = y
        BY <1>2, <2>5, <3>2, <3>3, <3>4 DEF RosterOK
      <4>2. IsInjective(availableWorkers')
        BY <3>1, EmptyList
      <4>. QED
        BY <1>1, <3>1, <3>4, <4>1, <4>2 DEF RosterOK, WorkConserving
    <3>8. MessagesOwned'
      <4> SUFFICES ASSUME NEW v \in Workers, NEW x \in Tasks,
                          \/ <<v, x>> \in posted'
                          \/ \E kind \in Reply : <<v, x, kind>> \in replies'
                   PROVE  /\ promise'[x] # "none"
                          /\ x \notin Queued'
                          /\ x \in Active' => activeTasks'[x] = v
        BY DEF MessagesOwned
      <4>1. CASE <<v, x>> \in posted \/ \E kind \in Reply : <<v, x, kind>> \in replies
        <5>1. /\ promise[x] # "none" /\ x \notin Queued
              /\ x \in Active => activeTasks[x] = v
          BY <4>1 DEF MessagesOwned
        <5>. QED
          BY <2>6, <3>1, <3>3, <3>4, <5>1
      <4>2. CASE v = w /\ x = u
        BY <2>6, <3>1, <3>2, <3>3, <4>2 DEF Pending
      <4>. QED
        BY <1>1, <3>1, <4>1, <4>2
    <3>9. ThreadsOwned' /\ TerminatedIsQuiet' /\ TimersOwned'
      BY <1>1, <2>2, <2>3, <3>1, <3>4 DEF ThreadsOwned, TerminatedIsQuiet, TimersOwned
    <3>. QED
      BY <3>5, <3>6, <3>7, <3>8, <3>9
  <2>. QED
    BY <2>2, <2>3, <2>4, <2>8, <2>9, <2>10, Drain
<1>. QED
  BY <1>4, <1>5

(* Worker w leaves the pool.  The tasks of failed are rejected, those of    *)
(* late are rejected when their replacement is there; together they are the *)
(* task that w runs and the queued tasks that are dropped.                  *)
LEMMA EvictKeeps ==
  ASSUME IndInv, NEW w \in workers, Evict(w),
         NEW failed \in SUBSET Tasks, NEW late \in SUBSET RunningOn(w),
         NEW dropped \in SUBSET Queued,
         failed \cup late = RunningOn(w) \cup dropped,
         failed \cap late = {},
         activeTasks' = [t \in Tasks |-> IF activeTasks[t] = w THEN NoWorker ELSE activeTasks[t]],
         taskQueue' \in Seq(Tasks), IsInjective(taskQueue'), Queued' = Queued \ dropped,
         promise' = Settle(failed, "rejected"),
         timers' = timers \ (RunningOn(w) \cup dropped),
         timedOut' = timedOut \cup late,
         errors' \subseteq errors, errors \ {w} \subseteq errors',
         startupFailures' \in Nat, starting' \in Nat,
         UNCHANGED <<terminated, readyWorkers, replies>>
  PROVE  IndInv'
<1> USE DEF IndInv, Safe
<1>1. /\ workers' = workers \ {w} /\ threads' = threads \ {w}
      /\ posted' = {p \in posted : p[1] # w}
  BY DEF Evict
<1>2. /\ availableWorkers' \in Seq(Workers) /\ IsInjective(availableWorkers')
      /\ Idle' = Idle \ {w}
  <2>1. availableWorkers' = Without(availableWorkers, w)
    BY DEF Evict
  <2>2. availableWorkers \in Seq(Workers) /\ IsInjective(availableWorkers)
    BY Lists
  <2>. QED
    BY <2>1, <2>2, RemoveOne DEF Idle
<1>3. w \in Workers /\ w # NoWorker /\ ~terminated
  BY NoWorkerAssumption DEF TypeOK, TerminatedIsQuiet
<1>4. /\ Queued \subseteq Tasks /\ timedOut \subseteq Tasks /\ Idle \subseteq Workers
      /\ Active \subseteq Tasks /\ RunningOn(w) \subseteq Active
  BY <1>3, Lists DEF TypeOK, Active, RunningOn
<1>5. /\ Active' = Active \ RunningOn(w)
      /\ \A v \in Workers : isBusy(v)' <=> (isBusy(v) /\ v # w)
      /\ \A t \in Active' : activeTasks'[t] = activeTasks[t]
  BY <1>3, NoWorkerAssumption DEF Active, RunningOn, isBusy
<1>6. \A t \in Tasks : /\ Pending(t)' <=> (Pending(t) /\ t \notin failed)
                       /\ Settled(t) => Settled(t)'
                       /\ promise[t] # "none" => promise'[t] # "none"
                       /\ promise'[t] \in Outcome
  BY Settling
<1>7. TypeOK'
  <2>1. promise' = [t \in Tasks |-> promise'[t]]
    BY DEF Settle
  <2>2. promise' \in [Tasks -> Outcome]
    BY <1>6, <2>1
  <2>3. activeTasks' \in [Tasks -> Workers \cup {NoWorker}]
    BY DEF TypeOK
  <2>4. timedOut' \subseteq Tasks /\ timers' \subseteq Tasks
    BY <1>4 DEF TypeOK
  <2>. QED
    BY <1>1, <1>2, <2>2, <2>3, <2>4 DEF TypeOK
<1>8. TaskTracked'
  <2>1. /\ Queued' \cap Active' = {}
        /\ timedOut' \cap (Queued' \cup Active') = {}
    BY <1>4, <1>5 DEF TaskTracked
  <2>2. \A t \in Tasks : Pending(t)' => t \in Queued' \cup Active' \cup timedOut'
    BY <1>5, <1>6 DEF TaskTracked
  <2>3. \A t \in Queued' : Pending(t)'
    BY <1>4, <1>6 DEF TaskTracked
  <2>4. \A t \in Active' \cup timedOut' : t \notin failed
    BY <1>4, <1>5 DEF TaskTracked
  <2>5. \A t \in Active' \cup timedOut' : Pending(t) \/ (t \in Unclonable /\ Settled(t))
    BY <1>4, <1>5 DEF TaskTracked
  <2>6. \A t \in Active' \cup timedOut' : Pending(t)' \/ (t \in Unclonable /\ Settled(t)')
    BY <1>4, <1>5, <1>6, <2>4, <2>5
  <2>. QED
    BY <2>1, <2>2, <2>3, <2>6 DEF TaskTracked
<1>9. RosterOK'
  <2>1. ASSUME NEW t \in Active', NEW u \in Active', activeTasks'[t] = activeTasks'[u]
        PROVE  t = u
    <3>1. t \in Active /\ u \in Active /\ activeTasks[t] = activeTasks[u]
      BY <1>5, <2>1
    <3>. QED
      BY <3>1 DEF RosterOK
  <2>. QED
    BY <1>1, <1>2, <1>4, <1>5, <2>1 DEF RosterOK
<1>10. WorkConserving'
  <2>1. taskQueue' # <<>> => Idle' = {}
    <3>1. taskQueue' # <<>> => Queued' # {}
      BY NoElement DEF Queued
    <3>2. Queued # {} => Idle = {}
      BY Lists DEF WorkConserving
    <3>. QED
      BY <1>2, <3>1, <3>2
  <2>2. Idle' = {} => availableWorkers' = <<>>
    BY <1>2, NoElement DEF Idle
  <2>. QED
    BY <2>1, <2>2 DEF WorkConserving
<1>11. MessagesOwned'
  BY <1>1, <1>5, <1>6 DEF MessagesOwned
<1>12. ThreadsOwned'
  BY <1>1 DEF ThreadsOwned
<1>13. TerminatedIsQuiet' /\ TimersOwned'
  BY <1>3, <1>5 DEF TerminatedIsQuiet, TimersOwned
<1>. QED
  BY <1>7, <1>8, <1>9, <1>10, <1>11, <1>12, <1>13

(* The error events keep the invariant. *)
LEMMA ErrorStep ==
  ASSUME IndInv, NEW w \in Workers,
         IgnoreWorkerError(w) \/ HandleWorkerError(w) \/ HandleStartupCap(w)
  PROVE  IndInv'
<1>1. TypeOK
  BY DEF IndInv
<1>2. /\ RunningOn(w) \subseteq Tasks /\ Queued \subseteq Tasks
      /\ taskQueue \in Seq(Tasks) /\ IsInjective(taskQueue)
      /\ startupFailures + 1 \in Nat /\ starting + 1 \in Nat
  BY <1>1, Lists DEF RunningOn, TypeOK
<1>3. CASE IgnoreWorkerError(w)
  <2>1. /\ errors' = errors \ {w} /\ w \notin workers
        /\ UNCHANGED <<workers, availableWorkers, taskQueue, activeTasks, terminated,
                       readyWorkers, startupFailures, promise, timers, starting,
                       timedOut, threads, posted, replies>>
    BY <1>3 DEF IgnoreWorkerError, poolVars, callVars
  <2>2. /\ Active' = Active /\ Idle' = Idle /\ Queued' = Queued
        /\ \A v \in Workers : isBusy(v)' = isBusy(v)
    BY <2>1 DEF Active, Idle, Queued, isBusy
  <2>3. TypeOK'
    BY <1>1, <2>1 DEF TypeOK
  <2>4. TaskTracked'
    BY <2>1, <2>2 DEF IndInv, Safe, TaskTracked, Pending, Settled
  <2>5. RosterOK' /\ WorkConserving'
    BY <2>1, <2>2, Lists DEF IndInv, Safe, RosterOK, WorkConserving
  <2>6. MessagesOwned' /\ ThreadsOwned'
    BY <2>1, <2>2 DEF IndInv, Safe, MessagesOwned, ThreadsOwned
  <2>7. TerminatedIsQuiet' /\ TimersOwned'
    BY <2>1, <2>2 DEF IndInv, Safe, TerminatedIsQuiet, TimersOwned, Pending
  <2>. QED
    BY <2>3, <2>4, <2>5, <2>6, <2>7 DEF IndInv, Safe
<1>4. CASE HandleWorkerError(w)
  <2>1. /\ w \in workers /\ Evict(w) /\ FailTasksOf(w, {})
        /\ errors' = errors \ {w} /\ timedOut' = timedOut \cup {}
        /\ UNCHANGED <<taskQueue, terminated, readyWorkers, replies>>
    BY <1>4 DEF HandleWorkerError
  <2>2. startupFailures' \in Nat /\ starting' \in Nat
    BY <1>1, <1>2, <1>4 DEF HandleWorkerError, TypeOK
  <2>3. IsInjective(taskQueue') /\ taskQueue' \in Seq(Tasks) /\ Queued' = Queued \ {}
    BY <1>2, <2>1 DEF Queued
  <2>4. /\ activeTasks' = [t \in Tasks |-> IF activeTasks[t] = w THEN NoWorker ELSE activeTasks[t]]
        /\ promise' = Settle(RunningOn(w), "rejected")
        /\ timers' = timers \ (RunningOn(w) \cup {})
    BY <2>1 DEF FailTasksOf
  <2>5. RunningOn(w) \in SUBSET Tasks /\ {} \in SUBSET RunningOn(w) /\ {} \in SUBSET Queued
    BY <1>2
  <2>. QED
    BY <1>2, <2>1, <2>2, <2>3, <2>4, <2>5, EvictKeeps
<1>5. CASE HandleStartupCap(w)
  <2>1. /\ w \in workers /\ Evict(w) /\ FailTasksOf(w, Queued)
        /\ errors' = errors \ {w} /\ timedOut' = timedOut \cup {}
        /\ taskQueue' = <<>>
        /\ UNCHANGED <<terminated, readyWorkers, replies>>
    BY <1>5 DEF HandleStartupCap
  <2>2. startupFailures' \in Nat /\ starting' \in Nat
    BY <1>1, <1>2, <1>5 DEF HandleStartupCap, TypeOK
  <2>3. IsInjective(taskQueue') /\ taskQueue' \in Seq(Tasks) /\ Queued' = Queued \ Queued
    BY <2>1, EmptyList DEF Queued
  <2>4. /\ activeTasks' = [t \in Tasks |-> IF activeTasks[t] = w THEN NoWorker ELSE activeTasks[t]]
        /\ promise' = Settle(RunningOn(w) \cup Queued, "rejected")
        /\ timers' = timers \ (RunningOn(w) \cup Queued)
    BY <2>1 DEF FailTasksOf
  <2>5. RunningOn(w) \cup Queued \in SUBSET Tasks /\ {} \in SUBSET RunningOn(w)
    BY <1>2
  <2>. QED
    BY <1>2, <2>1, <2>2, <2>3, <2>4, <2>5, EvictKeeps
<1>. QED
  BY <1>3, <1>4, <1>5

(* A timer keeps the invariant. *)
LEMMA TimeoutStep ==
  ASSUME IndInv, NEW t \in Tasks, HandleTaskTimeout(t)
  PROVE  IndInv'
<1> USE DEF IndInv, Safe
<1>1. /\ t \in timers /\ timers' = timers \ {t}
      /\ UNCHANGED <<terminated, readyWorkers, startupFailures, starting, replies, errors>>
  BY DEF HandleTaskTimeout
<1>2. /\ Queued \subseteq Tasks /\ timedOut \subseteq Tasks /\ Active \subseteq Tasks
      /\ Idle \subseteq Workers /\ timers \subseteq Tasks
  BY Lists DEF TypeOK, Active
<1>3. CASE t \in Queued
  <2>1. /\ taskQueue' = Without(taskQueue, t)
        /\ promise' = Settle({t}, "rejected")
        /\ UNCHANGED <<workers, availableWorkers, activeTasks, timedOut, threads, posted>>
    BY <1>3 DEF HandleTaskTimeout
  <2>2. /\ taskQueue' \in Seq(Tasks) /\ IsInjective(taskQueue')
        /\ Queued' = Queued \ {t}
    BY <2>1, Lists, RemoveOne DEF Queued
  <2>3. \A x \in Tasks : /\ Pending(x)' <=> (Pending(x) /\ x # t)
                         /\ Settled(x) => Settled(x)'
                         /\ promise[x] # "none" => promise'[x] # "none"
                         /\ promise'[x] \in Outcome
    BY <2>1, Settling
  <2>4. /\ Active' = Active /\ Idle' = Idle
        /\ \A v \in Workers : isBusy(v)' = isBusy(v)
    BY <2>1 DEF Active, Idle, isBusy
  <2>5. TypeOK'
    <3>1. promise' = [x \in Tasks |-> promise'[x]]
      BY <2>1 DEF Settle
    <3>2. promise' \in [Tasks -> Outcome]
      BY <2>3, <3>1
    <3>. QED
      BY <1>1, <2>1, <2>2, <3>2 DEF TypeOK
  <2>6. TaskTracked'
    <3>1. t \notin Active /\ t \notin timedOut
      BY <1>3 DEF TaskTracked
    <3>2. \A x \in Active \cup timedOut : Pending(x)' \/ (x \in Unclonable /\ Settled(x)')
      BY <1>2, <2>3, <3>1 DEF TaskTracked
    <3>. QED
      BY <1>2, <2>1, <2>2, <2>3, <2>4, <3>2 DEF TaskTracked
  <2>7. RosterOK'
    <3>1. IsInjective(availableWorkers')
      BY <2>1, Lists
    <3>. QED
      BY <1>2, <2>1, <2>4, <3>1 DEF RosterOK
  <2>8. WorkConserving'
    BY <1>3, <2>1, EmptyList DEF WorkConserving, Queued
  <2>9. MessagesOwned'
    BY <1>1, <2>1, <2>2, <2>3, <2>4 DEF MessagesOwned
  <2>10. ThreadsOwned'
    BY <1>1, <2>1 DEF ThreadsOwned
  <2>11. TerminatedIsQuiet' /\ TimersOwned'
    BY <1>1, <2>1, <2>2, <2>4 DEF TerminatedIsQuiet, TimersOwned
  <2>. QED
    BY <2>5, <2>6, <2>7, <2>8, <2>9, <2>10, <2>11
<1>4. CASE t \notin Queued /\ t \in Active
  <2> DEFINE w == activeTasks[t]
  <2>1. /\ activeTasks' = [activeTasks EXCEPT ![t] = NoWorker]
        /\ timedOut' = timedOut \cup {t} /\ Evict(w)
        /\ UNCHANGED <<taskQueue, promise>>
    BY <1>4 DEF HandleTaskTimeout
  <2>2. w \in Workers /\ isBusy(w)
    BY <1>4, NoWorkerAssumption DEF TypeOK, Active, isBusy
  <2>3. w \in workers
    BY <2>2 DEF RosterOK
  <2>4. RunningOn(w) = {t}
    BY <1>4, <2>2, NoWorkerAssumption DEF RunningOn, RosterOK, Active
  <2>5. activeTasks' = [x \in Tasks |-> IF activeTasks[x] = w THEN NoWorker ELSE activeTasks[x]]
    <3>1. activeTasks = [x \in Tasks |-> activeTasks[x]]
      BY DEF TypeOK
    <3>2. \A x \in Tasks : activeTasks[x] = w <=> x = t
      BY <2>4 DEF RunningOn
    <3>. QED
      BY <2>1, <3>1, <3>2
  <2>6. promise' = Settle({}, "rejected")
    BY <2>1 DEF Settle, TypeOK
  <2>7. /\ taskQueue' \in Seq(Tasks) /\ IsInjective(taskQueue') /\ Queued' = Queued \ {}
        /\ startupFailures' \in Nat /\ starting' \in Nat
    <3>1. taskQueue \in Seq(Tasks) /\ IsInjective(taskQueue)
      BY Lists
    <3>. QED
      BY <1>1, <2>1, <3>1 DEF Queued, TypeOK
  <2> HIDE DEF w
  <2>8. /\ {} \in SUBSET Tasks /\ {t} \in SUBSET RunningOn(w) /\ {} \in SUBSET Queued
        /\ {} \cup {t} = RunningOn(w) \cup {} /\ {} \cap {t} = {}
        /\ timers' = timers \ (RunningOn(w) \cup {})
        /\ errors' \subseteq errors /\ errors \ {w} \subseteq errors'
    BY <1>1, <2>4
  <2>. QED
    BY <1>1, <2>1, <2>3, <2>5, <2>6, <2>7, <2>8, EvictKeeps
<1>5. CASE t \notin Queued \cup Active
  BY <1>1, <1>5 DEF TimersOwned
<1>. QED
  BY <1>3, <1>4, <1>5

(* What the threads do keeps the invariant. *)
LEMMA ThreadStep ==
  ASSUME IndInv, NEW w \in Workers,
         \/ \E t \in Tasks, type \in Reply, again \in BOOLEAN : WorkerReplies(w, t, type, again)
         \/ \E stops \in BOOLEAN : WorkerFails(w, stops)
         \/ DropEvents(w)
  PROVE  IndInv'
<1> USE DEF IndInv, Safe
<1>1. UNCHANGED <<workers, availableWorkers, taskQueue, activeTasks, terminated,
                  readyWorkers, startupFailures, promise, timers, starting, timedOut>>
  BY DEF WorkerReplies, WorkerFails, DropEvents, poolVars, callVars
<1>2. /\ Active' = Active /\ Idle' = Idle /\ Queued' = Queued
      /\ \A v \in Workers : isBusy(v)' = isBusy(v)
  BY <1>1 DEF Active, Idle, Queued, isBusy
<1>3. /\ posted' \subseteq posted /\ threads' \subseteq threads /\ threads \ {w} \subseteq threads'
      /\ \A p \in posted' : p[1] = w => w \in threads'
      /\ w \in workers => workers \subseteq threads' \cup errors'
      /\ w \notin workers => errors \ {w} \subseteq errors'
      /\ errors' \subseteq errors \cup {w}
  BY DEF WorkerReplies, WorkerFails, DropEvents, ThreadsOwned
<1>4. \/ replies' \subseteq replies
      \/ \E t \in Tasks, type \in Reply :
           <<w, t>> \in posted /\ replies' = replies \cup {<<w, t, type>>}
  <2>1. CASE \E t \in Tasks, type \in Reply, again \in BOOLEAN : WorkerReplies(w, t, type, again)
    BY <2>1 DEF WorkerReplies
  <2>2. CASE \/ \E stops \in BOOLEAN : WorkerFails(w, stops)
             \/ DropEvents(w)
    BY <2>2 DEF WorkerFails, DropEvents
  <2>. QED
    BY <2>1, <2>2
<1>5. replies' \subseteq Workers \X Tasks \X Reply
  <2>1. \A t \in Tasks, type \in Reply : <<w, t, type>> \in Workers \X Tasks \X Reply
    OBVIOUS
  <2>. QED
    BY <1>4, <2>1 DEF TypeOK
<1>6. TypeOK'
  BY <1>1, <1>3, <1>5 DEF TypeOK
<1>7. TaskTracked'
  BY <1>1, <1>2 DEF TaskTracked, Pending, Settled
<1>8. RosterOK' /\ WorkConserving'
  <2>1. IsInjective(availableWorkers') /\ Idle \subseteq Workers
    BY <1>1, Lists
  <2>. QED
    BY <1>1, <1>2, <2>1 DEF RosterOK, WorkConserving
<1>9. MessagesOwned'
  <2>1. ASSUME NEW v \in Workers, NEW x \in Tasks, NEW kind \in Reply,
               <<v, x, kind>> \in replies'
        PROVE  <<v, x, kind>> \in replies \/ <<v, x>> \in posted
    <3>1. CASE \E t \in Tasks, type \in Reply :
                 <<w, t>> \in posted /\ replies' = replies \cup {<<w, t, type>>}
      <4>1. PICK t \in Tasks, type \in Reply :
              <<w, t>> \in posted /\ replies' = replies \cup {<<w, t, type>>}
        BY <3>1
      <4>2. <<v, x, kind>> \in replies \/ (v = w /\ x = t)
        BY <2>1, <4>1
      <4>. QED
        BY <4>1, <4>2
    <3>. QED
      BY <1>4, <2>1, <3>1
  <2>. QED
    BY <1>1, <1>2, <1>3, <2>1 DEF MessagesOwned
<1>10. ThreadsOwned'
  BY <1>1, <1>3 DEF ThreadsOwned
<1>11. TerminatedIsQuiet' /\ TimersOwned'
  BY <1>1, <1>2, <1>3 DEF TerminatedIsQuiet, TimersOwned, Pending
<1>. QED
  BY <1>6, <1>7, <1>8, <1>9, <1>10, <1>11

-----------------------------------------------------------------------------
(* The theorems *)

(* The constructor establishes the invariant. *)
LEMMA InitIndInv == Init => IndInv
<1> SUFFICES ASSUME Init PROVE IndInv
  OBVIOUS
<1>1. TypeOK
  <2>1. availableWorkers \in Seq(Workers) /\ taskQueue \in Seq(Tasks)
    BY DEF Init
  <2>2. activeTasks \in [Tasks -> Workers \cup {NoWorker}] /\ promise \in [Tasks -> Outcome]
    BY DEF Init, Outcome
  <2>3. starting \in Nat /\ startupFailures \in Nat
    BY MaxAssumption DEF Init
  <2>. QED
    BY <2>1, <2>2, <2>3 DEF Init, TypeOK
<1>2. Active = {} /\ Queued = {} /\ Idle = {} /\ \A v \in Workers : ~isBusy(v)
  BY NoWorkerAssumption, EmptyList DEF Init, Active, Queued, Idle, isBusy
<1>3. IsInjective(taskQueue) /\ IsInjective(availableWorkers)
  BY EmptyList DEF Init
<1>4. TaskTracked /\ RosterOK /\ WorkConserving
  BY <1>2, <1>3 DEF Init, TaskTracked, RosterOK, WorkConserving, Pending
<1>5. MessagesOwned /\ ThreadsOwned /\ TerminatedIsQuiet /\ TimersOwned
  BY <1>2 DEF Init, MessagesOwned, ThreadsOwned, TerminatedIsQuiet, TimersOwned
<1>. QED
  BY <1>1, <1>4, <1>5 DEF IndInv, Safe

(* Every turn of the event loop and every step of a thread keeps it. *)
LEMMA NextIndInv == IndInv /\ [Next]_vars => IndInv'
<1> SUFFICES ASSUME IndInv, [Next]_vars PROVE IndInv'
  OBVIOUS
<1>1. ASSUME NEW t \in Tasks, NEW timed \in BOOLEAN, Execute(t, timed) PROVE IndInv'
  BY <1>1, ExecuteStep
<1>2. ASSUME NEW t \in Tasks, ExecuteTerminated(t) PROVE IndInv'
  BY <1>2, ExecuteTerminatedStep
<1>3. ASSUME Terminate PROVE IndInv'
  BY <1>3, TerminateStep
<1>4. ASSUME \/ \E w \in Workers : WorkerStarts(w)
             \/ WorkerStartFails
             \/ \E t \in Tasks, w \in Workers : TimeoutReplaced(t, w)
             \/ \E t \in Tasks : TimeoutStartFails(t)
      PROVE  IndInv'
  BY <1>4, SpawnStep
<1>5. ASSUME NEW w \in Workers, NEW t \in Tasks, NEW type \in Reply,
             HandleWorkerMessage(w, t, type)
      PROVE  IndInv'
  BY <1>5, MessageStep
<1>6. ASSUME NEW w \in Workers,
             IgnoreWorkerError(w) \/ HandleWorkerError(w) \/ HandleStartupCap(w)
      PROVE  IndInv'
  BY <1>6, ErrorStep
<1>7. ASSUME NEW t \in Tasks, HandleTaskTimeout(t) PROVE IndInv'
  BY <1>7, TimeoutStep
<1>8. ASSUME NEW w \in Workers,
             \/ \E t \in Tasks, type \in Reply, again \in BOOLEAN :
                  WorkerReplies(w, t, type, again)
             \/ \E stops \in BOOLEAN : WorkerFails(w, stops)
             \/ DropEvents(w)
      PROVE  IndInv'
  BY <1>8, ThreadStep
<1>9. CASE UNCHANGED vars
  <2>1. UNCHANGED <<workers, availableWorkers, taskQueue, activeTasks, terminated,
                    readyWorkers, startupFailures, promise, timers, starting,
                    timedOut, threads, posted, replies, errors>>
    BY <1>9 DEF vars, poolVars, callVars, threadVars
  <2>2. /\ Active' = Active /\ Idle' = Idle /\ Queued' = Queued
        /\ \A v \in Workers : isBusy(v)' = isBusy(v)
    BY <2>1 DEF Active, Idle, Queued, isBusy
  <2>3. TypeOK'
    BY <2>1 DEF IndInv, TypeOK
  <2>4. TaskTracked' /\ WorkConserving'
    BY <2>1, <2>2 DEF IndInv, Safe, TaskTracked, WorkConserving, Pending, Settled
  <2>5. RosterOK'
    BY <2>1, <2>2, Lists DEF IndInv, Safe, RosterOK
  <2>6. MessagesOwned' /\ ThreadsOwned'
    BY <2>1, <2>2 DEF IndInv, Safe, MessagesOwned, ThreadsOwned
  <2>7. TerminatedIsQuiet' /\ TimersOwned'
    BY <2>1, <2>2 DEF IndInv, Safe, TerminatedIsQuiet, TimersOwned, Pending
  <2>. QED
    BY <2>3, <2>4, <2>5, <2>6, <2>7 DEF IndInv, Safe
<1>. QED
  BY <1>1, <1>2, <1>3, <1>4, <1>5, <1>6, <1>7, <1>8, <1>9 DEF Next

(* The state of the pool is well formed and all safety invariants hold, for *)
(* any number of workers and tasks, whatever crashes, times out or throws.  *)
THEOREM Invariance == Spec => []IndInv
BY InitIndInv, NextIndInv, PTL DEF Spec

(* The type invariant. *)
THEOREM TypeCorrect == Spec => []TypeOK
<1>1. IndInv => TypeOK
  BY DEF IndInv
<1>. QED
  BY <1>1, Invariance, PTL

(* No call is lost: every pending task is in one place that will settle it. *)
THEOREM NoCallIsLost == Spec => []TaskTracked
<1>1. IndInv => TaskTracked
  BY DEF IndInv, Safe
<1>. QED
  BY <1>1, Invariance, PTL

(* No worker is leaked, shared between tasks or used after its eviction. *)
THEOREM RosterIsConsistent == Spec => []RosterOK
<1>1. IndInv => RosterOK
  BY DEF IndInv, Safe
<1>. QED
  BY <1>1, Invariance, PTL

(* A task never waits beside an idle worker. *)
THEOREM NoIdleWorkerWhileQueued == Spec => []WorkConserving
<1>1. IndInv => WorkConserving
  BY DEF IndInv, Safe
<1>. QED
  BY <1>1, Invariance, PTL

(* A message that frees a worker comes from the worker that runs the task:  *)
(* no answer can act on somebody else's task.                               *)
THEOREM EventsAreOwned == Spec => []MessagesOwned
<1>1. IndInv => MessagesOwned
  BY DEF IndInv, Safe
<1>. QED
  BY <1>1, Invariance, PTL

(* Every thread that runs is in the roster, where terminate() finds it, and *)
(* every worker of the roster runs or has its end announced.                *)
THEOREM ThreadsAreOwned == Spec => []ThreadsOwned
<1>1. IndInv => ThreadsOwned
  BY DEF IndInv, Safe
<1>. QED
  BY <1>1, Invariance, PTL

(* No timer outlives its task in the pool: an armed timer always finds the  *)
(* task it was set for queued or active.                                    *)
THEOREM TimersAreOwned == Spec => []TimersOwned
<1>1. IndInv => TimersOwned
  BY DEF IndInv, Safe
<1>. QED
  BY <1>1, Invariance, PTL

(* terminate() leaves nothing behind but timed-out tasks whose replacement  *)
(* is starting.                                                             *)
THEOREM TerminateIsComplete == Spec => []TerminatedIsQuiet
<1>1. IndInv => TerminatedIsQuiet
  BY DEF IndInv, Safe
<1>. QED
  BY <1>1, Invariance, PTL

(* Why a task that runs can be rejected in one step. *)
LEMMA RejectedBecause ==
  ASSUME IndInv, Next, NEW t \in Active, Pending(t), promise'[t] = "rejected"
  PROVE  \/ <<activeTasks[t], t, "error">> \in replies
         \/ activeTasks[t] \notin workers'
<1> DEFINE Goal == \/ <<activeTasks[t], t, "error">> \in replies
                   \/ activeTasks[t] \notin workers'
<1>1. t \in Tasks /\ promise[t] = "pending" /\ promise \in [Tasks -> Outcome]
  BY DEF Active, Pending, IndInv, TypeOK
<1>2. t \notin Queued /\ t \notin timedOut
  BY DEF IndInv, Safe, TaskTracked
<1>3. promise' # promise
  BY <1>1
<1>4. \A S : promise' = Settle(S, "rejected") => t \in S
  BY <1>1 DEF Settle
<1>5. ASSUME NEW u \in Tasks, NEW timed \in BOOLEAN, Execute(u, timed) PROVE Goal
  BY <1>1, <1>5 DEF Execute
<1>6. ASSUME NEW u \in Tasks, ExecuteTerminated(u) PROVE Goal
  BY <1>1, <1>6 DEF ExecuteTerminated
<1>7. ASSUME Terminate PROVE Goal
  BY <1>7 DEF Terminate
<1>8. ASSUME NEW w \in Workers, WorkerStarts(w) PROVE Goal
  BY <1>3, <1>8 DEF WorkerStarts
<1>9. ASSUME WorkerStartFails PROVE Goal
  BY <1>3, <1>9 DEF WorkerStartFails
<1>10. ASSUME NEW u \in Tasks, NEW w \in Workers, TimeoutReplaced(u, w) PROVE Goal
  BY <1>2, <1>4, <1>10 DEF TimeoutReplaced
<1>11. ASSUME NEW u \in Tasks, TimeoutStartFails(u) PROVE Goal
  BY <1>2, <1>4, <1>11 DEF TimeoutStartFails
<1>12. ASSUME NEW w \in Workers, NEW u \in Tasks, NEW type \in Reply,
              HandleWorkerMessage(w, u, type)
       PROVE  Goal
  <2>1. CASE u \in Active
    <3>1. promise' = Settle({u}, IF type = "result" THEN "resolved" ELSE "rejected")
      BY <1>12, <2>1 DEF HandleWorkerMessage
    <3>2. u = t /\ type # "result"
      BY <1>1, <3>1 DEF Settle
    <3>3. <<w, t, "error">> \in replies
      BY <1>12, <3>2 DEF HandleWorkerMessage, Reply
    <3>4. activeTasks[t] = w
      BY <1>1, <3>3 DEF IndInv, Safe, MessagesOwned, Reply
    <3>. QED
      BY <3>3, <3>4
  <2>2. CASE u \notin Active
    BY <1>3, <1>12, <2>2 DEF HandleWorkerMessage
  <2>. QED
    BY <2>1, <2>2
<1>13. ASSUME NEW w \in Workers, IgnoreWorkerError(w) PROVE Goal
  BY <1>3, <1>13 DEF IgnoreWorkerError, callVars
<1>14. ASSUME NEW w \in Workers, HandleWorkerError(w) \/ HandleStartupCap(w) PROVE Goal
  <2>1. /\ Evict(w)
        /\ \/ promise' = Settle(RunningOn(w) \cup {}, "rejected")
           \/ promise' = Settle(RunningOn(w) \cup Queued, "rejected")
    BY <1>14 DEF HandleWorkerError, HandleStartupCap, FailTasksOf
  <2>2. activeTasks[t] = w
    BY <1>2, <1>4, <2>1 DEF RunningOn
  <2>. QED
    BY <2>1, <2>2 DEF Evict
<1>15. ASSUME NEW u \in Tasks, HandleTaskTimeout(u) PROVE Goal
  BY <1>2, <1>3, <1>4, <1>15 DEF HandleTaskTimeout
<1>16. ASSUME NEW w \in Workers, NEW u \in Tasks, NEW type \in Reply, NEW again \in BOOLEAN,
              WorkerReplies(w, u, type, again)
       PROVE  Goal
  BY <1>3, <1>16 DEF WorkerReplies, callVars
<1>17. ASSUME NEW w \in Workers, \/ \E stops \in BOOLEAN : WorkerFails(w, stops)
                                  \/ DropEvents(w)
       PROVE  Goal
  BY <1>3, <1>17 DEF WorkerFails, DropEvents, callVars
<1>. QED
  BY <1>5, <1>6, <1>7, <1>8, <1>9, <1>10, <1>11, <1>12, <1>13, <1>14, <1>15, <1>16, <1>17
     DEF Next

(* A crash or a timeout of one worker never rejects another worker's task.  *)
THEOREM CrashesAreIsolated == Spec => CrashIsolation
<1> DEFINE Isolated == \A t \in Active :
                         Pending(t) /\ promise'[t] = "rejected" =>
                           \/ <<activeTasks[t], t, "error">> \in replies
                           \/ activeTasks[t] \notin workers'
<1>1. IndInv /\ [Next]_vars => [Isolated]_vars
  BY RejectedBecause
<1>. QED
  BY <1>1, Invariance, PTL DEF Spec, CrashIsolation

-----------------------------------------------------------------------------
(* Capacity *)

(* Why the pool may lose a worker for good. *)
MayShrink ==
  \/ terminated'
  \/ startupFailures' > startupFailures /\ startupFailures' >= MaxStartupFailures
  \/ SpawnCanFail /\ workers' = workers

Countable == IsFiniteSet(workers) /\ IsFiniteSet(timedOut)

LEMMA SlotsType ==
  ASSUME IndInv, Countable
  PROVE  /\ Cardinality(workers) \in Nat /\ Cardinality(timedOut) \in Nat /\ starting \in Nat
         /\ Slots \in Nat
<1>1. Cardinality(workers) \in Nat /\ Cardinality(timedOut) \in Nat
  BY FS_CardinalityType DEF Countable
<1>2. starting \in Nat
  BY DEF IndInv, TypeOK
<1>. QED
  BY <1>1, <1>2 DEF Slots

(* A worker of the roster is evicted, and one slot waits for the next. *)
LEMMA EvictSlots ==
  ASSUME IndInv, Countable, NEW w \in workers, workers' = workers \ {w}
  PROVE  /\ IsFiniteSet(workers') /\ Cardinality(workers') = Cardinality(workers) - 1
         /\ Cardinality(workers') \in Nat
<1>1. /\ IsFiniteSet(workers \ {w})
      /\ Cardinality(workers \ {w}) = Cardinality(workers) - 1
  BY FS_RemoveElement DEF Countable
<1>2. Cardinality(workers \ {w}) \in Nat
  BY <1>1, FS_CardinalityType
<1>. QED
  BY <1>1, <1>2

(* A worker joins, unless the pool was terminated. *)
LEMMA JoinSlots ==
  ASSUME IndInv, Countable, NEW w \in Workers, Join(w)
  PROVE  /\ IsFiniteSet(workers')
         /\ ~terminated => Cardinality(workers') = Cardinality(workers) + 1
         /\ terminated => workers' = workers
<1>1. terminated => workers' = workers
  BY DEF Join
<1>2. ~terminated => w \notin workers /\ workers' = workers \cup {w}
  BY DEF Join, Fresh
<1>3. /\ IsFiniteSet(workers \cup {w})
      /\ w \notin workers => Cardinality(workers \cup {w}) = Cardinality(workers) + 1
  BY FS_AddElement DEF Countable
<1>. QED
  BY <1>1, <1>2, <1>3 DEF Countable

(* A timeout handler is over. *)
LEMMA TimedOutSlots ==
  ASSUME IndInv, Countable, NEW t \in timedOut, timedOut' = timedOut \ {t}
  PROVE  IsFiniteSet(timedOut') /\ Cardinality(timedOut') = Cardinality(timedOut) - 1
BY FS_RemoveElement DEF Countable

(* Every step keeps the number of workers that are there or on their way,   *)
(* or has a reason not to.                                                  *)
LEMMA SlotsStep ==
  ASSUME IndInv, Countable, Next
  PROVE  Countable' /\ Slots' <= Slots /\ (Slots' < Slots => MayShrink)
<1> DEFINE Goal == Countable' /\ Slots' <= Slots /\ (Slots' < Slots => MayShrink)
<1>0. /\ Cardinality(workers) \in Nat /\ Cardinality(timedOut) \in Nat /\ starting \in Nat
      /\ Slots \in Nat
  BY SlotsType
<1>1. ASSUME UNCHANGED <<workers, starting, timedOut>> PROVE Goal
  <2>1. Slots' = Slots /\ Countable'
    BY <1>1 DEF Slots, Countable
  <2>. QED
    BY <1>0, <2>1
<1>2. ASSUME Countable', Slots' = Slots PROVE Goal
  BY <1>0, <1>2
<1>3. ASSUME Terminate PROVE Goal
  <2>1. workers' = {} /\ terminated' /\ timedOut' = timedOut /\ starting' = starting
    BY <1>3 DEF Terminate
  <2>2. IsFiniteSet(workers') /\ Cardinality(workers') = 0
    BY <2>1, FS_EmptySet
  <2>3. Countable' /\ Slots' <= Slots
    BY <1>0, <2>1, <2>2 DEF Slots, Countable
  <2>. QED
    BY <2>1, <2>3 DEF MayShrink
<1>4. ASSUME NEW w \in Workers, WorkerStarts(w) PROVE Goal
  <2>1. starting > 0 /\ starting' = starting - 1 /\ Join(w) /\ UNCHANGED <<terminated, timedOut>>
    BY <1>4 DEF WorkerStarts
  <2>2. Countable'
    BY <2>1, JoinSlots DEF Countable
  <2>3. CASE ~terminated
    <3>1. Cardinality(workers') = Cardinality(workers) + 1
      BY <2>1, <2>3, JoinSlots
    <3>2. Slots' = Slots
      BY <1>0, <2>1, <3>1 DEF Slots
    <3>. QED
      BY <1>2, <2>2, <3>2
  <2>4. CASE terminated
    <3>1. workers' = workers /\ terminated'
      BY <2>1, <2>4, JoinSlots
    <3>2. Slots' <= Slots
      BY <1>0, <2>1, <3>1 DEF Slots
    <3>. QED
      BY <2>2, <3>1, <3>2 DEF MayShrink
  <2>. QED
    BY <2>3, <2>4
<1>5. ASSUME WorkerStartFails PROVE Goal
  <2>1. /\ SpawnCanFail /\ starting > 0 /\ starting' = starting - 1
        /\ workers' = workers /\ timedOut' = timedOut
    BY <1>5 DEF WorkerStartFails, poolVars
  <2>2. Slots' <= Slots /\ Countable'
    BY <1>0, <2>1 DEF Slots, Countable
  <2>. QED
    BY <2>1, <2>2 DEF MayShrink
<1>6. ASSUME NEW t \in Tasks, NEW w \in Workers, TimeoutReplaced(t, w) PROVE Goal
  <2>1. t \in timedOut /\ timedOut' = timedOut \ {t} /\ Join(w) /\ UNCHANGED <<terminated, starting>>
    BY <1>6 DEF TimeoutReplaced
  <2>2. IsFiniteSet(timedOut') /\ Cardinality(timedOut') = Cardinality(timedOut) - 1
    BY <2>1, TimedOutSlots
  <2>3. Countable'
    BY <2>1, <2>2, JoinSlots DEF Countable
  <2>4. CASE ~terminated
    <3>1. Cardinality(workers') = Cardinality(workers) + 1
      BY <2>1, <2>4, JoinSlots
    <3>2. Slots' = Slots
      BY <1>0, <2>1, <2>2, <3>1 DEF Slots
    <3>. QED
      BY <1>2, <2>3, <3>2
  <2>5. CASE terminated
    <3>1. workers' = workers /\ terminated'
      BY <2>1, <2>5, JoinSlots
    <3>2. Slots' <= Slots
      BY <1>0, <2>1, <2>2, <3>1 DEF Slots
    <3>. QED
      BY <2>3, <3>1, <3>2 DEF MayShrink
  <2>. QED
    BY <2>4, <2>5
<1>7. ASSUME NEW t \in Tasks, TimeoutStartFails(t) PROVE Goal
  <2>1. /\ SpawnCanFail /\ t \in timedOut /\ timedOut' = timedOut \ {t}
        /\ workers' = workers /\ starting' = starting
    BY <1>7 DEF TimeoutStartFails, poolVars
  <2>2. IsFiniteSet(timedOut') /\ Cardinality(timedOut') = Cardinality(timedOut) - 1
    BY <2>1, TimedOutSlots
  <2>3. Slots' <= Slots /\ Countable'
    BY <1>0, <2>1, <2>2 DEF Slots, Countable
  <2>. QED
    BY <2>1, <2>3 DEF MayShrink
<1>8. ASSUME NEW w \in Workers, HandleWorkerError(w) PROVE Goal
  <2>1. /\ w \in workers /\ workers' = workers \ {w} /\ timedOut' = timedOut
        /\ starting' = IF terminated THEN starting ELSE starting + 1
    BY <1>8 DEF HandleWorkerError, Evict
  <2>2. ~terminated
    BY <2>1 DEF IndInv, Safe, TerminatedIsQuiet
  <2>3. IsFiniteSet(workers') /\ Cardinality(workers') = Cardinality(workers) - 1
    BY <2>1, EvictSlots
  <2>4. Countable' /\ Slots' = Slots
    BY <1>0, <2>1, <2>2, <2>3 DEF Slots, Countable
  <2>. QED
    BY <1>2, <2>4
<1>9. ASSUME NEW w \in Workers, HandleStartupCap(w) PROVE Goal
  <2>1. /\ w \in workers /\ workers' = workers \ {w} /\ UNCHANGED <<starting, timedOut>>
        /\ startupFailures' = startupFailures + 1 /\ startupFailures + 1 >= MaxStartupFailures
    BY <1>9 DEF HandleStartupCap, Evict
  <2>2. IsFiniteSet(workers') /\ Cardinality(workers') = Cardinality(workers) - 1
    BY <2>1, EvictSlots
  <2>3. Countable' /\ Slots' <= Slots
    BY <1>0, <2>1, <2>2 DEF Slots, Countable
  <2>4. startupFailures \in Nat
    BY DEF IndInv, TypeOK
  <2>5. startupFailures' > startupFailures /\ startupFailures' >= MaxStartupFailures
    BY <2>1, <2>4
  <2>. QED
    BY <2>3, <2>5 DEF MayShrink
<1>10. ASSUME NEW t \in Tasks, HandleTaskTimeout(t) PROVE Goal
  <2>1. CASE t \notin Queued /\ t \in Active
    <3>1. /\ timedOut' = timedOut \cup {t} /\ starting' = starting
          /\ workers' = workers \ {activeTasks[t]}
      BY <1>10, <2>1 DEF HandleTaskTimeout, Evict
    <3>2. t \notin timedOut
      BY <2>1 DEF IndInv, Safe, TaskTracked
    <3>3. activeTasks[t] \in workers
      BY <2>1 DEF IndInv, Safe, TypeOK, RosterOK, Active, isBusy
    <3>4. IsFiniteSet(workers') /\ Cardinality(workers') = Cardinality(workers) - 1
      BY <3>1, <3>3, EvictSlots
    <3>5. IsFiniteSet(timedOut') /\ Cardinality(timedOut') = Cardinality(timedOut) + 1
      BY <3>1, <3>2, FS_AddElement DEF Countable
    <3>6. Countable' /\ Slots' = Slots
      BY <1>0, <3>1, <3>4, <3>5 DEF Slots, Countable
    <3>. QED
      BY <1>2, <3>6
  <2>2. CASE t \in Queued \/ t \notin Active
    BY <1>1, <1>10, <2>2 DEF HandleTaskTimeout
  <2>. QED
    BY <2>1, <2>2
<1>11. ASSUME NEW t \in Tasks, \/ \E timed \in BOOLEAN : Execute(t, timed)
                               \/ ExecuteTerminated(t)
       PROVE  Goal
  BY <1>1, <1>11 DEF Execute, ExecuteTerminated, poolVars
<1>12. ASSUME NEW w \in Workers, NEW t \in Tasks, NEW type \in Reply, HandleWorkerMessage(w, t, type)
       PROVE  Goal
  BY <1>1, <1>12 DEF HandleWorkerMessage
<1>13. ASSUME NEW w \in Workers, NEW t \in Tasks, NEW type \in Reply, NEW again \in BOOLEAN,
              WorkerReplies(w, t, type, again)
       PROVE  Goal
  BY <1>1, <1>13 DEF WorkerReplies, poolVars, callVars
<1>14. ASSUME NEW w \in Workers, \/ IgnoreWorkerError(w) \/ DropEvents(w)
                                 \/ \E stops \in BOOLEAN : WorkerFails(w, stops)
       PROVE  Goal
  BY <1>1, <1>14 DEF IgnoreWorkerError, DropEvents, WorkerFails, poolVars, callVars
<1> HIDE DEF Goal
<1>15. Goal
  BY <1>3, <1>4, <1>5, <1>6, <1>7, <1>8, <1>9, <1>10, <1>11, <1>12, <1>13, <1>14 DEF Next
<1>. QED
  BY <1>15 DEF Goal

(* The pool never has more than maxWorkers workers, those that start or     *)
(* replace one included (WorkerPool.ts:85-98, 247-257, 316-330).            *)
THEOREM NeverTooMany == Spec => [](IndInv /\ Countable /\ Slots <= MaxWorkers)
<1>1. Init => IndInv /\ Countable /\ Slots <= MaxWorkers
  <2> SUFFICES ASSUME Init PROVE IndInv /\ Countable /\ Slots <= MaxWorkers
    OBVIOUS
  <2>1. workers = {} /\ timedOut = {} /\ starting = MaxWorkers
    BY DEF Init
  <2>2. Countable /\ Cardinality(workers) = 0 /\ Cardinality(timedOut) = 0
    BY <2>1, FS_EmptySet DEF Countable
  <2>. QED
    BY <2>1, <2>2, InitIndInv, MaxAssumption DEF Slots
<1>2. IndInv /\ Countable /\ Slots <= MaxWorkers /\ [Next]_vars
        => (IndInv /\ Countable /\ Slots <= MaxWorkers)'
  <2> SUFFICES ASSUME IndInv, Countable, Slots <= MaxWorkers, [Next]_vars
               PROVE  IndInv' /\ Countable' /\ Slots' <= MaxWorkers
    OBVIOUS
  <2>1. IndInv'
    BY NextIndInv
  <2>2. Countable' /\ Slots' <= Slots
    <3>1. CASE Next
      BY <3>1, SlotsStep
    <3>2. CASE UNCHANGED vars
      <4>1. UNCHANGED <<workers, starting, timedOut>>
        BY <3>2 DEF vars, poolVars, callVars
      <4>. QED
        BY <4>1, SlotsType DEF Slots, Countable
    <3>. QED
      BY <3>1, <3>2
  <2>3. Slots \in Nat /\ Slots' \in Nat /\ MaxWorkers \in Nat
    <3>1. Slots \in Nat
      BY SlotsType
    <3>2. Cardinality(workers') \in Nat /\ Cardinality(timedOut') \in Nat /\ starting' \in Nat
      BY <2>1, <2>2, FS_CardinalityType DEF Countable, IndInv, TypeOK
    <3>. QED
      BY <3>1, <3>2, MaxAssumption DEF Slots
  <2>. QED
    BY <2>1, <2>2, <2>3
<1>. QED
  BY <1>1, <1>2, PTL DEF Spec

(* No step adds a worker, and only terminate(), the startup cap and a       *)
(* createWorker that rejects take one for good (WorkerPool.ts:39-43).       *)
THEOREM CapacityIsKept == Spec => CapacityKept
<1>1. IndInv /\ Countable /\ [Next]_vars => [Slots' <= Slots /\ (Slots' < Slots => MayShrink)]_vars
  BY SlotsStep
<1>. QED
  BY <1>1, NeverTooMany, PTL DEF Spec, CapacityKept, MayShrink

-----------------------------------------------------------------------------
(* The service *)

(* The tasks that count against the capacity. *)
Started == {t \in Tasks : Pending(t) /\ t \notin Queued}

Fits == IsFiniteSet(Started) /\ Cardinality(Started) <= MaxWorkers

(* What a caller sees of a task, by cases. *)
LEMMA StatusCases ==
  ASSUME TypeOK
  PROVE  /\ ServiceStatus = [t \in Tasks |-> ServiceStatus[t]]
         /\ \A t \in Tasks :
              /\ promise[t] = "none" => ServiceStatus[t] = "new"
              /\ Pending(t) /\ t \in Queued => ServiceStatus[t] = "waiting"
              /\ Pending(t) /\ t \notin Queued => ServiceStatus[t] = "running"
              /\ Settled(t) => ServiceStatus[t] = promise[t]
              /\ promise[t] = "none" \/ Pending(t) \/ Settled(t)
BY DEF TypeOK, Outcome, ServiceStatus, Pending, Settled

(* The same after a step. *)
LEMMA StatusCasesNext ==
  ASSUME TypeOK'
  PROVE  /\ ServiceStatus' = [t \in Tasks |-> ServiceStatus'[t]]
         /\ \A t \in Tasks :
              /\ promise'[t] = "none" => ServiceStatus'[t] = "new"
              /\ Pending(t)' /\ t \in Queued' => ServiceStatus'[t] = "waiting"
              /\ Pending(t)' /\ t \notin Queued' => ServiceStatus'[t] = "running"
              /\ Settled(t)' => ServiceStatus'[t] = promise'[t]
BY DEF TypeOK, Outcome, ServiceStatus, Pending, Settled

LEMMA RunningIsStarted ==
  ASSUME TypeOK
  PROVE  Service!Running = Started
<1>1. \A t \in Tasks : ServiceStatus[t] = "running" <=> t \in Started
  BY StatusCases DEF Started, Pending, Settled
<1>. QED
  BY <1>1 DEF Service!Running, Started

LEMMA SameCardinality ==
  ASSUME NEW S
  PROVE  Service!Cardinality(S) = Cardinality(S)
BY DEF Service!Cardinality, Cardinality

(* A task that runs has a worker of its own, or a replacement under way. *)
LEMMA StartedFits ==
  ASSUME IndInv, Countable, Slots <= MaxWorkers
  PROVE  Fits
<1> DEFINE runs == [t \in Active |-> activeTasks[t]]
<1>0. /\ Cardinality(workers) \in Nat /\ Cardinality(timedOut) \in Nat /\ starting \in Nat
      /\ Slots \in Nat /\ MaxWorkers \in Nat
  BY SlotsType, MaxAssumption
<1>1. runs \in Injection(Active, workers)
  <2>1. \A t \in Active : activeTasks[t] \in workers
    BY DEF IndInv, Safe, TypeOK, RosterOK, Active, isBusy
  <2>2. \A t, u \in Active : activeTasks[t] = activeTasks[u] => t = u
    BY DEF IndInv, Safe, RosterOK
  <2>. QED
    BY <2>1, <2>2 DEF Injection, IsInjective
<1>2. IsFiniteSet(Active) /\ Cardinality(Active) <= Cardinality(workers)
  BY <1>1, FS_Injection DEF Countable
<1>3. Started \subseteq Active \cup timedOut
  BY DEF IndInv, Safe, TaskTracked, Started
<1>4. /\ IsFiniteSet(Active \cup timedOut)
      /\ Cardinality(Active \cup timedOut)
           = Cardinality(Active) + Cardinality(timedOut) - Cardinality(Active \cap timedOut)
  BY <1>2, FS_Union DEF Countable
<1>5. IsFiniteSet(Active \cap timedOut)
  BY <1>2, FS_Subset
<1>6. /\ Cardinality(Active) \in Nat /\ Cardinality(Active \cap timedOut) \in Nat
      /\ Cardinality(Active \cup timedOut) \in Nat
  BY <1>2, <1>4, <1>5, FS_CardinalityType
<1>7. IsFiniteSet(Started) /\ Cardinality(Started) <= Cardinality(Active \cup timedOut)
  BY <1>3, <1>4, FS_Subset
<1>8. Cardinality(Started) \in Nat
  BY <1>7, FS_CardinalityType
<1>. QED
  BY <1>0, <1>2, <1>4, <1>6, <1>7, <1>8 DEF Fits, Slots

(* What no caller can see. *)
LEMMA Stutters ==
  ASSUME UNCHANGED <<promise, taskQueue, terminated>>
  PROVE  UNCHANGED Service!vars
<1>1. ServiceStatus' = ServiceStatus
  BY DEF ServiceStatus, Pending, Queued
<1>. QED
  BY <1>1 DEF Service!vars

(* Some of the started tasks settle, and at most one that waits takes over. *)
LEMMA Advances ==
  ASSUME IndInv, IndInv', Fits', UNCHANGED terminated,
         NEW done \in SUBSET Started, NEW x \in {"resolved", "rejected"},
         promise' = [t \in Tasks |-> IF t \in done THEN x ELSE promise[t]],
         \/ taskQueue' = taskQueue
         \/ ~terminated /\ taskQueue # <<>> /\ taskQueue' = Tail(taskQueue)
  PROVE  Service!Next
<1> DEFINE outcome == [t \in done |-> x]
<1>0. /\ TypeOK /\ TypeOK' /\ taskQueue \in Seq(Tasks) /\ IsInjective(taskQueue)
      /\ Queued \subseteq Tasks /\ Len(taskQueue) \in Nat
      /\ \A t \in Queued : Pending(t)
  BY Lists, LenProperties DEF IndInv, Safe, TaskTracked
<1>1. /\ done \subseteq Service!Running /\ DOMAIN outcome = done
      /\ outcome \in [done -> {"resolved", "rejected"}]
  BY <1>0, RunningIsStarted
<1>2. \A t \in Tasks :
        /\ t \in done => promise'[t] = x /\ ~Pending(t)' /\ Settled(t)' /\ t \notin Queued
        /\ t \notin done => promise'[t] = promise[t] /\ (Pending(t)' <=> Pending(t))
  BY DEF Pending, Settled, Started
<1>3. \A t \in Tasks : t \in done => ServiceStatus'[t] = x
  BY <1>0, <1>2, StatusCasesNext
<1>4. \A t \in Tasks : t \notin done /\ (t \in Queued' <=> t \in Queued)
                         => ServiceStatus'[t] = ServiceStatus[t]
  BY <1>0, <1>2, StatusCases, StatusCasesNext DEF Settled
<1>5. Cardinality(Started') <= MaxWorkers /\ Cardinality(Started') \in Nat
  BY FS_CardinalityType DEF Fits
<1>6. ASSUME taskQueue' = taskQueue PROVE Service!Advance(outcome, 0)
  <2>1. Queued' = Queued
    BY <1>6 DEF Queued
  <2>2. Started' = Service!Running \ done
    BY <1>0, <1>2, <2>1, RunningIsStarted DEF Started
  <2>3. Service!Cardinality(Service!Running \ done) + 0 <= MaxWorkers
    BY <1>5, <2>2, SameCardinality
  <2>4. ServiceStatus' = [t \in Tasks |->
           CASE t \in done -> outcome[t]
             [] \E k \in 1..0 : taskQueue[k] = t -> "running"
             [] OTHER -> ServiceStatus[t]]
    <3> DEFINE g == ServiceStatus'
    <3>1. g = [t \in Tasks |-> g[t]]
      BY <1>0, StatusCasesNext
    <3>2. \A t \in Tasks : g[t] = IF t \in done THEN x ELSE ServiceStatus[t]
      BY <1>3, <1>4, <2>1
    <3> HIDE DEF g
    <3>3. \A t : ~(\E k \in 1..0 : taskQueue[k] = t)
      OBVIOUS
    <3>4. g = [t \in Tasks |->
           CASE t \in done -> outcome[t]
             [] \E k \in 1..0 : taskQueue[k] = t -> "running"
             [] OTHER -> ServiceStatus[t]]
      BY <3>1, <3>2, <3>3
    <3>. QED
      BY <3>4 DEF g
  <2>5. taskQueue' = SubSeq(taskQueue, 0 + 1, Len(taskQueue))
    BY <1>0, <1>6, SubSeqFull
  <2>. QED
    BY <1>0, <1>1, <2>3, <2>4, <2>5 DEF Service!Advance
<1>7. ASSUME ~terminated, taskQueue # <<>>, taskQueue' = Tail(taskQueue)
      PROVE  Service!Advance(outcome, 1)
  <2>0. PICK first \in Tasks : first = Head(taskQueue)
    BY <1>0, <1>7, ShiftFirst
  <2>1. /\ Queued' = Queued \ {first} /\ first \in Queued /\ first = taskQueue[1]
        /\ Len(taskQueue) >= 1
    BY <1>0, <1>7, <2>0, ShiftFirst, EmptySeq DEF Queued
  <2>2. first \notin Service!Running /\ first \notin done /\ first \in Tasks
    BY <1>0, <1>2, <2>1, RunningIsStarted DEF Started
  <2>3. Pending(first)' /\ first \notin Queued'
    BY <1>0, <1>2, <2>1, <2>2
  <2>4. Started' = (Service!Running \ done) \cup {first}
    BY <1>0, <1>2, <2>1, <2>2, <2>3, RunningIsStarted DEF Started
  <2>5. Service!Cardinality(Service!Running \ done) + 1 <= MaxWorkers
    <3>1. IsFiniteSet(Service!Running \ done)
      BY <2>4, FS_Subset DEF Fits
    <3>2. Cardinality(Started') = Cardinality(Service!Running \ done) + 1
      BY <2>2, <2>4, <3>1, FS_AddElement
    <3>. QED
      BY <1>5, <3>2, SameCardinality
  <2>6. ServiceStatus' = [t \in Tasks |->
           CASE t \in done -> outcome[t]
             [] \E k \in 1..1 : taskQueue[k] = t -> "running"
             [] OTHER -> ServiceStatus[t]]
    <3> DEFINE g == ServiceStatus'
    <3>1. g = [t \in Tasks |-> g[t]]
      BY <1>0, StatusCasesNext
    <3>2. g[first] = "running"
      BY <1>0, <2>2, <2>3, StatusCasesNext
    <3>3. \A t \in Tasks : g[t] = IF t \in done THEN x
                                  ELSE IF t = first THEN "running" ELSE ServiceStatus[t]
      BY <1>3, <1>4, <2>1, <2>2, <3>2
    <3> HIDE DEF g
    <3>4. \A t : (\E k \in 1..1 : taskQueue[k] = t) <=> t = first
      BY <2>1
    <3>5. g = [t \in Tasks |->
           CASE t \in done -> outcome[t]
             [] \E k \in 1..1 : taskQueue[k] = t -> "running"
             [] OTHER -> ServiceStatus[t]]
      BY <2>2, <3>1, <3>3, <3>4
    <3>. QED
      BY <3>5 DEF g
  <2>7. taskQueue' = SubSeq(taskQueue, 1 + 1, Len(taskQueue))
    BY <1>0, <1>7, TailIsSubSeq
  <2>. QED
    BY <1>0, <1>1, <1>7, <2>1, <2>5, <2>6, <2>7 DEF Service!Advance
<1> HIDE DEF outcome
<1>8. \E n \in 0..Len(taskQueue) : Service!Advance(outcome, n)
  <2>1. CASE taskQueue' = taskQueue
    BY <1>0, <1>6, <2>1
  <2>2. CASE ~terminated /\ taskQueue # <<>> /\ taskQueue' = Tail(taskQueue)
    <3>1. 1 \in 0..Len(taskQueue)
      BY <1>0, <2>2, EmptySeq
    <3>. QED
      BY <1>7, <2>2, <3>1
  <2>. QED
    BY <2>1, <2>2
<1>. QED
  BY <1>1, <1>8 DEF Service!Next

(* The queue is given up, with some of the started tasks. *)
LEMMA Abandons ==
  ASSUME IndInv, IndInv', NEW failed \in SUBSET Started, taskQueue' = <<>>,
         promise' = [t \in Tasks |-> IF t \in failed \cup Queued THEN "rejected" ELSE promise[t]]
  PROVE  Service!Abandon(failed)
<1>0. /\ TypeOK /\ TypeOK' /\ Queued \subseteq Tasks /\ Queued' = {}
      /\ \A t \in Queued : Pending(t)
  BY Lists, EmptyList DEF IndInv, Safe, TaskTracked, Queued
<1>1. failed \subseteq Service!Running
  BY <1>0, RunningIsStarted
<1>2. \A t \in Tasks : ServiceStatus[t] = "waiting" <=> t \in Queued
  BY <1>0, StatusCases DEF Pending, Settled
<1>3. \A t \in Tasks :
        /\ t \in failed \cup Queued => promise'[t] = "rejected" /\ Settled(t)'
        /\ t \notin failed \cup Queued => promise'[t] = promise[t] /\ (Pending(t)' <=> Pending(t))
  BY DEF Pending, Settled
<1>4. \A t \in Tasks :
        /\ t \in failed \cup Queued => ServiceStatus'[t] = "rejected"
        /\ t \notin failed \cup Queued => ServiceStatus'[t] = ServiceStatus[t]
  BY <1>0, <1>3, StatusCases, StatusCasesNext DEF Settled
<1>5. ServiceStatus' = [t \in Tasks |-> IF ServiceStatus[t] = "waiting" \/ t \in failed
                                        THEN "rejected" ELSE ServiceStatus[t]]
  <2> DEFINE g == ServiceStatus'
  <2>1. g = [t \in Tasks |-> g[t]]
    BY <1>0, StatusCasesNext
  <2>2. \A t \in Tasks : g[t] = IF ServiceStatus[t] = "waiting" \/ t \in failed
                                THEN "rejected" ELSE ServiceStatus[t]
    BY <1>2, <1>4
  <2> HIDE DEF g
  <2>3. g = [t \in Tasks |-> IF ServiceStatus[t] = "waiting" \/ t \in failed
                             THEN "rejected" ELSE ServiceStatus[t]]
    BY <2>1, <2>2
  <2>. QED
    BY <2>3 DEF g
<1>. QED
  BY <1>1, <1>5 DEF Service!Abandon

(* splice of one element joins what was before and after it. *)
LEMMA SpliceJoins ==
  ASSUME NEW S, NEW s \in Seq(S), IsInjective(s), NEW k \in 1..Len(s)
  PROVE  Without(s, s[k]) = SubSeq(s, 1, k - 1) \o SubSeq(s, k + 1, Len(s))
<1> DEFINE n == Len(s)
           r == Without(s, s[k])
           a == SubSeq(s, 1, k - 1)
           b == SubSeq(s, k + 1, n)
<1>1. DOMAIN s = 1..n /\ n \in Nat \ {0} /\ k \in Nat \ {0} /\ k <= n
      /\ \A i \in 1..n : s[i] \in S
  BY LenProperties, ElementOfSeq
<1>2. (CHOOSE i \in 1..n : s[i] = s[k]) = k
  BY <1>1 DEF IsInjective
<1>3. r = [i \in 1..(n - 1) |-> IF i < k THEN s[i] ELSE s[i + 1]]
  BY <1>1, <1>2 DEF Without, Contains
<1>4. r \in Seq(S) /\ Len(r) = n - 1
  <2>1. r \in [1..(n - 1) -> S]
    BY <1>1, <1>3
  <2>2. n - 1 \in Nat
    BY <1>1
  <2>. QED
    BY <2>1, <2>2
<1>5. a \in Seq(S) /\ Len(a) = k - 1 /\ \A i \in 1..(k - 1) : a[i] = s[i]
  <2>1. \A i \in 1..(k - 1) : s[i] \in S
    BY <1>1
  <2>2. /\ a \in Seq(S)
        /\ Len(a) = IF 1 <= k - 1 THEN (k - 1) - 1 + 1 ELSE 0
        /\ \A i \in 1..((k - 1) - 1 + 1) : a[i] = s[1 + i - 1]
    BY <1>1, <2>1, SubSeqProperties
  <2>. QED
    BY <1>1, <2>2
<1>6. b \in Seq(S) /\ Len(b) = n - k /\ \A i \in 1..(n - k) : b[i] = s[k + i]
  <2>1. \A i \in (k + 1)..n : s[i] \in S
    BY <1>1
  <2>2. /\ b \in Seq(S)
        /\ Len(b) = IF k + 1 <= n THEN n - (k + 1) + 1 ELSE 0
        /\ \A i \in 1..(n - (k + 1) + 1) : b[i] = s[(k + 1) + i - 1]
    BY <1>1, <2>1, SubSeqProperties
  <2>0. n \in Int /\ k \in Int /\ k <= n
    BY <1>1
  <2> HIDE DEF n
  <2>3. n - (k + 1) + 1 = n - k /\ (k + 1 <= n \/ n - k = 0)
    BY <2>0
  <2>4. \A i \in 1..(n - k) : (k + 1) + i - 1 = k + i
    BY <1>1
  <2> HIDE DEF b
  <2>. QED
    BY <2>2, <2>3, <2>4
<1> DEFINE c == a \o b
<1>7. /\ c \in Seq(S)
      /\ Len(c) = Len(a) + Len(b)
      /\ \A i \in 1..(Len(a) + Len(b)) : c[i] = IF i <= Len(a) THEN a[i] ELSE b[i - Len(a)]
  BY <1>5, <1>6, ConcatProperties
<1> HIDE DEF a, b, r, c
<1>8. Len(c) = n - 1
  BY <1>1, <1>5, <1>6, <1>7
<1>9. ASSUME NEW i \in 1..(n - 1) PROVE r[i] = c[i]
  <2>1. CASE i < k
    <3>1. i \in 1..(k - 1) /\ i \in 1..(Len(a) + Len(b)) /\ i <= Len(a)
      BY <1>1, <1>5, <1>6, <2>1
    <3>2. c[i] = a[i] /\ a[i] = s[i]
      BY <1>5, <1>7, <3>1
    <3>3. r[i] = s[i]
      BY <1>3, <2>1
    <3>. QED
      BY <3>2, <3>3
  <2>2. CASE i >= k
    <3>1. i - (k - 1) \in 1..(n - k) /\ k + (i - (k - 1)) = i + 1
      BY <1>1, <2>2
    <3>2. b[i - (k - 1)] = s[i + 1]
      BY <1>6, <3>1
    <3>3. i \in 1..(Len(a) + Len(b)) /\ ~(i <= Len(a)) /\ i - Len(a) = i - (k - 1)
      BY <1>1, <1>5, <1>6, <2>2
    <3>4. c[i] = b[i - (k - 1)]
      BY <1>7, <3>3
    <3>. QED
      BY <1>1, <1>3, <2>2, <3>2, <3>4
  <2>. QED
    BY <1>1, <2>1, <2>2
<1>10. r = c
  BY <1>1, <1>4, <1>7, <1>8, <1>9, SeqEqual
<1>. QED
  BY <1>10 DEF r, a, b, c

(* Only task t changes for the callers. *)
LEMMA OneChanges ==
  ASSUME TypeOK, TypeOK', NEW t \in Tasks, NEW seen, ServiceStatus'[t] = seen,
         \A u \in Tasks : u # t => promise'[u] = promise[u] /\ (u \in Queued' <=> u \in Queued)
  PROVE  ServiceStatus' = [ServiceStatus EXCEPT ![t] = seen]
<1> DEFINE g == ServiceStatus'
<1>1. g = [u \in Tasks |-> g[u]] /\ ServiceStatus = [u \in Tasks |-> ServiceStatus[u]]
  BY StatusCases, StatusCasesNext
<1>2. \A u \in Tasks : u # t => g[u] = ServiceStatus[u]
  BY StatusCases, StatusCasesNext DEF Pending, Settled
<1>3. g[t] = seen
  OBVIOUS
<1> HIDE DEF g
<1>4. g = [ServiceStatus EXCEPT ![t] = seen]
  BY <1>1, <1>2, <1>3
<1>. QED
  BY <1>4 DEF g

(* A queued task is rejected on the spot. *)
LEMMA Expires ==
  ASSUME IndInv, IndInv', NEW t \in Queued, taskQueue' = Without(taskQueue, t),
         promise' = Settle({t}, "rejected"), UNCHANGED terminated
  PROVE  Service!Next
<1>0. /\ TypeOK /\ TypeOK' /\ taskQueue \in Seq(Tasks) /\ IsInjective(taskQueue)
      /\ t \in Tasks /\ Pending(t)
  BY Lists DEF IndInv, Safe, TaskTracked
<1>1. PICK k \in 1..Len(taskQueue) : taskQueue[k] = t
  BY <1>0, LenProperties DEF Queued, ToSet
<1>2. Queued' = Queued \ {t}
  BY <1>0, RemoveOne DEF Queued
<1>3. promise'[t] = "rejected" /\ \A u \in Tasks : u # t => promise'[u] = promise[u]
  BY <1>0 DEF Settle, Pending
<1>4. ServiceStatus'[t] = "rejected"
  BY <1>0, <1>3, StatusCasesNext DEF Settled
<1>5. ServiceStatus' = [ServiceStatus EXCEPT ![t] = "rejected"]
  BY <1>0, <1>2, <1>3, <1>4, OneChanges
<1>6. taskQueue' = SubSeq(taskQueue, 1, k - 1) \o SubSeq(taskQueue, k + 1, Len(taskQueue))
  BY <1>0, <1>1, SpliceJoins
<1>7. Service!Expire(k)
  BY <1>1, <1>5, <1>6 DEF Service!Expire
<1>. QED
  BY <1>7 DEF Service!Next

(* A new task starts, waits or is refused. *)
LEMMA Submits ==
  ASSUME IndInv, IndInv', Fits, Fits', NEW t \in Tasks, NEW timed \in BOOLEAN, Execute(t, timed)
  PROVE  Service!Next
<1>0. /\ TypeOK /\ TypeOK' /\ ~terminated /\ ~terminated' /\ promise[t] = "none"
      /\ taskQueue \in Seq(Tasks) /\ IsInjective(taskQueue)
  BY Lists DEF IndInv, Execute
<1>1. ServiceStatus[t] = "new"
  BY <1>0, StatusCases
<1>2. t \notin Queued /\ t \notin Started
  BY <1>0 DEF IndInv, Safe, TaskTracked, Pending, Started
<1>3. /\ promise'[t] \in {"pending", "rejected"}
      /\ \A u \in Tasks : u # t => promise'[u] = promise[u]
  BY <1>0 DEF Execute, TypeOK
<1>4. CASE availableWorkers # <<>>
  <2>1. taskQueue = <<>> /\ taskQueue' = taskQueue /\ Queued = {} /\ Queued' = {}
    BY <1>4, EmptyList DEF Execute, WorkConserving, Queued, IndInv, Safe
  <2>2. CASE promise'[t] = "pending"
    <3>1. ServiceStatus'[t] = "running"
      BY <1>0, <2>1, <2>2, StatusCasesNext DEF Pending
    <3>2. ServiceStatus' = [ServiceStatus EXCEPT ![t] = "running"]
      BY <1>0, <1>3, <2>1, <3>1, OneChanges
    <3>3. Started' = Started \cup {t}
      BY <1>0, <1>3, <2>1, <2>2 DEF Started, Pending
    <3>4. Cardinality(Started') = Cardinality(Started) + 1 /\ Cardinality(Started) \in Nat
      BY <1>2, <3>3, FS_AddElement, FS_CardinalityType DEF Fits
    <3>5. Cardinality(Started) < MaxWorkers
      BY <3>4, MaxAssumption DEF Fits
    <3>6. Service!Cardinality(Service!Running) < MaxWorkers
      BY <1>0, <3>5, RunningIsStarted, SameCardinality
    <3>7. Service!SubmitAndStart(t)
      BY <1>0, <1>1, <2>1, <3>2, <3>6 DEF Service!SubmitAndStart
    <3>. QED
      BY <3>7 DEF Service!Next
  <2>3. CASE promise'[t] = "rejected"
    <3>1. ServiceStatus'[t] = "rejected"
      BY <1>0, <2>3, StatusCasesNext DEF Settled
    <3>2. ServiceStatus' = [ServiceStatus EXCEPT ![t] = "rejected"]
      BY <1>0, <1>3, <2>1, <3>1, OneChanges
    <3>3. Service!Refuse(t)
      BY <1>0, <1>1, <2>1, <3>2 DEF Service!Refuse
    <3>. QED
      BY <3>3 DEF Service!Next
  <2>. QED
    BY <1>3, <2>2, <2>3
<1>5. CASE availableWorkers = <<>>
  <2>1. taskQueue' = Append(taskQueue, t) /\ promise' = [promise EXCEPT ![t] = "pending"]
    BY <1>5 DEF Execute
  <2>2. Queued' = Queued \cup {t}
    BY <1>0, <1>2, <2>1, PushNew DEF Queued
  <2>3. Pending(t)'
    BY <1>0, <2>1 DEF Pending, TypeOK
  <2>4. ServiceStatus'[t] = "waiting"
    BY <1>0, <2>2, <2>3, StatusCasesNext
  <2>5. ServiceStatus' = [ServiceStatus EXCEPT ![t] = "waiting"]
    BY <1>0, <1>3, <2>2, <2>4, OneChanges
  <2>6. Service!Submit(t)
    BY <1>0, <1>1, <2>1, <2>5 DEF Service!Submit
  <2>. QED
    BY <2>6 DEF Service!Next
<1>. QED
  BY <1>4, <1>5

(* A task that waited takes the worker that became idle, or none waits. *)
LEMMA DrainQueue ==
  ASSUME IndInv, NEW w \in Workers, NEW active \in [Tasks -> Workers \cup {NoWorker}],
         ProcessQueue(taskQueue, Append(availableWorkers, w), active)
  PROVE  \/ taskQueue' = taskQueue
         \/ taskQueue # <<>> /\ taskQueue' = Tail(taskQueue)
<1>1. taskQueue \in Seq(Tasks) /\ availableWorkers \in Seq(Workers)
  BY Lists
<1>2. CASE taskQueue = <<>>
  <2>1. Append(availableWorkers, w) \in Seq(Workers)
    BY <1>1, AppendProperties
  <2>. QED
    BY <1>2, <2>1, DrainNothing
<1>3. CASE taskQueue # <<>>
  <2>1. availableWorkers = <<>>
    BY <1>3 DEF IndInv, Safe, WorkConserving
  <2>2. Append(<<>>, w) = <<w>>
    OBVIOUS
  <2>. QED
    BY <1>1, <1>3, <2>1, <2>2, DrainOne
<1>. QED
  BY <1>2, <1>3

(* The same for a worker that joins. *)
LEMMA JoinQueue ==
  ASSUME IndInv, NEW w \in Workers, Join(w)
  PROVE  \/ taskQueue' = taskQueue
         \/ ~terminated /\ taskQueue # <<>> /\ taskQueue' = Tail(taskQueue)
<1>1. activeTasks \in [Tasks -> Workers \cup {NoWorker}]
  BY DEF IndInv, TypeOK
<1>2. CASE terminated
  BY <1>2 DEF Join
<1>3. CASE ~terminated
  <2>1. ProcessQueue(taskQueue, Append(availableWorkers, w), activeTasks)
    BY <1>3 DEF Join
  <2>. QED
    BY <1>1, <1>3, <2>1, DrainQueue
<1>. QED
  BY <1>2, <1>3

(* Tasks that do not wait settle, those of them that have not yet. *)
LEMMA Settles ==
  ASSUME IndInv, IndInv', Fits', UNCHANGED terminated,
         NEW S, S \cap Queued = {}, NEW x \in {"resolved", "rejected"},
         promise' = Settle(S, x),
         \/ taskQueue' = taskQueue
         \/ ~terminated /\ taskQueue # <<>> /\ taskQueue' = Tail(taskQueue)
  PROVE  Service!Next
<1>1. PICK done : done = S \cap Started
  OBVIOUS
<1>2. done \in SUBSET Started
  BY <1>1
<1>3. promise' = [t \in Tasks |-> IF t \in done THEN x ELSE promise[t]]
  <2>1. \A t \in Tasks : t \in done <=> (t \in S /\ promise[t] = "pending")
    BY <1>1 DEF Started, Pending
  <2>. QED
    BY <2>1 DEF Settle
<1>. QED
  BY <1>2, <1>3, Advances

(* handleWorkerMessage, as its callers see it. *)
LEMMA MessageSeen ==
  ASSUME IndInv, IndInv', Fits', NEW w \in Workers, NEW t \in Tasks, NEW type \in Reply,
         HandleWorkerMessage(w, t, type)
  PROVE  Service!Next \/ UNCHANGED Service!vars
<1>1. UNCHANGED terminated
  BY DEF HandleWorkerMessage
<1>2. CASE t \in Active
  <2>1. PICK x \in {"resolved", "rejected"} : promise' = Settle({t}, x)
    BY <1>2 DEF HandleWorkerMessage
  <2>2. {t} \cap Queued = {}
    BY <1>2 DEF IndInv, Safe, TaskTracked
  <2>3. ~terminated
    BY <1>2 DEF IndInv, Safe, TerminatedIsQuiet
  <2>4. PICK active \in [Tasks -> Workers \cup {NoWorker}] :
          ProcessQueue(taskQueue, Append(availableWorkers, w), active)
    <3>1. [activeTasks EXCEPT ![t] = NoWorker] \in [Tasks -> Workers \cup {NoWorker}]
      BY DEF IndInv, TypeOK
    <3>. QED
      BY <1>2, <3>1 DEF HandleWorkerMessage
  <2>5. \/ taskQueue' = taskQueue
        \/ taskQueue # <<>> /\ taskQueue' = Tail(taskQueue)
    BY <2>4, DrainQueue
  <2>. QED
    BY <1>1, <2>1, <2>2, <2>3, <2>5, Settles
<1>3. CASE t \notin Active
  <2>1. ~GivesBack(w)
    BY DEF IndInv, Safe, RosterOK, GivesBack
  <2>2. UNCHANGED <<promise, taskQueue>>
    BY <1>3, <2>1 DEF HandleWorkerMessage
  <2>. QED
    BY <1>1, <2>2, Stutters
<1>. QED
  BY <1>2, <1>3

(* handleWorkerError and terminate(), as their callers see them. *)
LEMMA EndsSeen ==
  ASSUME IndInv, IndInv', Fits',
         Terminate \/ \E w \in Workers : HandleWorkerError(w) \/ HandleStartupCap(w)
  PROVE  Service!Next
<1>0. TypeOK /\ Started \subseteq Tasks /\ Queued \subseteq Tasks /\ \A t \in Queued : Pending(t)
  BY Lists DEF IndInv, Safe, TaskTracked, Started
<1>1. ASSUME Terminate PROVE Service!Next
  <2>1. PICK failed : failed = Active \cap Started
    OBVIOUS
  <2>2. failed \in SUBSET Started
    BY <2>1
  <2>3. /\ promise' = Settle(Queued \cup Active, "rejected") /\ taskQueue' = <<>>
        /\ ~terminated /\ terminated'
    BY <1>1 DEF Terminate
  <2>4. promise' = [t \in Tasks |-> IF t \in failed \cup Queued THEN "rejected" ELSE promise[t]]
    <3>1. \A t \in Tasks : t \in failed \cup Queued
                             <=> (t \in Queued \cup Active /\ promise[t] = "pending")
      BY <1>0, <2>1 DEF Started, Pending
    <3>. QED
      BY <2>3, <3>1 DEF Settle
  <2>5. Service!Abandon(failed)
    BY <2>2, <2>3, <2>4, Abandons
  <2>6. Service!Shutdown(failed)
    BY <2>3, <2>5 DEF Service!Shutdown
  <2>. QED
    BY <1>0, <2>2, <2>6, RunningIsStarted DEF Service!Next
<1>2. ASSUME NEW w \in Workers, HandleWorkerError(w) PROVE Service!Next
  <2>1. PICK S : S = RunningOn(w)
    OBVIOUS
  <2>2. promise' = Settle(S, "rejected") /\ taskQueue' = taskQueue /\ UNCHANGED terminated
    <3>1. RunningOn(w) \cup {} = RunningOn(w)
      OBVIOUS
    <3>. QED
      BY <1>2, <2>1, <3>1 DEF HandleWorkerError, FailTasksOf
  <2>3. S \cap Queued = {}
    BY <2>1, NoWorkerAssumption DEF IndInv, Safe, TaskTracked, RunningOn, Active
  <2>. QED
    BY <2>2, <2>3, Settles
<1>3. ASSUME NEW w \in Workers, HandleStartupCap(w) PROVE Service!Next
  <2>1. PICK failed : failed = RunningOn(w) \cap Started
    OBVIOUS
  <2>2. failed \in SUBSET Started
    BY <2>1
  <2>3. /\ promise' = Settle(RunningOn(w) \cup Queued, "rejected")
        /\ taskQueue' = <<>> /\ UNCHANGED terminated
    BY <1>3 DEF HandleStartupCap, FailTasksOf
  <2>4. promise' = [t \in Tasks |-> IF t \in failed \cup Queued THEN "rejected" ELSE promise[t]]
    <3>1. \A t \in Tasks : t \in failed \cup Queued
                             <=> (t \in RunningOn(w) \cup Queued /\ promise[t] = "pending")
      BY <1>0, <2>1 DEF Started, Pending
    <3>. QED
      BY <2>3, <3>1 DEF Settle
  <2>5. Service!Abandon(failed)
    BY <2>2, <2>3, <2>4, Abandons
  <2>. QED
    BY <1>0, <2>2, <2>3, <2>5, RunningIsStarted DEF Service!Next
<1>. QED
  BY <1>1, <1>2, <1>3

(* A timer, as the caller sees it. *)
LEMMA TimeoutSeen ==
  ASSUME IndInv, IndInv', NEW t \in Tasks, HandleTaskTimeout(t)
  PROVE  Service!Next \/ UNCHANGED Service!vars
<1>1. UNCHANGED terminated
  BY DEF HandleTaskTimeout
<1>2. CASE t \in Queued
  <2>1. taskQueue' = Without(taskQueue, t) /\ promise' = Settle({t}, "rejected")
    BY <1>2 DEF HandleTaskTimeout
  <2>. QED
    BY <1>1, <1>2, <2>1, Expires
<1>3. CASE t \notin Queued
  <2>1. UNCHANGED <<promise, taskQueue>>
    BY <1>3 DEF HandleTaskTimeout
  <2>. QED
    BY <1>1, <2>1, Stutters
<1>. QED
  BY <1>2, <1>3

(* Every step of the pool is a step of the service, or none. *)
LEMMA ServiceStep ==
  ASSUME IndInv, IndInv', Fits, Fits', Next
  PROVE  Service!Next \/ UNCHANGED Service!vars
<1> DEFINE Goal == Service!Next \/ UNCHANGED Service!vars
<1>0. TypeOK /\ TypeOK'
  BY DEF IndInv
<1>1. ASSUME NEW t \in Tasks, NEW timed \in BOOLEAN, Execute(t, timed) PROVE Goal
  BY <1>1, Submits
<1>2. ASSUME NEW t \in Tasks, ExecuteTerminated(t) PROVE Goal
  <2>1. /\ promise[t] = "none" /\ promise' = [promise EXCEPT ![t] = "rejected"]
        /\ taskQueue' = taskQueue /\ terminated' = terminated
    BY <1>2 DEF ExecuteTerminated, poolVars
  <2>2. /\ Queued' = Queued /\ promise'[t] = "rejected"
        /\ \A u \in Tasks : u # t => promise'[u] = promise[u]
    BY <1>0, <2>1 DEF Queued, TypeOK
  <2>3. ServiceStatus[t] = "new" /\ ServiceStatus'[t] = "rejected"
    BY <1>0, <2>1, <2>2, StatusCases, StatusCasesNext DEF Settled
  <2>4. ServiceStatus' = [ServiceStatus EXCEPT ![t] = "rejected"]
    BY <1>0, <2>2, <2>3, OneChanges
  <2>5. Service!Refuse(t)
    BY <2>1, <2>3, <2>4 DEF Service!Refuse
  <2>. QED
    BY <2>5 DEF Service!Next
<1>3. ASSUME Terminate \/ \E w \in Workers : HandleWorkerError(w) \/ HandleStartupCap(w)
      PROVE  Goal
  BY <1>3, EndsSeen
<1>4. ASSUME NEW w \in Workers, WorkerStarts(w) PROVE Goal
  <2>1. Join(w) /\ UNCHANGED <<terminated, promise>>
    BY <1>4 DEF WorkerStarts
  <2>2. \/ taskQueue' = taskQueue
        \/ ~terminated /\ taskQueue # <<>> /\ taskQueue' = Tail(taskQueue)
    BY <2>1, JoinQueue
  <2>3. promise' = [t \in Tasks |-> IF t \in {} THEN "rejected" ELSE promise[t]]
    BY <1>0, <2>1 DEF TypeOK
  <2>4. {} \in SUBSET Started
    OBVIOUS
  <2>. QED
    BY <2>1, <2>2, <2>3, <2>4, Advances
<1>5. ASSUME NEW t \in Tasks, \/ \E w \in Workers : TimeoutReplaced(t, w)
                              \/ TimeoutStartFails(t)
      PROVE  Goal
  <2>1. t \in timedOut /\ promise' = Settle({t}, "rejected") /\ UNCHANGED terminated
    BY <1>5 DEF TimeoutReplaced, TimeoutStartFails, poolVars
  <2>2. {t} \cap Queued = {}
    BY <2>1 DEF IndInv, Safe, TaskTracked
  <2>3. \/ taskQueue' = taskQueue
        \/ ~terminated /\ taskQueue # <<>> /\ taskQueue' = Tail(taskQueue)
    BY <1>5, JoinQueue DEF TimeoutReplaced, TimeoutStartFails, poolVars
  <2>. QED
    BY <2>1, <2>2, <2>3, Settles
<1>6. ASSUME NEW w \in Workers, NEW t \in Tasks, NEW type \in Reply, HandleWorkerMessage(w, t, type)
      PROVE  Goal
  BY <1>6, MessageSeen
<1>7. ASSUME NEW t \in Tasks, HandleTaskTimeout(t) PROVE Goal
  BY <1>7, TimeoutSeen
<1>8. ASSUME \/ WorkerStartFails
             \/ \E w \in Workers : IgnoreWorkerError(w) \/ DropEvents(w)
             \/ \E w \in Workers, stops \in BOOLEAN : WorkerFails(w, stops)
             \/ \E w \in Workers, t \in Tasks, type \in Reply, again \in BOOLEAN :
                  WorkerReplies(w, t, type, again)
      PROVE  Goal
  <2>1. UNCHANGED <<promise, taskQueue, terminated>>
    BY <1>8 DEF WorkerStartFails, IgnoreWorkerError, DropEvents, WorkerFails, WorkerReplies,
                poolVars, callVars
  <2>. QED
    BY <2>1, Stutters
<1> HIDE DEF Goal
<1>9. Goal
  BY <1>1, <1>2, <1>3, <1>4, <1>5, <1>6, <1>7, <1>8 DEF Next
<1>. QED
  BY <1>9 DEF Goal

(* The pool is the service TaskService promises its callers: tasks start in *)
(* the order of their calls, never more at once than maxWorkers, and settle *)
(* once, for any number of workers, tasks and failures.                     *)
THEOREM PoolIsService == Spec => ImplementsService
<1>1. Init => Service!Init
  <2> SUFFICES ASSUME Init PROVE Service!Init
    OBVIOUS
  <2>1. taskQueue = <<>> /\ ~terminated /\ \A t \in Tasks : promise[t] = "none"
    BY DEF Init
  <2>2. TypeOK
    BY InitIndInv DEF IndInv
  <2>3. ServiceStatus = [t \in Tasks |-> "new"]
    BY <2>1, <2>2, StatusCases
  <2>. QED
    BY <2>1, <2>3 DEF Service!Init
<1>2. IndInv /\ IndInv' /\ Fits /\ Fits' /\ [Next]_vars => [Service!Next]_(Service!vars)
  <2> SUFFICES ASSUME IndInv, IndInv', Fits, Fits', [Next]_vars
               PROVE  Service!Next \/ UNCHANGED Service!vars
    OBVIOUS
  <2>1. CASE Next
    BY <2>1, ServiceStep
  <2>2. CASE UNCHANGED vars
    <3>1. UNCHANGED <<promise, taskQueue, terminated>>
      BY <2>2 DEF vars, poolVars, callVars
    <3>. QED
      BY <3>1, Stutters
  <2>. QED
    BY <2>1, <2>2
<1>3. IndInv /\ Countable /\ Slots <= MaxWorkers => Fits
  BY StartedFits
<1>. QED
  BY <1>1, <1>2, <1>3, Invariance, NeverTooMany, PTL DEF Spec, ImplementsService, Service!Spec
=============================================================================
