------------------------ MODULE ParallelMatrixProofs ------------------------
(***************************************************************************)
(* ParallelMatrix for every number of calls, rows, workers and pools: a    *)
(* call that resolves is whole, and no pool is forgotten.                  *)
(***************************************************************************)
EXTENDS ParallelMatrix, FiniteSetTheorems, TLAPS

-----------------------------------------------------------------------------
(* Ranges: Blocks.tla for every size, number of workers, length of a chunk. *)

(* The number that x \div d is: the greatest one whose product with d is at *)
(* most x.                                                                  *)
LEMMA Division ==
  ASSUME NEW x \in Nat, NEW d \in Nat, d > 0
  PROVE  /\ x \div d \in Nat
         /\ (x \div d) * d <= x
         /\ x < (x \div d) * d + d
  BY Z3

(* Multiplication by a length keeps the order. *)
LEMMA Monotone ==
  ASSUME NEW a \in Nat, NEW b \in Nat, NEW d \in Nat, a <= b
  PROVE  a * d <= b * d
  BY Z3

LEMMA LeastOf ==
  ASSUME NEW a \in Nat, NEW b \in Nat
  PROVE  /\ Least(a, b) \in Nat /\ Least(a, b) <= a /\ Least(a, b) <= b
         /\ Least(a, b) = a \/ Least(a, b) = b
  BY DEF Least

(* ceil(len / n) ranges are enough: n of them reach the end. *)
LEMMA CeilReaches ==
  ASSUME NEW len \in Nat, NEW n \in Nat, n > 0, len > 0
  PROVE  /\ Ceil(len, n) \in Nat /\ Ceil(len, n) > 0
         /\ len <= n * Ceil(len, n)
  <1> DEFINE q == (len + n - 1) \div n
  <1>1. len + n - 1 \in Nat OBVIOUS
  <1>2. q \in Nat /\ q * n <= len + n - 1 /\ len + n - 1 < q * n + n
    BY <1>1, Division
  <1>3. q * n \in Nat /\ n * q = q * n
    BY <1>2
  <1>4. len <= n * q
    BY <1>2, <1>3
  <1>5. q > 0
    BY <1>2, <1>4
  <1> QED BY <1>2, <1>4, <1>5 DEF Ceil

-----------------------------------------------------------------------------

(* Of ranges of at least one row, the one that holds row r is found by      *)
(* division.                                                                *)
LEMMA CutCovers ==
  ASSUME NEW len \in Nat, NEW chunk \in Nat, chunk > 0, NEW n \in Nat, len <= n * chunk,
         NEW r \in 0..(len - 1)
  PROVE  \E b \in Cut(len, chunk, n) : b.from <= r /\ r < b.to
  <1> DEFINE i == r \div chunk
             b == BlockAt(i, chunk, len)
  <1>1. i \in Nat /\ i * chunk <= r /\ r < i * chunk + chunk
    <2>1. r \in Nat OBVIOUS
    <2> QED BY <2>1, Division
  <1>2. i < n
    <2>1. SUFFICES ASSUME n <= i PROVE FALSE
      BY <1>1
    <2>2. n * chunk <= i * chunk
      BY <1>1, <2>1, Monotone
    <2>3. n * chunk \in Nat /\ i * chunk \in Nat
      BY <1>1
    <2> HIDE DEF i
    <2> QED BY <1>1, <2>2, <2>3
  <1> HIDE DEF i
  <1>3. i * chunk \in Nat
    BY <1>1
  <1>4. b \in Cut(len, chunk, n)
    BY <1>1, <1>2, <1>3 DEF Cut
  <1>5. b.from = i * chunk /\ b.to = Least(i * chunk + chunk, len)
    BY DEF BlockAt
  <1>6. b.from <= r /\ r < b.to
    BY <1>1, <1>3, <1>5 DEF Least
  <1> HIDE DEF b
  <1> QED BY <1>4, <1>6

(* Two ranges that hold the same row are the same.                          *)
LEMMA CutDisjoint ==
  ASSUME NEW len \in Nat, NEW chunk \in Nat, NEW n \in Nat, NEW r \in Nat,
         NEW a \in Cut(len, chunk, n), NEW b \in Cut(len, chunk, n),
         a.from <= r, r < a.to, b.from <= r, r < b.to
  PROVE  a = b
  <1>1. PICK i \in 0..(n - 1) : a = BlockAt(i, chunk, len)
    BY DEF Cut
  <1>2. PICK j \in 0..(n - 1) : b = BlockAt(j, chunk, len)
    BY DEF Cut
  <1>3. i * chunk \in Nat /\ j * chunk \in Nat
    BY SMT
  <1>4. a.from = i * chunk /\ a.to <= i * chunk + chunk
    BY <1>1, <1>3, LeastOf DEF BlockAt
  <1>5. b.from = j * chunk /\ b.to <= j * chunk + chunk
    BY <1>2, <1>3, LeastOf DEF BlockAt
  <1>6. a.to \in Nat /\ b.to \in Nat
    BY <1>1, <1>2, <1>3 DEF BlockAt, Least
  <1>7. ~(i < j)
    <2>1. SUFFICES ASSUME i + 1 <= j PROVE FALSE
      BY SMT
    <2>2. (i + 1) * chunk <= j * chunk
      BY <2>1, Monotone
    <2>3. (i + 1) * chunk = i * chunk + chunk
      BY Z3
    <2> QED BY <1>3, <1>4, <1>5, <1>6, <2>2, <2>3
  <1>8. ~(j < i)
    <2>1. SUFFICES ASSUME j + 1 <= i PROVE FALSE
      BY SMT
    <2>2. (j + 1) * chunk <= i * chunk
      BY <2>1, Monotone
    <2>3. (j + 1) * chunk = j * chunk + chunk
      BY Z3
    <2> QED BY <1>3, <1>4, <1>5, <1>6, <2>2, <2>3
  <1>9. i = j
    BY <1>7, <1>8
  <1> QED BY <1>1, <1>2, <1>9

(* No range reaches beyond the rows, and none is empty.                     *)
LEMMA CutWithin ==
  ASSUME NEW len \in Nat, NEW chunk \in Nat, chunk > 0, NEW n \in Nat,
         NEW b \in Cut(len, chunk, n)
  PROVE  b.from \in Nat /\ b.to \in Nat /\ b.from < b.to /\ b.to <= len
  <1>1. PICK i \in 0..(n - 1) : i * chunk < len /\ b = BlockAt(i, chunk, len)
    BY DEF Cut
  <1>2. i * chunk \in Nat
    BY SMT
  <1>3. b.from = i * chunk /\ b.to = Least(i * chunk + chunk, len)
    BY <1>1 DEF BlockAt
  <1>4. PICK x \in Nat : x = i * chunk
    BY <1>2
  <1>5. /\ Least(x + chunk, len) \in Nat /\ Least(x + chunk, len) <= len
        /\ Least(x + chunk, len) = x + chunk \/ Least(x + chunk, len) = len
    <2>1. x + chunk \in Nat
      OBVIOUS
    <2> QED BY <2>1, LeastOf
  <1>6. x < len
    BY <1>1, <1>4
  <1> QED BY <1>3, <1>4, <1>5, <1>6

(* RowBlocks is a cut whose ranges reach the end.                           *)
LEMMA RowBlocksIsCut ==
  ASSUME NEW len \in Nat, NEW workers \in Int
  PROVE  \E chunk \in Nat, n \in Nat :
           /\ RowBlocks(len, workers) = Cut(len, chunk, n)
           /\ len > 0 => chunk > 0 /\ len <= n * chunk
  <1> DEFINE n == BlockCount(workers, len)
  <1>1. n \in Nat /\ n > 0
    BY DEF BlockCount, Largest, Least
  <1>2. RowBlocks(len, workers) = Cut(len, Ceil(len, n), n)
    BY DEF RowBlocks
  <1> HIDE DEF n
  <1>3. CASE len > 0
    BY <1>1, <1>2, <1>3, CeilReaches
  <1>4. CASE len = 0
    <2>1. 0 + n - 1 \in Nat
      BY <1>1
    <2>2. Ceil(0, n) \in Nat
      BY <1>1, <2>1, Division DEF Ceil
    <2> QED BY <1>1, <1>2, <1>4, <2>2
  <1> QED BY <1>3, <1>4

(* blockCount, ceil and the break of the loops together: every row of an    *)
(* operation is in exactly one of its blocks, for every number of rows and  *)
(* of workers, also when no worker is ready yet.                            *)
THEOREM RowBlocksPartition ==
  ASSUME NEW len \in Nat, NEW workers \in Int, NEW r \in Nat
  PROVE  /\ r < len => \E b \in RowBlocks(len, workers) : b.from <= r /\ r < b.to
         /\ \A a, b \in RowBlocks(len, workers) :
              a.from <= r /\ r < a.to /\ b.from <= r /\ r < b.to => a = b
         /\ \A b \in RowBlocks(len, workers) : b.from <= r /\ r < b.to => r < len
  <1>1. PICK chunk \in Nat, n \in Nat :
           /\ RowBlocks(len, workers) = Cut(len, chunk, n)
           /\ len > 0 => chunk > 0 /\ len <= n * chunk
    BY RowBlocksIsCut
  <1>2. r < len => \E b \in RowBlocks(len, workers) : b.from <= r /\ r < b.to
    BY <1>1, CutCovers
  <1>3. ASSUME NEW a \in RowBlocks(len, workers), NEW b \in RowBlocks(len, workers),
               a.from <= r, r < a.to, b.from <= r, r < b.to
        PROVE  a = b
    BY <1>1, <1>3, CutDisjoint
  <1>4. ASSUME NEW b \in RowBlocks(len, workers), b.from <= r, r < b.to
        PROVE  r < len
    <2>1. CASE len > 0
      <3>1. b.to \in Nat /\ b.to <= len
        BY <1>1, <2>1, CutWithin
      <3> QED BY <1>4, <3>1
    <2>2. CASE len = 0
      <3>1. b \in Cut(len, chunk, n)
        BY <1>1
      <3>2. PICK i \in 0..(n - 1) : i * chunk < len
        BY <3>1 DEF Cut
      <3>3. i * chunk \in Nat
        BY SMT
      <3> QED BY <2>2, <3>2, <3>3
    <2> QED BY <2>1, <2>2
  <1> QED BY <1>2, <1>3, <1>4

(* The chunks of a typed array hold every element once, in pieces of the    *)
(* given length, for every length of the data.                              *)
THEOREM ChunksPartition ==
  ASSUME NEW len \in Nat, NEW chunk \in Nat, chunk > 0, NEW r \in 0..(len - 1)
  PROVE  /\ \E b \in Chunks(len, chunk) : b.from <= r /\ r < b.to
         /\ \A a, b \in Chunks(len, chunk) :
              a.from <= r /\ r < a.to /\ b.from <= r /\ r < b.to => a = b
  <1>1. len <= len * chunk
    <2>1. len * 1 <= chunk * len
      BY Monotone
    <2>2. len * 1 = len /\ chunk * len = len * chunk
      BY Z3
    <2> QED BY <2>1, <2>2
  <1>2. r \in Nat
    OBVIOUS
  <1>3. \E b \in Cut(len, chunk, len) : b.from <= r /\ r < b.to
    BY <1>1, CutCovers
  <1>4. ASSUME NEW a \in Cut(len, chunk, len), NEW b \in Cut(len, chunk, len),
               a.from <= r, r < a.to, b.from <= r, r < b.to
        PROVE  a = b
    BY <1>2, <1>4, CutDisjoint
  <1> QED BY <1>3, <1>4 DEF Chunks

-----------------------------------------------------------------------------

Types ==
  /\ pool \in Seq([open : BOOLEAN, spawns : BOOLEAN, workers : Int, during : BOOLEAN])
  /\ workerPool \in 0..Len(pool)
  /\ state \in [Calls -> {"new", "waiting", "resolved", "rejected"}]
  /\ size \in [Calls -> Sizes]
  /\ input \in [Calls -> Versions]
  /\ asked \in [Calls -> Versions \cup {NotRead}]
  /\ passing \in [Calls -> {"copied", "cloned", "live"}]
  /\ task = [c \in Calls |-> task[c]]
  /\ result = [c \in Calls |-> result[c]]

(* What TaskStarts, TaskAnswers and the rejections keep of a call's tasks. *)
IsTask(x) == x \in [state : TaskStates, saw : Versions \cup {NotRead}]
TasksOK(c) ==
  /\ task[c] = [b \in DOMAIN task[c] |-> task[c][b]]
  /\ \A b \in DOMAIN task[c] : IsTask(task[c][b])
  /\ \/ DOMAIN task[c] = {}
     \/ state[c] # "new" /\ \E w \in Int : DOMAIN task[c] = RowBlocks(size[c], w)
  /\ state[c] = "waiting" => DOMAIN task[c] # {}
  /\ asked[c] # NotRead =>
       \A b \in DOMAIN task[c] : passing[c] = "copied" /\ task[c][b].saw = asked[c]

WholeCall(c) ==
  \A r \in Rows :
    /\ (result[c][r] # {}) <=> r < size[c]
    /\ Cardinality({b \in DOMAIN task[c] : b.from <= r /\ r < b.to}) <= 1
    /\ asked[c] # NotRead => result[c][r] \subseteq {asked[c]}

ResultOK(c) ==
  /\ state[c] \in {"new", "waiting"} => result[c] = Zeros
  /\ state[c] = "resolved" => WholeCall(c)

CallOK(c) == TasksOK(c) /\ ResultOK(c)

IndInv == Types /\ \A c \in Calls : CallOK(c)

LEMMA MaxSizeNat == MaxSize \in Nat
  BY MatrixAssumption DEF MaxSize

LEMMA RowsNat == \A r \in Rows : r \in Nat
  BY MaxSizeNat DEF Rows

(* At most one block of a cut holds a row.                                  *)
LEMMA OneBlock ==
  ASSUME NEW n \in Nat, NEW r \in Nat, NEW D,
         D = {} \/ \E w \in Int : D = RowBlocks(n, w)
  PROVE  Cardinality({b \in D : b.from <= r /\ r < b.to}) <= 1
  <1> DEFINE S == {b \in D : b.from <= r /\ r < b.to}
  <1>1. \A a, b \in S : a = b
    <2>1. CASE D = {}
      BY <2>1
    <2>2. CASE \E w \in Int : D = RowBlocks(n, w)
      BY <2>2, RowBlocksPartition
    <2> QED BY <2>1, <2>2
  <1>2. CASE S = {}
    BY <1>2, FS_EmptySet
  <1>3. CASE S # {}
    <2>1. PICK a \in S : TRUE
      BY <1>3
    <2>2. S = {a}
      BY <1>1, <2>1
    <2>3. Cardinality({a}) = 1
      BY FS_Singleton
    <2> QED BY <2>2, <2>3
  <1> QED BY <1>2, <1>3

(* The rows that are scattered are those of the operation.                  *)
LEMMA ScatterCovers ==
  ASSUME NEW n \in Nat, NEW w \in Int, NEW r \in Rows, NEW tasks,
         DOMAIN tasks = RowBlocks(n, w)
  PROVE  (Scattered(tasks)[r] # {}) <=> r < n
  <1>1. r \in Nat
    BY RowsNat
  <1>2. Scattered(tasks)[r] = {tasks[b].saw : b \in {x \in DOMAIN tasks : x.from <= r /\ r < x.to}}
    BY DEF Scattered
  <1>3. r < n <=> \E b \in DOMAIN tasks : b.from <= r /\ r < b.to
    BY <1>1, RowBlocksPartition
  <1> QED BY <1>2, <1>3

LEMMA InitInv == MatrixInit => IndInv
  <1> SUFFICES ASSUME MatrixInit PROVE IndInv
    OBVIOUS
  <1>1. Types
    BY MatrixAssumption DEF MatrixInit, Types, Versions, NotRead
  <1>2. ASSUME NEW c \in Calls PROVE CallOK(c)
    BY <1>2 DEF MatrixInit, CallOK, TasksOK, ResultOK, NoTasks
  <1> QED BY <1>1, <1>2 DEF IndInv

-----------------------------------------------------------------------------
(* What each step of a call keeps *)

(* A step that leaves what a call has leaves what holds of it.              *)
LEMMA Untouched ==
  ASSUME NEW c \in Calls, CallOK(c),
         state'[c] = state[c], size'[c] = size[c], passing'[c] = passing[c],
         asked'[c] = asked[c], task'[c] = task[c], result'[c] = result[c]
  PROVE  CallOK(c)'
  BY DEF CallOK, TasksOK, ResultOK, WholeCall

LEMMA SequentialInv ==
  ASSUME IndInv, NEW c \in Calls, CallSequential(c)
  PROVE  IndInv'
  <1>1. Types'
    BY DEF IndInv, Types, CallSequential, staticVars, Versions, NotRead
  <1>2. CallOK(c)'
    <2>1. DOMAIN task[c] = {} /\ task' = task /\ state'[c] = "resolved"
      BY DEF IndInv, Types, CallOK, TasksOK, CallSequential
    <2>2. result'[c] = [r \in Rows |-> IF r < size[c] THEN {input[c]} ELSE {}]
      BY DEF IndInv, Types, CallSequential
    <2>3. asked'[c] = input[c] /\ size' = size
      BY DEF IndInv, Types, CallSequential
    <2>4. TasksOK(c)'
      BY <2>1 DEF IndInv, CallOK, TasksOK
    <2>5. WholeCall(c)'
      <3> SUFFICES ASSUME NEW r \in Rows
                   PROVE  /\ (result'[c][r] # {}) <=> r < size'[c]
                          /\ Cardinality({b \in DOMAIN task'[c] : b.from <= r /\ r < b.to}) <= 1
                          /\ asked'[c] # NotRead => result'[c][r] \subseteq {asked'[c]}
        BY DEF WholeCall
      <3>1. {b \in DOMAIN task'[c] : b.from <= r /\ r < b.to} = {}
        BY <2>1
      <3>2. result'[c][r] = IF r < size[c] THEN {input[c]} ELSE {}
        BY <2>2
      <3>3. Cardinality({b \in DOMAIN task'[c] : b.from <= r /\ r < b.to}) = 0
        BY <3>1, FS_EmptySet
      <3>4. Cardinality({b \in DOMAIN task'[c] : b.from <= r /\ r < b.to}) <= 1
        BY <3>3
      <3>5. (result'[c][r] # {}) <=> r < size'[c]
        BY <2>3, <3>2
      <3>6. result'[c][r] \subseteq {asked'[c]}
        BY <2>3, <3>2
      <3> QED BY <3>4, <3>5, <3>6
    <2> QED BY <2>1, <2>4, <2>5 DEF CallOK, ResultOK
  <1>3. ASSUME NEW d \in Calls, d # c PROVE CallOK(d)'
    BY <1>3, Untouched DEF IndInv, Types, CallSequential
  <1> QED BY <1>1, <1>2, <1>3 DEF IndInv

LEMMA ParallelInv ==
  ASSUME IndInv, NEW c \in Calls, NEW isShared \in BOOLEAN, CallParallel(c, isShared)
  PROVE  IndInv'
  <1> DEFINE blocks == RowBlocks(size[c], Pools[Current].workers)
             saw    == IF Passed(isShared) = "copied" THEN input[c] ELSE NotRead
             fate   == IF blocks = {} THEN "resolved"
                       ELSE IF Pools[Current].open THEN "waiting" ELSE "rejected"
  <1>1. /\ Pools \in Seq([open : BOOLEAN, spawns : BOOLEAN, workers : Int, during : BOOLEAN])
        /\ Current \in 1..Len(Pools)
    <2>1. NewPool \in [open : BOOLEAN, spawns : BOOLEAN, workers : Int, during : BOOLEAN]
      BY DEF NewPool
    <2>2. CASE workerPool = 0
      <3>1. Pools = Append(pool, NewPool) /\ Current = Len(pool) + 1
        BY <2>2 DEF Pools, Current
      <3>2. pool \in Seq([open : BOOLEAN, spawns : BOOLEAN, workers : Int, during : BOOLEAN])
        BY DEF IndInv, Types
      <3>3. /\ Append(pool, NewPool) \in Seq([open : BOOLEAN, spawns : BOOLEAN, workers : Int, during : BOOLEAN])
            /\ Len(Append(pool, NewPool)) = Len(pool) + 1 /\ Len(pool) \in Nat
        BY <2>1, <3>2
      <3> QED BY <3>1, <3>3
    <2>3. CASE workerPool # 0
      BY <2>3 DEF IndInv, Types, Pools, Current
    <2> QED BY <2>2, <2>3
  <1>2. Pools[Current].workers \in Int
    <2>1. Pools[Current] \in [open : BOOLEAN, spawns : BOOLEAN, workers : Int, during : BOOLEAN]
      <3> DEFINE R == [open : BOOLEAN, spawns : BOOLEAN, workers : Int, during : BOOLEAN]
      <3>1. Pools \in Seq(R) /\ Current \in 1..Len(Pools)
        BY <1>1
      <3> HIDE DEF R
      <3>2. Pools[Current] \in R
        BY <3>1
      <3> QED BY <3>2 DEF R
    <2> QED BY <2>1
  <1>3. size[c] \in Nat
    BY MatrixAssumption DEF IndInv, Types
  <1>4. Passed(isShared) \in {"copied", "cloned", "live"}
    BY DEF Passed
  <1>5. /\ state[c] = "new" /\ DOMAIN task[c] = {} /\ result[c] = Zeros
        /\ input[c] \in Versions /\ saw \in Versions \cup {NotRead}
    BY DEF IndInv, Types, CallOK, TasksOK, ResultOK, CallParallel
  <1>6. /\ state' = [state EXCEPT ![c] = fate]
        /\ task' = IF fate = "waiting"
                   THEN [task EXCEPT ![c] = [b \in blocks |-> [state |-> "queued", saw |-> saw]]]
                   ELSE task
    BY DEF CallParallel
  <1>7. /\ pool' = Pools /\ workerPool' = Current
        /\ asked' = [asked EXCEPT ![c] = IF shared /\ ~isShared THEN input[c] ELSE NotRead]
        /\ passing' = [passing EXCEPT ![c] = Passed(isShared)]
        /\ input' = input /\ size' = size /\ result' = result
    BY DEF CallParallel
  <1>8. fate \in {"resolved", "waiting", "rejected"}
    OBVIOUS
  <1>9. /\ state'[c] = fate /\ size'[c] = size[c] /\ result'[c] = Zeros
        /\ passing'[c] = Passed(isShared)
        /\ asked'[c] = IF shared /\ ~isShared THEN input[c] ELSE NotRead
        /\ task'[c] = IF fate = "waiting"
                      THEN [b \in blocks |-> [state |-> "queued", saw |-> saw]] ELSE task[c]
    BY <1>5, <1>6, <1>7 DEF IndInv, Types
  <1>10. Types'
    <2>1. task' = [d \in Calls |-> task'[d]] /\ result' = [d \in Calls |-> result'[d]]
      BY <1>6, <1>7 DEF IndInv, Types
    <2> QED BY <1>1, <1>4, <1>5, <1>6, <1>7, <1>8, <2>1 DEF IndInv, Types
  <1>11. CallOK(c)'
    <2>1. CASE fate = "waiting"
      <3>1. blocks # {} /\ DOMAIN task'[c] = blocks
        BY <1>9, <2>1
      <3>2. \A b \in blocks : task'[c][b] = [state |-> "queued", saw |-> saw]
        BY <1>9, <2>1
      <3>3. \A b \in blocks : IsTask(task'[c][b])
        BY <1>5, <3>2 DEF IsTask, TaskStates
      <3>4. asked'[c] # NotRead => Passed(isShared) = "copied" /\ saw = asked'[c]
        BY <1>9 DEF Passed
      <3>5. task'[c] = [b \in DOMAIN task'[c] |-> task'[c][b]]
        BY <1>9, <2>1
      <3>6. TasksOK(c)'
        <4>1. \E w \in Int : DOMAIN task'[c] = RowBlocks(size'[c], w)
          BY <1>2, <1>9, <3>1
        <4>2. asked'[c] # NotRead =>
                \A b \in DOMAIN task'[c] : passing'[c] = "copied" /\ task'[c][b].saw = asked'[c]
          BY <1>9, <3>1, <3>2, <3>4
        <4> QED BY <1>9, <2>1, <3>1, <3>3, <3>5, <4>1, <4>2 DEF TasksOK, IsTask
      <3> QED BY <1>9, <2>1, <3>6 DEF CallOK, ResultOK, Zeros, Rows
    <2>2. CASE fate = "rejected"
      BY <1>5, <1>9, <2>2 DEF IndInv, CallOK, TasksOK, ResultOK, IsTask
    <2>3. CASE fate = "resolved"
      <3>1. blocks = {}
        BY <2>3
      <3>2. \A r \in Rows : ~(r < size[c])
        BY <1>2, <1>3, <3>1, RowBlocksPartition, RowsNat
      <3>3. TasksOK(c)'
        BY <1>5, <1>9, <2>3 DEF IndInv, CallOK, TasksOK, IsTask
      <3>4. DOMAIN task'[c] = {}
        BY <1>5, <1>9, <2>3
      <3>5. WholeCall(c)'
        <4> SUFFICES ASSUME NEW r \in Rows
                     PROVE  /\ (result'[c][r] # {}) <=> r < size'[c]
                            /\ Cardinality({b \in DOMAIN task'[c] : b.from <= r /\ r < b.to}) <= 1
                            /\ asked'[c] # NotRead => result'[c][r] \subseteq {asked'[c]}
          BY DEF WholeCall
        <4>1. {b \in DOMAIN task'[c] : b.from <= r /\ r < b.to} = {}
          BY <3>4
        <4>2. result'[c][r] = {}
          BY <1>9 DEF Zeros
        <4>3. Cardinality({b \in DOMAIN task'[c] : b.from <= r /\ r < b.to}) = 0
          BY <4>1, FS_EmptySet
        <4>4. Cardinality({b \in DOMAIN task'[c] : b.from <= r /\ r < b.to}) <= 1
          BY <4>3
        <4>5. ~(r < size'[c])
          BY <1>9, <3>2
        <4> QED BY <4>2, <4>4, <4>5
      <3> QED BY <1>9, <2>3, <3>3, <3>5 DEF CallOK, ResultOK
    <2> QED BY <1>8, <2>1, <2>2, <2>3
  <1>12. ASSUME NEW d \in Calls, d # c PROVE CallOK(d)'
    BY <1>6, <1>7, <1>12, Untouched DEF IndInv, Types
  <1> QED BY <1>10, <1>11, <1>12 DEF IndInv

LEMMA MutateInv ==
  ASSUME IndInv, NEW c \in Calls, Mutate(c)
  PROVE  IndInv'
  <1>1. Types'
    BY DEF IndInv, Types, Mutate, staticVars, Versions
  <1>2. \A d \in Calls : CallOK(d)'
    BY Untouched DEF IndInv, Mutate
  <1> QED BY <1>1, <1>2 DEF IndInv

-----------------------------------------------------------------------------
(* What the steps of the pool keep *)

(* A step of one task changes neither the domain of its call's tasks nor    *)
(* what a copied input was read as.                                         *)
LEMMA TaskStep ==
  ASSUME IndInv, NEW c \in Calls, NEW b \in DOMAIN task[c], NEW x, IsTask(x),
         asked[c] # NotRead => x.saw = asked[c],
         task' = [task EXCEPT ![c] = [@ EXCEPT ![b] = x]],
         state'[c] # "new", state'[c] = "waiting" => state[c] = "waiting",
         size' = size, passing' = passing, asked' = asked
  PROVE  /\ TasksOK(c)'
         /\ DOMAIN task'[c] = DOMAIN task[c]
         /\ task' = [d \in Calls |-> task'[d]]
         /\ \A d \in Calls : d # c => task'[d] = task[d]
  <1>1. task = [d \in Calls |-> task[d]]
    BY DEF IndInv, Types
  <1>2. task'[c] = [task[c] EXCEPT ![b] = x]
    BY <1>1
  <1>3. TasksOK(c)
    BY DEF IndInv, CallOK
  <1>4. \A d \in DOMAIN task[c] : task'[c][d] = IF d = b THEN x ELSE task[c][d]
    BY <1>2, <1>3 DEF TasksOK
  <1>5. DOMAIN task'[c] = DOMAIN task[c]
    BY <1>2
  <1>6. task'[c] = [d \in DOMAIN task'[c] |-> task'[c][d]]
    BY <1>2, <1>3 DEF TasksOK
  <1>7. \A d \in DOMAIN task[c] : IsTask(task'[c][d])
    BY <1>3, <1>4 DEF TasksOK
  <1>8. asked[c] # NotRead =>
          \A d \in DOMAIN task[c] : passing[c] = "copied" /\ task'[c][d].saw = asked[c]
    BY <1>3, <1>4 DEF TasksOK
  <1>9. TasksOK(c)'
    <2>1. \A d \in DOMAIN task'[c] : task'[c][d] \in [state : TaskStates, saw : Versions \cup {NotRead}]
      BY <1>5, <1>7 DEF IsTask
    <2>2. \E w \in Int : DOMAIN task'[c] = RowBlocks(size'[c], w)
      BY <1>3, <1>5 DEF TasksOK
    <2>3. state'[c] = "waiting" => DOMAIN task'[c] # {}
      BY <1>5
    <2> QED BY <1>5, <1>6, <1>8, <2>1, <2>2, <2>3 DEF TasksOK, IsTask
  <1> QED BY <1>1, <1>5, <1>9

(* The result of a call that has one stays as it is.                        *)
LEMMA ResultKept ==
  ASSUME NEW c \in Calls, ResultOK(c),
         state'[c] \in {"new", "waiting"} => state[c] \in {"new", "waiting"},
         state'[c] = "resolved" => state[c] = "resolved",
         size' = size, asked' = asked, result' = result,
         DOMAIN task'[c] = DOMAIN task[c]
  PROVE  ResultOK(c)'
  BY DEF ResultOK, WholeCall

LEMMA StartsInv ==
  ASSUME IndInv, NEW c \in Calls, NEW b \in DOMAIN task[c], TaskStarts(c, b)
  PROVE  IndInv'
  <1> DEFINE x == [task[c][b] EXCEPT !.state = "running",
                                     !.saw = IF passing[c] = "cloned" THEN input[c] ELSE @]
  <1>1. /\ task = [d \in Calls |-> task[d]] /\ input[c] \in Versions
        /\ TasksOK(c) /\ ResultOK(c)
    BY DEF IndInv, Types, CallOK
  <1>2. IsTask(task[c][b])
    BY <1>1 DEF TasksOK
  <1>3. IsTask(x)
    BY <1>1, <1>2 DEF IsTask, TaskStates
  <1>4. asked[c] # NotRead => x.saw = asked[c]
    <2>1. asked[c] # NotRead => passing[c] = "copied" /\ task[c][b].saw = asked[c]
      BY <1>1 DEF TasksOK
    <2>2. x.saw = IF passing[c] = "cloned" THEN input[c] ELSE task[c][b].saw
      BY <1>2 DEF IsTask
    <2> QED BY <2>1, <2>2
  <1>5. task' = [task EXCEPT ![c] = [@ EXCEPT ![b] = x]]
    BY <1>1 DEF TaskStarts, TasksOK
  <1>6. /\ state' = state /\ size' = size /\ passing' = passing /\ asked' = asked
        /\ result' = result /\ input' = input /\ pool' = pool /\ workerPool' = workerPool
    BY DEF TaskStarts, staticVars
  <1>7. state[c] # "new"
    BY <1>1 DEF TasksOK
  <1>8. /\ TasksOK(c)' /\ DOMAIN task'[c] = DOMAIN task[c]
        /\ task' = [d \in Calls |-> task'[d]]
        /\ \A d \in Calls : d # c => task'[d] = task[d]
    <2> HIDE DEF x
    <2> QED BY <1>3, <1>4, <1>5, <1>6, <1>7, TaskStep
  <1>9. CallOK(c)'
    BY <1>1, <1>6, <1>8, ResultKept DEF CallOK
  <1>10. ASSUME NEW d \in Calls, d # c PROVE CallOK(d)'
    BY <1>6, <1>8, <1>10, Untouched DEF IndInv
  <1>11. Types'
    BY <1>6, <1>8 DEF IndInv, Types
  <1> QED BY <1>9, <1>10, <1>11 DEF IndInv

(* A list of pools, or of anything, in which one is replaced.               *)
LEMMA Replaced ==
  ASSUME NEW R, NEW s \in Seq(R), NEW p, NEW x, p \in DOMAIN s => x \in R
  PROVE  /\ [s EXCEPT ![p] = x] \in Seq(R)
         /\ Len([s EXCEPT ![p] = x]) = Len(s)
         /\ DOMAIN [s EXCEPT ![p] = x] = DOMAIN s
  <1>1. CASE p \in DOMAIN s
    BY <1>1
  <1>2. CASE p \notin DOMAIN s
    <2>1. [s EXCEPT ![p] = x] = s
      BY <1>2
    <2> QED BY <2>1
  <1> QED BY <1>1, <1>2

LEMMA Element ==
  ASSUME NEW R, NEW s \in Seq(R), NEW p \in DOMAIN s
  PROVE  s[p] \in R
  OBVIOUS

APool == [open : BOOLEAN, spawns : BOOLEAN, workers : Int, during : BOOLEAN]

LEMMA NoWorkers ==
  ASSUME NEW e \in APool
  PROVE  [e EXCEPT !.workers = 0] \in APool
  BY DEF APool

LEMMA FromElements ==
  ASSUME NEW R, NEW n \in Nat, NEW s \in [1..n -> R]
  PROVE  s \in Seq(R)
  OBVIOUS

(* A pool that gains or loses a worker, gives up or stops is a pool.        *)
LEMMA PoolChanges ==
  ASSUME pool \in Seq(APool), NEW p
  PROVE  /\ [pool EXCEPT ![p].workers = @ + 1] \in Seq(APool)
         /\ Len([pool EXCEPT ![p].workers = @ + 1]) = Len(pool)
         /\ [pool EXCEPT ![p].workers = @ - 1] \in Seq(APool)
         /\ Len([pool EXCEPT ![p].workers = @ - 1]) = Len(pool)
         /\ [pool EXCEPT ![p].workers = @ - 1, ![p].spawns = FALSE] \in Seq(APool)
         /\ Len([pool EXCEPT ![p].workers = @ - 1, ![p].spawns = FALSE]) = Len(pool)
         /\ Stopped(p) \in Seq(APool)
         /\ Len(Stopped(p)) = Len(pool)
  <1>1. p \in DOMAIN pool => pool[p] \in APool
    BY Element
  <1>2. p \in DOMAIN pool => [pool[p] EXCEPT !.workers = @ + 1] \in APool
    BY <1>1 DEF APool
  <1>3. p \in DOMAIN pool => [pool[p] EXCEPT !.workers = @ - 1] \in APool
    BY <1>1 DEF APool
  <1>4. \A s \in Seq(APool) : p \in DOMAIN s => [s[p] EXCEPT !.spawns = FALSE] \in APool
    <2> SUFFICES ASSUME NEW s \in Seq(APool), p \in DOMAIN s
                 PROVE  [s[p] EXCEPT !.spawns = FALSE] \in APool
      OBVIOUS
    <2>1. s[p] \in APool
      BY Element
    <2> QED BY <2>1 DEF APool
  <1>5. \A s \in Seq(APool) : p \in DOMAIN s => [s[p] EXCEPT !.workers = 0] \in APool
    <2> SUFFICES ASSUME NEW s \in Seq(APool), p \in DOMAIN s
                 PROVE  [s[p] EXCEPT !.workers = 0] \in APool
      OBVIOUS
    <2>1. s[p] \in APool
      BY Element
    <2> QED BY <2>1, NoWorkers
  <1>6. p \in DOMAIN pool => [pool[p] EXCEPT !.open = FALSE] \in APool
    BY <1>1 DEF APool
  <1>7. /\ [pool EXCEPT ![p].workers = @ + 1] \in Seq(APool)
        /\ Len([pool EXCEPT ![p].workers = @ + 1]) = Len(pool)
    BY <1>2, Replaced
  <1>8. /\ [pool EXCEPT ![p].workers = @ - 1] \in Seq(APool)
        /\ Len([pool EXCEPT ![p].workers = @ - 1]) = Len(pool)
    BY <1>3, Replaced
  <1>9. /\ [pool EXCEPT ![p].open = FALSE] \in Seq(APool)
        /\ Len([pool EXCEPT ![p].open = FALSE]) = Len(pool)
    <2> DEFINE x == [pool[p] EXCEPT !.open = FALSE]
    <2>1. [pool EXCEPT ![p].open = FALSE] = [pool EXCEPT ![p] = x]
      OBVIOUS
    <2>2. p \in DOMAIN pool => x \in APool
      BY <1>6
    <2> HIDE DEF x
    <2>3. [pool EXCEPT ![p] = x] \in Seq(APool) /\ Len([pool EXCEPT ![p] = x]) = Len(pool)
      BY <2>2, Replaced
    <2> QED BY <2>1, <2>3
  <1>10. /\ [pool EXCEPT ![p].workers = @ - 1, ![p].spawns = FALSE] \in Seq(APool)
         /\ Len([pool EXCEPT ![p].workers = @ - 1, ![p].spawns = FALSE]) = Len(pool)
    <2> DEFINE s == [pool EXCEPT ![p].workers = @ - 1]
    <2>1. s \in Seq(APool) /\ Len(s) = Len(pool)
      BY <1>8
    <2> HIDE DEF s
    <2>2. [s EXCEPT ![p].spawns = FALSE] \in Seq(APool) /\ Len([s EXCEPT ![p].spawns = FALSE]) = Len(s)
      BY <1>4, <2>1, Replaced
    <2> QED BY <2>1, <2>2 DEF s
  <1>11. Stopped(p) \in Seq(APool) /\ Len(Stopped(p)) = Len(pool)
    <2> DEFINE s == [pool EXCEPT ![p].open = FALSE]
    <2>1. s \in Seq(APool) /\ Len(s) = Len(pool)
      BY <1>9
    <2> HIDE DEF s
    <2>2. [s EXCEPT ![p].workers = 0] \in Seq(APool) /\ Len([s EXCEPT ![p].workers = 0]) = Len(s)
      BY <1>5, <2>1, Replaced
    <2> QED BY <2>1, <2>2 DEF s, Stopped
  <1> QED BY <1>7, <1>8, <1>10, <1>11

LEMMA FailsInv ==
  ASSUME IndInv, NEW c \in Calls, NEW b \in DOMAIN task[c], TaskFails(c, b)
  PROVE  IndInv'
  <1> DEFINE x == [task[c][b] EXCEPT !.state = "rejected"]
  <1>1. task = [d \in Calls |-> task[d]] /\ TasksOK(c) /\ ResultOK(c)
    BY DEF IndInv, Types, CallOK
  <1>2. IsTask(task[c][b])
    BY <1>1 DEF TasksOK
  <1>3. IsTask(x) /\ x.saw = task[c][b].saw
    BY <1>2 DEF IsTask, TaskStates
  <1>4. asked[c] # NotRead => x.saw = asked[c]
    BY <1>1, <1>3 DEF TasksOK
  <1>5. task' = [task EXCEPT ![c] = [@ EXCEPT ![b] = x]]
    BY <1>1 DEF TaskFails, Rejected, TasksOK
  <1>6. /\ state' = [state EXCEPT ![c] = IF @ = "waiting" THEN "rejected" ELSE @]
        /\ size' = size /\ passing' = passing /\ asked' = asked
        /\ result' = result /\ input' = input /\ workerPool' = workerPool
    BY DEF TaskFails, Rejected
  <1>7. state[c] # "new"
    BY <1>1 DEF TasksOK
  <1>8. state'[c] = IF state[c] = "waiting" THEN "rejected" ELSE state[c]
    BY <1>6 DEF IndInv, Types
  <1>9. /\ TasksOK(c)' /\ DOMAIN task'[c] = DOMAIN task[c]
        /\ task' = [d \in Calls |-> task'[d]]
        /\ \A d \in Calls : d # c => task'[d] = task[d]
    <2>1. state'[c] # "new" /\ (state'[c] = "waiting" => state[c] = "waiting")
      BY <1>7, <1>8
    <2> HIDE DEF x
    <2> QED BY <1>3, <1>4, <1>5, <1>6, <2>1, TaskStep
  <1>10. CallOK(c)'
    BY <1>1, <1>6, <1>8, <1>9, ResultKept DEF CallOK
  <1>11. ASSUME NEW d \in Calls, d # c PROVE CallOK(d)'
    <2>1. state'[d] = state[d]
      BY <1>6, <1>11 DEF IndInv, Types
    <2> QED BY <1>6, <1>9, <1>11, <2>1, Untouched DEF IndInv
  <1>12. Types'
    <2>1. pool' \in Seq(APool) /\ Len(pool') = Len(pool)
      <3>1. pool' = pool \/ pool' = [pool EXCEPT ![home[c]].workers = @ - 1]
        BY DEF TaskFails
      <3>2. pool \in Seq(APool)
        BY DEF IndInv, Types, APool
      <3> QED BY <3>1, <3>2, PoolChanges
    <2>2. state' \in [Calls -> {"new", "waiting", "resolved", "rejected"}]
      BY <1>6 DEF IndInv, Types
    <2> QED BY <1>6, <1>9, <2>1, <2>2 DEF IndInv, Types, APool
  <1> QED BY <1>10, <1>11, <1>12 DEF IndInv

LEMMA AnswersInv ==
  ASSUME IndInv, NEW c \in Calls, NEW b \in DOMAIN task[c], TaskAnswers(c, b)
  PROVE  IndInv'
  <1> DEFINE x == [task[c][b] EXCEPT !.state = "answered",
                                     !.saw = IF passing[c] = "live" THEN input[c] ELSE @]
             ends == state[c] = "waiting" /\ \A y \in DOMAIN task[c] : task'[c][y].state = "answered"
  <1>1. /\ task = [d \in Calls |-> task[d]] /\ input[c] \in Versions
        /\ TasksOK(c) /\ ResultOK(c)
    BY DEF IndInv, Types, CallOK
  <1>2. IsTask(task[c][b])
    BY <1>1 DEF TasksOK
  <1>3. IsTask(x)
    BY <1>1, <1>2 DEF IsTask, TaskStates
  <1>4. asked[c] # NotRead => x.saw = asked[c]
    <2>1. asked[c] # NotRead => passing[c] = "copied" /\ task[c][b].saw = asked[c]
      BY <1>1 DEF TasksOK
    <2>2. x.saw = IF passing[c] = "live" THEN input[c] ELSE task[c][b].saw
      BY <1>2 DEF IsTask
    <2> QED BY <2>1, <2>2
  <1>5. task' = [task EXCEPT ![c] = [@ EXCEPT ![b] = x]]
    BY <1>1 DEF TaskAnswers, TasksOK
  <1>6. /\ size' = size /\ passing' = passing /\ asked' = asked
        /\ input' = input /\ pool' = pool /\ workerPool' = workerPool
    BY DEF TaskAnswers, staticVars
  <1>7. IF ends
        THEN /\ state' = [state EXCEPT ![c] = "resolved"]
             /\ result' = [result EXCEPT ![c] = Scattered(task'[c])]
        ELSE state' = state /\ result' = result
    BY DEF TaskAnswers
  <1>8. state[c] # "new"
    BY <1>1 DEF TasksOK
  <1>9. state'[c] = (IF ends THEN "resolved" ELSE state[c]) /\ \A d \in Calls : d # c => state'[d] = state[d]
    BY <1>7 DEF IndInv, Types
  <1>10. /\ TasksOK(c)' /\ DOMAIN task'[c] = DOMAIN task[c]
         /\ task' = [d \in Calls |-> task'[d]]
         /\ \A d \in Calls : d # c => task'[d] = task[d]
    <2> HIDE DEF x, ends
    <2> QED BY <1>3, <1>4, <1>5, <1>6, <1>8, <1>9, TaskStep
  <1>11. \A d \in Calls : d # c => result'[d] = result[d]
    BY <1>7 DEF IndInv, Types
  <1>12. CallOK(c)'
    <2>1. CASE ~ends
      <3>1. state' = state /\ result' = result
        BY <1>7, <2>1
      <3> QED BY <1>1, <1>6, <1>10, <3>1, ResultKept DEF CallOK
    <2>2. CASE ends
      <3>1. state'[c] = "resolved" /\ result'[c] = Scattered(task'[c])
        BY <1>7, <1>9, <2>2 DEF IndInv, Types
      <3>2. PICK w \in Int : DOMAIN task'[c] = RowBlocks(size'[c], w)
        BY <1>1, <1>6, <1>10, <2>2 DEF TasksOK
      <3>3. size'[c] \in Nat
        BY <1>6, MatrixAssumption DEF IndInv, Types
      <3>4. WholeCall(c)'
        <4> SUFFICES ASSUME NEW r \in Rows
                     PROVE  /\ (result'[c][r] # {}) <=> r < size'[c]
                            /\ Cardinality({y \in DOMAIN task'[c] : y.from <= r /\ r < y.to}) <= 1
                            /\ asked'[c] # NotRead => result'[c][r] \subseteq {asked'[c]}
          BY DEF WholeCall
        <4>1. (Scattered(task'[c])[r] # {}) <=> r < size'[c]
          BY <3>2, <3>3, ScatterCovers
        <4>2. Cardinality({y \in DOMAIN task'[c] : y.from <= r /\ r < y.to}) <= 1
          BY <3>2, <3>3, RowsNat, OneBlock
        <4>3. asked'[c] # NotRead => \A y \in DOMAIN task'[c] : task'[c][y].saw = asked'[c]
          BY <1>10 DEF TasksOK
        <4>4. Scattered(task'[c])[r]
                = {task'[c][y].saw : y \in {z \in DOMAIN task'[c] : z.from <= r /\ r < z.to}}
          BY DEF Scattered
        <4> QED BY <3>1, <4>1, <4>2, <4>3, <4>4
      <3> QED BY <1>10, <3>1, <3>4 DEF CallOK, ResultOK
    <2> QED BY <2>1, <2>2
  <1>13. ASSUME NEW d \in Calls, d # c PROVE CallOK(d)'
    BY <1>6, <1>9, <1>10, <1>11, <1>13, Untouched DEF IndInv
  <1>14. Types'
    <2>1. state' \in [Calls -> {"new", "waiting", "resolved", "rejected"}]
      BY <1>7 DEF IndInv, Types
    <2>2. result' = [d \in Calls |-> result'[d]]
      BY <1>7 DEF IndInv, Types
    <2> QED BY <1>6, <1>10, <2>1, <2>2 DEF IndInv, Types
  <1> QED BY <1>12, <1>13, <1>14 DEF IndInv

(* What a pool loses when it stops or gives up leaves whole what is whole.  *)
LEMMA AbandonedInv ==
  ASSUME IndInv, NEW p, NEW from, Abandoned(p, from),
         pool' \in Seq(APool), workerPool' \in 0..Len(pool')
  PROVE  IndInv'
  <1>1. /\ size' = size /\ passing' = passing /\ asked' = asked
        /\ result' = result /\ input' = input
    BY DEF Abandoned
  <1>2. ASSUME NEW c \in Calls PROVE CallOK(c)'
    <2>1. TasksOK(c) /\ ResultOK(c)
      BY DEF IndInv, CallOK
    <2>2. task'[c] = [b \in DOMAIN task[c] |-> IF b \in Lost(c, p, from)
                        THEN [task[c][b] EXCEPT !.state = "rejected"] ELSE task[c][b]]
      BY DEF Abandoned
    <2>3. state'[c] = IF state[c] = "waiting" /\ Lost(c, p, from) # {} THEN "rejected" ELSE state[c]
      BY DEF Abandoned
    <2>4. DOMAIN task'[c] = DOMAIN task[c] /\ task'[c] = [b \in DOMAIN task'[c] |-> task'[c][b]]
      BY <2>2
    <2>5. \A b \in DOMAIN task[c] : IsTask(task'[c][b]) /\ task'[c][b].saw = task[c][b].saw
      <3> SUFFICES ASSUME NEW b \in DOMAIN task[c]
                   PROVE  IsTask(task'[c][b]) /\ task'[c][b].saw = task[c][b].saw
        OBVIOUS
      <3>1. IsTask(task[c][b])
        BY <2>1 DEF TasksOK
      <3>2. \/ task'[c][b] = task[c][b]
            \/ task'[c][b] = [task[c][b] EXCEPT !.state = "rejected"]
        BY <2>2
      <3> QED BY <3>1, <3>2 DEF IsTask, TaskStates
    <2>6. TasksOK(c)'
      <3>1. state'[c] = "new" => state[c] = "new"
        BY <2>3
      <3>2. DOMAIN task'[c] = {} \/ (state'[c] # "new" /\ \E w \in Int : DOMAIN task'[c] = RowBlocks(size'[c], w))
        BY <1>1, <2>1, <2>4, <3>1 DEF TasksOK
      <3>3. state'[c] = "waiting" => DOMAIN task'[c] # {}
        BY <2>1, <2>3, <2>4 DEF TasksOK
      <3>4. asked'[c] # NotRead =>
              \A b \in DOMAIN task'[c] : passing'[c] = "copied" /\ task'[c][b].saw = asked'[c]
        BY <1>1, <2>1, <2>4, <2>5 DEF TasksOK
      <3>5. \A b \in DOMAIN task'[c] : task'[c][b] \in [state : TaskStates, saw : Versions \cup {NotRead}]
        BY <2>4, <2>5 DEF IsTask
      <3> QED BY <2>4, <3>2, <3>3, <3>4, <3>5 DEF TasksOK, IsTask
    <2>7. ResultOK(c)'
      <3>1. /\ state'[c] \in {"new", "waiting"} => state[c] \in {"new", "waiting"}
            /\ state'[c] = "resolved" => state[c] = "resolved"
        BY <2>3
      <3> QED BY <1>1, <2>1, <2>4, <3>1, ResultKept
    <2> QED BY <2>6, <2>7 DEF CallOK
  <1>3. Types'
    <2>1. state' \in [Calls -> {"new", "waiting", "resolved", "rejected"}]
      BY DEF IndInv, Types, Abandoned
    <2>2. task' = [c \in Calls |-> task'[c]]
      BY DEF Abandoned
    <2> QED BY <1>1, <2>1, <2>2 DEF IndInv, Types, APool
  <1> QED BY <1>2, <1>3 DEF IndInv

(* A step that leaves the calls alone.                                      *)
LEMMA CallsKept ==
  ASSUME IndInv, UNCHANGED matrixCallVars,
         pool' \in Seq(APool), workerPool' \in 0..Len(pool')
  PROVE  IndInv'
  <1>1. /\ size' = size /\ passing' = passing /\ asked' = asked /\ state' = state
        /\ task' = task /\ result' = result /\ input' = input
    BY DEF matrixCallVars
  <1>2. \A c \in Calls : CallOK(c)'
    BY <1>1, Untouched DEF IndInv
  <1>3. Types'
    BY <1>1 DEF IndInv, Types, APool
  <1> QED BY <1>2, <1>3 DEF IndInv

LEMMA StepInv ==
  ASSUME IndInv, [MatrixNext]_matrixVars
  PROVE  IndInv'
  <1> USE DEF IndInv
  <1>1. /\ pool \in Seq(APool) /\ Len(pool) \in Nat
        /\ workerPool \in 0..Len(pool) /\ 0 \in 0..Len(pool)
    <2>1. pool \in Seq(APool) /\ workerPool \in 0..Len(pool)
      BY DEF Types, APool
    <2> QED BY <2>1
  <1>2. ASSUME NEW c \in Calls, CallSequential(c) PROVE IndInv'
    BY <1>2, SequentialInv
  <1>3. ASSUME NEW c \in Calls, Mutate(c) PROVE IndInv'
    BY <1>3, MutateInv
  <1>4. ASSUME NEW c \in Calls, NEW isShared \in BOOLEAN, CallParallel(c, isShared) PROVE IndInv'
    BY <1>4, ParallelInv
  <1>5. ASSUME NEW c \in Calls, NEW b \in DOMAIN task[c], TaskStarts(c, b) PROVE IndInv'
    BY <1>5, StartsInv
  <1>6. ASSUME NEW c \in Calls, NEW b \in DOMAIN task[c], TaskAnswers(c, b) PROVE IndInv'
    BY <1>6, AnswersInv
  <1>7. ASSUME NEW c \in Calls, NEW b \in DOMAIN task[c], TaskFails(c, b) PROVE IndInv'
    BY <1>7, FailsInv
  <1>8. ASSUME NEW p \in DOMAIN pool, WorkerJoins(p) PROVE IndInv'
    <2>1. pool' = [pool EXCEPT ![p].workers = @ + 1] /\ workerPool' = workerPool /\ UNCHANGED matrixCallVars
      BY <1>8 DEF WorkerJoins
    <2>2. pool' \in Seq(APool) /\ Len(pool') = Len(pool)
      BY <1>1, <2>1, PoolChanges
    <2>3. workerPool' \in 0..Len(pool')
      BY <1>1, <2>1, <2>2
    <2> QED BY <2>1, <2>2, <2>3, CallsKept
  <1>9. ASSUME NEW p \in DOMAIN pool, PoolGivesUp(p) PROVE IndInv'
    <2>1. /\ pool' = [pool EXCEPT ![p].workers = @ - 1, ![p].spawns = FALSE]
          /\ workerPool' = workerPool /\ Abandoned(p, {"queued"})
      BY <1>9 DEF PoolGivesUp
    <2>2. pool' \in Seq(APool) /\ Len(pool') = Len(pool)
      BY <1>1, <2>1, PoolChanges
    <2>3. workerPool' \in 0..Len(pool')
      BY <1>1, <2>1, <2>2
    <2> QED BY <2>1, <2>2, <2>3, AbandonedInv
  <1>10. ASSUME NEW useShared \in BOOLEAN, Configure(useShared) PROVE IndInv'
    <2>1. CASE workerPool = 0
      <3>1. pool' = pool /\ workerPool' = workerPool /\ UNCHANGED matrixCallVars
        BY <1>10, <2>1 DEF Configure
      <3> QED BY <1>1, <3>1, CallsKept
    <2>2. CASE workerPool # 0
      <3>1. /\ pool' = Stopped(workerPool) /\ workerPool' = 0
            /\ Abandoned(workerPool, {"queued", "running"})
        BY <1>10, <2>2 DEF Configure
      <3>2. pool' \in Seq(APool) /\ Len(pool') = Len(pool)
        BY <1>1, <3>1, PoolChanges
      <3>3. workerPool' \in 0..Len(pool')
        BY <1>1, <3>1, <3>2
      <3> QED BY <3>1, <3>2, <3>3, AbandonedInv
    <2> QED BY <2>1, <2>2
  <1>11. ASSUME TerminatePool PROVE IndInv'
    <2>1. /\ pool' = Stopped(workerPool) /\ workerPool' = workerPool
          /\ Abandoned(workerPool, {"queued", "running"})
      BY <1>11 DEF TerminatePool
    <2>2. pool' \in Seq(APool) /\ Len(pool') = Len(pool)
      BY <1>1, <2>1, PoolChanges
    <2>3. workerPool' \in 0..Len(pool')
      BY <1>1, <2>1, <2>2
    <2> QED BY <2>1, <2>2, <2>3, AbandonedInv
  <1>12. ASSUME TerminateEnds PROVE IndInv'
    <2>1. pool' = pool /\ workerPool' = 0 /\ UNCHANGED matrixCallVars
      BY <1>12 DEF TerminateEnds
    <2> QED BY <1>1, <2>1, CallsKept
  <1>13. CASE UNCHANGED matrixVars
    <2>1. pool' = pool /\ workerPool' = workerPool /\ UNCHANGED matrixCallVars
      BY <1>13 DEF matrixVars, matrixCallVars
    <2> QED BY <1>1, <2>1, CallsKept
  <1> QED BY <1>2, <1>3, <1>4, <1>5, <1>6, <1>7, <1>8, <1>9, <1>10, <1>11, <1>12, <1>13 DEF MatrixNext

(* A call that resolves is whole: every row is there, from one block, and   *)
(* computed from the numbers the call was made with where toSharedBuffer    *)
(* copied them, for every number of rows, workers, calls and pools.         *)
THEOREM ResolvedIsWhole == MatrixSpec => []Whole
  <1>1. IndInv => Whole
    BY DEF IndInv, CallOK, ResultOK, WholeCall, Whole
  <1> QED BY <1>1, InitInv, StepInv, PTL DEF MatrixSpec

-----------------------------------------------------------------------------
(* The pools *)

(* A terminate() that is awaited has stopped the static pool already, or    *)
(* that one was made meanwhile.                                             *)
PoolsInv ==
  /\ NoPoolForgotten
  /\ terminating > 0 /\ workerPool # 0 /\ pool[workerPool].open => pool[workerPool].during

(* A step that opens no pool and leaves the static one.                     *)
LEMMA OpenKept ==
  ASSUME PoolsInv, Types, workerPool' = workerPool, terminating' = terminating,
         DOMAIN pool' = DOMAIN pool,
         \A q \in DOMAIN pool : /\ pool'[q].open => pool[q].open
                                /\ pool'[q].during = pool[q].during
  PROVE  PoolsInv'
  <1>1. workerPool # 0 => workerPool \in DOMAIN pool
    <2>1. Len(pool) \in Nat /\ DOMAIN pool = 1..Len(pool)
      BY DEF Types
    <2> QED BY <2>1 DEF Types
  <1> QED BY <1>1 DEF PoolsInv, NoPoolForgotten

(* A change of another field keeps which pools are open, and none changes   *)
(* when they were made.                                                     *)
LEMMA OpenOf ==
  ASSUME pool \in Seq(APool), NEW p, NEW q \in DOMAIN pool
  PROVE  /\ [pool EXCEPT ![p].workers = @ + 1][q].open = pool[q].open
         /\ [pool EXCEPT ![p].workers = @ - 1][q].open = pool[q].open
         /\ [pool EXCEPT ![p].workers = @ - 1, ![p].spawns = FALSE][q].open = pool[q].open
         /\ Stopped(p)[q].open = IF q = p THEN FALSE ELSE pool[q].open
         /\ [pool EXCEPT ![p].workers = @ + 1][q].during = pool[q].during
         /\ [pool EXCEPT ![p].workers = @ - 1][q].during = pool[q].during
         /\ [pool EXCEPT ![p].workers = @ - 1, ![p].spawns = FALSE][q].during = pool[q].during
         /\ Stopped(p)[q].during = pool[q].during
  <1>1. pool[q] \in APool
    BY Element
  <1> QED BY <1>1 DEF APool, Stopped

LEMMA PoolsStep ==
  ASSUME IndInv, PoolsInv, [MatrixNext]_matrixVars
  PROVE  PoolsInv'
  <1>1. /\ Types /\ pool \in Seq(APool) /\ Len(pool) \in Nat
        /\ DOMAIN pool = 1..Len(pool) /\ workerPool \in 0..Len(pool)
    <2>1. Types /\ pool \in Seq(APool) /\ workerPool \in 0..Len(pool)
      BY DEF IndInv, Types, APool
    <2> QED BY <2>1
  <1>2. CASE UNCHANGED <<pool, workerPool, terminating>>
    BY <1>1, <1>2, OpenKept
  <1>3. ASSUME NEW c \in Calls, NEW isShared \in BOOLEAN, CallParallel(c, isShared) PROVE PoolsInv'
    <2>1. pool' = Pools /\ workerPool' = Current /\ terminating' = terminating
      BY <1>3 DEF CallParallel
    <2>2. CASE workerPool # 0
      BY <1>1, <2>1, <2>2, OpenKept DEF Pools, Current
    <2>3. CASE workerPool = 0
      <3>1. pool' = Append(pool, NewPool) /\ workerPool' = Len(pool) + 1
        BY <2>1, <2>3 DEF Pools, Current
      <3>2. DOMAIN pool' = 1..(Len(pool) + 1) /\ \A q \in DOMAIN pool : pool'[q] = pool[q]
        BY <1>1, <3>1
      <3>3. \A q \in DOMAIN pool : pool[q].open => pool[q].during
        BY <1>1, <2>3 DEF PoolsInv, NoPoolForgotten
      <3>4. pool'[workerPool'] = NewPool
        BY <1>1, <3>1
      <3>5. terminating > 0 => NewPool.during
        BY DEF NewPool
      <3> QED BY <1>1, <2>1, <3>1, <3>2, <3>3, <3>4, <3>5 DEF PoolsInv, NoPoolForgotten
    <2> QED BY <2>2, <2>3
  <1>4. ASSUME NEW c \in Calls, NEW b \in DOMAIN task[c], TaskFails(c, b) PROVE PoolsInv'
    <2>1. pool' = pool \/ pool' = [pool EXCEPT ![home[c]].workers = @ - 1]
      BY <1>4 DEF TaskFails
    <2>2. workerPool' = workerPool /\ terminating' = terminating
      BY <1>4 DEF TaskFails
    <2>3. CASE pool' = pool
      BY <1>2, <2>2, <2>3
    <2>4. CASE pool' = [pool EXCEPT ![home[c]].workers = @ - 1]
      <3>1. DOMAIN pool' = DOMAIN pool
        BY <2>4
      <3>2. \A q \in DOMAIN pool : /\ pool'[q].open = pool[q].open
                                /\ pool'[q].during = pool[q].during
        BY <1>1, <2>4, OpenOf
      <3> QED BY <1>1, <2>2, <3>1, <3>2, OpenKept
    <2> QED BY <2>1, <2>3, <2>4
  <1>5. ASSUME NEW p \in DOMAIN pool, WorkerJoins(p) \/ PoolGivesUp(p) PROVE PoolsInv'
    <2>1. /\ \/ pool' = [pool EXCEPT ![p].workers = @ + 1]
             \/ pool' = [pool EXCEPT ![p].workers = @ - 1, ![p].spawns = FALSE]
          /\ workerPool' = workerPool /\ terminating' = terminating
      BY <1>5 DEF WorkerJoins, PoolGivesUp
    <2>2. DOMAIN pool' = DOMAIN pool
      BY <2>1
    <2>3. \A q \in DOMAIN pool : /\ pool'[q].open = pool[q].open
                                /\ pool'[q].during = pool[q].during
      <3>1. CASE pool' = [pool EXCEPT ![p].workers = @ + 1]
        BY <1>1, <3>1, OpenOf
      <3>2. CASE pool' = [pool EXCEPT ![p].workers = @ - 1, ![p].spawns = FALSE]
        BY <1>1, <3>2, OpenOf
      <3> QED BY <2>1, <3>1, <3>2
    <2> QED BY <1>1, <2>1, <2>2, <2>3, OpenKept
  <1>6. ASSUME pool' = Stopped(workerPool), workerPool # 0 
        PROVE  \A q \in DOMAIN pool' : pool'[q].open => pool'[q].during
    <2>1. DOMAIN pool' = DOMAIN pool
      BY <1>6 DEF Stopped
    <2>2. \A q \in DOMAIN pool : /\ pool'[q].open = IF q = workerPool THEN FALSE ELSE pool[q].open
                                /\ pool'[q].during = pool[q].during
      BY <1>1, <1>6, OpenOf
    <2> QED BY <2>1, <2>2 DEF PoolsInv, NoPoolForgotten
  <1>7. ASSUME NEW useShared \in BOOLEAN, Configure(useShared) PROVE PoolsInv'
    <2>1. terminating' = terminating
      BY <1>7 DEF Configure
    <2>2. CASE workerPool = 0
      BY <1>2, <1>7, <2>1, <2>2 DEF Configure
    <2>3. CASE workerPool # 0
      <3>1. pool' = Stopped(workerPool)
        BY <1>7, <2>3 DEF Configure
      <3>2. \A q \in DOMAIN pool' : pool'[q].open => pool'[q].during
        BY <1>6, <2>3, <3>1
      <3>3. workerPool' = 0
        BY <1>7, <2>3 DEF Configure
      <3> QED BY <3>2, <3>3 DEF PoolsInv, NoPoolForgotten
    <2> QED BY <2>2, <2>3
  <1>8. ASSUME TerminatePool PROVE PoolsInv'
    <2>1. pool' = Stopped(workerPool) /\ workerPool' = workerPool /\ workerPool # 0
      BY <1>8 DEF TerminatePool
    <2>2. DOMAIN pool' = DOMAIN pool
      BY <2>1 DEF Stopped
    <2>3. workerPool' \in DOMAIN pool'
      BY <1>1, <2>1, <2>2
    <2>4. \A q \in DOMAIN pool' : pool'[q].open => pool'[q].during
      BY <1>6, <2>1
    <2> QED BY <2>3, <2>4 DEF PoolsInv, NoPoolForgotten
  <1>9. ASSUME TerminateEnds PROVE PoolsInv'
    BY <1>9 DEF TerminateEnds, PoolsInv, NoPoolForgotten
  <1>10. ASSUME NEW c \in Calls,
                \/ CallSequential(c) \/ Mutate(c)
                \/ \E b \in DOMAIN task[c] : TaskStarts(c, b) \/ TaskAnswers(c, b)
         PROVE  PoolsInv'
    BY <1>2, <1>10 DEF CallSequential, Mutate, TaskStarts, TaskAnswers, staticVars
  <1>11. CASE UNCHANGED matrixVars
    BY <1>2, <1>11 DEF matrixVars
  <1> QED BY <1>3, <1>4, <1>5, <1>7, <1>8, <1>9, <1>10, <1>11 DEF MatrixNext

(* No pool runs on once it is not the static one, so that configure and     *)
(* terminate reach every thread there is, for every number of pools and     *)
(* however their calls overlap; only a pool that was made while a           *)
(* terminate() was awaited can be lost.                                     *)
THEOREM PoolsAreReachable == MatrixSpec => []NoPoolForgotten
  <1>1. MatrixInit => PoolsInv
    BY DEF MatrixInit, PoolsInv, NoPoolForgotten
  <1>2. IndInv /\ PoolsInv /\ [MatrixNext]_matrixVars => PoolsInv'
    BY PoolsStep
  <1>3. PoolsInv => NoPoolForgotten
    BY DEF PoolsInv
  <1> QED BY <1>1, <1>2, <1>3, InitInv, StepInv, PTL DEF MatrixSpec

-----------------------------------------------------------------------------
(* The workers: a pool never runs more tasks than it has workers, and never  *)
(* has more of these than configured; this is what its type rests on.        *)

Manned(p) ==
  /\ pool[p].workers \in 0..PoolSize
  /\ IsFiniteSet(Working(p)) /\ Cardinality(Working(p)) <= pool[p].workers

WorkOK ==
  /\ Len(pool) <= MaxPools
  /\ home \in [Calls -> 0..Len(pool)]
  /\ \A c \in Calls : DOMAIN task[c] # {} => home[c] # 0
  /\ \A p \in DOMAIN pool : Manned(p)

ResultsOK == \A c \in Calls : result[c] \in [Rows -> SUBSET (Versions \cup {NotRead})]

LEMMA PoolOf ==
  ASSUME IndInv
  PROVE  /\ pool \in Seq(APool) /\ Len(pool) \in Nat /\ DOMAIN pool = 1..Len(pool)
         /\ workerPool \in 0..Len(pool)
  <1>1. pool \in Seq(APool) /\ workerPool \in 0..Len(pool)
    BY DEF IndInv, Types, APool
  <1> QED BY <1>1

(* The blocks of a call are ranges of rows. *)
LEMMA BlocksInRange ==
  ASSUME IndInv, NEW c \in Calls
  PROVE  DOMAIN task[c] \subseteq AllRanges
  <1>1. CASE DOMAIN task[c] = {}
    BY <1>1
  <1>2. ASSUME NEW w \in Int, DOMAIN task[c] = RowBlocks(size[c], w), NEW b \in DOMAIN task[c]
        PROVE  b \in AllRanges
    <2>1. size[c] \in Nat /\ size[c] <= MaxSize /\ MaxSize \in Nat
      BY MatrixAssumption, MaxSizeNat DEF IndInv, Types, MaxSize
    <2>2. PICK chunk \in Nat, n \in Nat :
             /\ RowBlocks(size[c], w) = Cut(size[c], chunk, n)
             /\ size[c] > 0 => chunk > 0 /\ size[c] <= n * chunk
      BY <2>1, RowBlocksIsCut
    <2>3. b \in Cut(size[c], chunk, n)
      BY <1>2, <2>2
    <2>4. PICK i \in 0..(n - 1) : i * chunk < size[c] /\ b = BlockAt(i, chunk, size[c])
      BY <2>3 DEF Cut
    <2>5. i * chunk \in Nat
      BY SMT
    <2>6. size[c] > 0
      BY <2>1, <2>4, <2>5
    <2>7. b.from \in Nat /\ b.to \in Nat /\ b.from < b.to /\ b.to <= size[c]
      BY <2>1, <2>2, <2>3, <2>6, CutWithin
    <2>8. b = [from |-> b.from, to |-> b.to]
      BY <2>4 DEF BlockAt
    <2> QED BY <2>1, <2>7, <2>8 DEF AllRanges
  <1> QED BY <1>1, <1>2 DEF IndInv, CallOK, TasksOK

LEMMA WorkersOf ==
  ASSUME pool \in Seq(APool), NEW p, NEW q \in DOMAIN pool
  PROVE  /\ [pool EXCEPT ![p].workers = @ + 1][q].workers
               = IF q = p THEN pool[q].workers + 1 ELSE pool[q].workers
         /\ [pool EXCEPT ![p].workers = @ - 1][q].workers
               = IF q = p THEN pool[q].workers - 1 ELSE pool[q].workers
         /\ [pool EXCEPT ![p].workers = @ - 1, ![p].spawns = FALSE][q].workers
               = IF q = p THEN pool[q].workers - 1 ELSE pool[q].workers
         /\ Stopped(p)[q].workers = IF q = p THEN 0 ELSE pool[q].workers
  <1>1. pool[q] \in APool
    BY Element
  <1> QED BY <1>1 DEF APool, Stopped

(* What a set of running tasks may become. *)
LEMMA StillManned ==
  ASSUME NEW p, Manned(p), Working(p)' \subseteq Working(p),
         pool'[p].workers \in Int, pool'[p].workers <= PoolSize,
         Cardinality(Working(p)) <= pool'[p].workers
  PROVE  Manned(p)'
  <1>1. /\ IsFiniteSet(Working(p)') /\ Cardinality(Working(p)') <= Cardinality(Working(p))
    BY FS_Subset DEF Manned
  <1>2. Cardinality(Working(p)) \in Nat /\ Cardinality(Working(p)') \in Nat
    BY <1>1, FS_CardinalityType DEF Manned
  <1> QED BY <1>1, <1>2, MatrixAssumption DEF Manned

LEMMA NoneManned ==
  ASSUME NEW p, Working(p)' = {}, pool'[p].workers = 0
  PROVE  Manned(p)'
  BY FS_EmptySet, MatrixAssumption DEF Manned

(* A step that leaves the pools and starts no task. *)
LEMMA WorkKept ==
  ASSUME IndInv, WorkOK, DOMAIN pool' = DOMAIN pool, Len(pool') = Len(pool), home' = home,
         \A c \in Calls : DOMAIN task'[c] = DOMAIN task[c],
         \A p \in DOMAIN pool : Manned(p)'
  PROVE  WorkOK'
  BY DEF WorkOK

LEMMA NothingStarts ==
  ASSUME home' = home, NEW p,
         \A c \in Calls : \A b \in DOMAIN task'[c] :
           /\ b \in DOMAIN task[c]
           /\ task'[c][b].state = "running" => task[c][b].state = "running"
  PROVE  Working(p)' \subseteq Working(p)
  BY DEF Working

(* A step of one task. *)
OneChanges(c, b, x) ==
  \A d \in Calls :
    /\ DOMAIN task'[d] = DOMAIN task[d]
    /\ \A y \in DOMAIN task[d] :
         task'[d][y] = IF d = c /\ y = b THEN x ELSE task[d][y]

LEMMA OneTask ==
  ASSUME IndInv, NEW c \in Calls, NEW b \in DOMAIN task[c], NEW x,
         task' = [task EXCEPT ![c] = [@ EXCEPT ![b] = x]]
  PROVE  OneChanges(c, b, x)
  <1>1. task = [d \in Calls |-> task[d]] /\ task[c] = [y \in DOMAIN task[c] |-> task[c][y]]
    BY DEF IndInv, Types, CallOK, TasksOK
  <1>2. task'[c] = [task[c] EXCEPT ![b] = x] /\ \A d \in Calls : d # c => task'[d] = task[d]
    BY <1>1
  <1> QED BY <1>1, <1>2 DEF OneChanges

LEMMA ParallelWork ==
  ASSUME IndInv, WorkOK, NEW c \in Calls, NEW isShared \in BOOLEAN, CallParallel(c, isShared)
  PROVE  WorkOK'
  <1>1. pool \in Seq(APool) /\ Len(pool) \in Nat /\ DOMAIN pool = 1..Len(pool)
        /\ workerPool \in 0..Len(pool)
    BY PoolOf
  <1>2. CanMakePool /\ pool' = Pools /\ home' = [home EXCEPT ![c] = Current] /\ state[c] = "new"
    BY DEF CallParallel
  <1>3. /\ Len(pool') \in Nat /\ Len(pool') >= Len(pool) /\ DOMAIN pool' = 1..Len(pool')
        /\ Len(pool') <= MaxPools /\ Current \in 1..Len(pool')
        /\ \A p \in DOMAIN pool : pool'[p] = pool[p]
        /\ \A p \in DOMAIN pool' : p \notin DOMAIN pool => pool'[p].workers = 0
    <2>1. CASE workerPool = 0
      <3>1. pool' = Append(pool, NewPool) /\ Len(pool) < MaxPools /\ Current = Len(pool) + 1
        BY <1>2, <2>1 DEF CanMakePool, Pools, Current
      <3>2. /\ DOMAIN pool' = 1..(Len(pool) + 1) /\ Len(pool') = Len(pool) + 1
            /\ \A q \in DOMAIN pool : pool'[q] = pool[q]
            /\ pool'[Len(pool) + 1] = NewPool
        BY <1>1, <3>1
      <3>3. NewPool.workers = 0
        BY DEF NewPool
      <3> QED BY <1>1, <3>1, <3>2, <3>3, MatrixAssumption
    <2>2. CASE workerPool # 0
      BY <1>1, <1>2, <2>2 DEF Pools, Current, WorkOK
    <2> QED BY <2>1, <2>2
  <1>4. DOMAIN task[c] = {}
    BY <1>2 DEF IndInv, CallOK, TasksOK
  <1>5. PICK blocks, saw :
           \/ task' = task
           \/ task' = [task EXCEPT ![c] = [b \in blocks |-> [state |-> "queued", saw |-> saw]]]
    <2>1. \/ task' = task
          \/ task' = [task EXCEPT ![c] = [b \in RowBlocks(size[c], Pools[Current].workers) |->
               [state |-> "queued", saw |-> IF Passed(isShared) = "copied" THEN input[c] ELSE NotRead]]]
      BY DEF CallParallel
    <2> QED BY <2>1
  <1>6. \A d \in Calls : d # c => task'[d] = task[d] /\ home'[d] = home[d]
    BY <1>2, <1>5 DEF IndInv, Types, WorkOK
  <1>7. \A b \in DOMAIN task'[c] : task'[c][b].state # "running"
    BY <1>4, <1>5 DEF IndInv, Types
  <1>8. home' \in [Calls -> 0..Len(pool')] /\ home'[c] = Current
    BY <1>1, <1>2, <1>3 DEF WorkOK
  <1>9. \A d \in Calls : DOMAIN task'[d] # {} => home'[d] # 0
    BY <1>3, <1>6, <1>8 DEF WorkOK
  <1>10. ASSUME NEW p \in DOMAIN pool PROVE Manned(p)'
    <2>1. Working(p)' \subseteq Working(p)
      BY <1>6, <1>7 DEF Working
    <2> QED BY <1>3, <2>1, StillManned DEF WorkOK, Manned
  <1>11. ASSUME NEW p \in DOMAIN pool', p \notin DOMAIN pool PROVE Manned(p)'
    <2>1. \A d \in Calls : home[d] # p
      BY <1>1, <1>3, <1>11 DEF WorkOK
    <2>2. Working(p)' = {}
      BY <1>6, <1>7, <2>1 DEF Working
    <2> QED BY <1>3, <1>11, <2>2, NoneManned
  <1> QED BY <1>3, <1>8, <1>9, <1>10, <1>11 DEF WorkOK

LEMMA StartsWork ==
  ASSUME IndInv, WorkOK, NEW c \in Calls, NEW b \in DOMAIN task[c], TaskStarts(c, b)
  PROVE  WorkOK'
  <1>1. PICK x : task' = [task EXCEPT ![c] = [@ EXCEPT ![b] = x]]
    <2> DEFINE x == [task[c][b] EXCEPT !.state = "running",
                                     !.saw = IF passing[c] = "cloned" THEN input[c] ELSE @]
    <2>1. task = [d \in Calls |-> task[d]] /\ TasksOK(c)
      BY DEF IndInv, Types, CallOK
    <2>2. task' = [task EXCEPT ![c] = [@ EXCEPT ![b] = x]]
      BY <2>1 DEF TaskStarts, TasksOK
    <2> QED BY <2>2
  <1>2. home' = home /\ pool' = pool
    BY DEF TaskStarts, staticVars
  <1>3. OneChanges(c, b, x)
    BY <1>1, OneTask
  <1>4. ASSUME NEW p \in DOMAIN pool PROVE Manned(p)'
    <2>1. CASE p # home[c]
      <3>1. Working(p)' \subseteq Working(p)
        BY <1>2, <1>3, <2>1 DEF Working, OneChanges
      <3> QED BY <1>2, <3>1, StillManned DEF WorkOK, Manned
    <2>2. CASE p = home[c]
      <3>1. Working(p)' \subseteq Working(p) \cup {<<c, b>>}
        BY <1>2, <1>3 DEF Working, OneChanges
      <3>2. Cardinality(Working(p)) < pool[p].workers
        BY <2>2 DEF TaskStarts
      <3>3. /\ IsFiniteSet(Working(p) \cup {<<c, b>>})
            /\ Cardinality(Working(p) \cup {<<c, b>>}) <= Cardinality(Working(p)) + 1
            /\ Cardinality(Working(p)) \in Nat
        <4>1. IsFiniteSet(Working(p)) /\ Cardinality(Working(p)) \in Nat
          BY FS_CardinalityType DEF WorkOK, Manned
        <4>2. PICK W, e : W = Working(p) /\ e = <<c, b>>
          OBVIOUS
        <4>3. /\ IsFiniteSet(W \cup {e})
              /\ Cardinality(W \cup {e}) = Cardinality(W)
                   \/ Cardinality(W \cup {e}) = Cardinality(W) + 1
          BY <4>1, <4>2, FS_AddElement
        <4> QED BY <4>1, <4>2, <4>3
      <3>4. /\ IsFiniteSet(Working(p)')
            /\ Cardinality(Working(p)') <= Cardinality(Working(p) \cup {<<c, b>>})
        BY <3>1, <3>3, FS_Subset
      <3>5. /\ Cardinality(Working(p)') \in Nat
            /\ Cardinality(Working(p) \cup {<<c, b>>}) \in Nat
        BY <3>3, <3>4, FS_CardinalityType
      <3>6. pool[p].workers \in 0..PoolSize
        BY DEF WorkOK, Manned
      <3>7. Cardinality(Working(p)') <= pool[p].workers
        BY <3>2, <3>3, <3>4, <3>5, <3>6, MatrixAssumption
      <3> QED BY <1>2, <3>4, <3>6, <3>7 DEF Manned
    <2> QED BY <2>1, <2>2
  <1> QED BY <1>2, <1>3, <1>4, WorkKept DEF OneChanges

LEMMA AnswersWork ==
  ASSUME IndInv, WorkOK, NEW c \in Calls, NEW b \in DOMAIN task[c], TaskAnswers(c, b)
  PROVE  WorkOK'
  <1>1. PICK x : task' = [task EXCEPT ![c] = [@ EXCEPT ![b] = x]] /\ x.state # "running"
    <2> DEFINE x == [task[c][b] EXCEPT !.state = "answered",
                                     !.saw = IF passing[c] = "live" THEN input[c] ELSE @]
    <2>1. task = [d \in Calls |-> task[d]] /\ TasksOK(c)
      BY DEF IndInv, Types, CallOK
    <2>2. task' = [task EXCEPT ![c] = [@ EXCEPT ![b] = x]]
      BY <2>1 DEF TaskAnswers, TasksOK
    <2>3. x.state # "running"
      <3>1. IsTask(task[c][b])
        BY <2>1 DEF TasksOK
      <3> QED BY <3>1 DEF IsTask
    <2> QED BY <2>2, <2>3
  <1>2. home' = home /\ pool' = pool /\ task[c][b].state = "running"
    BY DEF TaskAnswers, staticVars
  <1>3. OneChanges(c, b, x)
    BY <1>1, OneTask
  <1>4. ASSUME NEW p \in DOMAIN pool PROVE Manned(p)'
    <2>1. Working(p)' \subseteq Working(p)
      BY <1>2, <1>3 DEF Working, OneChanges
    <2> QED BY <1>2, <2>1, StillManned DEF WorkOK, Manned
  <1> QED BY <1>2, <1>3, <1>4, WorkKept DEF OneChanges

(* With the worker that crashes its task is gone. *)
LEMMA FailsWork ==
  ASSUME IndInv, WorkOK, NEW c \in Calls, NEW b \in DOMAIN task[c], TaskFails(c, b)
  PROVE  WorkOK'
  <1> DEFINE x == [task[c][b] EXCEPT !.state = "rejected"]
  <1>1. task' = [task EXCEPT ![c] = [@ EXCEPT ![b] = x]]
    <2>1. task[c] = [y \in DOMAIN task[c] |-> task[c][y]]
      BY DEF IndInv, CallOK, TasksOK
    <2> QED BY <2>1 DEF TaskFails, Rejected, IndInv, Types
  <1>2. home' = home /\ task[c][b].state = "running"
        /\ (pool' = pool \/ pool' = [pool EXCEPT ![home[c]].workers = @ - 1])
    BY DEF TaskFails
  <1>3. x.state = "rejected"
    <2>1. IsTask(task[c][b])
      BY DEF IndInv, CallOK, TasksOK
    <2> QED BY <2>1 DEF IsTask
  <1> HIDE DEF x
  <1>4. OneChanges(c, b, x)
    BY <1>1, OneTask
  <1>5. pool \in Seq(APool) /\ Len(pool) \in Nat /\ DOMAIN pool = 1..Len(pool)
    BY PoolOf
  <1>6. /\ DOMAIN pool' = DOMAIN pool /\ Len(pool') = Len(pool)
        /\ \A q \in DOMAIN pool :
             \/ pool'[q].workers = pool[q].workers
             \/ q = home[c] /\ pool'[q].workers = pool[q].workers - 1
    <2>1. CASE pool' = pool
      BY <2>1
    <2>2. CASE pool' = [pool EXCEPT ![home[c]].workers = @ - 1]
      BY <1>5, <2>2, PoolChanges, WorkersOf
    <2> QED BY <1>2, <2>1, <2>2
  <1>7. ASSUME NEW p \in DOMAIN pool PROVE Manned(p)'
    <2>1. /\ IsFiniteSet(Working(p)) /\ Cardinality(Working(p)) <= pool[p].workers
          /\ pool[p].workers \in 0..PoolSize /\ Cardinality(Working(p)) \in Nat
      BY FS_CardinalityType DEF WorkOK, Manned
    <2>2. CASE p # home[c]
      <3>1. Working(p)' \subseteq Working(p)
        BY <1>2, <1>4, <2>2 DEF Working, OneChanges
      <3>2. pool'[p].workers = pool[p].workers
        BY <1>6, <2>2
      <3> QED BY <2>1, <3>1, <3>2, StillManned DEF WorkOK
    <2>3. CASE p = home[c]
      <3>1. <<c, b>> \in Working(p)
        BY <1>2, <2>3, BlocksInRange DEF Working, OneChanges
      <3>2. Working(p)' \subseteq Working(p) \ {<<c, b>>}
        BY <1>2, <1>3, <1>4 DEF Working, OneChanges
      <3>3. /\ IsFiniteSet(Working(p) \ {<<c, b>>})
            /\ Cardinality(Working(p) \ {<<c, b>>}) = Cardinality(Working(p)) - 1
        BY <2>1, <3>1, FS_RemoveElement
      <3>4. /\ IsFiniteSet(Working(p)')
            /\ Cardinality(Working(p)') <= Cardinality(Working(p)) - 1
        BY <3>2, <3>3, FS_Subset
      <3>5. Cardinality(Working(p)') \in Nat
        BY <3>4, FS_CardinalityType
      <3>6. pool'[p].workers = pool[p].workers \/ pool'[p].workers = pool[p].workers - 1
        BY <1>6
      <3>7. Cardinality(Working(p)') <= pool'[p].workers /\ pool'[p].workers \in 0..PoolSize
        BY <2>1, <3>4, <3>5, <3>6, MatrixAssumption
      <3> QED BY <3>4, <3>7 DEF Manned
    <2> QED BY <2>2, <2>3
  <1> QED BY <1>2, <1>4, <1>6, <1>7, WorkKept DEF OneChanges

(* What a pool loses that gives up or stops was not running, or goes with   *)
(* all its workers.                                                         *)
LEMMA AbandonedWork ==
  ASSUME IndInv, NEW p, NEW from, Abandoned(p, from)
  PROVE  /\ home' = home
         /\ \A c \in Calls : DOMAIN task'[c] = DOMAIN task[c]
         /\ \A q : Working(q)' \subseteq Working(q)
         /\ "running" \in from => Working(p)' = {}
  <1>1. home' = home
    BY DEF Abandoned
  <1>2. ASSUME NEW c \in Calls
        PROVE  /\ DOMAIN task'[c] = DOMAIN task[c]
               /\ \A b \in DOMAIN task[c] :
                    IF b \in Lost(c, p, from) THEN task'[c][b].state = "rejected"
                    ELSE task'[c][b] = task[c][b]
    <2>1. task'[c] = [b \in DOMAIN task[c] |->
            IF b \in Lost(c, p, from) THEN [task[c][b] EXCEPT !.state = "rejected"] ELSE task[c][b]]
      BY DEF Abandoned
    <2>2. \A b \in DOMAIN task[c] : IsTask(task[c][b])
      BY DEF IndInv, CallOK, TasksOK
    <2> QED BY <2>1, <2>2 DEF IsTask
  <1>3. \A c \in Calls : \A b \in DOMAIN task'[c] :
          /\ b \in DOMAIN task[c]
          /\ task'[c][b].state = "running" => task[c][b].state = "running"
    BY <1>2
  <1>4. \A q : Working(q)' \subseteq Working(q)
    BY <1>1, <1>3, NothingStarts
  <1>5. ASSUME "running" \in from PROVE Working(p)' = {}
    <2>1. ASSUME NEW c \in Calls, NEW b \in DOMAIN task'[c], home'[c] = p,
                 task'[c][b].state = "running"
          PROVE  FALSE
      <3>1. b \in DOMAIN task[c] /\ task[c][b].state = "running" /\ home[c] = p
        BY <1>1, <1>3, <2>1
      <3>2. b \in Lost(c, p, from)
        BY <1>5, <3>1 DEF Lost
      <3> QED BY <1>2, <2>1, <3>1, <3>2
    <2> QED BY <2>1 DEF Working
  <1> QED BY <1>1, <1>2, <1>4, <1>5

(* Every step keeps the bound. *)
LEMMA WorkStep ==
  ASSUME IndInv, WorkOK, [MatrixNext]_matrixVars
  PROVE  WorkOK'
  <1>1. pool \in Seq(APool) /\ Len(pool) \in Nat /\ DOMAIN pool = 1..Len(pool)
        /\ workerPool \in 0..Len(pool)
    BY PoolOf
  <1>2. ASSUME NEW p \in DOMAIN pool
        PROVE  /\ IsFiniteSet(Working(p)) /\ Cardinality(Working(p)) <= pool[p].workers
               /\ pool[p].workers \in 0..PoolSize /\ Cardinality(Working(p)) \in Nat
    BY FS_CardinalityType DEF WorkOK, Manned
  <1>3. CASE UNCHANGED <<pool, home, task>>
    <2>1. \A p : Working(p)' = Working(p)
      BY <1>3 DEF Working
    <2> QED BY <1>3, <2>1 DEF WorkOK, Manned
  <1>4. ASSUME NEW p \in DOMAIN pool, WorkerJoins(p) PROVE WorkOK'
    <2>1. /\ pool' = [pool EXCEPT ![p].workers = @ + 1] /\ pool[p].workers < PoolSize
          /\ home' = home /\ task' = task
      BY <1>4 DEF WorkerJoins, matrixCallVars
    <2>2. /\ DOMAIN pool' = DOMAIN pool /\ Len(pool') = Len(pool)
          /\ \A q \in DOMAIN pool :
               pool'[q].workers = IF q = p THEN pool[q].workers + 1 ELSE pool[q].workers
      BY <1>1, <2>1, PoolChanges, WorkersOf
    <2>3. ASSUME NEW q \in DOMAIN pool PROVE Manned(q)'
      <3>1. Working(q)' = Working(q)
        BY <2>1 DEF Working
      <3>2. /\ pool'[q].workers \in Int /\ pool'[q].workers <= PoolSize
            /\ Cardinality(Working(q)) <= pool'[q].workers
        BY <1>2, <2>1, <2>2, MatrixAssumption
      <3> QED BY <3>1, <3>2, StillManned DEF WorkOK
    <2> QED BY <2>1, <2>2, <2>3, WorkKept
  <1>5. ASSUME NEW p \in DOMAIN pool, PoolGivesUp(p) PROVE WorkOK'
    <2>1. /\ pool' = [pool EXCEPT ![p].workers = @ - 1, ![p].spawns = FALSE]
          /\ pool[p].workers > Cardinality(Working(p)) /\ Abandoned(p, {"queued"})
      BY <1>5 DEF PoolGivesUp
    <2>2. /\ DOMAIN pool' = DOMAIN pool /\ Len(pool') = Len(pool)
          /\ \A q \in DOMAIN pool :
               pool'[q].workers = IF q = p THEN pool[q].workers - 1 ELSE pool[q].workers
      BY <1>1, <2>1, PoolChanges, WorkersOf
    <2>3. /\ home' = home /\ \A c \in Calls : DOMAIN task'[c] = DOMAIN task[c]
          /\ \A q : Working(q)' \subseteq Working(q)
      BY <2>1, AbandonedWork
    <2>4. ASSUME NEW q \in DOMAIN pool PROVE Manned(q)'
      <3>1. /\ pool'[q].workers \in Int /\ pool'[q].workers <= PoolSize
            /\ Cardinality(Working(q)) <= pool'[q].workers
        BY <1>2, <2>1, <2>2, MatrixAssumption
      <3> QED BY <2>3, <3>1, StillManned DEF WorkOK
    <2> QED BY <2>2, <2>3, <2>4, WorkKept
  <1>6. ASSUME NEW p, p = workerPool, p # 0, pool' = Stopped(p),
               Abandoned(p, {"queued", "running"})
        PROVE  WorkOK'
    <2>1. /\ DOMAIN pool' = DOMAIN pool /\ Len(pool') = Len(pool)
          /\ \A q \in DOMAIN pool :
               pool'[q].workers = IF q = p THEN 0 ELSE pool[q].workers
      <3>1. DOMAIN pool' = DOMAIN pool
        BY <1>6 DEF Stopped
      <3>2. \A q \in DOMAIN pool : Stopped(p)[q].workers = IF q = p THEN 0 ELSE pool[q].workers
        BY <1>1, WorkersOf
      <3>3. Len(Stopped(p)) = Len(pool)
        BY <1>1, PoolChanges
      <3> QED BY <1>6, <3>1, <3>2, <3>3
    <2>2. /\ home' = home /\ \A c \in Calls : DOMAIN task'[c] = DOMAIN task[c]
          /\ \A q : Working(q)' \subseteq Working(q)
          /\ Working(p)' = {}
      BY <1>6, AbandonedWork
    <2>3. ASSUME NEW q \in DOMAIN pool PROVE Manned(q)'
      <3>1. CASE q = p
        BY <2>1, <2>2, <3>1, NoneManned
      <3>2. CASE q # p
        <4>1. /\ pool'[q].workers \in Int /\ pool'[q].workers <= PoolSize
              /\ Cardinality(Working(q)) <= pool'[q].workers
          BY <1>2, <2>1, <3>2, MatrixAssumption
        <4> QED BY <2>2, <4>1, StillManned DEF WorkOK
      <3> QED BY <3>1, <3>2
    <2> QED BY <2>1, <2>2, <2>3, WorkKept
  <1>7. ASSUME NEW useShared \in BOOLEAN, Configure(useShared) PROVE WorkOK'
    <2>1. CASE workerPool = 0
      BY <1>3, <1>7, <2>1 DEF Configure, matrixCallVars
    <2>2. CASE workerPool # 0
      BY <1>6, <1>7, <2>2 DEF Configure
    <2> QED BY <2>1, <2>2
  <1>8. CASE TerminatePool
    BY <1>6, <1>8 DEF TerminatePool
  <1>9. CASE TerminateEnds \/ UNCHANGED matrixVars \/ \E c \in Calls : CallSequential(c) \/ Mutate(c)
    BY <1>3, <1>9 DEF TerminateEnds, CallSequential, Mutate, matrixVars, matrixCallVars, staticVars
  <1> QED BY <1>4, <1>5, <1>7, <1>8, <1>9, ParallelWork, StartsWork, AnswersWork, FailsWork
          DEF MatrixNext

LEMMA ResultsStep ==
  ASSUME IndInv, ResultsOK, [MatrixNext]_matrixVars
  PROVE  ResultsOK'
  <1>1. CASE result' = result
    BY <1>1 DEF ResultsOK
  <1>2. ASSUME NEW c \in Calls, NEW row, result' = [result EXCEPT ![c] = row],
               row \in [Rows -> SUBSET (Versions \cup {NotRead})]
        PROVE  ResultsOK'
    BY <1>2 DEF ResultsOK, IndInv, Types
  <1>3. ASSUME NEW c \in Calls, CallSequential(c) PROVE ResultsOK'
    <2>1. [r \in Rows |-> IF r < size[c] THEN {input[c]} ELSE {}]
            \in [Rows -> SUBSET (Versions \cup {NotRead})]
      BY DEF IndInv, Types
    <2> QED BY <1>2, <1>3, <2>1 DEF CallSequential
  <1>4. ASSUME NEW c \in Calls, NEW b \in DOMAIN task[c], TaskAnswers(c, b) PROVE ResultsOK'
    <2>1. TasksOK(c)'
      BY <1>4, AnswersInv DEF IndInv, CallOK
    <2>2. Scattered(task'[c]) \in [Rows -> SUBSET (Versions \cup {NotRead})]
      BY <2>1 DEF TasksOK, IsTask, Scattered
    <2> QED BY <1>1, <1>2, <1>4, <2>2 DEF TaskAnswers
  <1>5. CASE \E c \in Calls : \/ Mutate(c)
                            \/ \E isShared \in BOOLEAN : CallParallel(c, isShared)
                            \/ \E b \in DOMAIN task[c] : TaskStarts(c, b) \/ TaskFails(c, b)
    BY <1>1, <1>5 DEF Mutate, CallParallel, TaskStarts, TaskFails
  <1>6. CASE \/ \E p \in DOMAIN pool : WorkerJoins(p) \/ PoolGivesUp(p)
             \/ \E useShared \in BOOLEAN : Configure(useShared)
             \/ TerminatePool \/ TerminateEnds \/ UNCHANGED matrixVars
    BY <1>1, <1>6
    DEF WorkerJoins, PoolGivesUp, Configure, TerminatePool, TerminateEnds, Abandoned, matrixCallVars, matrixVars
  <1> QED BY <1>3, <1>4, <1>5, <1>6 DEF MatrixNext

FlagsOK == terminating \in 0..MaxTerminates /\ shared \in BOOLEAN

LEMMA FlagsStep ==
  ASSUME FlagsOK, [MatrixNext]_matrixVars
  PROVE  FlagsOK'
  <1>1. CASE TerminatePool
    BY <1>1, MatrixAssumption DEF FlagsOK, TerminatePool
  <1>2. CASE TerminateEnds
    BY <1>2, MatrixAssumption DEF FlagsOK, TerminateEnds
  <1>3. CASE \E useShared \in BOOLEAN : Configure(useShared)
    BY <1>3 DEF FlagsOK, Configure
  <1>4. CASE ~(TerminatePool \/ TerminateEnds \/ \E useShared \in BOOLEAN : Configure(useShared))
    <2>1. UNCHANGED <<terminating, shared>>
      BY <1>4, ZenonT(30)
      DEF MatrixNext, matrixVars, matrixCallVars, staticVars, CallSequential, Mutate,
          CallParallel, TaskStarts, TaskAnswers, TaskFails, WorkerJoins, PoolGivesUp
    <2> QED BY <2>1 DEF FlagsOK
  <1> QED BY <1>1, <1>2, <1>3, <1>4

TypesInv == IndInv /\ WorkOK /\ ResultsOK /\ FlagsOK

LEMMA TypesInit == MatrixInit => TypesInv
  <1> SUFFICES ASSUME MatrixInit PROVE TypesInv
    OBVIOUS
  <1>1. Len(pool) = 0 /\ DOMAIN pool = {}
    BY DEF MatrixInit
  <1>2. WorkOK
    BY <1>1, MatrixAssumption DEF MatrixInit, WorkOK, NoTasks
  <1>3. ResultsOK
    BY DEF MatrixInit, ResultsOK, Zeros
  <1>4. FlagsOK
    BY MatrixAssumption DEF MatrixInit, FlagsOK
  <1> QED BY <1>2, <1>3, <1>4, InitInv DEF TypesInv

LEMMA TypesStep == TypesInv /\ [MatrixNext]_matrixVars => TypesInv'
  BY StepInv, WorkStep, ResultsStep, FlagsStep DEF TypesInv

LEMMA TypesTyped == TypesInv => MatrixTypeOK
  <1> SUFFICES ASSUME TypesInv PROVE MatrixTypeOK
    OBVIOUS
  <1> USE DEF TypesInv
  <1>1. pool \in Seq([open : BOOLEAN, spawns : BOOLEAN, workers : 0..PoolSize, during : BOOLEAN])
    <2>1. pool \in Seq(APool) /\ DOMAIN pool = 1..Len(pool) /\ Len(pool) \in Nat
      BY PoolOf
    <2>2. ASSUME NEW p \in 1..Len(pool)
          PROVE  pool[p] \in [open : BOOLEAN, spawns : BOOLEAN, workers : 0..PoolSize, during : BOOLEAN]
      <3>1. pool[p] \in APool
        BY <2>1, Element
      <3>2. pool[p].workers \in 0..PoolSize
        BY <2>1 DEF WorkOK, Manned
      <3> QED BY <3>1, <3>2 DEF APool
    <2>3. PICK R, n : /\ R = [open : BOOLEAN, spawns : BOOLEAN, workers : 0..PoolSize, during : BOOLEAN]
                      /\ n = Len(pool)
      OBVIOUS
    <2>4. pool = [p \in 1..n |-> pool[p]] /\ \A p \in 1..n : pool[p] \in R
      BY <2>1, <2>2, <2>3
    <2>5. pool \in [1..n -> R]
      BY <2>4
    <2>6. pool \in Seq(R)
      BY <2>1, <2>3, <2>5, FromElements
    <2> QED BY <2>3, <2>6
  <1>2. home \in [Calls -> 0..MaxPools]
    <2>1. Len(pool) \in Nat /\ Len(pool) <= MaxPools
      BY PoolOf DEF WorkOK
    <2> QED BY <2>1, MatrixAssumption DEF WorkOK
  <1>3. \A c \in Calls : /\ DOMAIN task[c] \subseteq AllRanges
                        /\ \A b \in DOMAIN task[c] : IsTask(task[c][b])
    BY BlocksInRange DEF IndInv, CallOK, TasksOK
  <1>4. result \in [Calls -> [Rows -> SUBSET (Versions \cup {NotRead})]]
    BY DEF ResultsOK, IndInv, Types
  <1> QED BY <1>1, <1>2, <1>3, <1>4 DEF MatrixTypeOK, IndInv, Types, FlagsOK, IsTask

(* The state is well formed, for every number of calls, workers and pools:  *)
(* above all, no pool runs more tasks than it has workers, whichever of     *)
(* these crash, join, fail to start or are stopped, so that their number    *)
(* stays between none and maxWorkers.                                       *)
THEOREM WorkersSuffice == MatrixSpec => [](MatrixTypeOK /\ \A p \in DOMAIN pool : Manned(p))
  <1>1. TypesInv => MatrixTypeOK /\ \A p \in DOMAIN pool : Manned(p)
    BY TypesTyped DEF TypesInv, WorkOK
  <1> QED BY <1>1, TypesInit, TypesStep, PTL DEF MatrixSpec
=============================================================================
