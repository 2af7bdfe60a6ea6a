------------------------------- MODULE Blocks -------------------------------
(***************************************************************************)
(* How work is cut into contiguous ranges: by the number of blocks in      *)
(* parallel/src/ParallelMatrix.ts, by the length of a chunk in             *)
(* packages/workerpool/src.  A range holds from, not to.                   *)
(***************************************************************************)
EXTENDS Integers

Least(a, b)   == IF a < b THEN a ELSE b
Largest(a, b) == IF a > b THEN a ELSE b

(* Math.ceil of a quotient. *)
Ceil(a, b) == (a + b - 1) \div b

(* The i-th range of a cut into ranges of length chunk. *)
BlockAt(i, chunk, size) == [from |-> i * chunk, to |-> Least(i * chunk + chunk, size)]

(* n ranges at the most, and none that would be empty. *)
Cut(size, chunk, n) ==
  {BlockAt(i, chunk, size) : i \in {j \in 0..(n - 1) : j * chunk < size}}

(* blockCount: one block for each worker, as long as no block is empty. *)
BlockCount(workers, size) == Largest(1, Least(workers, size))

(* The blocks of an operation on size rows or elements. *)
RowBlocks(size, workers) ==
  LET n == BlockCount(workers, size) IN Cut(size, Ceil(size, n), n)

(* chunkTyped, chunkArray. *)
Chunks(size, chunk) == Cut(size, chunk, size)
=============================================================================
