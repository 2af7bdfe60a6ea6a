---------------------------- MODULE MCWorkerPool ----------------------------
(* WorkerPool on a small instance: symmetric tasks and worker identities.  *)
EXTENDS WorkerPool

Symmetry == Permutations(Tasks) \cup Permutations(Workers)
=============================================================================
