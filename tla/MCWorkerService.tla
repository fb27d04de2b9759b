---------------------------- MODULE MCWorkerService ----------------------------
(* Small instances of WorkerService for TLC. *)
EXTENDS WorkerService, TLC

Symmetry == Permutations(Tasks) \union Permutations(Threads)
=============================================================================
