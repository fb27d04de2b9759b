------------------------------ MODULE MCTaskQueue ------------------------------
(* Small instances of TaskQueue for TLC. *)
EXTENDS TaskQueue, TLC

Symmetry == Permutations(Tasks) \union Permutations(Workers) \union Permutations(Clients)
=============================================================================
