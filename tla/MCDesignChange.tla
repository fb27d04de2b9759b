---------------------------- MODULE MCDesignChange ----------------------------
(* Small instances of DesignChange for TLC. *)
EXTENDS DesignChange, TLC

Symmetry ==
  Permutations(Sets) \union Permutations(Proposals) \union Permutations(Clients)
  \union Permutations(Workers) \union Permutations(Contents)
=============================================================================
