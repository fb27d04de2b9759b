---------------------------- MODULE MCPcbCandidate ----------------------------
(* Small instances of PcbCandidate for TLC. *)
EXTENDS PcbCandidate, TLC

Symmetry ==
  Permutations(Workers) \union Permutations(Reviewers) \union Permutations(Manifests)
  \union Permutations(Keys)
=============================================================================
