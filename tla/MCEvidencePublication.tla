------------------------ MODULE MCEvidencePublication ------------------------
(* Small instances of EvidencePublication for TLC. *)
EXTENDS EvidencePublication, TLC

Symmetry == Permutations(Tasks) \union Permutations(Digests) \union Permutations(Workers)
=============================================================================
