----------------------------- MODULE MCSplitIo ------------------------------
(***************************************************************************)
(* SplitIo for TLC: policy workers and queries are interchangeable.        *)
(***************************************************************************)
EXTENDS SplitIo, TLC

Symmetry == Permutations(PolicyWorkers) \cup Permutations(Queries)
=============================================================================
