-------------------------- MODULE MC_MatchingEngine --------------------------
(* MatchingEngine for TLC: the ids are interchangeable. *)
EXTENDS MatchingEngine, TLC

Interchangeable == Permutations(Id)
=============================================================================
