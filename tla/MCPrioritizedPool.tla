--------------------------- MODULE MCPrioritizedPool ---------------------------
(* Two records to begin with and two of the teacher; the two of either     *)
(* kind may be exchanged.                                                  *)
EXTENDS PrioritizedPool, TLC

Exchanges == Permutations(Seed) \cup Permutations(Record \ Seed)
=============================================================================
