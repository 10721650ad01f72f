----------------------------- MODULE MCTwinHeap -----------------------------
(* TwinHeap for TLC.  Records are interchangeable; two of them, pushed     *)
(* again after they left, are enough for a stale entry of a record to meet *)
(* a live entry of the same record.                                        *)
EXTENDS TwinHeap, TLC

Symmetry == Permutations(Record)
=============================================================================
