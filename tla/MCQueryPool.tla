----------------------------- MODULE MCQueryPool -----------------------------
(* QueryPool for TLC.  Records are interchangeable.  The reward of a       *)
(* record that is not in the pool is never read, so it is not part of the  *)
(* view.                                                                   *)
EXTENDS QueryPool, TLC

Symmetry == Permutations(Record)

PoolView ==
  <<low, high, cold, [r \in Pooled |-> reward[r]], maxSize, adding,
    todo, fresh, added, sampled, evicted, index, taken>>
=============================================================================
