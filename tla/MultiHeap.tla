------------------------------- MODULE MultiHeap -------------------------------
(***************************************************************************)
(* MultiHeapQueryPool: the pool of the multi-heap trainer.  Records are    *)
(* spread over NumHeaps heaps by their reward, along boundaries that are   *)
(* recomputed every RebalanceFrequency items; a batch is drawn by one of   *)
(* four strategies.                                                        *)
(*                                                                         *)
(* Records with the same reward are not told apart: a heap is a bag of     *)
(* rewards, and the records without a reward are a number.  Adding and     *)
(* sampling hold the lock; their loops are steps here, and phase says      *)
(* which loop runs.                                                        *)
(***************************************************************************)
EXTENDS Integers, FiniteSets, FiniteSetsExt

CONSTANTS
  NumHeaps,            \* _num_heaps
  MaxSize,             \* _max_size
  RebalanceFrequency,  \* _rebalance_frequency
  Scale,               \* the reward 1
  Reward,              \* the rewards that occur
  Strategies,          \* subset of {"easy", "hard", "uniform", "curriculum"}
  TrainingSteps,       \* total_training_steps
  MaxItems,            \* bound on the items of one add_many
  MaxSample,           \* bound on the size of one sample
  None

Heap == 0 .. NumHeaps - 1

ASSUME HeapsAssumption == NumHeaps \in Nat /\ NumHeaps > 1
ASSUME SizeAssumption == MaxSize \in Nat \ {0} /\ MaxItems \in Nat /\ MaxSample \in Nat
ASSUME RewardAssumption == Scale \in Nat /\ Reward \subseteq -Scale .. Scale
ASSUME StepsAssumption == TrainingSteps \in Nat \ {0}
ASSUME StrategyAssumption == Strategies \subseteq {"easy", "hard", "uniform", "curriculum"}

VARIABLES
  strategy,    \* _sampling_strategy, fixed for the run
  boundaries,  \* _heap_boundaries
  heaps,       \* _heaps: how many records of each reward a heap has
  cold,        \* the length of _cold_queue
  operations,  \* _operations_count
  phase,       \* "idle", "evict", or the strategy of the sample that runs
  need,        \* how many records the sample still has to draw
  turn,        \* heap_idx
  attempts,    \* how many attempts are left of max_attempts
  quota,       \* n_from_heap, by heap
  taken        \* how many records the sample drew from each heap

store == <<boundaries, heaps, cold, operations>>
sample == <<need, turn, attempts, quota, taken>>
vars == <<strategy, store, phase, sample>>

Zero == [i \in Heap |-> 0]
Total(h) == MapThenSumSet(LAMBDA i : MapThenSumSet(LAMBDA r : h[i][r], Reward), Heap)
Size == Total(heaps) + cold
Filled(i) == \E r \in Reward : heaps[i][r] > 0
Rewards(i) == {r \in Reward : heaps[i][r] > 0}

(* A pool is always new: a checkpoint has the boundaries too, but its      *)
(* version, 3, is not one that the load accepts.                           *)
Init ==
  /\ strategy \in Strategies
  /\ boundaries = None
  /\ heaps = [i \in Heap |-> [r \in Reward |-> 0]]
  /\ cold = 0 /\ operations = 0
  /\ phase = "idle"
  /\ need = 0 /\ turn = 0 /\ attempts = 0 /\ quota = Zero /\ taken = Zero

-----------------------------------------------------------------------------
(* _get_heap_index: the first heap whose boundary the reward does not      *)
(* exceed.                                                                 *)
HeapIndex(bounds, r) ==
  IF bounds = None THEN NumHeaps \div 2
  ELSE Min({i \in 0 .. NumHeaps - 2 : r <= bounds[i]} \cup {NumHeaps - 1})

(* The reward at a place of the sorted list of all rewards, from 0.        *)
AtRank(count, place) ==
  Min({r \in Reward : place < MapThenSumSet(LAMBDA s : count[s], {s \in Reward : s <= r})})

(* _recompute_boundaries: the percentiles of the rewards.                  *)
Percentiles(count) ==
  LET all == MapThenSumSet(LAMBDA r : count[r], Reward)
  IN [i \in 0 .. NumHeaps - 2 |-> AtRank(count, (all * (i + 1)) \div NumHeaps)]

Distributed(count, bounds) ==
  [i \in Heap |-> [r \in Reward |-> IF HeapIndex(bounds, r) = i THEN count[r] ELSE 0]]

(* Slip: the boundaries move, the records stay.                            *)
Rebalance_InPlace(h) ==
  LET count == [r \in Reward |-> MapThenSumSet(LAMBDA i : h[i][r], Heap)]
  IN /\ boundaries' = IF Total(h) >= 2 * NumHeaps THEN Percentiles(count) ELSE boundaries
     /\ heaps' = h

(* _rebalance_heaps: with too few records the boundaries stay, and without *)
(* boundaries so do the records.                                           *)
Rebalance(h) ==
  LET count == [r \in Reward |-> MapThenSumSet(LAMBDA i : h[i][r], Heap)]
  IN \/ /\ Total(h) >= 2 * NumHeaps
        /\ boundaries' = Percentiles(count)
        /\ heaps' = Distributed(count, boundaries')
     \/ /\ Total(h) < 2 * NumHeaps
        /\ boundaries' = boundaries
        /\ heaps' = IF boundaries = None THEN h ELSE Distributed(count, boundaries)

Inserted(batch) ==
  [i \in Heap |-> [r \in Reward |->
     IF HeapIndex(boundaries, r) = i THEN heaps[i][r] + batch[r] ELSE heaps[i][r]]]

(* A batch has scored, unscored and invalid items; the invalid ones count  *)
(* as operations too.                                                      *)
AddMany ==
  /\ phase = "idle"
  /\ \E batch \in [Reward -> 0 .. MaxItems], unscored, invalid \in 0 .. MaxItems :
       LET items == MapThenSumSet(LAMBDA r : batch[r], Reward) + unscored + invalid
       IN /\ items \in 1 .. MaxItems
          /\ cold' = cold + unscored
          /\ \/ /\ operations + items >= RebalanceFrequency
                /\ Rebalance(Inserted(batch))
                /\ operations' = 0
             \/ /\ operations + items < RebalanceFrequency
                /\ heaps' = Inserted(batch)
                /\ operations' = operations + items
                /\ UNCHANGED boundaries
  /\ phase' = "evict"
  /\ UNCHANGED <<strategy, sample>>

Popped(i, r) == [heaps EXCEPT ![i][r] = @ - 1]
Lowest(i) == Min(Rewards(i))
Highest(i) == Max(Rewards(i))

(* One turn of _evict_to_capacity_unlocked: a cold record if there is one, *)
(* else the lowest of the heaps' tops.                                     *)
EvictCold ==
  /\ phase = "evict" /\ Size > MaxSize /\ cold > 0
  /\ cold' = cold - 1
  /\ UNCHANGED <<strategy, boundaries, heaps, operations, phase, sample>>

EvictScored ==
  /\ phase = "evict" /\ Size > MaxSize /\ cold = 0
  /\ \E i \in Heap :
       /\ Filled(i)
       /\ \A j \in Heap : Filled(j) => Lowest(i) < Lowest(j) \/ (Lowest(i) = Lowest(j) /\ i <= j)
       /\ heaps' = Popped(i, Lowest(i))
  /\ UNCHANGED <<strategy, boundaries, cold, operations, phase, sample>>

AddDone ==
  /\ phase = "evict" /\ Size <= MaxSize
  /\ phase' = "idle"
  /\ UNCHANGED <<strategy, store, sample>>

-----------------------------------------------------------------------------
(* The curriculum at a training step takes from each heap its weight's     *)
(* share of k; a share that is whole may come out just below in floating   *)
(* point, and is then one less.                                            *)
Quotas(k, step) ==
  LET part == 2 * k
      whole == TrainingSteps * (NumHeaps - 1) * NumHeaps
      share(i) == part * ((TrainingSteps - step) * (NumHeaps - 1 - i) + step * i)
  IN {q \in [Heap -> 0 .. k] :
        \A i \in Heap :
          \/ q[i] = share(i) \div whole
          \/ share(i) % whole = 0 /\ q[i] = (share(i) \div whole) - 1}

(* Slip: as many attempts as records, and one more for each other heap.    *)
SampleBatch_FewAttempts ==
  /\ phase = "idle"
  /\ \E k \in 1 .. MaxSample :
       LET n == IF cold < k THEN cold ELSE k
       IN /\ cold' = cold - n
          /\ \/ k = n /\ UNCHANGED <<phase, sample>>
             \/ /\ k > n
                /\ phase' = strategy /\ need' = k - n /\ turn' = 0 /\ taken' = Zero
                /\ attempts' = (k - n) + NumHeaps - 1
                /\ \E step \in 0 .. TrainingSteps :
                     quota' \in IF strategy = "curriculum" THEN Quotas(k - n, step) ELSE {Zero}
  /\ UNCHANGED <<strategy, boundaries, heaps, operations>>

(* sample_batch takes cold records first; what is missing is drawn by the  *)
(* strategy.                                                               *)
SampleBatch ==
  /\ phase = "idle"
  /\ \E k \in 1 .. MaxSample :
       LET n == IF cold < k THEN cold ELSE k
       IN /\ cold' = cold - n
          /\ \/ k = n /\ UNCHANGED <<phase, sample>>
             \/ /\ k > n
                /\ phase' = strategy /\ need' = k - n /\ turn' = 0 /\ taken' = Zero
                /\ attempts' = IF strategy \in {"easy", "hard"} THEN (k - n) * NumHeaps ELSE 0
                /\ \E step \in 0 .. TrainingSteps :
                     quota' \in IF strategy = "curriculum" THEN Quotas(k - n, step) ELSE {Zero}
  /\ UNCHANGED <<strategy, boundaries, heaps, operations>>

Take(i, r) ==
  /\ heaps' = Popped(i, r)
  /\ need' = need - 1
  /\ taken' = [taken EXCEPT ![i] = @ + 1]
  /\ UNCHANGED <<strategy, boundaries, cold, operations, phase, quota>>

(* Slip: after a record is taken, the next one comes from the same heap.   *)
RoundRobin_Stays ==
  /\ phase \in {"easy", "hard"} /\ need > 0 /\ attempts > 0
  /\ attempts' = attempts - 1
  /\ \/ /\ ~Filled(turn)
        /\ turn' = (turn + 1) % NumHeaps
        /\ UNCHANGED <<strategy, store, phase, need, quota, taken>>
     \/ /\ Filled(turn)
        /\ Take(turn, IF phase = "easy" THEN Lowest(turn) ELSE Highest(turn))
        /\ UNCHANGED turn

(* One attempt of _sample_easy or _sample_hard: a heap in its turn.        *)
RoundRobin ==
  /\ phase \in {"easy", "hard"} /\ need > 0 /\ attempts > 0
  /\ attempts' = attempts - 1
  /\ turn' = (turn + 1) % NumHeaps
  /\ \/ ~Filled(turn) /\ UNCHANGED <<strategy, store, phase, need, quota, taken>>
     \/ Filled(turn) /\ Take(turn, IF phase = "easy" THEN Lowest(turn) ELSE Highest(turn))

(* _sample_uniform draws records without replacement.                      *)
DrawAny ==
  /\ phase = "uniform" /\ need > 0
  /\ \E i \in Heap : \E r \in Rewards(i) : Take(i, r)
  /\ UNCHANGED <<turn, attempts>>

(* _sample_curriculum: the quota of each heap in turn, then any heap.      *)
TakeQuota ==
  /\ phase = "curriculum" /\ turn \in Heap
  /\ \/ taken[turn] < quota[turn] /\ Filled(turn) /\ Take(turn, Lowest(turn)) /\ UNCHANGED turn
     \/ /\ taken[turn] = quota[turn] \/ ~Filled(turn)
        /\ turn' = turn + 1
        /\ UNCHANGED <<strategy, store, phase, need, quota, taken>>
  /\ UNCHANGED attempts

Fill ==
  /\ phase = "curriculum" /\ turn = NumHeaps /\ need > 0
  /\ \E i \in Heap :
       /\ Filled(i) /\ \A j \in Heap : Filled(j) => i <= j
       /\ Take(i, Lowest(i))
  /\ UNCHANGED <<turn, attempts>>

Empty == \A i \in Heap : ~Filled(i)

SampleDone ==
  /\ \/ phase \in {"easy", "hard"} /\ (need = 0 \/ attempts = 0)
     \/ phase = "uniform" /\ (need = 0 \/ Empty)
     \/ phase = "curriculum" /\ turn = NumHeaps /\ (need <= 0 \/ Empty)
  /\ phase' = "idle"
  /\ need' = 0 /\ turn' = 0 /\ attempts' = 0 /\ quota' = Zero /\ taken' = Zero
  /\ UNCHANGED <<strategy, store>>

Next ==
  \/ AddMany \/ EvictCold \/ EvictScored \/ AddDone
  \/ SampleBatch \/ RoundRobin \/ DrawAny \/ TakeQuota \/ Fill \/ SampleDone

Spec == Init /\ [][Next]_vars

-----------------------------------------------------------------------------
(* Every record is in the heap its reward has under the present boundaries *)
(* -- after a rebalance, after one that came with too few records, and     *)
(* after a batch that was only partly drawn.                               *)
InPlace ==
  \A i \in Heap, r \in Reward : heaps[i][r] > 0 => HeapIndex(boundaries, r) = i

(* A sample ends with all the records it was asked for, and not one more,  *)
(* unless the heaps are empty: neither max_attempts nor the rounding of    *)
(* the curriculum's quotas cuts it short or makes it lose a record.        *)
Served == [][SampleDone => need = 0 \/ (need > 0 /\ Empty)]_vars

(* Round robin is fair although heaps run empty on the way: from a heap    *)
(* that still has records no fewer were taken than from a later heap, and  *)
(* at most one fewer than from an earlier one.                             *)
FairTurns ==
  phase \in {"easy", "hard"} =>
    \A i, j \in Heap : Filled(i) => taken[j] <= taken[i] + IF j < i THEN 1 ELSE 0
=============================================================================
