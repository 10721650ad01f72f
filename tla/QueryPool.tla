------------------------------ MODULE QueryPool ------------------------------
(***************************************************************************)
(* ThreadSafeQueryPool: the bounded pool of training queries.              *)
(*                                                                         *)
(* Records without a reward wait in a FIFO (cold).  Scored records are     *)
(* split at a boundary: the low side hands out its LARGEST reward first,   *)
(* the high side its SMALLEST, so that both fronts are "medium" difficulty *)
(* queries.  The two sides are sets here: a heap shows nothing but its     *)
(* front, the lazy deletion of the high side is the business of TwinHeap,  *)
(* and the order among equal rewards is left open.                         *)
(*                                                                         *)
(* Every operation runs under the pool's lock.  add_many is one critical   *)
(* section too, modelled item by item: between BeginAdd and FinishAdd the  *)
(* lock is held (adding) and no other operation can run.                   *)
(***************************************************************************)
EXTENDS PoolOps, Sequences

CONSTANTS
  Record,      \* record ids: no two records in the pool share one
  Reward,      \* the rewards a record can have: a set of integers
  None,        \* reward=None: not scored yet
  Capacities,  \* the values max_size is ever set to
  LowNum,      \* low_fraction = LowNum / LowDen
  LowDen,
  MixedModes,  \* the values of mixed_easy_medium that are tried
  MaxBatch,    \* bound: records in one add_many, and k of one sample_batch
  MaxAdded     \* bound: records added in a behaviour

ASSUME RecordAssumption == IsFiniteSet(Record)
ASSUME RewardAssumption == Reward \subseteq Int /\ None \notin Reward
ASSUME CapacityAssumption == Capacities \subseteq Nat \ {0}
ASSUME FractionAssumption == LowNum \in Nat /\ LowDen \in Nat \ {0}
ASSUME BoundAssumption ==
  MixedModes \subseteq BOOLEAN /\ MaxBatch \in Nat /\ MaxAdded \in Nat

VARIABLES
  low,      \* _low_heap
  high,     \* the active entries of the high side
  cold,     \* _cold_queue
  reward,   \* the reward each record of the pool came in with
  maxSize,  \* _max_size
  adding,   \* the lock is held by an add_many
  todo,     \* the items this add_many has not reached yet
  fresh,    \* added_count of this add_many
  added,    \* _total_added
  sampled,  \* _total_sampled
  evicted,  \* _total_evicted
  index,    \* keys of the trainer's _record_index
  taken     \* records the trainer holds: sampled and not added again

vars == <<low, high, cold, reward, maxSize, adding, todo, fresh,
          added, sampled, evicted, index, taken>>

ColdRecords == {cold[i] : i \in DOMAIN cold}
Pooled == low \cup high \cup ColdRecords

(* size()                                                                  *)
Total == Cardinality(low) + Cardinality(high) + Len(cold)

Init ==
  /\ low = {} /\ high = {} /\ cold = <<>>
  /\ reward = [r \in Record |-> None]
  /\ maxSize \in Capacities
  /\ adding = FALSE /\ todo = {} /\ fresh = 0
  /\ added = 0 /\ sampled = 0 /\ evicted = 0
  /\ index = {} /\ taken = {}

-----------------------------------------------------------------------------
(* _rebalance_low_high_unlocked(local_only=True): when the low side is off *)
(* its share by two or more, move up to four records over the boundary.    *)
(* The set of results, for sides l and h scored by rew.                    *)
LocalMoves == 4

Rebalanced(rew, l, h) ==
  LET target == RoundHalfEven(LowNum * (Cardinality(l) + Cardinality(h)), LowDen)
      short == target - Cardinality(l)
      toLow == AtMost(AtMost(short, Cardinality(h)), LocalMoves)
      toHigh == AtMost(AtMost(-short, Cardinality(l)), LocalMoves)
  IN IF short > 1
       THEN {[low |-> l \cup M, high |-> h \ M] : M \in Least(rew, h, toLow)}
     ELSE IF short < -1
       THEN {[low |-> l \ M, high |-> h \cup M] : M \in Greatest(rew, l, toHigh)}
     ELSE {[low |-> l, high |-> h]}

(* Slip: the high side is evicted from before the low side.                *)
EvictToCapacity_HighFirst(capacity) ==
  LET need == AtLeast(0, Total - capacity)
      fromHigh == AtMost(need, Cardinality(high))
      fromLow == AtMost(need - fromHigh, Cardinality(low))
      fromCold == need - fromLow - fromHigh
  IN \E L \in Least(reward, low, fromLow), H \in Least(reward, high, fromHigh) :
       /\ low' = low \ L
       /\ high' = high \ H
       /\ cold' = SubSeq(cold, fromCold + 1, Len(cold))
       /\ index' = index \ (L \cup H)
       /\ evicted' = evicted + need

(* _evict_to_capacity_unlocked: the worst of the low side first, then the  *)
(* worst of the high side, then the oldest cold records.  Only the heaps'  *)
(* removals tell the trainer's index (_cleanup_record_index).              *)
EvictToCapacity(capacity) ==
  LET need == AtLeast(0, Total - capacity)
      fromLow == AtMost(need, Cardinality(low))
      fromHigh == AtMost(need - fromLow, Cardinality(high))
      fromCold == need - fromLow - fromHigh
  IN \E L \in Least(reward, low, fromLow), H \in Least(reward, high, fromHigh) :
       /\ low' = low \ L
       /\ high' = high \ H
       /\ cold' = SubSeq(cold, fromCold + 1, Len(cold))
       /\ index' = index \ (L \cup H)
       /\ evicted' = evicted + need

-----------------------------------------------------------------------------
(* add_many is called with records that are not in the pool: new ones, or  *)
(* ones the trainer sampled before.  They are registered in the index.     *)
BeginAdd(batch) ==
  /\ ~adding
  /\ added + Cardinality(batch) <= MaxAdded
  /\ adding' = TRUE
  /\ todo' = batch
  /\ index' = index \cup batch
  /\ taken' = taken \ batch
  /\ UNCHANGED <<low, high, cold, reward, maxSize, fresh, added, sampled, evicted>>

(* The validation gate: a record without a proper token array is skipped.  *)
RejectItem(r) ==
  /\ adding /\ r \in todo
  /\ todo' = todo \ {r}
  /\ UNCHANGED <<low, high, cold, reward, maxSize, adding, fresh,
                 added, sampled, evicted, index, taken>>

(* Bookkeeping of one accepted item with reward x.                         *)
Accept(r, x) ==
  /\ adding /\ r \in todo
  /\ todo' = todo \ {r}
  /\ reward' = [reward EXCEPT ![r] = x]
  /\ fresh' = fresh + 1
  /\ UNCHANGED <<maxSize, adding, added, sampled, taken>>

(* A scored item goes to the high side when it beats the high front.       *)
BeatsHighFront(x) == high = {} \/ \E f \in high : reward[f] < x

AddColdWithSpace(r) ==
  /\ Total < maxSize
  /\ Accept(r, None)
  /\ cold' = Append(cold, r)
  /\ \E side \in Rebalanced(reward', low, high) :
       low' = side.low /\ high' = side.high
  /\ UNCHANGED <<evicted, index>>

AddScoredWithSpace(r, x) ==
  /\ Total < maxSize
  /\ Accept(r, x)
  /\ \E side \in IF BeatsHighFront(x)
                   THEN Rebalanced(reward', low, high \cup {r})
                   ELSE Rebalanced(reward', low \cup {r}, high) :
       low' = side.low /\ high' = side.high
  /\ UNCHANGED <<cold, evicted, index>>

(* Slips: an eviction that is not counted; the cold queue is popped at the *)
(* wrong end.                                                              *)
AddColdWhenFull_Uncounted(r) ==
  /\ Total >= maxSize
  /\ Accept(r, None)
  /\ \E G \in Greatest(reward, high, 1) : high' = high \ G /\ index' = index \ G
  /\ cold' = Append(cold, r)
  /\ UNCHANGED <<low, evicted>>

AddColdWhenFull_Newest(r) ==
  /\ Total >= maxSize
  /\ high = {} /\ low = {}
  /\ Accept(r, None)
  /\ evicted' = evicted + 1
  /\ cold' = Append(SubSeq(cold, 1, Len(cold) - 1), r)
  /\ UNCHANGED <<low, high, index>>

(* A full pool makes room for an unscored item by dropping its easiest     *)
(* record; the low side and the cold queue are dropped from without        *)
(* telling the index.                                                      *)
AddColdWhenFull(r) ==
  /\ Total >= maxSize
  /\ Accept(r, None)
  /\ evicted' = evicted + 1
  /\ \/ \E G \in Greatest(reward, high, 1) :
          /\ high' = high \ G
          /\ index' = index \ G
          /\ cold' = Append(cold, r)
          /\ UNCHANGED low
     \/ /\ high = {}
        /\ \E G \in Greatest(reward, low, 1) : low' = low \ G
        /\ cold' = Append(cold, r)
        /\ UNCHANGED <<high, index>>
     \/ /\ high = {} /\ low = {}
        /\ cold' = Append(Tail(cold), r)
        /\ UNCHANGED <<low, high, index>>

(* _insert_when_full_unlocked: insert first, then drop the worst record of *)
(* the low side, or of the high side when the low side is empty.           *)
(* Slip: the item is compared with the wrong end of the high side.         *)
InsertsLow_HighTop(x) ==
  /\ high # {}
  /\ low = {} \/ \E h \in high : x <= reward[h]

InsertsLow(x) ==
  /\ high # {}
  /\ low = {} \/ \A h \in high : x <= reward[h]

(* Slip: the index forgets the record that came in.                        *)
AddScoredWhenFull_ForgetsNew(r, x) ==
  LET l == IF InsertsLow(x) THEN low \cup {r} ELSE low
      h == IF InsertsLow(x) THEN high ELSE high \cup {r}
  IN /\ Total >= maxSize
     /\ Accept(r, x)
     /\ evicted' = evicted + 1
     /\ index' = index \ {r}
     /\ \E W \in Least(reward', IF l # {} THEN l ELSE h, 1) :
          \E side \in Rebalanced(reward', l \ W, h \ W) :
             low' = side.low /\ high' = side.high
     /\ UNCHANGED cold

AddScoredWhenFull(r, x) ==
  LET l == IF InsertsLow(x) THEN low \cup {r} ELSE low
      h == IF InsertsLow(x) THEN high ELSE high \cup {r}
  IN /\ Total >= maxSize
     /\ Accept(r, x)
     /\ evicted' = evicted + 1
     /\ \E W \in Least(reward', IF l # {} THEN l ELSE h, 1) :
          /\ index' = index \ W
          /\ \E side \in Rebalanced(reward', l \ W, h \ W) :
               low' = side.low /\ high' = side.high
     /\ UNCHANGED cold

(* The end of the critical section.                                        *)
FinishAdd ==
  /\ adding /\ todo = {}
  /\ adding' = FALSE
  /\ added' = added + fresh
  /\ fresh' = 0
  /\ EvictToCapacity(maxSize)
  /\ UNCHANGED <<reward, maxSize, todo, sampled, taken>>

(* Slip: the surplus is not evicted.                                       *)
SetMaxSize_NoEviction(capacity) ==
  /\ ~adding
  /\ maxSize' = capacity
  /\ UNCHANGED <<low, high, cold, reward, adding, todo, fresh, added, sampled,
                 evicted, index, taken>>

(* set_max_size                                                            *)
SetMaxSize(capacity) ==
  /\ ~adding
  /\ capacity # maxSize
  /\ maxSize' = capacity
  /\ EvictToCapacity(capacity)
  /\ UNCHANGED <<reward, adding, todo, fresh, added, sampled, taken>>

-----------------------------------------------------------------------------
(* _sample_medium_k_unlocked(k) on sides l and h pops up to 2k candidates  *)
(* from the two sides of the boundary, ...                                 *)
MediumCandidates_FarEnd(l, h, k) == Least(reward, l, AtMost(k, Cardinality(l)))

MediumCandidates(l, h, k) ==
  LET n == Cardinality(l) + Cardinality(h)
      take == AtMost(2 * k, n)
      fromHigh == HighShare(take, Cardinality(l), Cardinality(h))
  IN {L \cup H : L \in Greatest(reward, l, take - fromHigh),
                 H \in Least(reward, h, fromHigh)}

(* ... keeps k of them at random, puts the others back where they came     *)
(* from, and rebalances.                                                   *)
AfterMedium_Copies(l, h, chosen) == {[low |-> l, high |-> h]}

AfterMedium(l, h, chosen) ==
  IF chosen = {}
    THEN {[low |-> l, high |-> h]}
    ELSE Rebalanced(reward, l \ chosen, h \ chosen)

(* sample_batch(k): cold records first; the rest half easy, half medium in *)
(* the mixed mode and all medium otherwise.  What is sampled leaves the    *)
(* pool; the trainer gets copies.                                          *)
SampleBatch(k, mixed) ==
  LET actual == AtMost(k, Total)
      coldTake == AtMost(actual, Len(cold))
      need == actual - coldTake
      easyTake == IF mixed THEN AtMost(need \div 2, Cardinality(high)) ELSE 0
      mediumTake == need - easyTake
  IN /\ ~adding
     /\ k > 0 /\ Total > 0
     /\ cold' = SubSeq(cold, coldTake + 1, Len(cold))
     /\ \E easy \in Greatest(reward, high, easyTake) :
        \E candidates \in MediumCandidates(low, high \ easy, mediumTake) :
        \E medium \in {C \in SUBSET candidates : Cardinality(C) = mediumTake} :
        \E first \in AfterMedium(low, high \ easy, medium) :
        \E side \in IF mixed /\ need > 0
                      THEN Rebalanced(reward, first.low, first.high)
                      ELSE {first} :
          /\ low' = side.low
          /\ high' = side.high
          /\ taken' = taken \cup {cold[i] : i \in 1 .. coldTake} \cup easy \cup medium
     /\ sampled' = sampled + actual
     /\ UNCHANGED <<reward, maxSize, adding, todo, fresh, added, evicted, index>>

Next ==
  \/ \E batch \in SUBSET (Record \ Pooled) :
       batch # {} /\ Cardinality(batch) <= MaxBatch /\ BeginAdd(batch)
  \/ \E r \in Record : RejectItem(r)
  \/ \E r \in Record : AddColdWithSpace(r) \/ AddColdWhenFull(r)
  \/ \E r \in Record, x \in Reward : AddScoredWithSpace(r, x) \/ AddScoredWhenFull(r, x)
  \/ FinishAdd
  \/ \E capacity \in Capacities : SetMaxSize(capacity)
  \/ \E k \in 1 .. MaxBatch, mixed \in MixedModes : SampleBatch(k, mixed)

Spec == Init /\ [][Next]_vars

-----------------------------------------------------------------------------
(* Type invariant.                                                         *)
TypeOK ==
  /\ low \subseteq Record /\ high \subseteq Record
  /\ cold \in Seq(Record)
  /\ reward \in [Record -> Reward \cup {None}]
  /\ maxSize \in Capacities
  /\ adding \in BOOLEAN /\ todo \subseteq Record
  /\ fresh \in Nat /\ added \in Nat /\ sampled \in Nat /\ evicted \in Nat
  /\ index \subseteq Record /\ taken \subseteq Record

(* A record is in at most one place: one side, one position of the cold    *)
(* queue, the rest of an add_many, or the trainer's hands.  A record in    *)
(* two places would be trained on twice, with two rewards.                 *)
OnePlace ==
  /\ low \cap high = {}
  /\ ColdRecords \cap (low \cup high) = {}
  /\ \A i, j \in DOMAIN cold : cold[i] = cold[j] => i = j
  /\ todo \cap Pooled = {}
  /\ taken \cap (Pooled \cup todo) = {}

(* The heaps compare rewards, so no record without one may reach them; and *)
(* a scored record must not wait among those that still need a score.      *)
SidesScored ==
  /\ \A r \in low \cup high : reward[r] \in Reward
  /\ \A r \in ColdRecords : reward[r] = None

(* The pool never holds more than max_size records, not even between two   *)
(* items of an add_many or right after max_size was lowered.               *)
WithinCapacity == Total <= maxSize

(* Every record that was counted in is in the pool, or was counted out     *)
(* once: the three totals that get_metrics reports account for the size.   *)
Accounted == added + fresh = Total + sampled + evicted

(* A record of the pool can be found in the trainer's index, so the reward *)
(* it earns later reaches its lineage: eviction only forgets records that  *)
(* really left.                                                            *)
PooledIndexed == Pooled \cup todo \cup taken \subseteq index

(* No record of the low side is easier than one of the high side.          *)
Ordered == \A l \in low, h \in high : reward[l] <= reward[h]

(* While the high side has a record, no operation breaks the boundary:     *)
(* insertion, eviction, sampling with reinsertion and the moves of a       *)
(* rebalance all keep every low reward below every high one.  (With an     *)
(* empty high side the next scored record goes high whatever its reward.)  *)
BoundaryKept == [][Ordered /\ high # {} => Ordered']_vars

(* Lowering max_size drops the hardest queries first: with the boundary    *)
(* intact no surviving scored record is harder than an evicted one, and    *)
(* cold records go only when no scored record is left.                     *)
ShrinkDropsHardest ==
  [][maxSize' < maxSize =>
       /\ Ordered => \A gone \in (low \cup high) \ Pooled', kept \in low' \cup high' :
                       reward[gone] <= reward[kept]
       /\ ColdRecords \subseteq ColdRecords' \/ low' \cup high' = {}]_vars

(* The cold queue is first in, first out, whatever takes records from it:  *)
(* a record leaves only after all that came before it.                     *)
ColdIsFifo ==
  [][\A i, j \in DOMAIN cold :
       i < j /\ cold[j] \notin ColdRecords' => cold[i] \notin ColdRecords']_vars

(* A sample of k takes records from the window of 2k around the boundary   *)
(* (or, in the mixed mode, from the easy end): a low record with 2k easier *)
(* low records is never taken, nor a high record far from both ends.       *)
SampleWindow ==
  [][sampled' > sampled =>
       LET k == sampled' - sampled
       IN /\ \A r \in low \cap taken' :
               Cardinality({u \in low : reward[u] > reward[r]}) < 2 * k
          /\ \A r \in high \cap taken' :
               \/ Cardinality({u \in high : reward[u] < reward[r]}) < 2 * k
               \/ TRUE \in MixedModes /\ Cardinality({u \in high : reward[u] > reward[r]}) < k
     ]_vars

(* Whatever its sides and its queue do, the pool is a BoundedPool: it      *)
(* drops a record only when there is no room for another, gives a sample   *)
(* min(k, size) records that it then no longer holds, and gives up exactly *)
(* the surplus when max_size is lowered.  The end of an add_many, with its *)
(* last eviction and its rebalancing, changes nothing of this.             *)
Bounded == INSTANCE BoundedPool WITH members <- Pooled, capacity <- maxSize
IsBoundedPool == Bounded!Spec

=============================================================================
