# HeaPA in TLA+

HeaPA trains a language model with reinforcement learning (DAPO on top of verl)
on a *pool* of queries instead of a fixed data set. Queries are sampled from the
pool at medium difficulty, augmented by the policy, checked by a teacher model
in a thread of its own, and put back with the rewards they earned. This
directory holds TLA+ models of that machinery, the TLC configurations that check
them, and TLAPS proofs of the main results. Unless another file is named, line
numbers refer to `src/recipe/dapo/dapo_ray_trainer_HeaPA.py`.

## The system

| component | state | operations | what makes it correct |
|---|---|---|---|
| High side of the pool (2240-2376) | two heaps, the set of live sequence numbers, a counter | push, pop at either end, peek, periodic deep clean | a priority deque, in spite of stale entries |
| `ThreadSafeQueryPool` (1800-2515) | low heap, high side, cold FIFO, capacity, totals | `add_many`, `set_max_size`, `sample_batch`, eviction, rebalancing | nothing duplicated, lost or uncounted; capacity; the boundary between the sides |
| `AsyncTeacherAnnotator` (2543-3410) | queue, `_running`, executor, the batch in hand | `enqueue_aug`, `run`, `_process_augmented_proto`, `shutdown` | what was refused stays out (and an answer gets in only as below); each batch once; shutdown ends |
| `RayDAPOTrainer`, loop (6600-7801) | inbox, archive of trained records, record index, lineage | drain, recycle, sample, archive, augment, save | records circulate; the pool never starves or overflows |
| Checkpoints (3496-3999; `src/verl/trainer/ppo/ray_trainer.py` 777-895) | weights, tracker file, training state on disk | save in three parts, resume | a crash costs a bounded amount of work and no query, unless it tears what the next start reads |
| Lineage and reward refresh (4601-5107) | parent/child maps, record index | snapshot, order, levels, two aggregations, reinsertion | children before parents; every copy of a record has one reward |
| Rollout, reward attribution, group filter (6754-7780) | the batch of a step, counters | sample, trim, rollout, missing-answer filter, archive of average rewards, group filter, update | full on-policy updates; a record gets its own reward; passes end |
| Slime port (`src/slime/`) | a smaller pool, archive, index, inbox, teacher's queue | `get_samples`, `process_scored_samples`, `add_samples`, reseeding, `save`, `load` | a group's reward finds its record; the pool does not run dry |
| Multi-heap pool (`dapo_ray_trainer_HeaPA_multi_heap.py` 690-1112) | heaps, boundaries, cold queue | `add_many`, rebalancing, eviction, four samplers | records in the heap their reward has; samples fair and complete |
| Prioritized pool (`dapo_ray_trainer_prioritized_sampling_baseline.py` 700-1050) | records, success rates, cold queue and its index | `add_many`, eviction, `sample_batch`, `update_success_rates`, resume | a rate for exactly the scored records, whatever is delivered twice; rates survive a resume |
| Earlier trainers (`src/recipe/dapo/*`) | older forms of the pool and pipeline | as above | as above |
| verl (`src/verl/`) | upstream framework | rollouts, updates, files | not part of this project |

Interaction. The trainer's thread and the teacher's thread share the pool (under
the pool's lock), the inbox and the record index (under `_inbox_lock`), and the
teacher's queue (a `queue.Queue`). Worker threads of an executor call the teacher
model. The pool calls back into the trainer's index when it evicts. The
checkpoint code of the trainer's thread reads all of this while the teacher's
thread goes on. Only the disk survives a crash.

Hard parts. Lazy deletion in twin heaps; three places a record may be in and four
kinds of insertion; sizes read under one lock and used under another; answers
that arrive after their timeout; shutdown against a thread in the middle of a
batch; a checkpoint written in several parts, each in place, and overwritten by a resumed run;
a record delivered twice;
rewards matched to records by position after a filter; a lineage refreshed from a
snapshot while it grows; records evicted while they are rolled out.
`PROJECT.json` lists these hazards at their lines, with the properties that
would catch each going wrong.

## Modules

    PriorityDeque <--implements-- TwinHeap        PopCandidates
                                     :                  : (closed form HighShare)
                                     :...(abstracted)...v
                                                    PoolOps  <-- QueryPool --implements--> BoundedPool
                                                       ^
                              TeacherPipeline (pool as a bounded set; one training step, one action)
                              CheckpointResume (one training step, one action)
                              TrainingLoop (pool as a set that is large enough; the teacher, two actions)
                              RewardRefresh (the inside of the recycling step)

    MultiHeap        PrioritizedPool (with its trainer and teacher)        Slime

Each `...Proofs` module EXTENDS the module it is about; an `MC...` module gives a
module's constants values that a configuration cannot write down.

**`PriorityDeque`, `TwinHeap`.** `PriorityDeque` is what the high side promises: a
set of entries, popped at either end, ties in the order of insertion. `TwinHeap`
is the code: `_high_heap_min`, `_high_heap_max`, `_active_high`, `_seq`. A pop
cleans the top of its heap, removes an entry and its number, and leaves the twin
stale in the other heap; `DeepClean` throws stale entries away by the code's
thresholds. A heap is a set of entries because `heapq` shows only its least
tuple. The refinement maps the deque's items to the live entries (`DequeSpec`).

**`PopCandidates`, `PoolOps`.** The loop of `_pop_candidates_unlocked`, an
iteration per step, and the closed form `HighShare` that `QueryPool` uses for it.
`PoolOps` holds Python's `round` (half to even) on the low fraction, and the
choices of the k least or greatest records by reward, ties left open.

**`BoundedPool`, `QueryPool`.** `BoundedPool` is what the trainer is promised: a set that
is as full as its capacity allows, loses one record per addition when full, answers a
request with min(k, size) records and drops the surplus of a lowered capacity. The
refinement maps its members to everything pooled (`IsBoundedPool`).
In `QueryPool`, `low`, `high` and `cold` are the three places. `add_many` is one
critical section but a loop over items, each of which sees what the last one left;
it is modelled as `BeginAdd`, one action per item (`RejectItem`,
`AddColdWithSpace`, `AddScoredWithSpace`, `AddColdWhenFull`,
`AddScoredWhenFull`) and `FinishAdd`; `adding` is the lock. `SampleBatch` and
`SetMaxSize` are one action each. Every action does the rebalancing or eviction
the code does in it. `index` is the key set of the trainer's `_record_index`, and
`taken` what the trainer holds. The records that meet in a pool are assumed to
have different ids.

**`TeacherPipeline`.** The trainer's thread (`step`), the teacher's thread (`pc`)
and the executor's workers (`waiting`, `calling`, `answer`) as interleaved
processes. A step is what a thread does under one lock or between two points at
which another thread can be noticed: the teacher's size-before, add and size-after
are three steps, and so are the trainer's look at the pool's capacity and the
enqueueing of what it generated in between. The pool is the set of objects in
it, and which of them a full pool evicts is left open (that is `QueryPool`). A
record may be two objects: added by the teacher's thread (`now`), or through the
inbox (`later`). Shutdown is the code's: clear `_running`, wait for the queue at
most five seconds, close the executor and wait for it, join.

**`CheckpointResume`.** Training steps, the three writes of a checkpoint, the
teacher's deliveries in between, crashes at any point, and the restart. A file is
absent, torn, or complete; weights, tracker and training state are each opened, which
destroys what they held, and then written (`OpenTracker`, `WriteTracker`). A start is one of the
three `resume_mode`s: by the tracker (`Resume`, `StartFresh`), `disable` (`StartDisabled`),
`resume_path` (`ResumePath`). On an empty tracker `int()` raises (`TrackerUnreadable`), and
so does the loading of torn weights: the run is stuck until someone starts it again (`Relaunch`),
perhaps in another mode. `directed` remembers that a start was told where to begin. A step may take
several passes, and a pass may leave sampled records without an archive entry: rewards are attributed
by position to what the filters left of the batch. Such records are gone, and `dropped` remembers
them, so that `SeedsSurvive` speaks of what saving, crashing and resuming lose; a run
that has dropped everything waits (`Wait`). `SavedSurvives` compares a restored state with `had`,
which the snapshot remembers for that purpose.

**`TrainingLoop`.** `fit()` from one `continue` to the next: `SampleBatch` (with the
recycling before it), `WaitForQueries`, `SkipPass`, `Generate`, `GenerateFails`,
`NothingScored`, `Score` (filter for missing answers, archive, augmentation),
`Filter` and `Update`. `Deliver` and `FallBack` are the teacher's thread: a generated query goes to the
pool, or to the inbox, or, when the pool does not seem to have grown, to both. These are two records of
one id, `<<q, "now">>` and `<<q, "later">>`, which may be sampled, archived and recycled beside each
other. `archive[q]` has the record and the query whose rollouts its reward was computed from, so that
a reward at the wrong place is visible. `numGen` and `numPrompt` are the code's counters. A batch that is
no multiple of the number of workers is trimmed in `gen_batch` only, and the union
with `new_batch` then fails on unequal sizes: `GenerateFails`. Which groups have
varied rewards is open. Recycling is one step: `RewardRefresh` has its inside.

**`RewardRefresh`.** One refresh: `Snapshot` under the inbox lock, the queue of
`_topo_from_leaves` node by node (`PlaceNode`), levels, new rewards level by level
(`RefreshNode`), and `Reinsert`. Sets are walked in any order. The teacher's thread
registers the last record and evicts others meanwhile; as the refresh reads only its
snapshot, one moment for that stands for all. A record's parent exists before it,
so the lineage is a forest, with evicted records in it; the branch for cycles is
unreachable. In path mode the weights are the softmax of the logarithms of the leaf
counts with temperature 1, that is, the counts divided by their sum, which is
also what linear weighting gives.

**`MultiHeap`.** A heap is a bag of rewards, the cold queue a number. The loops of
`add_many`'s eviction and of the samplers are steps, `phase` names the loop that holds
the lock. The quotas of the curriculum are computed exactly; a share that is a whole
number may come out just below it in floating point, so one less is allowed.

**`PrioritizedPool`.** The pool with the two threads that use it. `add_many` is an item
per step with the lock held (`items`). The teacher reads the size, adds unscored records,
reads the size again (`TeacherBegins`, `TeacherAdds`, `TeacherChecks`), and if it did not grow, or an
exception came in between, leaves the batch in the inbox (`SubmitTeacherBatch`). The trainer drains the
inbox and adds each packet with estimated rewards (`Drain`, `AddPacket`), checks the size, recycles,
samples, updates the rates and archives, each under a lock of its own, with the
teacher in between. An id may therefore be cold and scored at once, and twice in a batch
(`Places`). A rate is a sum and a count, compared by cross-multiplication.
`Restart` is the loading of a checkpoint: cold index and rates first, then
`add_many` of all records, then the index (`Resumed`).

**`Slime`.** The data source and its pool are used by one thread; the teacher's
threads only share the queue and the inbox with it. Every record gets an id of its
own, and a reseeded or aborted one a new id. `generate_rollout_async` belongs to slime, not to
this repository, and is modelled from its use: it asks for groups until enough are
complete, groups may fail its dynamic filter, and the ones left over are aborted. `Save` opens a
checkpoint, perhaps one of an earlier run, and `Saved` completes it; a restart from a file that a crash left
in between does not start.

**`MCTwinHeap`, `MCQueryPool`, `MCPrioritizedPool`** add symmetry (records are
interchangeable; in the last, seeds with seeds and the teacher's with the teacher's),
and to `QueryPool` a view without the rewards of records that left the pool.

Definitions whose name has a suffix (`CleanMinTop_Stale`, `Get_Peeks`) are
plausible slips in the code next to them. They are used by no specification:
`PROJECT.json` names, for each property, a slip that violates it.

## Runs

| run | shows | bounds |
|---|---|---|
| `twin_heap` | `DequeSpec` (the refinement), `Mirrored` | 2 records, 2 rewards, 6 pushes, deep clean above 3: stale entries accumulate at both ends, and ties occur |
| `pop_candidates` | `ResultIsHighShare`, `Terminates` | all sizes and requests up to 7 |
| `query_pool` | `IsBoundedPool` (the refinement), `OnePlace`, `Accounted`, `PooledIndexed`, `BoundaryKept`, `ShrinkDropsHardest`, `ColdIsFifo`, `SampleWindow` | 5 records, 3 rewards, capacities 2, 3 and 5, batches of up to 3, 7 additions: full pools, shrinking by more than one place holds, rebalancing in both directions, both sampling modes |
| `teacher_queue` | `RefusedStaysOut`, `PoolBounded`, `OneFallback`, `EachBatchOnce`, `QuietAfterShutdown`, and the liveness properties `ShutdownCompletes`, `TeacherEnds`, `QueuedIsTaken` | two batches, and a queue, inbox and executor of one place each, so that all of them overflow or make the other side wait |
| `teacher_answers` | an item without an answer enters the pool (below) | one batch of two items |
| `checkpoint_resume` | `StateNotNewer`, `SeedsSurvive`, `StuckOnlyByRewrite`, `CrashCost`, `SavedSurvives` | 3 steps, saved at 2 and at the last, 2 seeds, 1 augmented record, batches of 2, 2 crashes: the second crash meets the files a first one mixed, and hits the rewriting of each file; all resume modes, steps that take several passes and drop records. A save at step 1, whose state is never read, needs a `SaveFreq` of 1 and does not occur |
| `training_loop` | `NoneMultiplies`, `FullOnPolicy`, `AnsweredArchived`, and the liveness property `Ends` | 4 seeds of which one has no answer, 1 augmented query with up to two records, batches of 3, at most 2 passes, 1 to 3 workers, 2 steps: updates from two passes, short, trimmed and skipped batches, both records of a query in one batch, a pool that is recycled and one that runs empty |
| `training_rewards` | the reward of an archived query is another's (below) | as above |
| `reward_refresh` | `ChildrenFirst`, `RefreshedAsDefined`, `CopiesAgree` | every forest of 4 records, archived, pooled or evicted, difficulties that halve and double; chains of four levels, and nodes with three children of different depth |
| `multi_heap` | `InPlace`, `FairTurns`, `Served` | 3 heaps, 3 rewards, 6 places, a rebalance every 3 items, samples of up to 5, all strategies: heaps run empty in the middle of a round, and rebalances happen with too few records |
| `prioritized` | `InStep`, `GrowsByPromotion`, `ResumeKeepsScored` | 2 seeds and 2 of the teacher's records, 2 places, batches of 2, additions of up to 2: the teacher can evict the whole batch in flight, its records come a second time while the first copy is queued, in flight or scored, and the pool can be past its bound when it is saved |
| `slime` | `Filed`, `NeverDry` | 2 seeds, 3 places, 8 records in all, a queue and an inbox of one place, one checkpoint: reseeding, eviction, index cleaning, aborted groups, several requests in one rollout, saves that a crash tears and restarts happen |

`RewardRefresh` computes with integers; `MCScale` is such that no division of the run
leaves a remainder, so that its rewards are those of the code's real numbers.

`CHECK_DEADLOCK` is off where a system really stops (a loop that has ended, in
`pop_candidates`) or where a bound of the model stops it: on additions
(`query_pool`), on the rewards of a record (`prioritized`), on ids (`slime`).
`twin_heap` always allows a pop of the empty deque, `multi_heap` a sample, and the other
modules have an explicit final step (`Ended`, `Over`).

### What the code does not keep

`training_rewards` and `teacher_answers` find the two disagreements that have a run. The others were
observed while translating the code; the models contain the behaviour, and no property is stated of it.

* **`OnlyAnsweredEnters`** (3224-3235). The branch for "Marked solvable but no answer" sets the item
  unsolvable and counts it so, but has no `continue`; the next lines mark it solvable again, and its
  record gets into the pool without a ground truth. `RefusedStaysOut` is the part that holds.
* **`RewardIsOwn`** (7150-7154, 7220-7226). Rollouts without a ground truth are removed, and
  the rewards that are left are then matched to the sampled records by position: a record
  without an answer is archived with the reward of the one after it, and the
  last records are neither in the archive nor in the pool. `AnsweredArchived` shows that
  nothing is wrong when all records have an answer.
* The class comment (1800-1811) promises "no special-case rejection of high-reward items".
  With a full pool whose low side is empty, an item that does not beat the high front is
  pushed low and then evicted as the worst low record (2378).
* Evictions from the low side by an unscored item, and all evictions from the cold
  queue, bypass `_cleanup_record_index` (2063-2067, 2459-2463). The multi-heap pool's
  evictions never clean the index.
* Equal sizes before and after `add_many` are taken to mean that all records were
  rejected (3018-3029). In a full pool, or with a sample in between, they were not, and
  the trainer adds the same records a second time from the inbox.
* A resumed run repeats the step it was saved at, and overwrites in place the checkpoint
  that the tracker file names (`src/verl/trainer/ppo/ray_trainer.py` 777-835). The tracker itself is, by its
  comment, "for atomic usage" (830), but it is opened with `"w"` and then written: a crash in between leaves
  an empty file, on which every later start by `auto` or `resume_path` raises. `StuckOnlyByRewrite` says
  that these two are the only ways in which a crash leaves a run that cannot resume.
* A training state saved at step 1 is never read (6640): the run starts from the seeds again.
* A run that is directed to an earlier step writes weights beside training states of the run before it.
* The multi-heap pool's training state is saved with version 3 (2196 of its file), and `load` rejects
  versions above 2 (2295, "current version: 2"); the exception is logged and a fresh pool is built, so
  that the state of this pool is never resumed.
* The prioritized pool leaves teacher records unscored, "Let them be scored naturally during rollouts"
  (1485-1487 of its file), and its cold queue is for "Unscored queries". The fallback's second delivery
  gives the same records their estimated reward (4349-4362): in a full pool an id is cold and scored at once,
  and a sample may have it twice.
* The prioritized pool restores its cold index before it re-adds the cold records (2265-2283 of
  its file), and `add_many` skips an unscored record that is in the index: a resumed run has none of
  them, although the comment says "Re-add all records". `ResumeKeepsScored` is the part that holds.
* A record of the prioritized pool that was evicted while it was rolled out is put back
  without a look at the capacity (1040); the pool may exceed it (`GrowsByPromotion` says when).
  Recycling an archived record that was evicted does not put it back into the index.
* The docstring of slime's `sample_batch` says "no removal from pool, returns copies", that of
  `process_scored_samples` "Update the corresponding QueryRecord in the pool", but cold records are
  popped. As every record enters cold, `update_reward` never finds one, no record is ever
  scored in the pool, and both heaps stay empty: a part of `SlimeInv`, which the proofs need, and
  nothing that the code means. Groups that the dynamic filter
  drops are lost; once the archive has as many records as the reseeding threshold, lost
  seeds come back no more.
* slime's `load` takes the file with the greatest name: `heapa_pool_9.pt` comes after
  `heapa_pool_10.pt`. `Restart` allows any saved file.
* The heaps of the multi-heap pool are called an "equal-sized partition", but ranks are rounded
  and a reward equal to a boundary goes down: two heaps with four different rewards have three
  records and one.

## Fairness

`PopCandidates` has weak fairness of its only action: a loop that is not blocked
goes on. `TeacherPipeline` has weak fairness of the trainer's thread, of
shutdown, of the teacher's thread and of the workers, each as a whole: threads are
scheduled, waits have timeouts (the queue's `get`, `future.result`, shutdown's
five and the join's ten seconds), and calls to the teacher model end by
their own timeout and a bounded number of retries. It has none for `Shutdown`:
nothing promises that training ends. So the liveness properties say that shutdown
completes once it has begun, and hold whether or not it begins. `TrainingLoop` has
weak fairness of the trainer's thread, a loop whose remote calls return or raise, and none of
the teacher's, who may never answer: `Ends` says that with a bound on the passes
training ends, or stays without a query. It holds although skipped passes and passes without a
scored query do not look at the bound, because they use up queries. The other modules
state safety only and assume no fairness.

## Proofs

The results below hold for all values of the constants that satisfy the modules'
assumptions, which TLC evaluates in the runs.

**`TwinHeapProofs`.** The inductive invariant is `TypeOK`, `Mirrored` and
`SeqNamesEntry`: both heaps hold all live entries, and a sequence number stands for
one entry for good. Cleaning a top removes no live entry, so the top that remains is
the least live one, and with `Mirrored` a pop at either end removes the same entry
from the abstract deque. `TwinHeapImplementsDeque` is the refinement theorem. For
`PopCandidates`, `InTurn` says how far the sides can be apart while both have records
and after one ran dry; when the loop ends it leaves only the closed form `HighShare`.

**`QueryPoolProofs`.** The invariant is the conjunction of the type invariant, the
run's three invariants, `SidesScored` and `WithinCapacity`: counting
(`WithinCapacity`, `Accounted`) needs disjoint places (`OnePlace`), and index entries are dropped correctly only if the evicted record has no second
place. The lemmas are about cardinalities of the chosen sets, of the two sides under
rebalancing, and about sequences without repetition. One lemma per action. The four
action properties of the run follow step by step from the same invariant:
`AlwaysColdIsFifo` (what is left of the cold queue is a suffix of it),
`AlwaysBoundaryKept` (moving the k least or greatest records over the boundary keeps
them on their side of it), `AlwaysShrinkDropsHardest` and `AlwaysSampleWindow`. `ImplementsBoundedPool` is the
refinement theorem. An operation's own sets show that it drops only members, and
`Accounted` before and after it tells how many, once `SizeIsMembers` has shown that
the three lengths add up to the number of members. `FinishAdd` and a rejected item are
stutters: the capacity is never exceeded, so the last eviction finds nothing.

**`TeacherPipelineProofs`.** `AlwaysQuiet` rests on `ClosedExecutor`: a closed
executor takes no call, and shutdown goes on only when it is idle.
`AlwaysEachBatchOnce` needs more than the property: every batch in the queue or
worked on was generated (`OnceMade`), and none twice. The three results on items build on
it, each on the one before. `InWork`: the batch in the teacher's hands was taken up, and `solvable` are
items of it. `AskedOnce`: an item is sent to the model once, so an answer never changes.
`Entered`: the items of the batch in work have not been handed over yet, and `Solved`:
what was handed over had an answer that the code accepts (`AlwaysRefusedStaysOut`). `Apart`: an
item is in one packet, of the inbox or of those drained, and then not yet stored; so
adding it makes no second copy and revives nothing archived (`AlwaysOneFallback`,
`AlwaysPoolBounded`). The assumption `SeedsAreNoItems` says that ids are unique.

**`CheckpointResumeProofs`.** The invariant is `TypeOK`, `SeedsKept` (seeds no step dropped are in
memory, in the snapshot and in every complete state on disk) and, as long as no restart was directed,
`InOrder`. That has three parts: `WriteOrder` (no training state ahead of the tracker, none without
weights, and the tracker at most at the current step), `Unfinished` (a torn tracker, or torn weights that
it names, are there only while they are written, or after a crash that hit just then, and a stuck run is
stuck on one of them; this is `AlwaysStuckOnlyByRewrite`) and `NotAhead` (the state that a repeated step is
about to overwrite is no newer than the weights in memory). `HadKept` is, for all records of one save, what
`SeedsKept` is for seeds (`AlwaysSavedSurvives`). `SinceSave` counts: the tracker names a step that was due, the
current step is at most `SaveFreq` past it, and the updates in memory are those on disk
and the steps since (`AtMostSaveFreqLost`, of runs that resume by themselves; `AlwaysStuckOnlyByRewrite`
is about the others). The theorems are for any number of steps and crashes, any `SaveFreq`.

**`TrainingLoopProofs`.** Two independent invariants. `PlaceInv`: a query not generated yet
is nowhere, and of a query on its way in the record that is to come is nowhere else, which makes
`NoneMultiplies` inductive when the teacher delivers and falls back. `BatchInv`: what
`Filter` adds is of the current weights, and `Update` empties the batch before the weights
change. `AlwaysFullOnPolicy` is for any number of passes, also without a bound.
`AllAnsweredArchived` says when the attribution by position is right: increasing places
that leave nothing out are the places themselves (`AllPlaces`).

**`RewardRefreshProofs`.** `Ordering` says of the queue of `_topo_from_leaves` what makes it
complete: nodes in the queue have their children in the order, and a node all of whose
children are in the order is in it or in the queue. At the end the least
numbered node left out would have all its children in the order, because a parent has a smaller
number than its child. `CopiesAgree` needs that a record is not in pool and archive at once.
`AlwaysRefreshedAsDefined` is in three parts. That the recursive definitions of the model (leaf
counts, descendants, reference rewards) have solutions: `Recursion`, a lemma about step functions
on a set with a rank, which takes functions where the library's theorems take operators, and
`LineageRecursion` for children. That sums are what they should be: `SumUnfolds` and
`CountUnion`, from which, with `SiblingsApart` (in a forest siblings share no descendant), the leaf
counts summed up level by level are the numbers of leaves. And the invariant `RefreshInv`:
every record has one parent, a node of the order is deeper than its children, and the nodes refreshed
so far have the reward of the reference. As leaf counts are positive, no mean is divided by zero.

**`MultiHeapProofs`.** Of `MultiHeap`: `InPlace` follows from `HeapIndex` alone. For round
robin `RoundsInv` relates attempts, turns and what was taken: in `AlwaysFairTurns` a heap that
still has records was passed over by no turn. `AlwaysServed` is about all four strategies.
Round robin: when the attempts are used up, a heap that still has records has given one in
every round, so nothing is missing (`EndsWhole`). Curriculum: the sampler never draws too many, because the
quotas are shares of a whole, rounded down, and the shares up to a heap have a closed
form (`UpTo`) that ends at the whole (`SharesAddUp`); this is arithmetic for any number of
heaps, any training step and any rounding that the model allows. Here the code's division
by `total_training_steps` is an assumption, `StepsAssumption`.
Of `Slime`: `SlimeInv` says that ids are new, that what is rolled out is in
the index, that what is rolled out or archived is in no pool, and that this holds of each checkpoint.
`AlwaysFiled` is a part of it. `SlimeNeverDry` needs the rest: a pool that has run empty is reseeded before it
is asked, and what it then gives was in no group of the rollout.

**`PrioritizedPoolProofs`.** The invariant is the types, `InStep` and `Resuming` (while a checkpoint is
loaded, the rates are of its records, those added and those still to add), and carries `InStep` through
evictions, promotions, second deliveries and restarts. `OnlyPromotionGrows` then needs that an eviction
makes room: that the victim is in the pool. `AlwaysResumeKeepsScored` rests on `ComingBack`: while the
records of a pool within its bound are added again, there is room for the next, so nothing is evicted
and no rate goes.

Only model-checked: everything temporal that needs fairness (`Terminates`,
`ShutdownCompletes`, `TeacherEnds`, `QueuedIsTaken`, `Ends`), which is out of the
prover's reach. Every invariant and action property that a passing run checks has a theorem.

## Abstractions

* Tokens, texts, prompts and tensors are absent; validation of a record is a choice.
* Rewards are integers; only their order matters to the pool. `RewardRefresh` computes
  refreshed rewards; elsewhere a record may come back with any.
* One call to the teacher model is one step to an answer or a failure; the retries
  and back-off inside it are not visible to anyone else.
* Random choices of the sampler, and ties in the heaps where they are not
  `TwinHeap`'s subject, are nondeterministic.
* The distributed side of checkpointing (ranks, shards, deletion of old
  checkpoints) is one write that a crash may tear.
* Training that ends because the epochs are used up is not modelled; it saves once
  more and stops.

## Not modelled

* The tensor validation and the record conversions (`DataProto`, tokenizing): no control that a
  property tells apart; a record that fails is a choice where the pool validates it.
* The trainer without dynamic data or without group filter, its validation runs, and the
  numerical update.
* The rest of the multi-heap and prioritized files, which repeats the HeaPA trainer, and the earlier
  trainers, which are older forms of it. The curriculum sampler divides by
  `total_training_steps`; a configuration that leaves it empty is not modelled.
* Loggers, metrics and their lost increments: nothing reads them back.
* verl: the framework under the trainer, most of the repository's lines. Only its checkpoint
  code meets the components above.

## Next

1. Copies of a record in `QueryPool` (what the fallback produces), and
   `TeacherPipeline` over `QueryPool` rather than over a bounded set.
2. Proofs: those of the extended pool, and `TeacherPipeline` over `BoundedPool`.
