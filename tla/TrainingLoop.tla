----------------------------- MODULE TrainingLoop -----------------------------
(***************************************************************************)
(* The loop of RayDAPOTrainer.fit() on the dynamic pool, one pass after    *)
(* the other: sample, generate rollouts, score them, archive the sampled   *)
(* queries with their average rewards, keep the groups whose rewards vary, *)
(* and update the policy once enough groups are together.  A pass that     *)
(* does not get there is followed by another one of the same step.         *)
(*                                                                         *)
(* The rollouts of one query are one group.  The average reward of a group *)
(* is named by the query whose rollouts gave it.  The pool is large enough *)
(* (QueryPool has a full one), dynamic sampling and filter_groups are on,  *)
(* a query has more than one rollout, and every query of the pool has      *)
(* passed the validation at its gate, so no later validation rejects it.   *)
(*                                                                         *)
(* A generated query may be two records of one id: the teacher's thread    *)
(* adds one to the pool ("now"), and, when the pool does not seem to have  *)
(* grown, leaves the query in the trainer's inbox ("later").  How that     *)
(* comes about is TeacherPipeline's subject; here it may always happen.    *)
(***************************************************************************)
EXTENDS Integers, Sequences, FiniteSets, FiniteSetsExt, SequencesExt

CONSTANTS
  Seed,              \* the queries of the data set
  Augmented,         \* the queries the policy may generate (bound)
  Answered,          \* the queries with a ground truth
  Want,              \* data.train_batch_size
  MaxNumGenBatches,  \* filter_groups.max_num_gen_batches, 0: no bound
  DpSizes,           \* world sizes of the rollout workers
  TotalSteps         \* total_training_steps

Query == Seed \cup Augmented

ASSUME QueryAssumption ==
  /\ IsFiniteSet(Seed) /\ IsFiniteSet(Augmented) /\ Seed \cap Augmented = {}
  /\ Answered \subseteq Query
ASSUME SizeAssumption ==
  /\ Want \in Nat \ {0} /\ TotalSteps \in Nat \ {0} /\ MaxNumGenBatches \in Nat
  /\ DpSizes \subseteq Nat \ {0}

VARIABLES
  phase,        \* where the trainer's thread is
  dpSize,       \* dp_size, fixed for the run
  globalSteps,  \* global_steps
  updates,      \* policy updates so far
  numGen,       \* num_gen_batches
  numPrompt,    \* num_prompt_in_batch
  batch,        \* batch: the groups kept for the update
  groups,       \* new_batch: the queries of the groups of this pass, in order
  hand,         \* sampled_records_for_this_step
  pool,         \* the records in the pool
  archive,      \* _trained_archive: for a query, the record and whose rollouts scored it
  inbox,        \* _annotated_inbox: queries to be added by the trainer
  teacher,      \* generated queries the teacher works on
  falling,      \* those it is about to leave in the inbox
  created       \* the queries generated so far

counters == <<dpSize, globalSteps, updates>>
generated == <<teacher, falling, created>>
vars == <<phase, counters, numGen, numPrompt, batch, groups, hand, pool, archive, inbox,
          generated>>

Record == Query \X {"now", "later"}
Later(queries) == queries \X {"later"}
Group == [query : Query, weights : Nat]

NoRewards == [q \in {} |-> q]
Archived == {<<q, archive[q].way>> : q \in DOMAIN archive}   \* the records in the archive

Init ==
  /\ phase = "sample" /\ dpSize \in DpSizes
  /\ globalSteps = 1 /\ updates = 0 /\ numGen = 0 /\ numPrompt = 0
  /\ batch = <<>> /\ groups = <<>> /\ hand = <<>>
  /\ pool = Seed \X {"now"} /\ archive = NoRewards /\ inbox = {}
  /\ teacher = {} /\ falling = {} /\ created = {}

-----------------------------------------------------------------------------
(* A pass begins with the drain of the inbox.                              *)
Drained == pool \cup Later(inbox)

(* Slip: the archive is not emptied.                                       *)
Recycled_Keeps ==
  IF Cardinality(Drained) < Want
    THEN [pool |-> Drained \cup Archived, archive |-> archive]
    ELSE [pool |-> Drained, archive |-> archive]

(* The archive goes back into a pool that is too small for a batch.        *)
Recycled ==
  IF Cardinality(Drained) < Want
    THEN [pool |-> Drained \cup Archived, archive |-> NoRewards]
    ELSE [pool |-> Drained, archive |-> archive]

(* Any Want records of the pool, or all of them if there are fewer, in any *)
(* order.                                                                  *)
Take(supply) ==
  LET size == IF Cardinality(supply) < Want THEN Cardinality(supply) ELSE Want
  IN \E chosen \in kSubset(size, supply) : hand' \in SetToSeqs(chosen) /\ pool' = supply \ chosen

(* Slip: the generated batches are not counted.                            *)
SampleBatch_Uncounted ==
  /\ phase = "sample" /\ Recycled.pool # {}
  /\ Take(Recycled.pool)
  /\ archive' = Recycled.archive /\ inbox' = {}
  /\ phase' = "generate"
  /\ UNCHANGED <<counters, numGen, numPrompt, batch, groups, generated>>

SampleBatch ==
  /\ phase = "sample" /\ Recycled.pool # {}
  /\ Take(Recycled.pool)
  /\ archive' = Recycled.archive /\ inbox' = {}
  /\ phase' = "generate" /\ numGen' = numGen + 1
  /\ UNCHANGED <<counters, numPrompt, batch, groups, generated>>

(* Nothing to sample: the loop sleeps, and tries again.                    *)
NoRecords == pool = {} /\ Archived = {} /\ inbox = {}

WaitForQueries ==
  /\ phase = "sample" /\ NoRecords
  /\ UNCHANGED vars

-----------------------------------------------------------------------------
(* The batch must be a multiple of dpSize.  One that has less than that is *)
(* skipped, sampled queries and all.  A longer one is trimmed, but only in *)
(* gen_batch: the union with new_batch then fails on unequal sizes.        *)
Divides == Len(hand) % dpSize = 0

SkipPass ==
  /\ phase = "generate" /\ Len(hand) < dpSize
  /\ phase' = "sample" /\ hand' = <<>>
  /\ UNCHANGED <<counters, numGen, numPrompt, batch, groups, pool, archive, inbox, generated>>

Generate ==
  /\ phase = "generate" /\ Divides
  /\ phase' = "score"
  /\ UNCHANGED <<counters, numGen, numPrompt, batch, groups, hand, pool, archive, inbox, generated>>

GenerateFails ==   \* of itself, or in the union with a trimmed batch
  /\ phase = "generate" /\ Len(hand) >= dpSize
  /\ phase' = "aborted"
  /\ UNCHANGED <<counters, numGen, numPrompt, batch, groups, hand, pool, archive, inbox, generated>>

-----------------------------------------------------------------------------
(* A subsequence is named by its places: where its elements are.           *)
Increasing(n) ==
  UNION {{f \in [1 .. m -> 1 .. n] : \A i, j \in 1 .. m : i < j => f[i] < f[j]} : m \in 0 .. n}

At(seq, places) == [i \in DOMAIN places |-> seq[places[i]]]

Asked == [i \in 1 .. Len(hand) |-> hand[i][1]]   \* the queries of the batch

(* The archive is keyed by id: of two records the later one stays.         *)
LastOf(q, n) == Max({i \in 1 .. n : Asked[i] = q})

(* Slip: the groups are counted from the end.                              *)
Attributed_FromEnd(left) ==
  LET n == Min({Len(hand), Len(left)})
      new == {Asked[i] : i \in 1 .. n}
  IN [q \in new \cup DOMAIN archive |->
        IF q \in new THEN [way |-> hand[LastOf(q, n)][2], by |-> left[n + 1 - LastOf(q, n)]]
                     ELSE archive[q]]

(* The i-th sampled record gets the average of the i-th group that is      *)
(* left, as long as there is one.                                          *)
Attributed(left) ==
  LET n == Min({Len(hand), Len(left)})
      new == {Asked[i] : i \in 1 .. n}
  IN [q \in new \cup DOMAIN archive |->
        IF q \in new THEN [way |-> hand[LastOf(q, n)][2], by |-> left[LastOf(q, n)]]
                     ELSE archive[q]]

HasAnswer == {i \in 1 .. Len(hand) : Asked[i] \in Answered}

NothingScored ==   \* the pass ends; what was sampled is not archived
  /\ phase = "score" /\ HasAnswer = {}
  /\ phase' = "sample" /\ hand' = <<>>
  /\ UNCHANGED <<counters, numGen, numPrompt, batch, groups, pool, archive, inbox, generated>>

(* Rollouts of queries without a ground truth are removed, the others are  *)
(* scored and archived.  Then augmentation: new queries may be handed to   *)
(* the teacher, unless the pool has no room or generation fails.           *)
Score ==
  /\ phase = "score" /\ HasAnswer # {}
  /\ phase' = "filter"
  /\ \E places \in Increasing(Len(hand)) :
       /\ {places[i] : i \in DOMAIN places} = HasAnswer
       /\ groups' = At(Asked, places) /\ archive' = Attributed(At(Asked, places))
  /\ hand' = <<>>
  /\ \/ UNCHANGED generated
     \/ \E q \in Augmented \ created :
          teacher' = teacher \cup {q} /\ created' = created \cup {q} /\ UNCHANGED falling
  /\ UNCHANGED <<counters, numGen, numPrompt, batch, pool, inbox>>

-----------------------------------------------------------------------------
(* Groups all of whose rewards are equal are dropped, the others join the  *)
(* batch.  places: where the groups with varied rewards are.               *)
Kept(places) ==
  [i \in DOMAIN places |-> [query |-> At(groups, places)[i], weights |-> updates]]

MoreAllowed == MaxNumGenBatches = 0 \/ numGen < MaxNumGenBatches

Filter ==
  /\ phase = "filter"
  /\ \E places \in Increasing(Len(groups)) :
       LET all == batch \o Kept(places)
       IN /\ numPrompt' = numPrompt + Len(Kept(places))
          /\ IF numPrompt' < Want
               THEN batch' = all /\ phase' = IF MoreAllowed THEN "sample" ELSE "aborted"
               ELSE batch' = SubSeq(all, 1, Want) /\ phase' = "update"
  /\ groups' = <<>>
  /\ UNCHANGED <<counters, numGen, hand, pool, archive, inbox, generated>>

IsLastStep == globalSteps >= TotalSteps

(* Slip: the counters are reset, the batch is not.                         *)
Update_KeepsBatch ==
  /\ phase = "update"
  /\ updates' = updates + 1 /\ numPrompt' = 0 /\ numGen' = 0 /\ UNCHANGED batch
  /\ \/ IsLastStep /\ phase' = "returned" /\ UNCHANGED globalSteps
     \/ ~IsLastStep /\ phase' = "sample" /\ globalSteps' = globalSteps + 1
  /\ UNCHANGED <<dpSize, groups, hand, pool, archive, inbox, generated>>

(* The update of the policy, and the end of the step.                      *)
Update ==
  /\ phase = "update"
  /\ updates' = updates + 1 /\ batch' = <<>> /\ numPrompt' = 0 /\ numGen' = 0
  /\ \/ IsLastStep /\ phase' = "returned" /\ UNCHANGED globalSteps
     \/ ~IsLastStep /\ phase' = "sample" /\ globalSteps' = globalSteps + 1
  /\ UNCHANGED <<dpSize, groups, hand, pool, archive, inbox, generated>>

-----------------------------------------------------------------------------
(* The teacher's thread: a query is added to the pool or not, and left in  *)
(* the inbox or not, in that order.                                        *)
Deliver ==
  /\ \E q \in teacher :
       /\ teacher' = teacher \ {q}
       /\ pool' = pool \cup {<<q, "now">>} \/ UNCHANGED pool
       /\ falling' = falling \cup {q} \/ UNCHANGED falling
  /\ UNCHANGED <<phase, counters, numGen, numPrompt, batch, groups, hand, archive, inbox, created>>

FallBack ==
  /\ \E q \in falling : falling' = falling \ {q} /\ inbox' = inbox \cup {q}
  /\ UNCHANGED <<phase, counters, numGen, numPrompt, batch, groups, hand, pool, archive, teacher,
                 created>>

Over == phase \in {"returned", "aborted"} /\ UNCHANGED vars

TrainerNext ==
  \/ SampleBatch \/ WaitForQueries
  \/ SkipPass \/ Generate \/ GenerateFails
  \/ NothingScored \/ Score \/ Filter \/ Update

Next == TrainerNext \/ Deliver \/ FallBack \/ Over

(* The trainer's thread goes on.  The teacher may never answer.            *)
Spec == Init /\ [][Next]_vars /\ WF_vars(TrainerNext)

-----------------------------------------------------------------------------
InHand == {hand[i] : i \in 1 .. Len(hand)}

(* A record is in one place at a time: the pool, the archive, the batch in *)
(* hand, or on its way in; and the batch in hand has it once.  So passes   *)
(* that are skipped, cut short or repeated, and recycling, never multiply  *)
(* records: there is one of a seed, and of a generated query at most the   *)
(* two that the teacher's thread handed over.                              *)
NoneMultiplies ==
  /\ \A i, j \in 1 .. Len(hand) : hand[i] = hand[j] => i = j
  /\ pool \cap Archived = {} /\ InHand \cap (pool \cup Archived) = {}
  /\ Later(inbox \cup falling) \cap (pool \cup Archived \cup InHand) = {}
  /\ (teacher \X {"now", "later"}) \cap (pool \cup Archived \cup InHand) = {}
  /\ teacher \cap (inbox \cup falling) = {} /\ inbox \cap falling = {}

(* The update is on-policy and full, however many passes it took: the      *)
(* batch only has groups generated by the current weights, it is counted   *)
(* right, and when the policy is updated it has Want groups.               *)
FullOnPolicy ==
  /\ \A i \in 1 .. Len(batch) : batch[i].weights = updates
  /\ phase # "update" => numPrompt = Len(batch)
  /\ phase = "update" => Len(batch) = Want

(* When all sampled queries have an answer each is archived with its own   *)
(* reward, and none is lost, also when two records of one id are sampled.  *)
AnsweredArchived ==
  [][phase = "score" /\ hand' = <<>> /\ Range(Asked) \subseteq Answered
       => \A q \in Range(Asked) : q \in DOMAIN archive' /\ archive'[q].by = q]_vars

(* With a bound on the passes the training ends, or runs out of queries    *)
(* for good: passes that are skipped or that lose their queries cannot go  *)
(* on for ever, although they do not look at the bound.                    *)
Starved == phase = "sample" /\ NoRecords
Ends == <>(phase \in {"returned", "aborted"}) \/ <>[]Starved

(* Said by the comment "Map sampled records -> their avg reward (may skip  *)
(* if a UID got filtered out upstream)": the reward of an archived query   *)
(* is its own.                                                             *)
RewardIsOwn == \A q \in DOMAIN archive : archive[q].by = q
=============================================================================
