---------------------------- MODULE PrioritizedPool ----------------------------
(***************************************************************************)
(* PrioritizedQueryPool, the pool of the prioritized-sampling baseline,    *)
(* between the trainer and the teacher's thread, and through a restart.    *)
(*                                                                         *)
(* A record is unscored, in the cold queue, or scored, with a success      *)
(* rate: the mean of its rewards since it came in.  A sample takes the     *)
(* cold records out and leaves the scored ones in, so while a batch is     *)
(* rolled out the teacher's records may evict a part of it; its new rates  *)
(* bring it back.  Records of the teacher that do not make the pool grow   *)
(* come a second time, through the trainer's inbox and with a reward: one  *)
(* id may then be in the queue and among the scored records at once.       *)
(*                                                                         *)
(* Rewards are normalized: 0 .. Scale stands for the interval from 0 to 1. *)
(***************************************************************************)
EXTENDS Integers, Sequences, FiniteSets, FiniteSetsExt, SequencesExt

CONSTANTS
  Record,    \* the records of the run
  Seed,      \* the ones it starts with
  MaxSize,   \* _max_size
  Want,      \* train_batch_size
  Scale,     \* the normalized reward 1
  MaxItems,  \* bound on the records the teacher adds at once
  MaxCount,  \* bound on the rewards a record gets
  None       \* nobody evicted; no checkpoint being loaded

ASSUME RecordAssumption == IsFiniteSet(Record) /\ Seed \subseteq Record /\ None \notin Record
ASSUME SizeAssumption == MaxSize \in Nat \ {0} /\ Want \in Nat \ {0} /\ Scale \in Nat /\ Cardinality(Seed) <= MaxSize

VARIABLES
  records,    \* the ids of _records
  rates,      \* _success_rates with _sample_counts: the sum and number of rewards
  cold,       \* _cold_queue
  coldIndex,  \* the ids of _cold_index
  reward,     \* the latest reward of each record in the pool
  known,      \* the records that exist
  index,      \* the ids of the trainer's _record_index
  archive,    \* _trained_archive: ids with their rewards
  phase,      \* where the trainer is; "resume" while it loads its checkpoint
  flight,     \* the sampled records
  scored,     \* those that got a reward
  teacher,    \* the teacher's thread: where it is, its batch, the size it read before
  inbox,      \* _annotated_inbox
  packets,    \* what the trainer drained from it and still has to add
  items,      \* what the add_many that holds the lock still has to add
  saved       \* while a run resumes: the checkpoint

pool == <<records, rates, cold, coldIndex>>
trainer == <<reward, known, index, archive, phase, flight, scored>>
mail == <<teacher, inbox, packets>>
vars == <<pool, trainer, mail, items, saved>>

Size == Cardinality(records) + Len(cold)
Elements(s) == {s[i] : i \in 1 .. Len(s)}
Entry == [id : Record, scored : BOOLEAN, value : 0 .. Scale]
Unscored(list) == [i \in DOMAIN list |-> [id |-> list[i], scored |-> FALSE, value |-> 0]]
Scored(list, values) ==
  [i \in DOMAIN list |-> [id |-> list[i], scored |-> TRUE, value |-> values[list[i]]]]
NoRates == [r \in {} |-> r]
Idle == [at |-> "idle", batch |-> <<>>, before |-> 0]

Init ==
  /\ records = {} /\ rates = NoRates
  /\ cold \in SetToSeqs(Seed) /\ coldIndex = Seed
  /\ reward = [r \in Record |-> 0]
  /\ known = Seed /\ index = Seed /\ archive = NoRates
  /\ phase = "drain" /\ flight = <<>> /\ scored = {}
  /\ teacher = Idle /\ inbox = <<>> /\ packets = <<>>
  /\ items = <<>> /\ saved = None

-----------------------------------------------------------------------------
(* A rate is the sum of the rewards over their number; a record that came  *)
(* with a reward has that for a rate, and the number 0.                    *)
Number(r) == IF rates[r].count = 0 THEN 1 ELSE rates[r].count
AsEasy(r, s) == rates[r].sum * Number(s) >= rates[s].sum * Number(r)

(* _evict_one_unlocked: a record with the highest success rate, or, when   *)
(* there is no rate, the first cold one.                                   *)
Victims ==
  IF rates # NoRates THEN {r \in DOMAIN rates : \A s \in DOMAIN rates : AsEasy(r, s)}
  ELSE IF cold # <<>> THEN {Head(cold)} ELSE {None}

(* Slip: one record more than the bound.                                   *)
Full_OneMore(r) == r \notin records /\ Size > MaxSize

(* The capacity is checked for a record that is not scored yet, even if it *)
(* turns out to be in the cold queue and is not added.                     *)
Full(r) == r \notin records /\ Size >= MaxSize

(* Slip: the rate of the evicted record stays.                             *)
RatesWithout_Kept(r) == rates

RatesWithout(r) == [s \in DOMAIN rates \ {r} |-> rates[s]]

(* Slip: a record that comes in gets a new rate.                           *)
RatesWith_Afresh(now, r, value) ==
  [s \in DOMAIN now \cup {r} |-> IF s # r THEN now[s] ELSE [sum |-> value, count |-> 0]]

(* A rate that was loaded from a checkpoint is not overwritten.            *)
RatesWith(now, r, value) ==
  [s \in DOMAIN now \cup {r} |-> IF s \in DOMAIN now THEN now[s] ELSE [sum |-> value, count |-> 0]]

(* What an item does after the eviction of a victim, if any: with a reward *)
(* it becomes, or replaces, a scored record; without one it is queued      *)
(* unless it is there.                                                     *)
Add(item, victim) ==
  LET r == item.id
      fromCold == rates = NoRates /\ victim # None
      kept == records \ {victim}
      left == RatesWithout(victim)
      queue == IF fromCold THEN Tail(cold) ELSE cold
      queued == IF fromCold THEN coldIndex \ {victim} ELSE coldIndex
      isNew == r \notin kept /\ r \notin queued
  IN /\ index' = IF fromCold \/ victim \in records THEN index \ {victim} ELSE index
     /\ \/ /\ item.scored
           /\ records' = kept \cup {r}
           /\ rates' = IF r \in kept THEN left ELSE RatesWith(left, r, item.value)
           /\ reward' = [reward EXCEPT ![r] = item.value]
           /\ cold' = queue /\ coldIndex' = queued
        \/ /\ ~item.scored
           /\ records' = kept /\ rates' = left /\ UNCHANGED reward
           /\ cold' = IF isNew THEN Append(queue, r) ELSE queue
           /\ coldIndex' = IF isNew THEN queued \cup {r} ELSE queued

(* One turn of add_many.  Its lock is held until all items are added.      *)
AddItem ==
  /\ items # <<>>
  /\ LET item == Head(items)
     IN \E victim \in IF Full(item.id) THEN Victims ELSE {None} : Add(item, victim)
  /\ items' = Tail(items)
  /\ UNCHANGED <<known, archive, phase, flight, scored, mail, saved>>

Free == items = <<>> /\ phase # "resume"

-----------------------------------------------------------------------------
(* The teacher registers new records, and looks at the size of the pool,   *)
(* adds them, without a reward, and looks again.  If the pool has not      *)
(* grown, or something failed, it also leaves them in the trainer's inbox. *)
TeacherBegins ==
  /\ Free /\ teacher.at = "idle"
  /\ \E new \in SUBSET (Record \ known) :
       /\ Cardinality(new) \in 1 .. MaxItems
       /\ \E list \in SetToSeqs(new) :
            teacher' = [at |-> "add", batch |-> list, before |-> Size]
       /\ known' = known \cup new
       /\ index' = index \cup new
  /\ UNCHANGED <<pool, reward, archive, phase, flight, scored, inbox, packets, items, saved>>

TeacherAdds ==
  /\ Free /\ teacher.at = "add"
  /\ \/ items' = Unscored(teacher.batch) /\ teacher' = [teacher EXCEPT !.at = "check"]
     \/ UNCHANGED items /\ teacher' = [teacher EXCEPT !.at = "submit"]
  /\ UNCHANGED <<pool, trainer, inbox, packets, saved>>

TeacherChecks ==
  /\ Free /\ teacher.at = "check"
  /\ teacher' = IF Size > teacher.before THEN Idle ELSE [teacher EXCEPT !.at = "submit"]
  /\ UNCHANGED <<pool, trainer, inbox, packets, items, saved>>

SubmitTeacherBatch ==
  /\ phase # "resume" /\ teacher.at = "submit"
  /\ inbox' = Append(inbox, teacher.batch)
  /\ teacher' = Idle
  /\ UNCHANGED <<pool, trainer, packets, items, saved>>

(* The trainer empties the inbox, and adds the packets, with the rewards   *)
(* that were estimated for their records ...                               *)
Drain ==
  /\ phase = "drain"
  /\ phase' = "check"
  /\ packets' = inbox /\ inbox' = <<>>
  /\ UNCHANGED <<pool, reward, known, index, archive, flight, scored, teacher, items, saved>>

AddPacket ==
  /\ Free /\ phase = "check" /\ packets # <<>>
  /\ index' = index \cup Elements(Head(packets))
  /\ \E values \in [Elements(Head(packets)) -> 0 .. Scale] : items' = Scored(Head(packets), values)
  /\ packets' = Tail(packets)
  /\ UNCHANGED <<pool, reward, known, archive, phase, flight, scored, teacher, inbox, saved>>

(* ... recycles the archive when the pool is too small for a batch ...     *)
CheckSize ==
  /\ Free /\ phase = "check" /\ packets = <<>>
  /\ phase' = IF Size < Want THEN "recycle" ELSE "draw"
  /\ UNCHANGED <<pool, reward, known, index, archive, flight, scored, mail, items, saved>>

Recycle ==
  /\ Free /\ phase = "recycle"
  /\ phase' = "draw"
  /\ \E list \in SetToSeqs(DOMAIN archive) : items' = Scored(list, archive)
  /\ archive' = NoRates
  /\ UNCHANGED <<pool, reward, known, index, flight, scored, mail, saved>>

(* ... samples: cold records, which leave the pool, then scored ones,      *)
(* which stay; every one of them may be drawn ...                          *)
SampleBatch ==
  /\ Free /\ phase = "draw" /\ Size > 0
  /\ phase' = "rollout"
  /\ LET n == IF Len(cold) < Want THEN Len(cold) ELSE Want
         more == IF Want - n < Cardinality(records) THEN Want - n ELSE Cardinality(records)
     IN /\ cold' = SubSeq(cold, n + 1, Len(cold))
        /\ coldIndex' = coldIndex \ Elements(SubSeq(cold, 1, n))
        /\ \E drawn \in SUBSET records :
             /\ Cardinality(drawn) = more
             /\ \E s \in SetToSeqs(drawn) : flight' = SubSeq(cold, 1, n) \o s
  /\ UNCHANGED <<records, rates, reward, known, index, archive, scored, mail, items, saved>>

NothingSampled ==
  /\ Free /\ phase = "draw" /\ Size = 0
  /\ phase' = "drain"
  /\ UNCHANGED <<pool, reward, known, index, archive, flight, scored, mail, items, saved>>

(* ... rolls out, and updates the success rates, one place of the batch    *)
(* after the other.  When trajectories are dropped, the records at the end *)
(* of the batch get no reward.  A record that is not in the pool is        *)
(* promoted, at whatever size.                                             *)
Places(r, n) == {i \in 1 .. n : flight[i] = r}

Updated(r, n, values) ==
  LET fresh == r \notin records \/ rates[r].count = 0
  IN [sum |-> MapThenSumSet(LAMBDA i : values[i], Places(r, n)) + IF fresh THEN 0 ELSE rates[r].sum,
      count |-> Cardinality(Places(r, n)) + IF fresh THEN 0 ELSE rates[r].count]

UpdateRates ==
  /\ Free /\ phase = "rollout"
  /\ phase' = "archive"
  /\ \E n \in 0 .. Len(flight) : \E values \in [1 .. n -> 0 .. Scale] :
       /\ scored' = Elements(SubSeq(flight, 1, n))
       /\ \A r \in scored' : Updated(r, n, values).count <= MaxCount
       /\ reward' = [r \in Record |->
                       IF r \in scored' THEN values[Max(Places(r, n))] ELSE reward[r]]
       /\ records' = records \cup scored'
       /\ rates' = [r \in DOMAIN rates \cup scored' |->
                      IF r \in scored' THEN Updated(r, n, values) ELSE rates[r]]
  /\ flight' = <<>>
  /\ UNCHANGED <<cold, coldIndex, known, index, archive, mail, items, saved>>

(* ... and archives the scored records, with the index brought up to date. *)
Archive ==
  /\ phase = "archive"
  /\ phase' = "drain"
  /\ archive' = [r \in DOMAIN archive \cup scored |->
                   IF r \in scored THEN reward[r] ELSE archive[r]]
  /\ index' = index \cup scored
  /\ scored' = {}
  /\ UNCHANGED <<pool, reward, known, flight, mail, items, saved>>

-----------------------------------------------------------------------------
(* A run that resumes from its checkpoint: it restores the cold index and  *)
(* the rates, and then adds all records.  The inbox is in the checkpoint,  *)
(* what the teacher is working on is not.  (A checkpoint that is older     *)
(* than the crash is the state of an earlier moment of the run.)           *)
Restart ==
  /\ Free /\ phase = "drain"
  /\ phase' = "resume"
  /\ saved' = [records |-> records, rates |-> rates, cold |-> cold, index |-> index]
  /\ records' = {} /\ cold' = <<>> /\ index' = {}
  /\ coldIndex' = IF coldIndex # {} THEN coldIndex ELSE Elements(cold)
  /\ \E list \in SetToSeqs(records) : items' = Scored(list, reward) \o Unscored(cold)
  /\ teacher' = Idle
  /\ UNCHANGED <<rates, reward, known, archive, flight, scored, inbox, packets>>

Resumed ==
  /\ phase = "resume" /\ items = <<>>
  /\ phase' = "drain"
  /\ index' = saved.index
  /\ saved' = None
  /\ UNCHANGED <<pool, reward, known, archive, flight, scored, mail, items>>

Next ==
  \/ AddItem
  \/ TeacherBegins \/ TeacherAdds \/ TeacherChecks \/ SubmitTeacherBatch
  \/ Drain \/ AddPacket \/ CheckSize \/ Recycle \/ SampleBatch \/ NothingSampled
  \/ UpdateRates \/ Archive \/ Restart \/ Resumed

Spec == Init /\ [][Next]_vars

-----------------------------------------------------------------------------
(* Whatever comes in, is evicted, promoted or restored in whatever order,  *)
(* also as a second copy of an id: the records that have a rate are just   *)
(* the scored ones -- an eviction that took a rate without a record would  *)
(* not make room, and an update that found a record without a rate would   *)
(* fail -- and an id is once in the queue, as its index says.              *)
InStep ==
  /\ phase # "resume" => DOMAIN rates = records
  /\ \A i, j \in 1 .. Len(cold) : cold[i] = cold[j] => i = j
  /\ Elements(cold) \subseteq coldIndex

(* Adding, also of records that are there already, does not take the pool  *)
(* past its bound, and not further when it is past it: only the update of  *)
(* the rates does that, with records that were evicted meanwhile or were   *)
(* drawn from the queue.                                                   *)
GrowsByPromotion ==
  [][phase # "resume" /\ Cardinality(records') + Len(cold') > Size
       => Cardinality(records') + Len(cold') <= MaxSize \/ UpdateRates]_vars

(* A run that resumes has the scored records of its checkpoint, each with  *)
(* its rate, unless the pool was past its bound.  (The unscored ones it    *)
(* does not have: they are in the restored index, and so are not queued.)  *)
ResumeKeepsScored ==
  [][Resumed /\ Cardinality(saved.records) + Len(saved.cold) <= MaxSize
       => records = saved.records /\ rates = saved.rates]_vars
=============================================================================
