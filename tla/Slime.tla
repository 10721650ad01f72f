--------------------------------- MODULE Slime ---------------------------------
(***************************************************************************)
(* The port to slime: HeaPADataSource with its pool, its teacher and the   *)
(* rollout function, through restarts.  Only the rollout uses the pool:    *)
(* the teacher's threads share its queue and the inbox with it, no more.   *)
(*                                                                         *)
(* A record is its id; ids are drawn in order.  Prompts, answers and       *)
(* rewards are left out: they decide whether a group is archived, sent to  *)
(* the teacher or dropped, and here any of that may happen.                *)
(***************************************************************************)
EXTENDS Sequences, PoolOps

CONSTANTS
  Seeds,       \* the number of seed records
  MaxPoolSize, \* _max_size
  Threshold,   \* _reseed_threshold
  Want,        \* the groups a rollout asks for at once
  Batch,       \* the groups a rollout needs
  MaxQueue,    \* the size of the teacher's queue
  MaxInbox,    \* the maxlen of _teacher_inbox
  IndexLimit,  \* the size at which _record_index is cleaned
  MaxIds,      \* bound on the records of a behaviour
  MaxFiles     \* bound on the checkpoints

ASSUME SlimeAssumption ==
  /\ {Seeds, MaxPoolSize, Threshold, Want, Batch, MaxQueue, MaxInbox} \subseteq Nat \ {0}
  /\ IndexLimit \in Nat /\ MaxFiles \in Nat /\ MaxIds \in Nat /\ MaxIds >= Seeds

VARIABLES
  asks,      \* the rollout asks for groups
  pool,      \* the ids of _cold_queue, in order, and of the two heaps
  index,     \* _record_index
  archive,   \* _trained_archive
  flight,    \* the groups that are generated
  done,      \* the groups that are complete and passed the dynamic filter
  queue,     \* the number of texts in the teacher's queue ...
  calls,     \* ... and with its executor
  inbox,     \* the number of answers in _teacher_inbox
  nextId,    \* the next record's id
  files,     \* the checkpoints that are whole
  saving     \* save is writing one

slimeVars == <<asks, pool, index, archive, flight, done, queue, calls, inbox, nextId, files, saving>>

Elements(s) == {s[i] : i \in 1 .. Len(s)}
Fresh(n) == [i \in 1 .. n |-> nextId + i - 1]
PoolSize == Len(pool.cold) + Cardinality(pool.heaps)

First(s, n) == SubSeq(s, 1, AtMost(n, Len(s)))
But(s, n) == SubSeq(s, AtMost(n, Len(s)) + 1, Len(s))

-----------------------------------------------------------------------------
(* add_many of records without a reward: they join the cold queue; then    *)
(* scored records are evicted, and only then the oldest of the queue.      *)
AddRecords(p, new) ==
  LET both == p.cold \o new
      room == IF Len(both) < MaxPoolSize THEN MaxPoolSize - Len(both) ELSE 0
  IN IF new = <<>> THEN {p}
     ELSE {[cold |-> IF Len(both) > MaxPoolSize THEN But(both, Len(both) - MaxPoolSize) ELSE both, heaps |-> kept]
             : kept \in {k \in SUBSET p.heaps : Cardinality(k) = AtMost(room, Cardinality(p.heaps))}}

(* __init__ of the data source: the pool holds the seeds.                  *)
Seeded(new) == AddRecords([cold |-> <<>>, heaps |-> {}], new)

SlimeInit ==
  /\ asks = FALSE
  /\ nextId = Seeds + 1
  /\ pool \in Seeded([i \in 1 .. Seeds |-> i])
  /\ index = {} /\ archive = {} /\ flight = {} /\ done = {}
  /\ queue = 0 /\ calls = 0 /\ inbox = 0
  /\ files = {} /\ saving = FALSE

-----------------------------------------------------------------------------
(* Slip: the seeds are no candidates.                                      *)
Candidates_ArchiveOnly == Cardinality(archive)

(* _reseed_pool: copies, with ids of their own, of archived records, and   *)
(* of the seeds while few are archived.                                    *)
Candidates == Cardinality(archive) + (IF Cardinality(archive) < Threshold THEN Seeds ELSE 0)
Reseeded == IF PoolSize < Threshold THEN Fresh(AtMost(Candidates, 2 * Threshold)) ELSE <<>>

(* The index is cleaned when it has grown: it keeps what is in the pool.    *)
Cleaned(p) ==
  IF Cardinality(index) > IndexLimit THEN index \cap (Elements(p.cold) \cup p.heaps) ELSE index

(* Slip: it is cleaned where it grows.                                     *)
Registered_Cleaned(sampled) == Cleaned(pool) \cup sampled

(* get_samples registers its records, for the update of their rewards.     *)
Registered(sampled) == index \cup sampled

(* generate_rollout_async, slime's: it asks for groups until it has enough *)
(* that are complete.                                                      *)
Ask ==
  /\ ~asks /\ ~saving /\ Cardinality(done) < Batch
  /\ asks' = TRUE
  /\ UNCHANGED <<pool, index, archive, flight, done, queue, calls, inbox, nextId, files, saving>>

(* get_samples: sampled cold records leave the pool, whatever the comment  *)
(* of sample_batch says.  What is wanted beyond them comes from the heaps; *)
(* the easy ones leave these.                                              *)
GetSamples ==
  /\ asks /\ asks' = FALSE
  /\ nextId + Len(Reseeded) <= MaxIds + 1
  /\ \E p \in AddRecords(pool, Reseeded), scored \in SUBSET pool.heaps, easy \in SUBSET pool.heaps :
       /\ scored \subseteq p.heaps /\ easy \subseteq scored
       /\ Cardinality(scored) <= Want - Len(First(p.cold, Want))
       /\ pool' = [cold |-> But(p.cold, Want), heaps |-> p.heaps \ easy]
       /\ LET sampled == Elements(First(p.cold, Want)) \cup scored
          IN index' = Registered(sampled) /\ flight' = flight \cup sampled
  /\ nextId' = nextId + Len(Reseeded)
  /\ UNCHANGED <<archive, done, queue, calls, inbox, files, saving>>

(* A group is complete: it is kept, or dropped by the dynamic filter when  *)
(* its rewards are all the same.                                           *)
Complete(r) ==
  /\ ~asks /\ Cardinality(done) < Batch
  /\ flight' = flight \ {r}
  /\ done' \in {done, done \cup {r}}
  /\ UNCHANGED <<asks, pool, index, archive, queue, calls, inbox, nextId, files, saving>>

-----------------------------------------------------------------------------
(* A sequence without some of its elements, in its order.                  *)
Without(s, some) ==
  LET kept == {i \in 1 .. Len(s) : s[i] \notin some}
      At(place) == CHOOSE i \in kept : Cardinality({j \in kept : j <= i}) = place
  IN [place \in 1 .. Cardinality(kept) |-> s[At(place)]]

(* update_reward: a record that is in the cold queue moves to the heaps.   *)
Scored(p, some) ==
  [cold |-> Without(p.cold, some), heaps |-> p.heaps \cup (Elements(p.cold) \cap some)]

(* The rest of generate_rollout.  process_scored_samples archives the      *)
(* groups that have a reward, hands some to the teacher while its queue    *)
(* takes them, adds the teacher's answers to the pool and cleans the       *)
(* index; an exception may end it early, and is only logged.  The groups   *)
(* that were aborted, if slime returns them, come back as new records.     *)
EndRollout ==
  /\ Cardinality(done) = Batch
  /\ \E some \in SUBSET done, ended \in BOOLEAN, new \in 0 .. inbox, back \in {0, Cardinality(flight)} :
       LET found == some \cap index
           answers == IF ended THEN Fresh(new) ELSE <<>>
           aborted == [i \in 1 .. back |-> nextId + Len(answers) + i - 1]
       IN /\ nextId + Len(answers) + back <= MaxIds + 1
          /\ nextId' = nextId + Len(answers) + back
          /\ archive' = archive \cup found
          /\ \E n \in 0 .. Cardinality(found) : queue' = AtMost(queue + n, MaxQueue)
          /\ inbox' = IF ended THEN 0 ELSE inbox
          /\ \E p \in AddRecords(Scored(pool, some), answers) :
               /\ index' = IF ended THEN Cleaned(p) ELSE index
               /\ pool' \in AddRecords(p, aborted)
  /\ flight' = {} /\ done' = {}
  /\ UNCHANGED <<asks, calls, files, saving>>

-----------------------------------------------------------------------------
(* SlimeTeacherAnnotator: its thread hands texts to the executor; a worker *)
(* delivers an answer, or discards it.  A full inbox drops the oldest.     *)
Submit ==
  /\ queue > 0
  /\ queue' = queue - 1 /\ calls' = calls + 1
  /\ UNCHANGED <<asks, pool, index, archive, flight, done, inbox, nextId, files, saving>>

Answer ==
  /\ calls > 0
  /\ calls' = calls - 1
  /\ inbox' \in {inbox, AtMost(inbox + 1, MaxInbox)}
  /\ UNCHANGED <<asks, pool, index, archive, flight, done, queue, nextId, files, saving>>

-----------------------------------------------------------------------------
(* save, between two rollouts: torch.save opens the file, another one or   *)
(* one of an earlier run, which it truncates, and writes it.               *)
Save ==
  /\ ~asks /\ ~saving /\ flight = {} /\ done = {}
  /\ saving' = TRUE
  /\ files' \in {files} \cup {files \ {f} : f \in files}
  /\ Cardinality(files') < MaxFiles
  /\ UNCHANGED <<asks, pool, index, archive, flight, done, queue, calls, inbox, nextId>>

Saved ==
  /\ saving /\ saving' = FALSE
  /\ files' = files \cup {[pool |-> pool, archive |-> archive]}
  /\ UNCHANGED <<asks, pool, index, archive, flight, done, queue, calls, inbox, nextId>>

(* A crash, and load, of the checkpoint that slime names or of the file    *)
(* with the greatest name; without a file, the run starts afresh.  On a    *)
(* file that a crash left half written load raises: such a restart is no   *)
(* step, and only one from another file, or afresh, goes on.               *)
Restart ==
  /\ \/ \E f \in files : pool' = f.pool /\ archive' = f.archive /\ nextId' = nextId
     \/ /\ nextId + Seeds <= MaxIds + 1
        /\ nextId' = nextId + Seeds
        /\ pool' \in Seeded(Fresh(Seeds)) /\ archive' = {}
  /\ asks' = FALSE /\ saving' = FALSE /\ index' = {} /\ flight' = {} /\ done' = {}
  /\ queue' = 0 /\ calls' = 0 /\ inbox' = 0
  /\ UNCHANGED files

SlimeNext ==
  \/ Ask \/ GetSamples \/ EndRollout \/ Submit \/ Answer \/ Save \/ Saved \/ Restart
  \/ \E r \in flight : Complete(r)

SlimeSpec == SlimeInit /\ [][SlimeNext]_slimeVars

-----------------------------------------------------------------------------
(* Every group of the rollout, generated or complete, has its record in    *)
(* the index, where process_scored_samples looks it up to archive it with  *)
(* its reward.  The pool no longer has it: a cleaning of the index at any  *)
(* other moment, or an end of the rollout that leaves groups behind, would *)
(* lose rewards.                                                           *)
Filed == flight \cup done \subseteq index

(* A rollout that asks for groups gets some, however many the filter or an *)
(* exception lost before: the pool is reseeded in time.                    *)
NeverDry == [][GetSamples => flight' # flight]_slimeVars
=============================================================================
