--------------------------- MODULE CheckpointResume ---------------------------
(***************************************************************************)
(* Checkpoints of RayDAPOTrainer, and what a restart makes of them.  A     *)
(* checkpoint of step n is two things, written one after the other: the    *)
(* weights (_save_checkpoint), whose last act is to name n in a tracker    *)
(* file, and then the training state (_save_training_state): query pool,   *)
(* archive and inbox.  Each of the three files is opened, which destroys   *)
(* what it held, and then written.  The process may crash between any two  *)
(* steps.  A restart resumes at the step the tracker names and runs it     *)
(* once more; or its configuration directs it elsewhere.                   *)
(*                                                                         *)
(* The teacher's thread goes on while the trainer's thread saves.  What it *)
(* has not delivered yet is in no checkpoint.  A training step is one      *)
(* action here: how the threads meet within it is TeacherPipeline's        *)
(* business.  The pool is large enough (see QueryPool for a full one).     *)
(***************************************************************************)
EXTENDS Integers, FiniteSets

CONSTANTS
  Seed,        \* the records of the data set
  Want,        \* train_batch_size
  Augmented,   \* the augmented records a run may generate (bound)
  TotalSteps,  \* total_training_steps
  SaveFreq,    \* save_freq
  MaxCrashes,  \* bound on the crashes
  Absent,      \* a file that does not exist
  Torn         \* a file a crash or an error left unfinished

ASSUME RecordAssumption == Seed # {} /\ Seed \cap Augmented = {}
ASSUME StepsAssumption == TotalSteps \in Nat \ {0} /\ SaveFreq \in Nat \ {0}
ASSUME BatchAssumption == Want \in Nat \ {0} /\ IsFiniteSet(Seed \cup Augmented)
ASSUME BoundAssumption == MaxCrashes \in Nat
ASSUME FileAssumption == Absent # Torn /\ Absent \notin Nat /\ Torn \notin Nat

VARIABLES
  phase,        \* where the trainer's thread is
  globalSteps,  \* global_steps
  updates,      \* how many steps the weights in memory were trained for
  pool,         \* the records in the query pool
  archive,      \* _trained_archive
  inbox,        \* _annotated_inbox
  queue,        \* augmented records the teacher has in hand
  created,      \* augmented records generated so far
  dropped,      \* records a training step did not archive (for the properties)
  snapshot,     \* what _save_training_state has collected
  weights,      \* on disk, for each step: the updates of its weights
  state,        \* on disk, for each step: its training_state.pt.gz
  tracker,      \* on disk: latest_checkpointed_iteration.txt, 0 if absent
  crashes,      \* crashes so far
  hit,          \* the phase the last crash hit (for the properties)
  directed      \* a restart was told where to start (for the properties)

memory == <<pool, archive, inbox, queue>>
disk == <<weights, state, tracker>>
past == <<crashes, hit, directed>>
vars == <<phase, globalSteps, updates, memory, created, dropped, snapshot, disk, past>>

Step == 1 .. TotalSteps
Record == Seed \cup Augmented

(* A training state: the updates of the weights it was saved with, its     *)
(* records, and (for the properties) those present when its save began.    *)
State == [of : Nat, pool : SUBSET Record, archive : SUBSET Record,
          inbox : SUBSET Augmented, had : SUBSET Record]
NoSnapshot == [of |-> 0, pool |-> {}, archive |-> {}, inbox |-> {}, had |-> {}]

Init ==
  /\ phase = "start" /\ globalSteps = 1 /\ updates = 0
  /\ pool = {} /\ archive = {} /\ inbox = {} /\ queue = {}
  /\ created = {} /\ dropped = {} /\ snapshot = NoSnapshot
  /\ weights = [n \in Step |-> Absent] /\ state = [n \in Step |-> Absent]
  /\ tracker = 0 /\ crashes = 0 /\ hit = "start" /\ directed = FALSE

-----------------------------------------------------------------------------
(* The beginning of fit(): the weights, the step number they are named by, *)
(* and the training state of that step, or else a fresh pool.              *)
FreshPool == pool' = Seed /\ archive' = {} /\ inbox' = {}

(* Slip: the archive is created after it was loaded.                       *)
RestoredPool_NewArchive(saved) ==
  pool' = saved.pool /\ archive' = {} /\ inbox' = saved.inbox

RestoredPool(saved) ==
  pool' = saved.pool /\ archive' = saved.archive /\ inbox' = saved.inbox

Restorable(n) == n > 1 /\ state[n] \notin {Absent, Torn}
Loadable(n) == weights[n] \notin {Absent, Torn}

StartFrom(n) ==
  /\ phase' = "step"
  /\ globalSteps' = n /\ updates' = weights[n]
  /\ \/ Restorable(n) /\ RestoredPool(state[n])
     \/ ~Restorable(n) /\ FreshPool
  /\ UNCHANGED <<queue, created, dropped, snapshot, disk, crashes, hit>>

StartFails ==
  /\ phase' = "stuck"
  /\ UNCHANGED <<globalSteps, updates, memory, created, dropped, snapshot, disk, crashes, hit>>

(* load_checkpoint raises when the weights are not complete.               *)
LoadFrom(n) == (Loadable(n) /\ StartFrom(n)) \/ (~Loadable(n) /\ StartFails)

StartFromScratch ==
  /\ phase' = "step"
  /\ globalSteps' = 1 /\ updates' = 0
  /\ FreshPool
  /\ UNCHANGED <<queue, created, dropped, snapshot, disk, crashes, hit>>

(* resume_mode "auto": no checkpoint is found when the tracker is missing, *)
(* or names a directory that is.                                           *)
NoCheckpoint == tracker = 0 \/ (tracker \in Step /\ weights[tracker] = Absent)

StartFresh ==
  /\ phase = "start" /\ NoCheckpoint
  /\ StartFromScratch
  /\ UNCHANGED directed

Resume ==
  /\ phase = "start" /\ tracker # Torn /\ ~NoCheckpoint
  /\ LoadFrom(tracker)
  /\ UNCHANGED directed

(* "disable" does not look at the disk, and leaves it as it is.            *)
StartDisabled ==
  /\ phase = "start"
  /\ StartFromScratch
  /\ directed' = TRUE

(* "resume_path" reads the tracker as well, and then takes its own path.   *)
ResumePath ==
  /\ phase = "start" /\ tracker # Torn
  /\ \E n \in Step : LoadFrom(n)
  /\ directed' = TRUE

TrackerUnreadable ==   \* int() of an empty file raises
  /\ phase = "start" /\ tracker = Torn
  /\ StartFails
  /\ UNCHANGED directed

(* Someone starts a run that did not start once more.                      *)
Relaunch ==
  /\ phase = "stuck"
  /\ phase' = "start"
  /\ UNCHANGED <<globalSteps, updates, memory, created, dropped, snapshot, disk, past>>

-----------------------------------------------------------------------------
(* A sampled record gets an archive entry, or none: invalid and trimmed    *)
(* records, trajectories without an answer and swallowed exceptions leave  *)
(* fewer rewards than records.                                             *)
ArchiveBatch(kept, batch) ==
  \E lost \in SUBSET batch :
    archive' = kept \cup (batch \ lost) /\ dropped' = dropped \cup lost

(* One pass of the training loop: drain the inbox, recycle the archive     *)
(* when the pool is smaller than a batch, sample, generate, archive, hand  *)
(* new records to the teacher, train.  A pass that ends early is followed  *)
(* by another one of the same step.                                        *)
TrainStep ==
  LET drained == pool \cup inbox
      recycles == Cardinality(drained) < Want
      supply == IF recycles THEN drained \cup archive ELSE drained
      kept == IF recycles THEN {} ELSE archive
  IN /\ phase = "step"
     /\ \/ phase' = "trained" /\ updates' = updates + 1
        \/ UNCHANGED <<phase, updates>>
     /\ \E batch \in SUBSET supply :
          /\ batch # {}
          /\ Cardinality(batch) = Want \/ (batch = supply /\ Cardinality(batch) < Want)
          /\ pool' = supply \ batch /\ ArchiveBatch(kept, batch)
     /\ inbox' = {}
     /\ \/ UNCHANGED <<queue, created>>
        \/ \E r \in Augmented \ created : queue' = queue \cup {r} /\ created' = created \cup {r}
     /\ UNCHANGED <<globalSteps, snapshot, disk, past>>

(* Nothing left to sample: the loop waits for the teacher.                 *)
Wait ==
  /\ phase = "step" /\ pool \cup archive \cup inbox = {}
  /\ UNCHANGED vars

IsLastStep == globalSteps >= TotalSteps

(* Slip: a checkpoint every SaveFreq + 1 steps.                            *)
SaveIsDue_OffByOne == IsLastStep \/ globalSteps % (SaveFreq + 1) = 0
SaveIsDue == IsLastStep \/ globalSteps % SaveFreq = 0

(* Slip: weights that are complete already are not written again.          *)
BeginWeights_Once ==
  /\ phase = "trained" /\ SaveIsDue
  /\ IF ~Loadable(globalSteps)
       THEN phase' = "weights" /\ weights' = [weights EXCEPT ![globalSteps] = Torn]
       ELSE phase' = "tracker" /\ UNCHANGED weights
  /\ UNCHANGED <<globalSteps, updates, memory, created, dropped, snapshot, state, tracker, past>>

(* _save_checkpoint overwrites the files of its step, if there are any,    *)
(* and then the tracker file.                                              *)
BeginWeights ==
  /\ phase = "trained" /\ SaveIsDue
  /\ phase' = "weights"
  /\ weights' = [weights EXCEPT ![globalSteps] = Torn]
  /\ UNCHANGED <<globalSteps, updates, memory, created, dropped, snapshot, state, tracker, past>>

EndWeights ==
  /\ phase = "weights"
  /\ phase' = "tracker"
  /\ weights' = [weights EXCEPT ![globalSteps] = updates]
  /\ UNCHANGED <<globalSteps, updates, memory, created, dropped, snapshot, state, tracker, past>>

(* Slip: the tracker is written while the weights still are.               *)
OpenTracker_Early ==
  /\ phase \in {"weights", "tracker"}
  /\ phase' = "named"
  /\ tracker' = Torn
  /\ UNCHANGED <<globalSteps, updates, memory, created, dropped, snapshot, weights, state, past>>

OpenTracker ==
  /\ phase = "tracker"
  /\ phase' = "named"
  /\ tracker' = Torn
  /\ UNCHANGED <<globalSteps, updates, memory, created, dropped, snapshot, weights, state, past>>

WriteTracker ==
  /\ phase = "named"
  /\ phase' = "collect"
  /\ tracker' = globalSteps
  /\ UNCHANGED <<globalSteps, updates, memory, created, dropped, snapshot, weights, state, past>>

-----------------------------------------------------------------------------
(* _save_training_state: the pool under its lock, then the inbox under its *)
(* lock and the archive, then the file.  An exception, such as the one the *)
(* teacher's thread causes when it registers a record while the index is   *)
(* walked, is logged and swallowed.                                        *)
CollectPool ==
  /\ phase = "collect"
  /\ phase' = "collectRest"
  /\ snapshot' = [NoSnapshot EXCEPT !.of = updates, !.pool = pool,
                                    !.had = pool \cup archive \cup inbox]
  /\ UNCHANGED <<globalSteps, updates, memory, created, dropped, disk, past>>

(* Slip: the inbox is not collected.                                       *)
CollectRest_NoInbox ==
  /\ phase = "collectRest"
  /\ phase' = "open"
  /\ snapshot' = [snapshot EXCEPT !.archive = archive]
  /\ UNCHANGED <<globalSteps, updates, memory, created, dropped, disk, past>>

CollectRest ==
  /\ phase = "collectRest"
  /\ phase' = "open"
  /\ snapshot' = [snapshot EXCEPT !.inbox = inbox, !.archive = archive]
  /\ UNCHANGED <<globalSteps, updates, memory, created, dropped, disk, past>>

BeginState ==
  /\ phase = "open"
  /\ phase' = "write"
  /\ state' = [state EXCEPT ![globalSteps] = Torn]
  /\ UNCHANGED <<globalSteps, updates, memory, created, dropped, snapshot, weights, tracker, past>>

EndState ==
  /\ phase = "write"
  /\ phase' = "saved"
  /\ state' = [state EXCEPT ![globalSteps] = snapshot]
  /\ snapshot' = NoSnapshot
  /\ UNCHANGED <<globalSteps, updates, memory, created, dropped, weights, tracker, past>>

StateFails ==
  /\ phase \in {"collectRest", "open", "write"}
  /\ phase' = "saved"
  /\ snapshot' = NoSnapshot
  /\ UNCHANGED <<globalSteps, updates, memory, created, dropped, disk, past>>

(* The end of the loop body.                                               *)
Advance ==
  /\ phase = "saved" \/ (phase = "trained" /\ ~SaveIsDue)
  /\ \/ IsLastStep /\ phase' = "done" /\ UNCHANGED globalSteps
     \/ ~IsLastStep /\ phase' = "step" /\ globalSteps' = globalSteps + 1
  /\ UNCHANGED <<updates, memory, created, dropped, snapshot, disk, past>>

-----------------------------------------------------------------------------
Up == phase \notin {"start", "stuck", "done"}

(* The teacher's thread delivers a record: to the pool, or to the inbox,   *)
(* or to both when the pool did not seem to grow; or it is not solvable.   *)
Deliver ==
  /\ Up
  /\ \E r \in queue :
       /\ queue' = queue \ {r}
       /\ \E toPool, toInbox \in SUBSET {r} :
            pool' = pool \cup toPool /\ inbox' = inbox \cup toInbox
  /\ UNCHANGED <<phase, globalSteps, updates, archive, created, dropped, snapshot, disk, past>>

(* A crash leaves what is on disk.  (updates and globalSteps stay to be     *)
(* compared with.)                                                         *)
Crash ==
  /\ Up /\ crashes < MaxCrashes
  /\ phase' = "start"
  /\ crashes' = crashes + 1 /\ hit' = phase
  /\ pool' = {} /\ archive' = {} /\ inbox' = {} /\ queue' = {}
  /\ snapshot' = NoSnapshot
  /\ UNCHANGED <<globalSteps, updates, created, dropped, disk, directed>>

Over == phase = "done" /\ UNCHANGED vars

Next ==
  \/ StartFresh \/ Resume \/ StartDisabled \/ ResumePath
  \/ TrackerUnreadable \/ Relaunch
  \/ TrainStep \/ Wait \/ BeginWeights \/ EndWeights \/ OpenTracker \/ WriteTracker
  \/ CollectPool \/ CollectRest \/ BeginState \/ EndState \/ StateFails
  \/ Advance \/ Deliver \/ Crash \/ Over

Spec == Init /\ [][Next]_vars

-----------------------------------------------------------------------------
Phase == {"start", "stuck", "step", "trained", "weights", "tracker", "named", "collect",
          "collectRest", "open", "write", "saved", "done"}

(* Type invariant.                                                         *)
TypeOK ==
  /\ phase \in Phase /\ globalSteps \in Step /\ updates \in Nat
  /\ pool \subseteq Record /\ archive \subseteq Record /\ inbox \subseteq Augmented
  /\ queue \subseteq Augmented /\ created \subseteq Augmented /\ dropped \subseteq Record
  /\ snapshot \in State
  /\ weights \in [Step -> Nat \cup {Absent, Torn}]
  /\ state \in [Step -> State \cup {Absent, Torn}]
  /\ tracker \in 0 .. TotalSteps \cup {Torn}
  /\ crashes \in Nat /\ hit \in Phase /\ directed \in BOOLEAN

(* A crash leaves a run that cannot resume by itself only if it hit the    *)
(* rewriting of the tracker, or of the weights the tracker names, which    *)
(* only a resumed run writes again.  Both files are opened in place, so    *)
(* that there these are real; no other crash, torn file or order of        *)
(* restarts may have this effect.                                          *)
StuckOnlyByRewrite ==
  phase = "stuck" /\ ~directed
    => hit = "named" \/ (hit = "weights" /\ globalSteps = tracker)

(* A crash from which the run does resume by itself costs at most the      *)
(* updates of SaveFreq steps, wherever it hits.                            *)
CrashCost ==
  [][phase = "start" /\ phase' = "step" /\ ~directed' => updates - updates' <= SaveFreq]_vars

(* A training state is never newer than the weights it lies beside,        *)
(* although a resumed run writes both again at the same step: a record     *)
(* that counts as trained was seen by the weights.  (A run that is         *)
(* directed to an earlier step may leave such pairs: it writes weights     *)
(* beside the training state of the run before it.)                        *)
StateNotNewer ==
  ~directed => \A n \in Step :
    state[n] \notin {Absent, Torn} /\ weights[n] # Torn
      => weights[n] \in Nat /\ state[n].of <= weights[n]

(* Saving, crashing and resuming lose no seed: while the trainer runs each *)
(* one that no training step dropped is in the pool or in the archive,     *)
(* whatever mixture of files the run was resumed from, and wherever it was *)
(* directed.                                                               *)
SeedsSurvive == Up => Seed \ dropped \subseteq pool \cup archive

(* Every record that was in the pool, the archive or the inbox when the    *)
(* save began is back when that state is restored, though the teacher's    *)
(* thread went on while the parts were collected one by one.  (The state   *)
(* of step 1 is never restored: Restorable.)                               *)
SavedSurvives ==
  [][phase = "start" /\ phase' = "step" /\ Restorable(globalSteps')
       => state[globalSteps'].had \subseteq pool' \cup archive' \cup inbox']_vars

=============================================================================
