------------------------ MODULE CheckpointResumeProofs ------------------------
(***************************************************************************)
(* What TLAPS proves of CheckpointResume, for any number of steps and      *)
(* crashes: saving and resuming lose no seed and no record that was there  *)
(* when the save began, wherever a restart was directed; and as long as    *)
(* all restarts are automatic, a training state is never newer than the    *)
(* weights beside it, a run is stuck only by a crash that hit the          *)
(* rewriting of the tracker or of what it names, and a crash after which   *)
(* it is not costs at most the updates of SaveFreq steps.                  *)
(***************************************************************************)
EXTENDS CheckpointResume, TLAPS

Complete(file) == file \notin {Absent, Torn}

(* The order of the writes.  A training state is written after the tracker *)
(* named its step, the tracker after the weights were complete; so there   *)
(* is no state ahead of the tracker, and none without weights.             *)
WriteOrder ==
  /\ tracker \in Step => weights[tracker] # Absent
  /\ Up /\ tracker # Torn => tracker <= globalSteps
  /\ phase \in {"collect", "collectRest", "open", "write"} => tracker = globalSteps
  /\ phase \in {"tracker", "named", "collect", "collectRest", "open", "write"}
       => weights[globalSteps] = updates
  /\ \A n \in Step : state[n] # Absent =>
       /\ weights[n] # Absent
       /\ tracker # Torn => n <= tracker
       /\ Up => n <= globalSteps

(* When the tracker, or what it names, is unfinished: while it is written, *)
(* and after a crash that hit just then.                                   *)
Unfinished ==
  /\ phase = "named" => tracker = Torn
  /\ tracker = Torn =>
       phase = "named" \/ (phase \in {"start", "stuck"} /\ hit = "named")
  /\ tracker \in Step /\ weights[tracker] = Torn =>
       /\ globalSteps = tracker
       /\ phase = "weights" \/ (phase \in {"start", "stuck"} /\ hit = "weights")
  /\ phase = "stuck" => tracker = Torn \/ (tracker \in Step /\ weights[tracker] = Torn)

(* The state that a repeated step is about to overwrite is no newer than   *)
(* the weights in memory: they were resumed from the weights beside it.    *)
NotAhead ==
  /\ StateNotNewer
  /\ phase \in {"collectRest", "open", "write"} => snapshot.of = updates
  /\ Up => \A n \in Step : n = globalSteps /\ Complete(state[n]) => state[n].of <= updates

(* The seeds no training step dropped are in memory, in the state being    *)
(* collected, and in every state on disk.                                  *)
SeedsKept ==
  /\ SeedsSurvive
  /\ phase = "collectRest" => Seed \ dropped \subseteq snapshot.pool \cup archive
  /\ phase \in {"open", "write"} => Seed \ dropped \subseteq snapshot.pool \cup snapshot.archive
  /\ \A n \in Step : Complete(state[n]) => Seed \ dropped \subseteq state[n].pool \cup state[n].archive

(* The files belong together as long as no restart was directed elsewhere. *)
InOrder == ~directed => WriteOrder /\ Unfinished /\ NotAhead

IInv == TypeOK /\ InOrder /\ SeedsKept

(* What the parts of the invariant read, opened up for the steps below.    *)
USE DEF Complete, Up, past

(* Nothing is written yet, and nothing is running.                         *)
LEMMA InitInvariant == Init => IInv
<1> SUFFICES ASSUME Init PROVE IInv
  OBVIOUS
<1>1. TypeOK
  <2>1. tracker \in 0 .. TotalSteps BY StepsAssumption DEF Init
  <2>2. snapshot \in State BY DEF Init, State, NoSnapshot
  <2>3. globalSteps \in Step BY StepsAssumption DEF Init, Step
  <2> QED BY <2>1, <2>2, <2>3 DEF Init, TypeOK, Phase
<1>2. WriteOrder BY FileAssumption DEF Init, WriteOrder, Step
<1>3. Unfinished BY FileAssumption DEF Init, Unfinished, Step
<1>4. NotAhead BY DEF Init, NotAhead, StateNotNewer
<1>5. SeedsKept BY DEF Init, SeedsKept, SeedsSurvive
<1> QED BY <1>1, <1>2, <1>3, <1>4, <1>5 DEF IInv, InOrder

(* Starts from scratch.  Without a checkpoint there is no tracker, hence   *)
(* no state on disk; a directed one promises nothing of the files.         *)
LEMMA ScratchInvariant == ASSUME IInv, StartFresh \/ StartDisabled PROVE IInv'
<1> USE DEF IInv, StartFresh, StartDisabled, StartFromScratch, disk
<1>1. TypeOK'
  <2>1. globalSteps' \in Step BY StepsAssumption DEF Step
  <2>2. directed' \in BOOLEAN BY DEF TypeOK
  <2> QED BY <2>1, <2>2 DEF TypeOK, Phase, Record, FreshPool
<1>2. SeedsKept' BY DEF SeedsKept, SeedsSurvive, FreshPool
<1>3. CASE StartFresh /\ ~directed
  <2>1. tracker = 0 BY <1>3 DEF NoCheckpoint, InOrder, WriteOrder
  <2>2. \A n \in Step : state[n] = Absent
    BY <1>3, <2>1, FileAssumption DEF InOrder, WriteOrder, TypeOK, Step
  <2>3. WriteOrder' BY <1>3, <2>1, <2>2, FileAssumption DEF WriteOrder, Step
  <2>4. Unfinished' BY <1>3, <2>1, FileAssumption DEF Unfinished, Step
  <2>5. NotAhead' BY <1>3, <2>2 DEF NotAhead, StateNotNewer
  <2> QED BY <1>1, <1>2, <2>3, <2>4, <2>5 DEF InOrder
<1>4. CASE ~(StartFresh /\ ~directed)
  <2>1. directed' BY <1>4
  <2> QED BY <1>1, <1>2, <2>1 DEF InOrder
<1> QED BY <1>3, <1>4

(* A start from the files of one directory: the seeds are all there.       *)
LEMMA StartFromSeeds == ASSUME IInv, NEW n \in Step, Loadable(n), StartFrom(n)
                        PROVE  SeedsKept'
<1> USE DEF IInv, StartFrom, disk
<1>1. CASE Restorable(n) /\ RestoredPool(state[n])
  BY <1>1 DEF SeedsKept, SeedsSurvive, RestoredPool, Restorable
<1>2. CASE ~Restorable(n) /\ FreshPool
  BY <1>2 DEF SeedsKept, SeedsSurvive, FreshPool
<1> QED BY <1>1, <1>2

LEMMA StartFromType == ASSUME IInv, NEW n \in Step, Loadable(n), StartFrom(n),
                              directed' \in BOOLEAN
                       PROVE  TypeOK'
<1> USE DEF IInv, StartFrom, disk
<1>1. weights[n] \in Nat BY DEF TypeOK, Loadable
<1>2. CASE Restorable(n) /\ RestoredPool(state[n])
  <2>1. state[n] \in State BY <1>2 DEF Restorable, TypeOK
  <2>2. /\ state[n].pool \subseteq Record /\ state[n].archive \subseteq Record
        /\ state[n].inbox \subseteq Augmented
    BY <2>1 DEF State
  <2> QED BY <1>1, <1>2, <2>2 DEF TypeOK, Phase, RestoredPool
<1>3. CASE ~Restorable(n) /\ FreshPool
  BY <1>1, <1>3 DEF TypeOK, Phase, FreshPool, Record
<1> QED BY <1>2, <1>3

(* A start that fails changes nothing.                                     *)
LEMMA StartFailsInvariant ==
  ASSUME IInv, StartFails, phase = "start", directed' \in BOOLEAN,
         ~directed' => /\ ~directed
                       /\ tracker = Torn \/ (tracker \in Step /\ weights[tracker] = Torn)
  PROVE  IInv'
<1> USE DEF IInv, StartFails, memory, disk
<1>1. TypeOK' BY DEF TypeOK, Phase
<1>2. SeedsKept' BY DEF SeedsKept, SeedsSurvive
<1>3. ASSUME ~directed' PROVE WriteOrder' /\ Unfinished' /\ NotAhead'
  <2>1. WriteOrder' BY <1>3 DEF InOrder, WriteOrder
  <2>2. Unfinished' BY <1>3 DEF InOrder, Unfinished
  <2>3. NotAhead' BY <1>3 DEF InOrder, NotAhead, StateNotNewer
  <2> QED BY <2>1, <2>2, <2>3
<1> QED BY <1>1, <1>2, <1>3 DEF InOrder

(* A resume: step, weights and state of one directory.                     *)
LEMMA ResumeInvariant == ASSUME IInv, Resume PROVE IInv'
<1> USE DEF IInv, Resume
<1>1. tracker \in Step BY DEF TypeOK, NoCheckpoint, Step
<1>2. directed' \in BOOLEAN BY DEF TypeOK
<1>3. CASE Loadable(tracker) /\ StartFrom(tracker)
  <2>1. TypeOK' BY <1>1, <1>2, <1>3, StartFromType
  <2>2. SeedsKept' BY <1>1, <1>3, StartFromSeeds
  <2>3. ASSUME ~directed' PROVE WriteOrder' /\ Unfinished' /\ NotAhead'
    <3> USE <1>1, <1>3, <2>3, FileAssumption DEF InOrder, StartFrom, disk, Loadable
    <3>1. tracker \in Nat /\ weights[tracker] \in Nat BY DEF TypeOK, Step
    <3>2. WriteOrder' BY <3>1 DEF WriteOrder
    <3>3. Unfinished' BY <3>1 DEF Unfinished
    <3>4. NotAhead' BY <3>1 DEF NotAhead, StateNotNewer
    <3> QED BY <3>2, <3>3, <3>4
  <2> QED BY <2>1, <2>2, <2>3 DEF InOrder
<1>4. CASE ~Loadable(tracker) /\ StartFails
  <2>1. weights[tracker] = Torn BY <1>1, <1>4 DEF NoCheckpoint, Loadable
  <2> QED BY <1>1, <1>2, <1>4, <2>1, StartFailsInvariant
<1> QED BY <1>3, <1>4 DEF LoadFrom

(* The other starts.                                                       *)
LEMMA DirectedInvariant ==
  ASSUME IInv, ResumePath \/ TrackerUnreadable \/ Relaunch PROVE IInv'
<1> USE DEF IInv
<1>1. CASE ResumePath
  <2>1. PICK n \in Step : LoadFrom(n) BY <1>1 DEF ResumePath
  <2>2. directed' BY <1>1 DEF ResumePath
  <2>3. CASE Loadable(n) /\ StartFrom(n)
    <3>1. TypeOK' BY <2>2, <2>3, StartFromType
    <3>2. SeedsKept' BY <2>3, StartFromSeeds
    <3> QED BY <2>2, <3>1, <3>2 DEF InOrder
  <2>4. CASE ~Loadable(n) /\ StartFails
    BY <1>1, <2>2, <2>4, StartFailsInvariant DEF ResumePath
  <2> QED BY <2>1, <2>3, <2>4 DEF LoadFrom
<1>2. CASE TrackerUnreadable
  <2>1. directed' = directed /\ directed \in BOOLEAN BY <1>2 DEF TrackerUnreadable, TypeOK
  <2> QED BY <1>2, <2>1, StartFailsInvariant DEF TrackerUnreadable
<1>3. CASE Relaunch
  <2> USE <1>3 DEF Relaunch, memory, disk
  <2>1. TypeOK' BY DEF TypeOK, Phase
  <2>2. SeedsKept' BY DEF SeedsKept, SeedsSurvive
  <2>3. ~directed => WriteOrder' BY DEF InOrder, WriteOrder
  <2>4. ~directed => Unfinished' BY DEF InOrder, Unfinished
  <2>5. ~directed => NotAhead' BY DEF InOrder, NotAhead, StateNotNewer
  <2> QED BY <2>1, <2>2, <2>3, <2>4, <2>5 DEF InOrder
<1> QED BY <1>1, <1>2, <1>3

(* A training step moves records between the pool and the archive, and     *)
(* drops some.                                                             *)
LEMMA TrainStepInvariant == ASSUME IInv, TrainStep PROVE IInv'
<1> USE DEF IInv, TrainStep, ArchiveBatch, disk
<1>1. /\ pool \cup inbox \cup archive \subseteq pool' \cup archive' \cup dropped'
      /\ pool' \cup archive' \subseteq pool \cup inbox \cup archive
      /\ dropped \subseteq dropped' /\ dropped' \subseteq Record
      /\ inbox' = {}
  BY DEF TypeOK, Record
<1>2. TypeOK' BY <1>1 DEF TypeOK, Phase, Record
<1>3. ~directed => WriteOrder' BY DEF InOrder, WriteOrder
<1>4. ~directed => Unfinished' BY DEF InOrder, Unfinished
<1>5. ~directed => NotAhead' BY DEF InOrder, NotAhead, StateNotNewer, TypeOK, State
<1>6. SeedsKept' BY <1>1 DEF SeedsKept, SeedsSurvive
<1> QED BY <1>2, <1>3, <1>4, <1>5, <1>6 DEF InOrder

(* The four writes of _save_checkpoint.                                    *)
LEMMA CheckpointInvariant ==
  ASSUME IInv, BeginWeights \/ EndWeights \/ OpenTracker \/ WriteTracker PROVE IInv'
<1> USE DEF IInv, memory
<1>1. CASE BeginWeights
  <2> USE <1>1 DEF BeginWeights
  <2>1. TypeOK' BY DEF TypeOK, Phase
  <2>2. ~directed => WriteOrder' BY FileAssumption DEF InOrder, WriteOrder, TypeOK, Step
  <2>3. ~directed => Unfinished' BY FileAssumption DEF InOrder, Unfinished, WriteOrder, TypeOK, Step
  <2>4. ~directed => NotAhead' BY DEF InOrder, NotAhead, StateNotNewer, TypeOK
  <2>5. SeedsKept' BY DEF SeedsKept, SeedsSurvive
  <2> QED BY <2>1, <2>2, <2>3, <2>4, <2>5 DEF InOrder
<1>2. CASE EndWeights
  <2> USE <1>2 DEF EndWeights
  <2>1. TypeOK' BY DEF TypeOK, Phase
  <2>2. ~directed => WriteOrder' BY FileAssumption DEF InOrder, WriteOrder, TypeOK, Step
  <2>3. ~directed => Unfinished' BY FileAssumption DEF InOrder, Unfinished, WriteOrder, TypeOK, Step
  <2>4. ~directed => NotAhead' BY DEF InOrder, NotAhead, StateNotNewer, TypeOK
  <2>5. SeedsKept' BY DEF SeedsKept, SeedsSurvive
  <2> QED BY <2>1, <2>2, <2>3, <2>4, <2>5 DEF InOrder
<1>3. CASE OpenTracker
  <2> USE <1>3 DEF OpenTracker
  <2>1. TypeOK' BY DEF TypeOK, Phase
  <2>2. ~directed => WriteOrder' BY FileAssumption DEF InOrder, WriteOrder, TypeOK, Step
  <2>3. ~directed => Unfinished' BY FileAssumption DEF InOrder, Unfinished, WriteOrder, TypeOK, Step
  <2>4. ~directed => NotAhead' BY DEF InOrder, NotAhead, StateNotNewer
  <2>5. SeedsKept' BY DEF SeedsKept, SeedsSurvive
  <2> QED BY <2>1, <2>2, <2>3, <2>4, <2>5 DEF InOrder
<1>4. CASE WriteTracker
  <2> USE <1>4 DEF WriteTracker
  <2>1. TypeOK' BY DEF TypeOK, Phase, Step
  <2>2. ~directed => WriteOrder' BY FileAssumption DEF InOrder, WriteOrder, TypeOK, Step
  <2>3. ~directed => Unfinished' BY FileAssumption DEF InOrder, Unfinished, WriteOrder, TypeOK, Step
  <2>4. ~directed => NotAhead' BY DEF InOrder, NotAhead, StateNotNewer
  <2>5. SeedsKept' BY DEF SeedsKept, SeedsSurvive
  <2> QED BY <2>1, <2>2, <2>3, <2>4, <2>5 DEF InOrder
<1> QED BY <1>1, <1>2, <1>3, <1>4

(* Collecting the training state.                                          *)
LEMMA CollectInvariant ==
  ASSUME IInv, CollectPool \/ CollectRest PROVE IInv'
<1> USE DEF IInv, memory, disk
<1>1. CASE CollectPool
  <2> USE <1>1 DEF CollectPool
  <2>1. /\ snapshot'.of = updates /\ snapshot'.pool = pool
        /\ snapshot' \in State
    BY DEF NoSnapshot, State, TypeOK, Record
  <2>2. TypeOK' BY <2>1 DEF TypeOK, Phase
  <2>3. ~directed => WriteOrder' BY DEF InOrder, WriteOrder
  <2>4. ~directed => Unfinished' BY DEF InOrder, Unfinished
  <2>5. ~directed => NotAhead' BY <2>1 DEF InOrder, NotAhead, StateNotNewer
  <2>6. SeedsKept' BY <2>1 DEF SeedsKept, SeedsSurvive
  <2> QED BY <2>2, <2>3, <2>4, <2>5, <2>6 DEF InOrder
<1>2. CASE CollectRest
  <2> USE <1>2 DEF CollectRest
  <2>1. /\ snapshot'.of = snapshot.of /\ snapshot'.pool = snapshot.pool
        /\ snapshot'.archive = archive /\ snapshot' \in State
    BY DEF State, TypeOK, Record
  <2>2. TypeOK' BY <2>1 DEF TypeOK, Phase
  <2>3. ~directed => WriteOrder' BY DEF InOrder, WriteOrder
  <2>4. ~directed => Unfinished' BY DEF InOrder, Unfinished
  <2>5. ~directed => NotAhead' BY <2>1 DEF InOrder, NotAhead, StateNotNewer
  <2>6. SeedsKept' BY <2>1 DEF SeedsKept, SeedsSurvive
  <2> QED BY <2>2, <2>3, <2>4, <2>5, <2>6 DEF InOrder
<1> QED BY <1>1, <1>2

(* Writing it, or failing to.                                              *)
LEMMA WriteStateInvariant ==
  ASSUME IInv, BeginState \/ EndState \/ StateFails PROVE IInv'
<1> USE DEF IInv, memory, disk
<1>1. CASE BeginState
  <2> USE <1>1 DEF BeginState
  <2>1. TypeOK' BY DEF TypeOK, Phase
  <2>2. ~directed => WriteOrder' BY FileAssumption DEF InOrder, WriteOrder, TypeOK, Step
  <2>3. ~directed => Unfinished' BY DEF InOrder, Unfinished
  <2>4. ~directed => NotAhead' BY DEF InOrder, NotAhead, StateNotNewer, TypeOK
  <2>5. SeedsKept' BY DEF SeedsKept, SeedsSurvive, TypeOK
  <2> QED BY <2>1, <2>2, <2>3, <2>4, <2>5 DEF InOrder
<1>2. CASE EndState
  <2> USE <1>2 DEF EndState
  <2>1. NoSnapshot \in State BY DEF NoSnapshot, State
  <2>2. TypeOK' BY <2>1 DEF TypeOK, Phase
  <2>3. ~directed => WriteOrder' BY FileAssumption DEF InOrder, WriteOrder, TypeOK, Step
  <2>4. ~directed => Unfinished' BY DEF InOrder, Unfinished
  <2>5. ~directed => NotAhead' BY DEF InOrder, NotAhead, StateNotNewer, TypeOK, WriteOrder
  <2>6. SeedsKept' BY DEF SeedsKept, SeedsSurvive, TypeOK
  <2> QED BY <2>2, <2>3, <2>4, <2>5, <2>6 DEF InOrder
<1>3. CASE StateFails
  <2> USE <1>3 DEF StateFails
  <2>1. NoSnapshot \in State BY DEF NoSnapshot, State
  <2>2. TypeOK' BY <2>1 DEF TypeOK, Phase
  <2>3. ~directed => WriteOrder' BY DEF InOrder, WriteOrder
  <2>4. ~directed => Unfinished' BY DEF InOrder, Unfinished
  <2>5. ~directed => NotAhead' BY DEF InOrder, NotAhead, StateNotNewer
  <2>6. SeedsKept' BY DEF SeedsKept, SeedsSurvive
  <2> QED BY <2>2, <2>3, <2>4, <2>5, <2>6 DEF InOrder
<1> QED BY <1>1, <1>2, <1>3

(* The next step has no state on disk: there is none past this one.        *)
LEMMA AdvanceInvariant == ASSUME IInv, Advance PROVE IInv'
<1> USE DEF IInv, Advance, memory, disk
<1>1. TypeOK' BY StepsAssumption DEF TypeOK, Phase, Step, IsLastStep
<1>2. ~directed => WriteOrder' BY DEF InOrder, WriteOrder, TypeOK, Step
<1>3. ~directed => Unfinished' BY DEF InOrder, Unfinished
<1>4. ~directed => NotAhead'
  <2>1. CASE phase' = "done" BY <2>1 DEF InOrder, NotAhead, StateNotNewer
  <2>2. CASE ~directed /\ phase' = "step"
    <3>1. globalSteps' = globalSteps + 1 BY <2>2
    <3>2. \A n \in Step : n = globalSteps' => state[n] = Absent
      BY <2>2, <3>1 DEF InOrder, WriteOrder, TypeOK, Step
    <3> QED BY <2>2, <3>1, <3>2 DEF InOrder, NotAhead, StateNotNewer
  <2> QED BY <2>1, <2>2
<1>5. SeedsKept' BY DEF SeedsKept, SeedsSurvive
<1> QED BY <1>1, <1>2, <1>3, <1>4, <1>5 DEF InOrder

(* The teacher's thread only adds records; a crash only takes the memory;  *)
(* and nothing happens when the run is over.                               *)
LEMMA OtherInvariant ==
  ASSUME IInv, Deliver \/ Crash \/ Wait \/ Over \/ UNCHANGED vars PROVE IInv'
<1> USE DEF IInv, memory, disk
<1>1. CASE Deliver
  <2> USE <1>1 DEF Deliver
  <2>1. pool \subseteq pool' /\ pool' \subseteq Record /\ inbox' \subseteq Augmented
    BY DEF TypeOK, Record
  <2>2. TypeOK' BY <2>1 DEF TypeOK
  <2>3. ~directed => WriteOrder' BY DEF InOrder, WriteOrder
  <2>4. ~directed => Unfinished' BY DEF InOrder, Unfinished
  <2>5. ~directed => NotAhead' BY DEF InOrder, NotAhead, StateNotNewer
  <2>6. SeedsKept' BY <2>1 DEF SeedsKept, SeedsSurvive
  <2> QED BY <2>2, <2>3, <2>4, <2>5, <2>6 DEF InOrder
<1>2. CASE Crash
  <2> USE <1>2 DEF Crash
  <2>1. NoSnapshot \in State BY DEF NoSnapshot, State
  <2>2. TypeOK' BY <2>1 DEF TypeOK, Phase
  <2>3. ~directed => WriteOrder' BY DEF InOrder, WriteOrder
  <2>4. ~directed => Unfinished' BY DEF InOrder, Unfinished, TypeOK, Phase
  <2>5. ~directed => NotAhead' BY DEF InOrder, NotAhead, StateNotNewer
  <2>6. SeedsKept' BY DEF SeedsKept, SeedsSurvive
  <2> QED BY <2>2, <2>3, <2>4, <2>5, <2>6 DEF InOrder
<1>3. CASE Wait \/ Over \/ UNCHANGED vars
  <2> USE <1>3 DEF Wait, Over, vars
  <2>1. TypeOK' BY DEF TypeOK
  <2>2. ~directed => WriteOrder' BY DEF InOrder, WriteOrder
  <2>3. ~directed => Unfinished' BY DEF InOrder, Unfinished
  <2>4. ~directed => NotAhead' BY DEF InOrder, NotAhead, StateNotNewer
  <2>5. SeedsKept' BY DEF SeedsKept, SeedsSurvive
  <2> QED BY <2>1, <2>2, <2>3, <2>4, <2>5 DEF InOrder
<1> QED BY <1>1, <1>2, <1>3

(* The invariant holds in every reachable state.                           *)
THEOREM Invariant == Spec => []IInv
<1>1. Init => IInv BY InitInvariant
<1>2. IInv /\ [Next]_vars => IInv'
  BY ScratchInvariant, ResumeInvariant, DirectedInvariant, TrainStepInvariant,
     CheckpointInvariant, CollectInvariant, WriteStateInvariant, AdvanceInvariant,
     OtherInvariant DEF Next
<1> QED BY <1>1, <1>2, PTL DEF Spec

(* No training state that a restart could load is newer than the weights   *)
(* it would be loaded with, even though resumed runs write both in place,  *)
(* as long as every restart is automatic.                                  *)
THEOREM AlwaysStateNotNewer == Spec => []StateNotNewer
<1>1. IInv => StateNotNewer BY DEF IInv, InOrder, NotAhead, StateNotNewer
<1> QED BY <1>1, Invariant, PTL

(* No seed is lost but by a training step, however often the run crashes   *)
(* and from whatever mixture of complete, torn and missing files it is     *)
(* resumed.                                                                *)
THEOREM AlwaysSeedsSurvive == Spec => []SeedsSurvive
<1>1. IInv => SeedsSurvive BY DEF IInv, SeedsKept
<1> QED BY <1>1, Invariant, PTL

(* A run that cannot resume by itself was hit by a crash while the tracker *)
(* or the weights it names were written anew; no other crash, and no       *)
(* sequence of crashes and automatic restarts, has this effect.            *)
THEOREM AlwaysStuckOnlyByRewrite == Spec => []StuckOnlyByRewrite
<1>1. IInv => StuckOnlyByRewrite
  BY DEF IInv, InOrder, Unfinished, StuckOnlyByRewrite, TypeOK
<1> QED BY <1>1, Invariant, PTL

-----------------------------------------------------------------------------
(* What was there when a save began.  Its parts are collected one by one,  *)
(* and what leaves neither part before it is collected is in one of them.  *)
HadKept ==
  /\ phase = "collectRest" => snapshot.had \subseteq snapshot.pool \cup archive \cup inbox
  /\ phase \in {"open", "write"}
       => snapshot.had \subseteq snapshot.pool \cup snapshot.archive \cup snapshot.inbox
  /\ \A n \in Step : Complete(state[n])
       => state[n].had \subseteq state[n].pool \cup state[n].archive \cup state[n].inbox

(* Only the steps of a save and those that change what is yet to be        *)
(* collected matter: no training step runs while a save does.              *)
LEMMA HadKeptInvariant == ASSUME TypeOK, HadKept, [Next]_vars PROVE HadKept'
<1> USE DEF HadKept, memory, disk
<1>1. CASE CollectPool
  <2>1. snapshot'.pool = pool /\ snapshot'.had = pool \cup archive \cup inbox
    BY <1>1 DEF CollectPool, NoSnapshot
  <2> QED BY <1>1, <2>1 DEF CollectPool
<1>2. CASE CollectRest
  <2>1. /\ snapshot'.pool = snapshot.pool /\ snapshot'.had = snapshot.had
        /\ snapshot'.archive = archive /\ snapshot'.inbox = inbox
    BY <1>2 DEF CollectRest, TypeOK, State
  <2> QED BY <1>2, <2>1 DEF CollectRest
<1>3. CASE BeginState BY <1>3 DEF BeginState, TypeOK
<1>4. CASE EndState BY <1>4 DEF EndState, TypeOK
<1>5. CASE StateFails BY <1>5 DEF StateFails
<1>6. CASE Deliver
  <2>1. inbox \subseteq inbox' BY <1>6 DEF Deliver
  <2> QED BY <1>6, <2>1 DEF Deliver
<1>7. CASE \/ StartFresh \/ Resume \/ StartDisabled \/ ResumePath \/ TrackerUnreadable \/ Relaunch
           \/ TrainStep \/ Wait \/ Advance \/ Crash \/ Over
  BY <1>7 DEF StartFresh, Resume, StartDisabled, ResumePath, TrackerUnreadable, Relaunch,
     LoadFrom, StartFrom, StartFails, StartFromScratch, TrainStep, Wait, Advance, Crash, Over, vars
<1>8. CASE BeginWeights \/ EndWeights \/ OpenTracker \/ WriteTracker
  BY <1>8 DEF BeginWeights, EndWeights, OpenTracker, WriteTracker
<1>9. CASE UNCHANGED vars BY <1>9 DEF vars
<1> QED BY <1>1, <1>2, <1>3, <1>4, <1>5, <1>6, <1>7, <1>8, <1>9 DEF Next

(* Whatever the teacher's thread does while a state is collected, a resume *)
(* from that state brings back every record the save began with.           *)
THEOREM AlwaysSavedSurvives == Spec => SavedSurvives
<1>1. Init => HadKept BY DEF Init, HadKept
<1>2. IInv /\ HadKept /\ [Next]_vars => HadKept'
  BY HadKeptInvariant DEF IInv
<1>3. ASSUME IInv, HadKept, [Next]_vars, phase = "start", phase' = "step",
             Restorable(globalSteps')
      PROVE  state[globalSteps'].had \subseteq pool' \cup archive' \cup inbox'
  <2>1. StartFresh \/ StartDisabled \/ Resume \/ ResumePath
    BY <1>3 DEF Next, vars, TrackerUnreadable, StartFails, Relaunch, TrainStep, Wait,
       BeginWeights, EndWeights, OpenTracker, WriteTracker, CollectPool, CollectRest,
       BeginState, EndState, StateFails, Advance, Deliver, Crash, Over
  <2>2. ~(StartFresh \/ StartDisabled)
    BY <1>3, StepsAssumption DEF StartFresh, StartDisabled, StartFromScratch, Restorable
  <2>3. PICK n \in Step : StartFrom(n)
    BY <1>3, <2>1, <2>2
       DEF Resume, ResumePath, LoadFrom, StartFails, NoCheckpoint, IInv, TypeOK, Step
  <2>4. n = globalSteps' BY <2>3 DEF StartFrom
  <2>5. state[n].had \subseteq state[n].pool \cup state[n].archive \cup state[n].inbox
    BY <1>3, <2>4 DEF HadKept, Restorable
  <2> QED BY <1>3, <2>3, <2>4, <2>5 DEF StartFrom, RestoredPool
<1>4. IInv /\ HadKept /\ [Next]_vars =>
        (phase = "start" /\ phase' = "step" /\ Restorable(globalSteps')
           => state[globalSteps'].had \subseteq pool' \cup archive' \cup inbox')
  BY <1>3
<1> QED BY <1>1, <1>2, <1>4, Invariant, PTL DEF Spec, SavedSurvives

-----------------------------------------------------------------------------
(* What a crash costs.  On disk are the updates of the step the tracker    *)
(* names; since then there was one update for each step, and the tracker   *)
(* has followed every step that was due for a save.                        *)
OnDisk == IF tracker = 0 THEN 0 ELSE IF tracker \in Step THEN weights[tracker] ELSE Torn

SinceSave == ~directed =>
  /\ tracker \in {0, TotalSteps, Torn} \/ tracker % SaveFreq = 0
  /\ phase \in {"weights", "tracker", "named"} => SaveIsDue
  /\ Up /\ tracker # Torn => globalSteps <= tracker + SaveFreq
  /\ phase \in {"saved", "done"} => tracker = globalSteps
  /\ OnDisk # Torn =>
       /\ phase = "start" => updates <= OnDisk + SaveFreq
       /\ phase = "step" =>
            updates = OnDisk + (IF globalSteps = tracker THEN 0 ELSE globalSteps - tracker - 1)
       /\ phase = "trained" =>
            updates = OnDisk + (IF globalSteps = tracker THEN 1 ELSE globalSteps - tracker)
       /\ phase \in {"weights", "tracker"} => updates = OnDisk + (globalSteps - tracker)
       /\ phase \in {"collect", "collectRest", "open", "write", "saved"} => updates = OnDisk

(* Steps that are due are SaveFreq apart.                                  *)
LEMMA NextDue ==
  ASSUME NEW n \in Nat, NEW d \in Nat \ {0}, n % d = 0 PROVE (n + d) % d = 0
<1>1. PICK q \in Nat : q = n \div d
  OBVIOUS
<1>2. n = d * q
  BY <1>1
<1>3. n + d = d * (q + 1)
  BY <1>2
<1>4. (d * (q + 1)) % d = 0
  OBVIOUS
<1> QED BY <1>3, <1>4

(* What the steps below know of the numbers they add up.                   *)
LEMMA Numbers ==
  ASSUME IInv
  PROVE  /\ SaveFreq \in Nat \ {0} /\ TotalSteps \in Nat \ {0}
         /\ globalSteps \in Nat /\ updates \in Nat
         /\ globalSteps <= TotalSteps /\ globalSteps > 0
         /\ tracker # Torn => tracker \in Nat /\ tracker <= TotalSteps
         /\ ~directed /\ OnDisk # Torn => OnDisk \in Nat /\ tracker # Torn
         /\ directed \in BOOLEAN
<1>1. tracker \in Step \/ tracker = 0 \/ tracker = Torn BY DEF IInv, TypeOK, Step
<1>2. ~directed /\ tracker \in Step => weights[tracker] \in Nat \cup {Torn}
  BY DEF IInv, TypeOK, InOrder, WriteOrder
<1> QED BY <1>1, <1>2, StepsAssumption, FileAssumption DEF IInv, TypeOK, Step, OnDisk

LEMMA StartSinceSave ==
  ASSUME IInv, SinceSave, StartFresh \/ StartDisabled \/ Resume \/ ResumePath PROVE SinceSave'
<1> SUFFICES ASSUME ~directed' PROVE SinceSave'
  BY DEF SinceSave
<1>1. ~directed /\ (StartFresh \/ Resume)
  BY DEF StartFresh, StartDisabled, Resume, ResumePath
<1> USE <1>1, Numbers, FileAssumption DEF disk
<1>2. CASE StartFresh
  <2>1. tracker = 0 BY <1>2 DEF StartFresh, NoCheckpoint, IInv, InOrder, WriteOrder
  <2>2. OnDisk' = 0 /\ OnDisk = 0 BY <1>2, <2>1 DEF StartFresh, StartFromScratch, OnDisk
  <2> QED BY <1>2, <2>1, <2>2 DEF StartFresh, StartFromScratch, SinceSave
<1>3. CASE Resume /\ StartFrom(tracker)
  <2>1. tracker \in Step BY <1>3 DEF Resume, NoCheckpoint, IInv, TypeOK, Step
  <2>2. OnDisk' = OnDisk /\ updates' = OnDisk
    BY <1>3, <2>1 DEF StartFrom, OnDisk, Step
  <2> QED BY <1>3, <2>1, <2>2 DEF StartFrom, SinceSave
<1>4. CASE StartFails
  <2>1. UNCHANGED OnDisk BY <1>4 DEF StartFails, OnDisk
  <2> QED BY <1>4, <2>1 DEF StartFails, SinceSave
<1> QED BY <1>1, <1>2, <1>3, <1>4 DEF Resume, LoadFrom

(* One step, one update.  The step that the run resumed at is the one the  *)
(* tracker names, and is saved again.                                      *)
LEMMA TrainSinceSave == ASSUME IInv, SinceSave, TrainStep PROVE SinceSave'
<1>1. UNCHANGED <<OnDisk, directed>> BY DEF TrainStep, OnDisk, disk, past
<1>2. ~directed /\ tracker # Torn => tracker <= globalSteps
  BY DEF IInv, InOrder, WriteOrder, TrainStep
<1> QED BY <1>1, <1>2, Numbers DEF TrainStep, SinceSave, disk

LEMMA CheckpointSinceSave ==
  ASSUME IInv, SinceSave, BeginWeights \/ EndWeights \/ OpenTracker \/ WriteTracker
  PROVE  SinceSave'
<1> SUFFICES ASSUME ~directed' PROVE SinceSave'
  BY DEF SinceSave
<1>1. ~directed /\ globalSteps \in Step
  BY DEF IInv, TypeOK, BeginWeights, EndWeights, OpenTracker, WriteTracker, past
<1>2. tracker # Torn => tracker <= globalSteps
  BY <1>1 DEF IInv, InOrder, WriteOrder, BeginWeights, EndWeights, OpenTracker, WriteTracker
<1>3. CASE BeginWeights
  <2>1. OnDisk' = IF tracker = globalSteps THEN Torn ELSE OnDisk
    BY <1>1, <1>3, Numbers DEF BeginWeights, OnDisk, IInv, TypeOK, Step
  <2> QED BY <1>1, <1>2, <1>3, <2>1, Numbers
    DEF BeginWeights, SinceSave, SaveIsDue, IsLastStep, memory
<1>4. CASE EndWeights
  <2>1. OnDisk' = IF tracker = globalSteps THEN updates ELSE OnDisk
    BY <1>1, <1>4, Numbers DEF EndWeights, OnDisk, IInv, TypeOK, Step
  <2> QED BY <1>1, <1>2, <1>4, <2>1, Numbers
    DEF EndWeights, SinceSave, SaveIsDue, IsLastStep, memory
<1>5. CASE OpenTracker
  <2>1. tracker' = Torn /\ OnDisk' = Torn
    BY <1>5, FileAssumption DEF OpenTracker, OnDisk, Step
  <2> QED BY <1>1, <1>5, <2>1 DEF OpenTracker, SinceSave, SaveIsDue, IsLastStep
<1>6. CASE WriteTracker
  <2>1. OnDisk' = updates
    BY <1>1, <1>6, Numbers DEF WriteTracker, OnDisk, IInv, InOrder, WriteOrder, Step
  <2>2. tracker' = globalSteps /\ (tracker' = TotalSteps \/ tracker' % SaveFreq = 0)
    BY <1>1, <1>6, Numbers DEF WriteTracker, SinceSave, SaveIsDue, IsLastStep
  <2> QED BY <1>1, <1>6, <2>1, <2>2, Numbers DEF WriteTracker, SinceSave, memory
<1> QED BY <1>3, <1>4, <1>5, <1>6

LEMMA AdvanceSinceSave == ASSUME IInv, SinceSave, Advance PROVE SinceSave'
<1> SUFFICES ASSUME ~directed' PROVE SinceSave'
  BY DEF SinceSave
<1>1. ~directed /\ UNCHANGED <<OnDisk, tracker, updates>> BY DEF Advance, OnDisk, disk, past
<1>2. tracker \in Nat /\ tracker <= globalSteps
  BY <1>1, Numbers DEF IInv, InOrder, WriteOrder, Unfinished, Advance
<1>3. CASE phase = "saved"
  <2>1. tracker = globalSteps BY <1>1, <1>3 DEF SinceSave
  <2> QED BY <1>1, <1>2, <1>3, <2>1, Numbers DEF Advance, SinceSave
<1>4. CASE phase = "trained" /\ ~SaveIsDue
  <2>1. globalSteps % SaveFreq # 0 /\ globalSteps < TotalSteps
    BY <1>4, Numbers DEF SaveIsDue, IsLastStep
  <2>2. tracker \in {0, TotalSteps} \/ tracker % SaveFreq = 0
    BY <1>1, <1>2, FileAssumption DEF SinceSave
  <2>3. tracker < globalSteps
    <3>1. CASE tracker = 0 BY <3>1, Numbers
    <3>2. CASE tracker = TotalSteps BY <3>2, <1>2, <2>1, Numbers
    <3>3. CASE tracker % SaveFreq = 0 BY <3>3, <1>2, <2>1, Numbers
    <3> QED BY <3>1, <3>2, <3>3, <2>2
  <2>4. globalSteps # tracker + SaveFreq
    <3>1. CASE tracker = TotalSteps BY <3>1, <1>2, <2>1, Numbers
    <3>2. CASE tracker % SaveFreq = 0 BY <3>2, <1>2, <2>1, NextDue, Numbers
    <3>3. CASE tracker = 0
      <4>1. 0 % SaveFreq = 0 BY Numbers
      <4> QED BY <3>3, <4>1, <2>1, NextDue, Numbers
    <3> QED BY <3>1, <3>2, <3>3, <2>2
  <2>5. globalSteps <= tracker + SaveFreq
    BY <1>1, <1>2, <1>4, FileAssumption DEF SinceSave
  <2>6. phase' = "step" /\ globalSteps' = globalSteps + 1
    BY <2>1, Numbers DEF Advance, IsLastStep
  <2> QED BY <1>1, <1>2, <1>4, <2>3, <2>4, <2>5, <2>6, Numbers DEF SinceSave
<1> QED BY <1>3, <1>4 DEF Advance

(* The other steps leave the numbers alone; a crash only stops the count.  *)
LEMMA OtherSinceSave ==
  ASSUME IInv, SinceSave, [Next]_vars,
         ~(StartFresh \/ StartDisabled \/ Resume \/ ResumePath \/ TrainStep \/ BeginWeights
             \/ EndWeights \/ OpenTracker \/ WriteTracker \/ Advance)
  PROVE  SinceSave'
<1> SUFFICES ASSUME ~directed' PROVE SinceSave'
  BY DEF SinceSave
<1>1. ~directed /\ UNCHANGED <<OnDisk, tracker, updates, globalSteps>>
  BY DEF Next, vars, disk, past, OnDisk, TrackerUnreadable, StartFails, Relaunch, Wait,
     CollectPool, CollectRest, BeginState, EndState, StateFails, Deliver, Crash, Over
<1>2. CASE Crash
  <2>1. Up /\ phase' = "start" /\ (tracker # Torn => tracker <= globalSteps)
    BY <1>1, <1>2 DEF Crash, IInv, InOrder, WriteOrder
  <2>2. OnDisk # Torn => updates <= OnDisk + SaveFreq
    BY <1>1, <2>1, Numbers DEF SinceSave, IInv, InOrder, Unfinished, OnDisk, TypeOK, Phase, Step
  <2>3. tracker \in {0, TotalSteps, Torn} \/ tracker % SaveFreq = 0
    BY <1>1 DEF SinceSave
  <2> QED BY <1>1, <2>1, <2>2, <2>3 DEF SinceSave
<1>3. CASE CollectPool \/ CollectRest \/ BeginState \/ EndState \/ StateFails
  <2>1. tracker = globalSteps BY <1>1, <1>3
    DEF IInv, InOrder, WriteOrder, CollectPool, CollectRest, BeginState, EndState, StateFails
  <2> QED BY <1>1, <1>3, <2>1, Numbers
    DEF SinceSave, CollectPool, CollectRest, BeginState, EndState, StateFails
<1>4. CASE Relaunch
  <2>1. OnDisk = Torn
    BY <1>1, <1>4, FileAssumption DEF Relaunch, IInv, InOrder, Unfinished, OnDisk, Step
  <2> QED BY <1>1, <1>4, <2>1, Numbers DEF Relaunch, SinceSave
<1>5. CASE TrackerUnreadable \/ Wait \/ Deliver \/ Over \/ UNCHANGED vars
  <2>1. UNCHANGED phase \/ phase' = "stuck"
    BY <1>5 DEF vars, TrackerUnreadable, StartFails, Wait, Deliver, Over
  <2> QED BY <1>1, <2>1, Numbers DEF SinceSave, SaveIsDue, IsLastStep
<1> QED BY <1>2, <1>3, <1>4, <1>5 DEF Next

(* Wherever a crash hits, a run that resumes by itself is at most SaveFreq *)
(* updates behind.  (AlwaysStuckOnlyByRewrite: which crashes let it not.)  *)
THEOREM AtMostSaveFreqLost == Spec => CrashCost
<1>1. Init => SinceSave BY StepsAssumption DEF Init, SinceSave, OnDisk
<1>2. IInv /\ SinceSave /\ [Next]_vars => SinceSave'
  BY StartSinceSave, TrainSinceSave, CheckpointSinceSave, AdvanceSinceSave, OtherSinceSave
<1>3. ASSUME IInv, SinceSave, [Next]_vars, phase = "start", phase' = "step", ~directed'
      PROVE  updates - updates' <= SaveFreq
  <2>1. ~directed /\ (StartFresh \/ Resume)
    BY <1>3 DEF Next, vars, past, StartFresh, StartDisabled, Resume, ResumePath,
       TrackerUnreadable, StartFails, Relaunch, TrainStep, Wait, BeginWeights, EndWeights,
       OpenTracker, WriteTracker, CollectPool, CollectRest, BeginState, EndState, StateFails,
       Advance, Deliver, Crash, Over
  <2>2. CASE StartFresh
    <3>1. tracker = 0
      BY <1>3, <2>1, <2>2 DEF StartFresh, NoCheckpoint, IInv, InOrder, WriteOrder
    <3> QED BY <1>3, <2>1, <2>2, <3>1, Numbers, FileAssumption
      DEF StartFresh, StartFromScratch, SinceSave, OnDisk
  <2>3. CASE Resume
    <3>1. tracker \in Step /\ Loadable(tracker) /\ StartFrom(tracker)
      BY <1>3, <2>3 DEF Resume, LoadFrom, StartFails, NoCheckpoint, IInv, TypeOK, Step
    <3>2. updates' = OnDisk /\ OnDisk # Torn
      BY <3>1 DEF StartFrom, Loadable, OnDisk, Step
    <3> QED BY <1>3, <2>1, <3>2, Numbers DEF SinceSave
  <2> QED BY <2>1, <2>2, <2>3
<1>4. IInv /\ SinceSave /\ [Next]_vars =>
        (phase = "start" /\ phase' = "step" /\ ~directed' => updates - updates' <= SaveFreq)
  BY <1>3
<1> QED BY <1>1, <1>2, <1>4, Invariant, PTL DEF Spec, CrashCost
=============================================================================
