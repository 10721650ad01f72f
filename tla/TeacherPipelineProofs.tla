------------------------ MODULE TeacherPipelineProofs ------------------------
(***************************************************************************)
(* What TLAPS proves of TeacherPipeline: after shutdown has waited for the *)
(* executor, the teacher model is not called any more; no batch is worked  *)
(* on twice; items it refused stay out; the pool is bounded and            *)
(* apart from the archive; and an item comes through the inbox once.       *)
(***************************************************************************)
EXTENDS TeacherPipeline, FiniteSetTheorems, TLAPS

(* The executor is closed before it is waited for, and a closed executor   *)
(* takes no call: that is why an executor seen idle stays idle.            *)
ClosedExecutor ==
  /\ step \in {"closing", "joining", "stopped"} => ~open
  /\ step \in {"joining", "stopped"} => waiting = <<>> /\ calling = {}

(* The steps of the trainer's thread, but for shutdown, leave the executor *)
(* alone, and so do those of the teacher's thread, but for ScheduleCall.   *)
LEMMA TrainerKeepsClosed == ASSUME ClosedExecutor, Trainer PROVE ClosedExecutor'
<1>1. CASE DrainInbox BY <1>1 DEF ClosedExecutor, DrainInbox, teacherVars, workVars
<1>2. CASE AddPacket BY <1>2 DEF ClosedExecutor, AddPacket, teacherVars, workVars
<1>3. CASE Recycle BY <1>3 DEF ClosedExecutor, Recycle, teacherVars, workVars
<1>4. CASE Sample BY <1>4 DEF ClosedExecutor, Sample, teacherVars, workVars
<1>5. CASE CheckRoom BY <1>5 DEF ClosedExecutor, CheckRoom, teacherVars, workVars
<1>6. CASE EnqueueAug BY <1>6 DEF ClosedExecutor, EnqueueAug, teacherVars, workVars
<1> QED BY <1>1, <1>2, <1>3, <1>4, <1>5, <1>6 DEF Trainer

(* Shutdown closes the executor, and goes on when it is idle.              *)
LEMMA StoppingKeepsClosed ==
  ASSUME ClosedExecutor, Shutdown \/ Stopping PROVE ClosedExecutor'
<1>1. CASE Shutdown BY <1>1 DEF ClosedExecutor, Shutdown, teacherVars, workVars
<1>2. CASE CloseExecutor BY <1>2 DEF ClosedExecutor, CloseExecutor, teacherVars, workVars
<1>3. CASE ExecutorClosed BY <1>3 DEF ClosedExecutor, ExecutorClosed, teacherVars, workVars
<1>4. CASE Join BY <1>4 DEF ClosedExecutor, Join, teacherVars, workVars
<1> QED BY <1>1, <1>2, <1>3, <1>4 DEF Stopping

(* ScheduleCall adds a call while the executor is open only, so never once *)
(* step is past "stopping".                                                *)
LEMMA TeacherKeepsClosed == ASSUME ClosedExecutor, Teacher PROVE ClosedExecutor'
<1>1. CASE Loop BY <1>1 DEF ClosedExecutor, Loop, trainerVars, workVars
<1>2. CASE Get BY <1>2 DEF ClosedExecutor, Get, trainerVars, workVars
<1>3. CASE GetNothing BY <1>3 DEF ClosedExecutor, GetNothing, trainerVars, workVars
<1>4. CASE CheckRunning BY <1>4 DEF ClosedExecutor, CheckRunning, trainerVars, workVars
<1>5. CASE ScanItem BY <1>5 DEF ClosedExecutor, ScanItem, trainerVars, workVars
<1>6. CASE ScheduleCall
  <2>1. UNCHANGED <<step, open, calling>> BY <1>6 DEF ScheduleCall, trainerVars
  <2>2. CASE open BY <2>1, <2>2 DEF ClosedExecutor
  <2>3. CASE ~open
    <3>1. UNCHANGED waiting BY <1>6, <2>3 DEF ScheduleCall
    <3> QED BY <2>1, <3>1 DEF ClosedExecutor
  <2> QED BY <2>2, <2>3
<1>7. CASE Collect BY <1>7 DEF ClosedExecutor, Collect, trainerVars, workVars
<1>8. CASE Collected BY <1>8 DEF ClosedExecutor, Collected, trainerVars, workVars
<1>9. CASE Measure BY <1>9 DEF ClosedExecutor, Measure, trainerVars, workVars
<1>10. CASE AddSolvable BY <1>10 DEF ClosedExecutor, AddSolvable, trainerVars, workVars
<1>11. CASE After BY <1>11 DEF ClosedExecutor, After, trainerVars, workVars
<1>12. CASE SubmitTeacherBatch
  BY <1>12 DEF ClosedExecutor, SubmitTeacherBatch, trainerVars, workVars
<1> QED
  BY <1>1, <1>2, <1>3, <1>4, <1>5, <1>6, <1>7, <1>8, <1>9, <1>10, <1>11, <1>12 DEF Teacher

(* An idle executor has nothing to start and nothing to end.               *)
LEMMA WorkKeepsClosed == ASSUME ClosedExecutor, Work PROVE ClosedExecutor'
<1>1. CASE StartCall BY <1>1 DEF ClosedExecutor, StartCall, trainerVars, teacherVars
<1>2. CASE EndCall BY <1>2 DEF ClosedExecutor, EndCall, trainerVars, teacherVars
<1> QED BY <1>1, <1>2 DEF Work

(* QuietAfterShutdown, for any number of batches, items and workers: once  *)
(* _cleanup_teacher_annotator is past executor.shutdown(wait=True), no     *)
(* call to the teacher model is in progress or starts again.               *)
THEOREM AlwaysQuiet == Spec => []QuietAfterShutdown
<1>1. Init => ClosedExecutor BY DEF Init, ClosedExecutor
<1>2. ClosedExecutor /\ [Next]_vars => ClosedExecutor'
  <2> SUFFICES ASSUME ClosedExecutor, [Next]_vars PROVE ClosedExecutor'
    OBVIOUS
  <2>1. CASE Trainer BY <2>1, TrainerKeepsClosed
  <2>2. CASE Shutdown \/ Stopping BY <2>2, StoppingKeepsClosed
  <2>3. CASE Teacher BY <2>3, TeacherKeepsClosed
  <2>4. CASE Work BY <2>4, WorkKeepsClosed
  <2>5. CASE Ended \/ UNCHANGED vars
    BY <2>5 DEF ClosedExecutor, Ended, vars, trainerVars, workVars
  <2> QED BY <2>1, <2>2, <2>3, <2>4, <2>5 DEF Next
<1>3. ClosedExecutor => QuietAfterShutdown BY DEF ClosedExecutor, QuietAfterShutdown
<1> QED BY <1>1, <1>2, <1>3, PTL DEF Spec

-----------------------------------------------------------------------------
(* EachBatchOnce is kept because a batch enters the queue when it is made. *)
OnceMade ==
  /\ handled \in Seq(Batch) /\ queue \in Seq(Batch)
  /\ Members(handled) \cup Members(queue) \subseteq made
  /\ pc = "check" => batch \in made
  /\ made \subseteq Batch
  /\ EachBatchOnce

(* Only three steps move a batch; the others do not touch the variables    *)
(* OnceMade reads, or leave the check behind.                              *)
LEMMA OtherStepsKeepOnce ==
  ASSUME OnceMade,
         UNCHANGED <<handled, queue, made>>,
         UNCHANGED <<pc, batch>> \/ pc' # "check"
  PROVE  OnceMade'
BY DEF OnceMade, EachBatchOnce

(* EnqueueAug: the batch is new, or is dropped.                            *)
LEMMA EnqueueKeepsOnce == ASSUME OnceMade, EnqueueAug PROVE OnceMade'
<1>1. CASE UNCHANGED <<made, queue>>
  BY <1>1, OtherStepsKeepOnce DEF EnqueueAug, teacherVars
<1>2. ASSUME NEW b \in Batch \ made, made' = made \cup {b}, queue' = Append(queue, b)
      PROVE OnceMade'
  <2>1. UNCHANGED <<handled, pc, batch>> BY EnqueueAug DEF EnqueueAug, teacherVars
  <2>2. Members(queue') = Members(queue) \cup {b}
    BY <1>2 DEF OnceMade, Members
  <2>3. Once(queue')
    BY <1>2 DEF OnceMade, EachBatchOnce, Once, Members
  <2> QED BY <1>2, <2>1, <2>2, <2>3 DEF OnceMade, EachBatchOnce
<1>3. ASSUME NEW b \in Batch \ made, made' = made \cup {b}, UNCHANGED queue
      PROVE OnceMade'
  BY <1>3, EnqueueAug DEF OnceMade, EachBatchOnce, EnqueueAug, teacherVars
<1> QED BY <1>1, <1>2, <1>3 DEF EnqueueAug

(* Get: the batch leaves the queue when the teacher takes it.              *)
LEMMA GetKeepsOnce == ASSUME OnceMade, Get PROVE OnceMade'
<1>1. /\ queue # <<>> /\ batch' = Head(queue) /\ queue' = Tail(queue)
      /\ UNCHANGED <<handled, made>>
  BY DEF Get, trainerVars
<1>2. queue' \in Seq(Batch) BY <1>1 DEF OnceMade
<1>3. /\ batch' \in Members(queue) /\ Members(queue') \subseteq Members(queue)
  BY <1>1 DEF OnceMade, Members
<1>4. Once(queue') /\ batch' \notin Members(queue')
  BY <1>1 DEF OnceMade, EachBatchOnce, Once, Members
<1> QED BY <1>1, <1>2, <1>3, <1>4 DEF OnceMade, EachBatchOnce

(* CheckRunning: it is worked on, or is dropped.                           *)
LEMMA CheckKeepsOnce == ASSUME OnceMade, CheckRunning PROVE OnceMade'
<1>1. CASE pc' = "dead"
  <2>1. UNCHANGED <<handled, queue, made>> BY <1>1 DEF CheckRunning, trainerVars
  <2> QED BY <1>1, <2>1, OtherStepsKeepOnce
<1>2. CASE pc' = "submit"
  <2>1. /\ pc = "check" /\ handled' = Append(handled, batch)
        /\ UNCHANGED <<queue, made>>
    BY <1>2 DEF CheckRunning, trainerVars
  <2>2. batch \in Batch BY <2>1 DEF OnceMade
  <2>3. handled' \in Seq(Batch) /\ Members(handled') = Members(handled) \cup {batch}
    BY <2>1, <2>2 DEF OnceMade, Members
  <2>4. Once(handled')
    BY <2>1, <2>2 DEF OnceMade, EachBatchOnce, Once, Members
  <2> QED BY <1>2, <2>1, <2>2, <2>3, <2>4 DEF OnceMade, EachBatchOnce
<1> QED BY <1>1, <1>2 DEF CheckRunning

(* The invariant, which the later proofs rest on.                          *)
LEMMA AlwaysOnceMade == Spec => []OnceMade
<1>1. Init => OnceMade
  BY DEF Init, OnceMade, EachBatchOnce, Once, Members
<1>2. OnceMade /\ [Next]_vars => OnceMade'
  <2> SUFFICES ASSUME OnceMade, [Next]_vars PROVE OnceMade'
    OBVIOUS
  <2>1. CASE Trainer
    <3>1. CASE DrainInbox
      BY <3>1, OtherStepsKeepOnce DEF DrainInbox, teacherVars
    <3>2. CASE AddPacket
      BY <3>2, OtherStepsKeepOnce DEF AddPacket, teacherVars
    <3>3. CASE Recycle
      BY <3>3, OtherStepsKeepOnce DEF Recycle, teacherVars
    <3>4. CASE Sample
      BY <3>4, OtherStepsKeepOnce DEF Sample, teacherVars
    <3>5. CASE CheckRoom
      BY <3>5, OtherStepsKeepOnce DEF CheckRoom, teacherVars
    <3>6. CASE EnqueueAug
      BY <3>6, EnqueueKeepsOnce
    <3> QED BY <2>1, <3>1, <3>2, <3>3, <3>4, <3>5, <3>6 DEF Trainer
  <2>2. CASE Shutdown \/ Stopping
    BY <2>2, OtherStepsKeepOnce
    DEF Stopping, Shutdown, CloseExecutor, ExecutorClosed, Join, teacherVars
  <2>3. CASE Teacher
    <3>1. CASE Get BY <3>1, GetKeepsOnce
    <3>2. CASE CheckRunning BY <3>2, CheckKeepsOnce
    <3>3. CASE Loop \/ GetNothing
      BY <3>3, OtherStepsKeepOnce DEF Loop, GetNothing, trainerVars
    <3>4. CASE ScanItem \/ ScheduleCall
      BY <3>4, OtherStepsKeepOnce DEF ScanItem, ScheduleCall, trainerVars
    <3>5. CASE Collect \/ Collected
      BY <3>5, OtherStepsKeepOnce DEF Collect, Collected, trainerVars
    <3>6. CASE Measure \/ AddSolvable
      BY <3>6, OtherStepsKeepOnce DEF Measure, AddSolvable, trainerVars
    <3>7. CASE After \/ SubmitTeacherBatch
      BY <3>7, OtherStepsKeepOnce DEF After, SubmitTeacherBatch, trainerVars
    <3> QED BY <2>3, <3>1, <3>2, <3>3, <3>4, <3>5, <3>6, <3>7 DEF Teacher
  <2>4. CASE Work
    BY <2>4, OtherStepsKeepOnce DEF Work, StartCall, EndCall, trainerVars, teacherVars
  <2>5. CASE Ended \/ UNCHANGED vars
    BY <2>5, OtherStepsKeepOnce DEF Ended, vars, trainerVars, teacherVars
  <2> QED BY <2>1, <2>2, <2>3, <2>4, <2>5 DEF Next
<1> QED BY <1>1, <1>2, PTL DEF Spec

(* EachBatchOnce, for any number of batches and any size of the queue: a   *)
(* generated batch is never worked on twice, nor both worked on and        *)
(* waiting, so no item is paid for or added by the teacher twice.          *)
THEOREM AlwaysEachBatchOnce == Spec => []EachBatchOnce
<1>1. OnceMade => EachBatchOnce BY DEF OnceMade
<1> QED BY <1>1, AlwaysOnceMade, PTL

-----------------------------------------------------------------------------
(* What the teacher's thread knows while it works on a batch.              *)
Working == {"submit", "schedule", "collect", "measure", "add", "after", "fallback"}

InWork ==
  /\ at \in 1 .. Width + 1
  /\ pc = "schedule" => at <= Width
  /\ pc \in Working =>
       batch \in Batch /\ batch \in Members(handled) /\ solvable \subseteq {batch} \X (1 .. Width)

-----------------------------------------------------------------------------
(* Only the teacher's thread changes its own variables.                    *)
LEMMA OthersLeaveTeacher ==
  ASSUME Trainer \/ Shutdown \/ Stopping \/ Work \/ Ended \/ UNCHANGED vars
  PROVE  UNCHANGED teacherVars
BY DEF Trainer, Shutdown, Stopping, Work, Ended, vars,
       DrainInbox, AddPacket, Recycle, Sample, CheckRoom, EnqueueAug,
       CloseExecutor, ExecutorClosed, Join, StartCall, EndCall

(* Only the teacher's thread and the workers change the calls.             *)
LEMMA OthersLeaveCalls ==
  ASSUME Trainer \/ Shutdown \/ Stopping \/ Ended \/ UNCHANGED vars
  PROVE  UNCHANGED workVars
BY DEF Trainer, Shutdown, Stopping, Ended, vars,
       DrainInbox, AddPacket, Recycle, Sample, CheckRoom, EnqueueAug,
       CloseExecutor, ExecutorClosed, Join

(* What a batch that is taken up joins.                                    *)
LEMMA MembersAppend ==
  ASSUME NEW S, NEW s \in Seq(S), NEW e \in S
  PROVE  Append(s, e) \in Seq(S) /\ Members(Append(s, e)) = Members(s) \cup {e}
<1> DEFINE t == Append(s, e)
<1>1. /\ t \in Seq(S) /\ DOMAIN t = 1 .. Len(s) + 1 /\ DOMAIN s = 1 .. Len(s) /\ Len(s) \in Nat
      /\ t[Len(s) + 1] = e /\ \A n \in 1 .. Len(s) : t[n] = s[n]
  OBVIOUS
<1> HIDE DEF t
<1>2. \A x : x \in Members(t) => x \in Members(s) \cup {e}
  BY <1>1 DEF Members
<1>3. \A n \in DOMAIN s : t[n] = s[n] /\ n \in DOMAIN t
  BY <1>1
<1>4. Len(s) + 1 \in DOMAIN t
  BY <1>1
<1>5. \A x : x \in Members(s) \cup {e} => x \in Members(t)
  BY <1>1, <1>3, <1>4 DEF Members
<1>6. Members(t) = Members(s) \cup {e}
  BY <1>2, <1>5
<1> QED BY <1>1, <1>6 DEF t

LEMMA AlwaysInWork == Spec => []InWork
<1>1. Init => InWork
  BY SizeAssumption DEF Init, InWork, Working
<1>2. OnceMade /\ InWork /\ [Next]_vars => InWork'
  <2> SUFFICES ASSUME OnceMade, InWork, [Next]_vars PROVE InWork'
    OBVIOUS
  <2> USE SizeAssumption DEF InWork, Working
  <2>1. CASE Trainer \/ Shutdown \/ Stopping \/ Work \/ Ended \/ UNCHANGED vars
    BY <2>1, OthersLeaveTeacher DEF teacherVars
  <2>2. CASE Teacher
    <3>1. CASE Loop BY <3>1 DEF Loop
    <3>2. CASE Get BY <3>2 DEF Get
    <3>3. CASE GetNothing BY <3>3 DEF GetNothing
    <3>4. CASE CheckRunning
      <4>1. CASE pc' = "dead" BY <3>4, <4>1 DEF CheckRunning
      <4>2. CASE pc' = "submit"
        <5>1. /\ pc = "check" /\ at' = 1 /\ solvable' = {} /\ batch' = batch
              /\ handled' = Append(handled, batch)
          BY <3>4, <4>2 DEF CheckRunning
        <5>2. batch \in Batch /\ handled \in Seq(Batch)
          BY <5>1 DEF OnceMade
        <5>3. batch \in Members(handled')
          BY <5>1, <5>2, MembersAppend
        <5> QED BY <4>2, <5>1, <5>2, <5>3
      <4> QED BY <3>4, <4>1, <4>2 DEF CheckRunning
    <3>5. CASE ScanItem BY <3>5 DEF ScanItem
    <3>6. CASE ScheduleCall BY <3>6 DEF ScheduleCall
    <3>7. CASE Collect
      <4>1. /\ pc = "collect" /\ at \in 1 .. Width /\ at' = at + 1
            /\ UNCHANGED <<pc, batch, handled>>
            /\ solvable' \subseteq solvable \cup {<<batch, at>>}
        BY <3>7 DEF Collect
      <4> QED BY <4>1
    <3>8. CASE Collected BY <3>8 DEF Collected
    <3>9. CASE Measure BY <3>9 DEF Measure
    <3>10. CASE AddSolvable BY <3>10 DEF AddSolvable
    <3>11. CASE After BY <3>11 DEF After
    <3>12. CASE SubmitTeacherBatch BY <3>12 DEF SubmitTeacherBatch
    <3> QED
      BY <2>2, <3>1, <3>2, <3>3, <3>4, <3>5, <3>6, <3>7, <3>8, <3>9, <3>10, <3>11, <3>12
      DEF Teacher
  <2> QED BY <2>1, <2>2 DEF Next
<1> QED BY <1>1, <1>2, AlwaysOnceMade, PTL DEF Spec

(* An item is sent to the model once: those that wait, are asked now, or   *)
(* were answered belong to a batch that was taken up, and to its part that *)
(* was scanned.  So nobody asks again for an answer that is there.         *)
AskedOnce ==
  /\ waiting \in Seq(Item) /\ calling \subseteq Item
  /\ answer \in [Item -> Answers \cup {Silent}]
  /\ Once(waiting) /\ Members(waiting) \cap calling = {}
  /\ \A i \in Members(waiting) \cup calling : answer[i] = Silent
  /\ \A i \in Item :
       i \in Members(waiting) \cup calling \/ answer[i] # Silent
       => /\ i[1] \in Members(handled)
          /\ pc \in {"submit", "schedule"} /\ i[1] = batch => i[2] < at

LEMMA TeacherKeepsAskedOnce ==
  ASSUME OnceMade, InWork, AskedOnce, Teacher PROVE AskedOnce'
<1>1. CASE ScheduleCall
  <2> DEFINE item == <<batch, at>>
  <2>1. pc = "schedule" /\ UNCHANGED <<handled, calling, answer>>
    BY <1>1 DEF ScheduleCall
  <2>2. CASE ~open
    <3>1. pc' = "loop" /\ UNCHANGED waiting
      BY <1>1, <2>2 DEF ScheduleCall
    <3> QED BY <2>1, <3>1 DEF AskedOnce
  <2>3. CASE open
    <3>1. /\ waiting' = Append(waiting, item) /\ at' = at + 1 /\ batch' = batch
          /\ pc' = "submit"
      BY <1>1, <2>3 DEF ScheduleCall
    <3>2. /\ item \in Item /\ item[1] = batch /\ item[2] = at /\ at \in Nat
          /\ batch \in Members(handled)
      BY <2>1, SizeAssumption DEF InWork, Working, Item
    <3>3. item \notin Members(waiting) \cup calling /\ answer[item] = Silent
      BY <2>1, <3>2 DEF AskedOnce
    <3>4. waiting' \in Seq(Item) /\ Members(waiting') = Members(waiting) \cup {item}
      BY <3>1, <3>2, MembersAppend DEF AskedOnce
    <3>5. Once(waiting')
      BY <3>1, <3>2, <3>3 DEF AskedOnce, Once, Members
    <3>6. \A i \in Item :
            i \in Members(waiting') \cup calling' \/ answer'[i] # Silent
            => /\ i[1] \in Members(handled')
               /\ pc' \in {"submit", "schedule"} /\ i[1] = batch' => i[2] < at'
      <4> TAKE i \in Item
      <4> HAVE i \in Members(waiting') \cup calling' \/ answer'[i] # Silent
      <4>1. CASE i = item
        BY <4>1, <2>1, <3>1, <3>2
      <4>2. CASE i # item
        <5>1. i \in Members(waiting) \cup calling \/ answer[i] # Silent
          BY <4>2, <2>1, <3>4
        <5>2. i[1] \in Members(handled) /\ (i[1] = batch => i[2] < at)
          BY <5>1, <2>1 DEF AskedOnce
        <5>3. i[2] \in Nat
          BY SizeAssumption DEF Item
        <5> QED BY <5>2, <5>3, <2>1, <3>1, <3>2
      <4> QED BY <4>1, <4>2
    <3> HIDE DEF item
    <3> QED BY <2>1, <3>2, <3>3, <3>4, <3>5, <3>6 DEF AskedOnce
  <2> QED BY <2>2, <2>3
<1>2. CASE CheckRunning
  <2>1. UNCHANGED <<waiting, calling, answer>>
    BY <1>2 DEF CheckRunning, workVars
  <2>2. CASE pc' = "dead"
    BY <1>2, <2>1, <2>2 DEF CheckRunning, AskedOnce
  <2>3. CASE pc' = "submit"
    <3>1. pc = "check" /\ handled' = Append(handled, batch) /\ batch' = batch
      BY <1>2, <2>3 DEF CheckRunning
    <3>2. batch \in Batch /\ handled \in Seq(Batch) /\ batch \notin Members(handled)
      BY <3>1 DEF OnceMade, EachBatchOnce
    <3>3. Members(handled') = Members(handled) \cup {batch}
      BY <3>1, <3>2, MembersAppend
    <3>4. \A i \in Item :
            i \in Members(waiting) \cup calling \/ answer[i] # Silent
            => i[1] \in Members(handled') /\ i[1] # batch'
      BY <3>1, <3>2, <3>3 DEF AskedOnce
    <3> QED BY <2>1, <3>4 DEF AskedOnce
  <2> QED BY <1>2, <2>2, <2>3 DEF CheckRunning
<1>3. CASE ScanItem
  <2>1. /\ UNCHANGED <<waiting, calling, answer, handled, batch>> /\ pc = "submit"
        /\ (pc' = "schedule" /\ at' = at) \/ (pc' = pc /\ at' = at + 1) \/ pc' = "collect"
    BY <1>3 DEF ScanItem, workVars
  <2>2. \A i \in Item : i[2] \in Nat
    BY SizeAssumption DEF Item
  <2>3. at \in Nat
    BY SizeAssumption DEF InWork
  <2>4. \A i \in Item :
          i \in Members(waiting) \cup calling \/ answer[i] # Silent
          => /\ i[1] \in Members(handled)
             /\ pc' \in {"submit", "schedule"} /\ i[1] = batch => i[2] < at'
    BY <2>1, <2>2, <2>3 DEF AskedOnce
  <2> QED BY <2>1, <2>4 DEF AskedOnce
<1>4. ASSUME UNCHANGED <<waiting, calling, answer, handled>>, pc' \notin {"submit", "schedule"}
      PROVE  AskedOnce'
  BY <1>4 DEF AskedOnce
<1>5. CASE Loop \/ Get \/ GetNothing
  BY <1>4, <1>5 DEF Loop, Get, GetNothing, workVars
<1>6. CASE Collect \/ Collected \/ Measure
  BY <1>4, <1>6 DEF Collect, Collected, Measure, workVars
<1>7. CASE AddSolvable \/ After \/ SubmitTeacherBatch
  BY <1>4, <1>7 DEF AddSolvable, After, SubmitTeacherBatch, workVars
<1> QED BY <1>1, <1>2, <1>3, <1>5, <1>6, <1>7 DEF Teacher

(* A call goes from the queue of the executor to a worker, and ends.       *)
LEMMA WorkKeepsAskedOnce ==
  ASSUME AskedOnce, Work PROVE AskedOnce'
<1>1. UNCHANGED <<handled, pc, batch, at>>
  BY DEF Work, StartCall, EndCall, teacherVars
<1>2. CASE StartCall
  <2>1. /\ waiting # <<>> /\ waiting' = Tail(waiting) /\ UNCHANGED answer
        /\ calling' = calling \cup {Head(waiting)} /\ waiting \in Seq(Item)
    BY <1>2 DEF StartCall, AskedOnce
  <2>2. /\ waiting' \in Seq(Item) /\ Head(waiting) \in Item /\ Head(waiting) \in Members(waiting)
        /\ Members(waiting') \subseteq Members(waiting)
    BY <2>1 DEF Members
  <2>3. Once(waiting') /\ Head(waiting) \notin Members(waiting')
    BY <2>1 DEF AskedOnce, Once, Members
  <2> QED BY <1>1, <2>1, <2>2, <2>3 DEF AskedOnce
<1>3. CASE EndCall
  <2>1. PICK item \in calling, a \in Answers :
          /\ calling' = calling \ {item} /\ answer' = [answer EXCEPT ![item] = a]
          /\ UNCHANGED waiting
    BY <1>3 DEF EndCall
  <2>2. item \in Item /\ item \notin Members(waiting)
    BY DEF AskedOnce
  <2>3. /\ answer' \in [Item -> Answers \cup {Silent}]
        /\ \A i \in Item : i # item => answer'[i] = answer[i]
    BY <2>1, <2>2 DEF AskedOnce
  <2>4. \A i \in Members(waiting') \cup calling' : answer'[i] = Silent
    BY <2>1, <2>2, <2>3 DEF AskedOnce, Members
  <2>5. \A i \in Item :
          i \in Members(waiting') \cup calling' \/ answer'[i] # Silent
          => i \in Members(waiting) \cup calling \/ answer[i] # Silent
    BY <2>1, <2>2, <2>3
  <2> QED BY <1>1, <2>1, <2>3, <2>4, <2>5 DEF AskedOnce
<1> QED BY <1>2, <1>3 DEF Work

LEMMA AlwaysAskedOnce == Spec => []AskedOnce
<1>1. Init => AskedOnce
  BY DEF Init, AskedOnce, Once, Members
<1>2. OnceMade /\ InWork /\ AskedOnce /\ [Next]_vars => AskedOnce'
  <2> SUFFICES ASSUME OnceMade, InWork, AskedOnce, [Next]_vars PROVE AskedOnce'
    OBVIOUS
  <2>1. CASE Trainer \/ Shutdown \/ Stopping \/ Ended \/ UNCHANGED vars
    BY <2>1, OthersLeaveTeacher, OthersLeaveCalls DEF teacherVars, workVars, AskedOnce
  <2>2. CASE Teacher BY <2>2, TeacherKeepsAskedOnce
  <2>3. CASE Work BY <2>3, WorkKeepsAskedOnce
  <2> QED BY <2>1, <2>2, <2>3 DEF Next
<1> QED BY <1>1, <1>2, AlwaysOnceMade, AlwaysInWork, PTL DEF Spec

-----------------------------------------------------------------------------
(* Where the items are that came through the inbox, and which ones entered *)
(* at all: only solvable ones, of batches that were taken up; and those of *)
(* the batch in work have not been handed over yet.                        *)
Object == (Item \cup Seed) \X {"now", "later"}
Waits(i) == Holding(inbox, i) # {} \/ Holding(packets, i) # {}
Stored == pool \cup archive

Entered ==
  /\ inbox \in Seq(SUBSET Item) /\ packets \in Seq(SUBSET Item)
  /\ pool \subseteq Object /\ archive \subseteq Object
  /\ \A i \in Item : Waits(i) \/ <<i, "later">> \in Stored =>
       i[1] \in Members(handled) /\ ~(pc \in Working /\ i[1] = batch)
  /\ \A i \in Item : <<i, "now">> \in Stored =>
       i[1] \in Members(handled) /\ ~(pc \in Working \ {"after", "fallback"} /\ i[1] = batch)

(* There are finitely many objects, so the pool has a size, and add_many   *)
(* leaves at most Capacity of them.                                        *)
LEMMA FiniteObjects == IsFiniteSet(Object)
<1>1. IsFiniteSet(1 .. Width)
  BY SizeAssumption, FS_Interval
<1>2. IsFiniteSet(Item)
  BY <1>1, BatchAssumption, FS_Product DEF Item
<1>3. IsFiniteSet(Item \cup Seed)
  BY <1>2, BatchAssumption, FS_Union
<1>4. IsFiniteSet({"now", "later"})
  <2>1. IsFiniteSet({"now"} \cup {"later"})
    BY FS_Singleton, FS_Union
  <2>2. {"now"} \cup {"later"} = {"now", "later"}
    OBVIOUS
  <2> QED BY <2>1, <2>2
<1> QED BY <1>3, <1>4, FS_Product DEF Object

LEMMA AddManyKeeps ==
  ASSUME pool \subseteq Object, NEW objects \in SUBSET Object, AddMany(objects)
  PROVE  /\ pool' \subseteq pool \cup objects /\ pool' \subseteq Object
         /\ Cardinality(pool') <= Capacity
<1>1. PICK valid \in SUBSET objects : \E kept \in SUBSET (pool \cup valid) :
        /\ Cardinality(kept) = AtMost(Cardinality(pool \cup valid), Capacity)
        /\ pool' = kept
  BY DEF AddMany
<1>2. IsFiniteSet(pool \cup valid)
  BY FiniteObjects, FS_Subset
<1>3. Cardinality(pool \cup valid) \in Nat
  BY <1>2, FS_CardinalityType
<1>4. Cardinality(pool') <= Capacity
  BY <1>1, <1>3, SizeAssumption DEF AtMost
<1> QED BY <1>1, <1>4

(* The new inbox: the packet at the end, and at most the oldest fallen off. *)
LEMMA Pushed ==
  ASSUME inbox \in Seq(SUBSET Item), NEW items \in SUBSET Item, PushInbox(items)
  PROVE  /\ inbox' \in Seq(SUBSET Item)
         /\ \E off \in {0, 1} :
              /\ Len(inbox') = Len(inbox) + 1 - off
              /\ \A n \in 1 .. Len(inbox') :
                   inbox'[n] = IF n + off <= Len(inbox) THEN inbox[n + off] ELSE items
<1> DEFINE all == Append(inbox, items)
<1>1. /\ all \in Seq(SUBSET Item) /\ Len(all) = Len(inbox) + 1 /\ Len(inbox) \in Nat
      /\ \A n \in 1 .. Len(all) : all[n] = IF n <= Len(inbox) THEN inbox[n] ELSE items
  OBVIOUS
<1>2. inbox' = Tail(all) \/ inbox' = all
  BY DEF PushInbox
<1> HIDE DEF all
<1>3. CASE inbox' = all
  BY <1>1, <1>3
<1>4. CASE inbox' = Tail(all)
  <2>1. /\ inbox' \in Seq(SUBSET Item) /\ Len(inbox') = Len(all) - 1
        /\ \A n \in 1 .. Len(inbox') : inbox'[n] = all[n + 1]
    BY <1>1, <1>4
  <2>2. \A n \in 1 .. Len(inbox') :
          inbox'[n] = IF n + 1 <= Len(inbox) THEN inbox[n + 1] ELSE items
    BY <1>1, <2>1
  <2> QED BY <1>1, <2>1, <2>2
<1> QED BY <1>2, <1>3, <1>4

LEMMA PushedHolding ==
  ASSUME inbox \in Seq(SUBSET Item), NEW items \in SUBSET Item, PushInbox(items)
  PROVE  /\ inbox' \in Seq(SUBSET Item)
         /\ \A i \in Item : Holding(inbox', i) # {} => Holding(inbox, i) # {} \/ i \in items
<1>1. PICK off \in {0, 1} :
        /\ inbox' \in Seq(SUBSET Item) /\ Len(inbox') = Len(inbox) + 1 - off
        /\ \A n \in 1 .. Len(inbox') :
             inbox'[n] = IF n + off <= Len(inbox) THEN inbox[n + off] ELSE items
  BY Pushed
<1>2. ASSUME NEW i \in Item, NEW n \in 1 .. Len(inbox'), i \in inbox'[n], i \notin items
      PROVE  \E m \in DOMAIN inbox : i \in inbox[m]
  <2>1. n + off <= Len(inbox) /\ i \in inbox[n + off]
    BY <1>1, <1>2
  <2>2. n + off \in DOMAIN inbox
    BY <2>1
  <2> QED BY <2>1, <2>2
<1> QED BY <1>1, <1>2 DEF Holding

(* Steps that bring nothing in, and do not begin with a batch.             *)
LEMMA NothingEnters ==
  ASSUME Entered,
         inbox' \in Seq(SUBSET Item), packets' \in Seq(SUBSET Item),
         pool' \subseteq Object, archive' \subseteq Object,
         \A i \in Item : Waits(i)' \/ <<i, "later">> \in Stored'
                        => Waits(i) \/ <<i, "later">> \in Stored,
         \A i \in Item : <<i, "now">> \in Stored' => <<i, "now">> \in Stored,
         UNCHANGED handled,
         \/ UNCHANGED <<pc, batch>>
         \/ pc' \notin Working
         \/ /\ pc \in Working /\ UNCHANGED batch
            /\ pc \in {"after", "fallback"} => pc' \in {"after", "fallback"}
  PROVE  Entered'
BY DEF Entered

LEMMA SameStored ==
  ASSUME UNCHANGED <<inbox, packets, pool, archive>>
  PROVE  \A i \in Item : (Waits(i)' <=> Waits(i)) /\ Stored' = Stored
BY DEF Waits, Holding, Stored

(* The drain of the inbox, the packets that are added, recycling and       *)
(* sampling bring in nothing that did not wait or was not stored.          *)
LEMMA TrainerMoves ==
  ASSUME Entered, Trainer
  PROVE  /\ inbox' \in Seq(SUBSET Item) /\ packets' \in Seq(SUBSET Item)
         /\ pool' \subseteq Object /\ archive' \subseteq Object
         /\ \A i \in Item : Waits(i)' => Waits(i)
         /\ \A o \in Stored' \ Stored : \E i \in Item : o = <<i, "later">> /\ Waits(i)
<1> USE DEF Entered
<1>1. CASE DrainInbox
  <2>1. packets' = inbox /\ inbox' = <<>> /\ UNCHANGED <<pool, archive>>
    BY <1>1 DEF DrainInbox
  <2>2. \A i \in Item : Waits(i)' => Waits(i)
    BY <2>1 DEF Waits, Holding
  <2> QED BY <2>1, <2>2 DEF Stored
<1>2. CASE AddPacket
  <2>1. /\ packets # <<>> /\ packets' = Tail(packets) /\ UNCHANGED <<inbox, archive>>
        /\ AddMany(Head(packets) \X {"later"})
    BY <1>2 DEF AddPacket
  <2>2. /\ Head(packets) \in SUBSET Item /\ packets' \in Seq(SUBSET Item)
        /\ \A i \in Head(packets) : Holding(packets, i) # {}
        /\ \A i \in Item : Holding(packets', i) # {} => Holding(packets, i) # {}
    BY <2>1 DEF Holding
  <2>3. Head(packets) \X {"later"} \in SUBSET Object
    BY <2>2 DEF Object
  <2>4. pool' \subseteq pool \cup (Head(packets) \X {"later"}) /\ pool' \subseteq Object
    BY <2>1, <2>3, AddManyKeeps
  <2> QED BY <2>1, <2>2, <2>4 DEF Waits, Stored, Holding
<1>3. CASE Recycle
  <2>1. /\ UNCHANGED <<inbox, packets>>
        /\ \/ AddMany(archive) /\ archive' = {}
           \/ UNCHANGED <<pool, archive>>
    BY <1>3 DEF Recycle
  <2>2. AddMany(archive) => pool' \subseteq pool \cup archive /\ pool' \subseteq Object
    BY AddManyKeeps
  <2> QED BY <2>1, <2>2 DEF Waits, Holding, Stored
<1>4. CASE Sample
  <2>1. /\ UNCHANGED <<inbox, packets>>
        /\ \E S \in SUBSET pool : pool' = pool \ S /\ ArchiveTrained(S)
    BY <1>4 DEF Sample
  <2>2. pool' \subseteq pool /\ archive' \subseteq archive \cup pool
    BY <2>1 DEF ArchiveTrained
  <2> QED BY <2>1, <2>2 DEF Waits, Holding, Stored
<1>5. CASE CheckRoom \/ EnqueueAug
  BY <1>5 DEF CheckRoom, EnqueueAug, Waits, Holding, Stored
<1> QED BY <1>1, <1>2, <1>3, <1>4, <1>5 DEF Trainer

(* The steps of the teacher's thread but for the two that hand its items   *)
(* over, and those of everyone but the trainer's loop.                     *)
LEMMA QuietSteps ==
  ASSUME \/ Shutdown \/ Stopping \/ Work \/ Ended \/ UNCHANGED vars
         \/ Teacher /\ ~AddSolvable /\ ~SubmitTeacherBatch
  PROVE  UNCHANGED <<inbox, packets, pool, archive>>
BY DEF Shutdown, Stopping, Work, Ended, vars, trainerVars, Teacher,
       CloseExecutor, ExecutorClosed, Join, StartCall, EndCall,
       Loop, Get, GetNothing, CheckRunning, ScanItem, ScheduleCall,
       Collect, Collected, Measure, After

LEMMA TeacherKeepsEntered ==
  ASSUME OnceMade, InWork, Entered, Teacher PROVE Entered'
<1>1. CASE CheckRunning
  <2>1. UNCHANGED <<inbox, packets, pool, archive>> /\ pc = "check"
    BY <1>1, QuietSteps DEF Teacher, CheckRunning, AddSolvable, SubmitTeacherBatch
  <2>2. CASE pc' = "dead"
    <3>1. UNCHANGED handled
      BY <1>1, <2>2 DEF CheckRunning
    <3> QED BY <2>1, <2>2, <3>1, SameStored, NothingEnters DEF Entered, Working
  <2>3. CASE pc' = "submit"
    <3>1. handled' = Append(handled, batch) /\ batch' = batch
      BY <1>1, <2>3 DEF CheckRunning
    <3>2. batch \in Batch /\ handled \in Seq(Batch) /\ batch \notin Members(handled)
      BY <2>1 DEF OnceMade, EachBatchOnce
    <3>3. Members(handled') = Members(handled) \cup {batch}
      BY <3>1, <3>2, MembersAppend
    <3> QED BY <2>1, <3>1, <3>2, <3>3, SameStored DEF Entered
  <2> QED BY <1>1, <2>2, <2>3 DEF CheckRunning
<1>2. CASE AddSolvable
  <2>1. /\ pc = "add" /\ pc' = "after" /\ AddMany(solvable \X {"now"})
        /\ UNCHANGED <<inbox, packets, archive, batch, handled>>
    BY <1>2 DEF AddSolvable, trainerVars
  <2>2. /\ batch \in Members(handled) /\ solvable \subseteq Item
        /\ \A i \in solvable : i[1] = batch
    BY <2>1 DEF InWork, Working, Item
  <2>3. solvable \X {"now"} \in SUBSET Object
    BY <2>2 DEF Object
  <2>4. pool' \subseteq pool \cup (solvable \X {"now"}) /\ pool' \subseteq Object
    BY <2>1, <2>3, AddManyKeeps DEF Entered
  <2>5. \A i \in Item :
          /\ Waits(i)' => Waits(i)
          /\ <<i, "later">> \in Stored' => <<i, "later">> \in Stored
          /\ <<i, "now">> \in Stored' => <<i, "now">> \in Stored \/ i \in solvable
    BY <2>1, <2>4 DEF Waits, Holding, Stored
  <2>6. \A i \in Item : Waits(i)' \/ <<i, "later">> \in Stored' =>
          i[1] \in Members(handled') /\ ~(pc' \in Working /\ i[1] = batch')
    <3> TAKE i \in Item
    <3> HAVE Waits(i)' \/ <<i, "later">> \in Stored'
    <3>1. Waits(i) \/ <<i, "later">> \in Stored
      BY <2>5
    <3>2. i[1] \in Members(handled) /\ ~(pc \in Working /\ i[1] = batch)
      BY <3>1 DEF Entered
    <3> QED BY <2>1, <3>2 DEF Working
  <2>7. \A i \in Item : <<i, "now">> \in Stored' => i[1] \in Members(handled')
    <3> TAKE i \in Item
    <3> HAVE <<i, "now">> \in Stored'
    <3>1. <<i, "now">> \in Stored \/ i \in solvable
      BY <2>5
    <3>2. i[1] \in Members(handled)
      BY <2>2, <3>1 DEF Entered
    <3> QED BY <2>1, <3>2
  <2> QED BY <2>1, <2>4, <2>6, <2>7 DEF Entered
<1>3. CASE SubmitTeacherBatch
  <2>1. /\ pc = "fallback" /\ pc' = "loop" /\ PushInbox(solvable)
        /\ UNCHANGED <<packets, pool, archive, handled>>
    BY <1>3 DEF SubmitTeacherBatch, trainerVars
  <2>2. /\ batch \in Members(handled) /\ solvable \subseteq Item
        /\ \A i \in solvable : i[1] = batch
    BY <2>1 DEF InWork, Working, Item
  <2>3. /\ inbox' \in Seq(SUBSET Item)
        /\ \A i \in Item : Holding(inbox', i) # {} => Holding(inbox, i) # {} \/ i \in solvable
    BY <2>1, <2>2, PushedHolding DEF Entered
  <2>4. \A i \in Item : Waits(i)' => Waits(i) \/ i \in solvable
    BY <2>1, <2>3 DEF Waits, Holding
  <2>5. \A i \in Item : Waits(i)' \/ <<i, "later">> \in Stored' => i[1] \in Members(handled')
    BY <2>1, <2>2, <2>4 DEF Entered, Stored
  <2>6. \A i \in Item : <<i, "now">> \in Stored' => i[1] \in Members(handled')
    BY <2>1 DEF Entered, Stored
  <2> QED BY <2>1, <2>3, <2>5, <2>6 DEF Entered, Working
<1>4. CASE ~CheckRunning /\ ~AddSolvable /\ ~SubmitTeacherBatch
  <2>1. UNCHANGED <<inbox, packets, pool, archive>>
    BY <1>4, QuietSteps
  <2>2. /\ UNCHANGED handled
        /\ \/ UNCHANGED <<pc, batch>>
           \/ pc' \notin Working
           \/ /\ pc \in Working /\ UNCHANGED batch
              /\ pc \in {"after", "fallback"} => pc' \in {"after", "fallback"}
    BY <1>4 DEF Teacher, Working, Loop, Get, GetNothing, ScanItem, ScheduleCall,
                Collect, Collected, Measure, After
  <2> QED BY <2>1, <2>2, SameStored, NothingEnters DEF Entered
<1> QED BY <1>1, <1>2, <1>3, <1>4

LEMMA AlwaysEntered == Spec => []Entered
<1>1. Init => Entered
  <2> SUFFICES ASSUME Init PROVE Entered
    OBVIOUS
  <2>1. /\ inbox = <<>> /\ packets = <<>> /\ archive = {} /\ pool = Seed \X {"now"}
    BY DEF Init
  <2>2. \A i \in Item : i \notin Seed
    BY SeedsAreNoItems
  <2>3. \A i \in Item : ~Waits(i)
    BY <2>1 DEF Waits, Holding
  <2>4. \A i \in Item : <<i, "later">> \notin Stored /\ <<i, "now">> \notin Stored
    <3>1. Stored = Seed \X {"now"}
      BY <2>1 DEF Stored
    <3> QED BY <2>2, <3>1
  <2>5. inbox \in Seq(SUBSET Item) /\ packets \in Seq(SUBSET Item)
    BY <2>1
  <2>6. pool \subseteq Object /\ archive \subseteq Object
    BY <2>1 DEF Object
  <2> QED BY <2>3, <2>4, <2>5, <2>6 DEF Entered
<1>2. OnceMade /\ InWork /\ Entered /\ [Next]_vars => Entered'
  <2> SUFFICES ASSUME OnceMade, InWork, Entered, [Next]_vars PROVE Entered'
    OBVIOUS
  <2>1. CASE Trainer
    <3>1. \A i \in Item : <<i, "now">> \in Stored' => <<i, "now">> \in Stored
      BY <2>1, TrainerMoves
    <3>2. \A i \in Item : Waits(i)' \/ <<i, "later">> \in Stored'
                         => Waits(i) \/ <<i, "later">> \in Stored
      BY <2>1, TrainerMoves
    <3> QED BY <2>1, <3>1, <3>2, TrainerMoves, OthersLeaveTeacher, NothingEnters DEF teacherVars
  <2>2. CASE Shutdown \/ Stopping \/ Work \/ Ended \/ UNCHANGED vars
    BY <2>2, QuietSteps, OthersLeaveTeacher, SameStored, NothingEnters DEF teacherVars, Entered
  <2>3. CASE Teacher BY <2>3, TeacherKeepsEntered
  <2> QED BY <2>1, <2>2, <2>3 DEF Next
<1> QED BY <1>1, <1>2, AlwaysOnceMade, AlwaysInWork, PTL DEF Spec

-----------------------------------------------------------------------------
(* Every item that entered was answered, and the answer was accepted.      *)
Solved ==
  /\ \A i \in Item : Waits(i) \/ i \in Ids(Stored) => answer[i] \in Accepted
  /\ pc \in Working => \A i \in solvable : answer[i] \in Accepted

(* Only an item that is called gets an answer, and it has none yet.        *)
LEMMA AnswersStay ==
  ASSUME AskedOnce, [Next]_vars, NEW i \in Item, answer[i] \in Accepted
  PROVE  answer'[i] = answer[i]
<1>1. CASE EndCall
  <2>1. PICK item \in calling, a \in Answers : answer' = [answer EXCEPT ![item] = a]
    BY <1>1 DEF EndCall
  <2>2. answer[item] = Silent
    BY DEF AskedOnce
  <2>3. i # item
    BY <2>2 DEF Silent, Accepted
  <2> QED BY <2>1, <2>3 DEF AskedOnce
<1>2. CASE ~EndCall
  BY <1>2, OthersLeaveCalls
  DEF Next, Work, StartCall, workVars, Teacher, Loop, Get, GetNothing, CheckRunning, ScanItem,
      ScheduleCall, Collect, Collected, Measure, AddSolvable, After, SubmitTeacherBatch
<1> QED BY <1>1, <1>2

(* The items that a step brings in are the solvable ones of the batch.     *)
LEMMA OnlySolvableComeIn ==
  ASSUME InWork, Entered, [Next]_vars, NEW i \in Item, Waits(i)' \/ i \in Ids(Stored')
  PROVE  Waits(i) \/ i \in Ids(Stored) \/ (pc \in Working /\ i \in solvable)
<1>1. CASE Trainer
  <2>1. \A o \in Stored' \ Stored : \E j \in Item : o = <<j, "later">> /\ Waits(j)
    BY <1>1, TrainerMoves
  <2>2. i \in Ids(Stored') => i \in Ids(Stored) \/ Waits(i)
    BY <2>1 DEF Ids
  <2> QED BY <1>1, <2>2, TrainerMoves
<1>2. CASE \/ Shutdown \/ Stopping \/ Work \/ Ended \/ UNCHANGED vars
           \/ Teacher /\ ~AddSolvable /\ ~SubmitTeacherBatch
  BY <1>2, QuietSteps, SameStored
<1>3. CASE AddSolvable
  <2>1. /\ pc = "add" /\ AddMany(solvable \X {"now"}) /\ UNCHANGED <<inbox, packets, archive>>
    BY <1>3 DEF AddSolvable, trainerVars
  <2>2. solvable \X {"now"} \in SUBSET Object
    BY <2>1 DEF InWork, Working, Object, Item
  <2>3. pool' \subseteq pool \cup (solvable \X {"now"})
    BY <2>1, <2>2, AddManyKeeps DEF Entered
  <2>4. i \in Ids(Stored') => i \in Ids(Stored) \/ i \in solvable
    BY <2>1, <2>3 DEF Ids, Stored
  <2>5. Waits(i)' => Waits(i)
    BY <2>1 DEF Waits, Holding
  <2> QED BY <2>1, <2>4, <2>5 DEF Working
<1>4. CASE SubmitTeacherBatch
  <2>1. pc = "fallback" /\ PushInbox(solvable) /\ UNCHANGED <<packets, pool, archive>>
    BY <1>4 DEF SubmitTeacherBatch, trainerVars
  <2>2. solvable \in SUBSET Item
    BY <2>1 DEF InWork, Working, Item
  <2>3. Holding(inbox', i) # {} => Holding(inbox, i) # {} \/ i \in solvable
    BY <2>1, <2>2, PushedHolding DEF Entered
  <2>4. Waits(i)' => Waits(i) \/ i \in solvable
    BY <2>1, <2>3 DEF Waits, Holding
  <2> QED BY <2>1, <2>4 DEF Working, Stored, Ids
<1> QED BY <1>1, <1>2, <1>3, <1>4 DEF Next

(* Collect marks an item that has an accepted answer.                      *)
LEMMA MarkedAreAccepted ==
  ASSUME InWork, Solved, [Next]_vars, pc' \in Working, NEW i \in solvable'
  PROVE  answer[i] \in Accepted
<1>1. CASE Collect
  <2>1. pc \in Working /\ pc = "collect"
    BY <1>1 DEF Collect, Working
  <2>2. i \in solvable \/ answer[i] \in Accepted
    BY <1>1 DEF Collect
  <2> QED BY <2>1, <2>2 DEF Solved
<1>2. CASE CheckRunning
  <2>1. solvable' = {}
    BY <1>2 DEF CheckRunning, Working
  <2> QED BY <2>1
<1>3. CASE UNCHANGED <<pc, solvable>>
  BY <1>3 DEF Solved
<1>4. CASE Teacher /\ ~Collect /\ ~CheckRunning
  <2>1. pc \in Working /\ solvable' = solvable
    BY <1>4 DEF Teacher, Working, Loop, Get, GetNothing, ScanItem, ScheduleCall,
                Collected, Measure, AddSolvable, After, SubmitTeacherBatch
  <2> QED BY <2>1 DEF Solved
<1>5. CASE Trainer \/ Shutdown \/ Stopping \/ Work \/ Ended \/ UNCHANGED vars
  BY <1>3, <1>5, OthersLeaveTeacher DEF teacherVars
<1> QED BY <1>1, <1>2, <1>4, <1>5 DEF Next

LEMMA AlwaysSolved == Spec => []Solved
<1>1. Init => Solved
  <2> SUFFICES ASSUME Init PROVE Solved
    OBVIOUS
  <2>1. inbox = <<>> /\ packets = <<>> /\ Stored = Seed \X {"now"} /\ pc = "loop"
    BY DEF Init, Stored
  <2>2. \A i \in Item : ~Waits(i) /\ i \notin Ids(Stored)
    BY <2>1, SeedsAreNoItems DEF Waits, Holding, Ids
  <2> QED BY <2>1, <2>2 DEF Solved, Working
<1>2. InWork /\ InWork' /\ AskedOnce /\ Entered /\ Solved /\ [Next]_vars => Solved'
  <2> SUFFICES ASSUME InWork, InWork', AskedOnce, Entered, Solved, [Next]_vars PROVE Solved'
    OBVIOUS
  <2>1. ASSUME NEW i \in Item, Waits(i)' \/ i \in Ids(Stored') PROVE answer'[i] \in Accepted
    <3>1. answer[i] \in Accepted
      BY <2>1, OnlySolvableComeIn DEF Solved
    <3> QED BY <3>1, AnswersStay
  <2>2. ASSUME pc' \in Working, NEW i \in solvable' PROVE answer'[i] \in Accepted
    <3>1. answer[i] \in Accepted
      BY <2>2, MarkedAreAccepted
    <3>2. i \in Item
      BY <2>2 DEF InWork, Item
    <3> QED BY <3>1, <3>2, AnswersStay
  <2>3. Ids(Stored)' = Ids(Stored') /\ Accepted' = Accepted
    BY DEF Ids, Accepted
  <2> QED BY <2>1, <2>2, <2>3 DEF Solved
<1> QED BY <1>1, <1>2, AlwaysInWork, AlwaysAskedOnce, AlwaysEntered, PTL DEF Spec

(* RefusedStaysOut, for any number of batches, items and workers and any   *)
(* sizes: whenever the answers come, and however often shutdown and        *)
(* timeouts cut a batch short, no query is trained on, archived or left in *)
(* the inbox that the teacher model did not answer, or refused.            *)
THEOREM AlwaysRefusedStaysOut == Spec => []RefusedStaysOut
<1>1. ASSUME Solved, NEW i \in Item \cap LetIn PROVE answer[i] \in Accepted
  <2>1. CASE i \in Ids(pool \cup archive)
    BY <1>1, <2>1 DEF Solved, Stored
  <2>2. CASE i \in UNION (Members(inbox) \cup Members(packets))
    <3>1. Waits(i)
      BY <2>2 DEF Waits, Holding, Members
    <3> QED BY <1>1, <3>1 DEF Solved
  <2> QED BY <2>1, <2>2 DEF LetIn
<1>2. Solved => RefusedStaysOut
  BY <1>1 DEF RefusedStaysOut, Accepted
<1> QED BY <1>2, AlwaysSolved, PTL

-----------------------------------------------------------------------------
(* An item of the inbox is in one packet, of one side, and not stored yet; *)
(* so what is added was never archived.                                    *)
InOne(seq) == \A i \in Item : \A m, n \in DOMAIN seq : i \in seq[m] /\ i \in seq[n] => m = n

Apart ==
  /\ InOne(inbox) /\ InOne(packets)
  /\ \A i \in Item : Holding(inbox, i) = {} \/ Holding(packets, i) = {}
  /\ \A i \in Item : Waits(i) => <<i, "later">> \notin Stored
  /\ PoolBounded

(* An item that is in no packet yet joins the inbox in one.                *)
LEMMA PushedInOne ==
  ASSUME inbox \in Seq(SUBSET Item), NEW items \in SUBSET Item, PushInbox(items),
         InOne(inbox), \A i \in items : Holding(inbox, i) = {}
  PROVE  InOne(inbox')
<1>1. PICK off \in {0, 1} :
        /\ inbox' \in Seq(SUBSET Item) /\ Len(inbox') = Len(inbox) + 1 - off
        /\ \A n \in 1 .. Len(inbox') :
             inbox'[n] = IF n + off <= Len(inbox) THEN inbox[n + off] ELSE items
  BY Pushed
<1>2. DOMAIN inbox = 1 .. Len(inbox) /\ DOMAIN inbox' = 1 .. Len(inbox') /\ Len(inbox) \in Nat
  BY <1>1
<1> SUFFICES ASSUME NEW i \in Item, NEW m \in DOMAIN inbox', NEW n \in DOMAIN inbox',
                    i \in inbox'[m], i \in inbox'[n]
             PROVE  m = n
  BY DEF InOne
<1>3. CASE i \in items
  <2>1. \A k \in DOMAIN inbox : i \notin inbox[k]
    BY <1>3 DEF Holding
  <2>2. \A k \in 1 .. Len(inbox') : i \in inbox'[k] => k + off > Len(inbox)
    BY <1>1, <1>2, <2>1
  <2> QED BY <1>1, <1>2, <2>2
<1>4. CASE i \notin items
  <2>1. \A k \in 1 .. Len(inbox') :
          i \in inbox'[k] => k + off \in DOMAIN inbox /\ i \in inbox[k + off]
    BY <1>1, <1>2, <1>4
  <2>2. m + off = n + off
    BY <1>2, <2>1 DEF InOne
  <2> QED BY <1>2, <2>2
<1> QED BY <1>3, <1>4

LEMMA TrainerKeepsApart ==
  ASSUME Entered, Apart, Trainer PROVE Apart'
<1>1. CASE DrainInbox
  <2>1. packets' = inbox /\ inbox' = <<>> /\ UNCHANGED <<pool, archive>>
    BY <1>1 DEF DrainInbox
  <2>2. InOne(inbox') /\ InOne(packets')
    BY <2>1 DEF Apart, InOne
  <2>3. \A i \in Item : Holding(inbox', i) = {} /\ Holding(packets', i) = Holding(inbox, i)
    BY <2>1 DEF Holding
  <2>4. \A i \in Item : Waits(i)' => Waits(i)
    BY <2>3 DEF Waits, Holding
  <2> QED BY <2>1, <2>2, <2>3, <2>4 DEF Apart, Stored, Holding, PoolBounded
<1>2. CASE AddPacket
  <2> DEFINE first == Head(packets)
  <2>1. /\ packets # <<>> /\ packets' = Tail(packets) /\ UNCHANGED <<inbox, archive>>
        /\ AddMany(first \X {"later"})
    BY <1>2 DEF AddPacket
  <2>2. /\ packets \in Seq(SUBSET Item) /\ first \in SUBSET Item /\ Len(packets) \in Nat \ {0}
        /\ first = packets[1] /\ 1 \in DOMAIN packets
        /\ DOMAIN packets = 1 .. Len(packets) /\ DOMAIN packets' = 1 .. Len(packets) - 1
        /\ \A n \in 1 .. Len(packets) - 1 : packets'[n] = packets[n + 1]
    BY <2>1 DEF Entered
  <2>3. first \X {"later"} \in SUBSET Object
    BY <2>2 DEF Object
  <2>4. pool' \subseteq pool \cup (first \X {"later"}) /\ Cardinality(pool') <= Capacity
    BY <2>1, <2>3, AddManyKeeps DEF Entered
  <2> HIDE DEF first
  <2>5. \A i \in Item : \A n \in DOMAIN packets' :
          i \in packets'[n] => n + 1 \in DOMAIN packets /\ i \in packets[n + 1]
    BY <2>2
  <2>6. InOne(packets')
    BY <2>2, <2>5 DEF Apart, InOne
  <2>7. \A i \in Item : Holding(packets', i) # {} => Holding(packets, i) # {} /\ i \notin first
    <3> SUFFICES ASSUME NEW i \in Item, NEW n \in DOMAIN packets', i \in packets'[n]
                 PROVE  Holding(packets, i) # {} /\ i \notin first
      BY DEF Holding
    <3>1. n + 1 \in DOMAIN packets /\ i \in packets[n + 1] /\ n + 1 # 1
      BY <2>2, <2>5
    <3> QED BY <2>2, <3>1 DEF Holding, Apart, InOne
  <2>8. \A i \in Item : Waits(i)' => Waits(i) /\ i \notin first
    <3> SUFFICES ASSUME NEW i \in Item, Waits(i)' PROVE Waits(i) /\ i \notin first
      OBVIOUS
    <3>1. Holding(inbox, i) # {} \/ Holding(packets', i) # {}
      BY <2>1 DEF Waits, Holding
    <3>2. CASE Holding(packets', i) # {}
      BY <2>7, <3>2 DEF Waits
    <3>3. CASE Holding(inbox, i) # {}
      <4>1. Holding(packets, i) = {}
        BY <3>3 DEF Apart
      <4> QED BY <2>2, <3>3, <4>1 DEF Holding, Waits
    <3> QED BY <3>1, <3>2, <3>3
  <2>9. \A i \in first : <<i, "later">> \notin Stored
    <3>1. \A i \in first : Waits(i)
      BY <2>2 DEF Waits, Holding
    <3> QED BY <2>2, <3>1 DEF Apart
  <2>10. PoolBounded'
    BY <2>1, <2>4, <2>9 DEF Apart, PoolBounded, Stored
  <2>11. \A i \in Item : Waits(i)' => <<i, "later">> \notin Stored'
    BY <2>1, <2>4, <2>8 DEF Apart, Stored
  <2>12. InOne(inbox') /\ \A i \in Item : Holding(inbox', i) = {} \/ Holding(packets', i) = {}
    BY <2>1, <2>7 DEF Apart, Holding, InOne
  <2> QED BY <2>6, <2>10, <2>11, <2>12 DEF Apart, Holding, InOne
<1>3. ASSUME UNCHANGED <<inbox, packets>>, pool' \cap archive' = {}, Cardinality(pool') <= Capacity,
             Stored' \subseteq Stored
      PROVE  Apart'
  BY <1>3 DEF Apart, InOne, Holding, Waits, PoolBounded
<1>4. CASE Recycle
  <2>1. /\ UNCHANGED <<inbox, packets>>
        /\ \/ AddMany(archive) /\ archive' = {}
           \/ UNCHANGED <<pool, archive>>
    BY <1>4 DEF Recycle
  <2>2. CASE AddMany(archive) /\ archive' = {}
    <3>1. pool' \subseteq pool \cup archive /\ Cardinality(pool') <= Capacity
      BY <2>2, AddManyKeeps DEF Entered
    <3> QED BY <1>3, <2>1, <2>2, <3>1 DEF Stored
  <2>3. CASE UNCHANGED <<pool, archive>>
    BY <1>3, <2>1, <2>3 DEF Apart, PoolBounded, Stored
  <2> QED BY <2>1, <2>2, <2>3
<1>5. CASE Sample
  <2>1. PICK S \in SUBSET pool : pool' = pool \ S /\ ArchiveTrained(S)
    BY <1>5 DEF Sample
  <2>2. UNCHANGED <<inbox, packets>>
    BY <1>5 DEF Sample
  <2>3. archive' \subseteq archive \cup S
    BY <2>1 DEF ArchiveTrained
  <2>4. Cardinality(pool') <= Cardinality(pool) /\ Cardinality(pool') \in Nat /\ Cardinality(pool) \in Nat
    BY <2>1, FiniteObjects, FS_Subset, FS_CardinalityType DEF Entered
  <2>5. Cardinality(pool) <= Capacity /\ pool \cap archive = {}
    BY DEF Apart, PoolBounded
  <2> QED BY <1>3, <2>1, <2>2, <2>3, <2>4, <2>5, SizeAssumption DEF Stored
<1>6. CASE CheckRoom \/ EnqueueAug
  BY <1>3, <1>6 DEF CheckRoom, EnqueueAug, Apart, PoolBounded, Stored
<1> QED BY <1>1, <1>2, <1>4, <1>5, <1>6 DEF Trainer

(* The teacher's thread hands over items that are in no packet, and are    *)
(* not stored under the same name.                                         *)
LEMMA TeacherKeepsApart ==
  ASSUME InWork, Entered, Apart, AddSolvable \/ SubmitTeacherBatch PROVE Apart'
<1>1. CASE AddSolvable
  <2>1. /\ pc = "add" /\ AddMany(solvable \X {"now"}) /\ UNCHANGED <<inbox, packets, archive>>
    BY <1>1 DEF AddSolvable, trainerVars
  <2>2. solvable \subseteq Item /\ \A i \in solvable : i[1] = batch
    BY <2>1 DEF InWork, Working, Item
  <2>3. solvable \X {"now"} \in SUBSET Object
    BY <2>2 DEF Object
  <2>4. pool' \subseteq pool \cup (solvable \X {"now"}) /\ Cardinality(pool') <= Capacity
    BY <2>1, <2>3, AddManyKeeps DEF Entered
  <2>5. \A i \in solvable : <<i, "now">> \notin archive
    BY <2>1, <2>2 DEF Entered, Working, Stored
  <2>6. PoolBounded'
    BY <2>1, <2>4, <2>5 DEF Apart, PoolBounded
  <2>7. \A i \in Item : <<i, "later">> \in Stored' => <<i, "later">> \in Stored
    BY <2>1, <2>4 DEF Stored
  <2> QED BY <2>1, <2>6, <2>7 DEF Apart, InOne, Waits, Holding
<1>2. CASE SubmitTeacherBatch
  <2>1. pc = "fallback" /\ PushInbox(solvable) /\ UNCHANGED <<packets, pool, archive>>
    BY <1>2 DEF SubmitTeacherBatch, trainerVars
  <2>2. solvable \in SUBSET Item /\ \A i \in solvable : i[1] = batch
    BY <2>1 DEF InWork, Working, Item
  <2>3. \A i \in solvable : ~Waits(i) /\ <<i, "later">> \notin Stored
    BY <2>1, <2>2 DEF Entered, Working
  <2>4. \A i \in solvable : Holding(inbox, i) = {} /\ Holding(packets, i) = {}
    BY <2>3 DEF Waits
  <2>5. InOne(inbox')
    BY <2>1, <2>2, <2>4, PushedInOne DEF Apart, Entered
  <2>6. \A i \in Item : Holding(inbox', i) # {} => Holding(inbox, i) # {} \/ i \in solvable
    BY <2>1, <2>2, PushedHolding DEF Entered
  <2>7. \A i \in Item : Holding(packets', i) = Holding(packets, i) /\ InOne(packets') = InOne(packets)
    BY <2>1 DEF Holding, InOne
  <2>8. \A i \in Item : Holding(inbox', i) = {} \/ Holding(packets', i) = {}
    BY <2>4, <2>6, <2>7 DEF Apart
  <2>9. \A i \in Item : Waits(i)' => Waits(i) \/ i \in solvable
    BY <2>6, <2>7 DEF Waits, Holding
  <2>10. \A i \in Item : Waits(i)' => <<i, "later">> \notin Stored'
    BY <2>1, <2>3, <2>9 DEF Apart, Stored
  <2>11. InOne(packets') /\ PoolBounded'
    BY <2>1 DEF Apart, InOne, PoolBounded
  <2> QED BY <2>5, <2>8, <2>10, <2>11 DEF Apart, InOne, Holding
<1> QED BY <1>1, <1>2

LEMMA AlwaysApart == Spec => []Apart
<1>1. Init => Apart
  <2> SUFFICES ASSUME Init PROVE Apart
    OBVIOUS
  <2>1. inbox = <<>> /\ packets = <<>> /\ archive = {} /\ pool = Seed \X {"now"}
    BY DEF Init
  <2>2. InOne(inbox) /\ InOne(packets)
    BY <2>1 DEF InOne
  <2>3. \A i \in Item : Holding(inbox, i) = {} /\ ~Waits(i)
    BY <2>1 DEF Holding, Waits
  <2>4. Cardinality(pool) <= Capacity
    <3>1. IsFiniteSet({"now"}) /\ Cardinality({"now"}) = 1
      BY FS_Singleton
    <3>2. Cardinality(Seed \X {"now"}) = Cardinality(Seed) * 1
      BY <3>1, BatchAssumption, FS_Product
    <3>3. Cardinality(Seed) \in Nat
      BY BatchAssumption, FS_CardinalityType
    <3> QED BY <2>1, <3>2, <3>3, SeedsFit
  <2> QED BY <2>1, <2>2, <2>3, <2>4 DEF Apart, PoolBounded
<1>2. InWork /\ Entered /\ Apart /\ [Next]_vars => Apart'
  <2> SUFFICES ASSUME InWork, Entered, Apart, [Next]_vars PROVE Apart'
    OBVIOUS
  <2>1. CASE Trainer BY <2>1, TrainerKeepsApart
  <2>2. CASE AddSolvable \/ SubmitTeacherBatch BY <2>2, TeacherKeepsApart
  <2>3. CASE \/ Shutdown \/ Stopping \/ Work \/ Ended \/ UNCHANGED vars
             \/ Teacher /\ ~AddSolvable /\ ~SubmitTeacherBatch
    BY <2>3, QuietSteps DEF Apart, InOne, Waits, Holding, Stored, PoolBounded
  <2> QED BY <2>1, <2>2, <2>3 DEF Next
<1> QED BY <1>1, <1>2, AlwaysInWork, AlwaysEntered, PTL DEF Spec

(* PoolBounded, for any capacity, inbox and interleaving: additions by the *)
(* teacher's thread between two steps of the trainer never take the pool   *)
(* over its capacity, nor bring back into it what is in the archive.       *)
THEOREM AlwaysPoolBounded == Spec => []PoolBounded
<1>1. Apart => PoolBounded BY DEF Apart
<1> QED BY <1>1, AlwaysApart, PTL

(* OneFallback, for any number of batches and any sizes: an item that the  *)
(* teacher's thread could not add itself waits in one packet or was added  *)
(* from one, so the trainer never adds it a second time from the inbox.    *)
THEOREM AlwaysOneFallback == Spec => []OneFallback
<1>1. ASSUME NEW seq, NEW i \in Item, InOne(seq)
      PROVE  \/ Holding(seq, i) = {} /\ Cardinality(Holding(seq, i)) = 0
             \/ Holding(seq, i) # {} /\ Cardinality(Holding(seq, i)) = 1
  <2>1. CASE Holding(seq, i) = {}
    BY <2>1, FS_EmptySet
  <2>2. CASE Holding(seq, i) # {}
    <3>1. PICK m : m \in Holding(seq, i)
      BY <2>2
    <3>2. Holding(seq, i) = {m}
      BY <1>1, <3>1 DEF Holding, InOne
    <3> QED BY <2>2, <3>2, FS_Singleton
  <2> QED BY <2>1, <2>2
<1>2. Apart => OneFallback
  <2> SUFFICES ASSUME Apart, NEW i \in Item
               PROVE  Cardinality(Holding(inbox, i)) + Cardinality(Holding(packets, i))
                        + (IF <<i, "later">> \in pool \cup archive THEN 1 ELSE 0) <= 1
    BY DEF OneFallback
  <2>1. InOne(inbox) /\ InOne(packets)
    BY DEF Apart
  <2>2. \/ Holding(inbox, i) = {} /\ Cardinality(Holding(inbox, i)) = 0
        \/ Holding(inbox, i) # {} /\ Cardinality(Holding(inbox, i)) = 1
    BY <1>1, <2>1
  <2>3. \/ Holding(packets, i) = {} /\ Cardinality(Holding(packets, i)) = 0
        \/ Holding(packets, i) # {} /\ Cardinality(Holding(packets, i)) = 1
    BY <1>1, <2>1
  <2>4. Holding(inbox, i) = {} \/ Holding(packets, i) = {}
    BY DEF Apart
  <2>5. Holding(inbox, i) # {} \/ Holding(packets, i) # {} => <<i, "later">> \notin pool \cup archive
    BY DEF Apart, Waits, Stored
  <2> QED BY <2>2, <2>3, <2>4, <2>5
<1> QED BY <1>2, AlwaysApart, PTL
=============================================================================
