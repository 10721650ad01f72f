--------------------------- MODULE TeacherPipeline ---------------------------
(***************************************************************************)
(* The trainer's thread, the teacher's thread (AsyncTeacherAnnotator) and  *)
(* the worker threads that call the teacher model, around one query pool.  *)
(*                                                                         *)
(* The trainer samples queries, generates a batch of augmented ones and    *)
(* puts it into the teacher's queue.  The teacher sends each item to the   *)
(* model, keeps the solvable ones, and adds them to the pool itself; when  *)
(* the pool did not grow it leaves them in the trainer's inbox, which the  *)
(* trainer drains at the start of each step.                               *)
(*                                                                         *)
(* A step is what a thread does under one lock, or between two points at   *)
(* which another thread's step can be seen.  The pool is the set of record *)
(* objects it holds: which ones a full pool evicts, and which ones a       *)
(* sample takes, is QueryPool's business and left open here.               *)
(***************************************************************************)
EXTENDS PoolOps, Sequences

CONSTANTS
  Batch,     \* the augmented batches a run generates (bound)
  Width,     \* items in a batch: num_per_prompt * number of prompts
  Seed,      \* the records the pool starts with
  Capacity,  \* max_pool_size
  Want,      \* train_batch_size
  QueueMax,  \* maxsize of the teacher's queue
  InboxMax,  \* maxlen of the inbox
  Workers    \* max_workers of the executor

ASSUME BatchAssumption == IsFiniteSet(Batch) /\ IsFiniteSet(Seed)
ASSUME SizeAssumption ==
  /\ Width \in Nat /\ Want \in Nat /\ Workers \in Nat \ {0}
  /\ Capacity \in Nat \ {0} /\ QueueMax \in Nat \ {0} /\ InboxMax \in Nat \ {0}
ASSUME SeedsFit == Cardinality(Seed) <= Capacity

VARIABLES
  step,       \* where the trainer's thread is
  packets,    \* packets it drained from the inbox and has not added yet
  made,       \* batches generated so far
  archive,    \* _trained_archive: sampled objects, one per record id
  queue,      \* the teacher's queue
  running,    \* _running, and not stop_event
  open,       \* the executor accepts work
  pc,         \* where the teacher's thread is
  batch,      \* the batch the teacher works on
  at,         \* its position in the batch
  asked,      \* items of the batch that were sent to the model
  solvable,   \* items of the batch it marked solvable
  before,     \* pool size before it added them
  waiting,    \* calls the executor has not started
  calling,    \* calls in progress
  answer,     \* what the model said of an item
  pool,       \* the objects in the query pool
  inbox,      \* _annotated_inbox: sets of items
  handled     \* batches in the order the teacher took them to work on

trainerVars == <<step, packets, made, archive>>
teacherVars == <<pc, batch, at, asked, solvable, before, handled>>
workVars == <<waiting, calling, answer>>
vars == <<trainerVars, teacherVars, workVars, queue, running, open, pool, inbox>>

Item == Batch \X (1 .. Width)

(* A record that is built from an answer gets an id of its own.            *)
ASSUME SeedsAreNoItems == Seed \cap Item = {}

(* failed: no answer in the end, or not solvable; unclean: solvable, but   *)
(* without a clean question; unanswered: solvable, but without an answer.  *)
Answers == {"failed", "unclean", "unanswered", "solved"}

(* An object of the pool: a record id and the way it came in: added by the *)
(* teacher's thread, or through the inbox.  A seed counts as the former.   *)

None == <<>>     \* the teacher works on no batch
Silent == "none" \* no answer yet
Ids(objects) == {o[1] : o \in objects}

Init ==
  /\ step = "drain" /\ packets = <<>> /\ made = {} /\ archive = {}
  /\ queue = <<>> /\ running = TRUE /\ open = TRUE
  /\ pc = "loop" /\ batch = None /\ at = 1 /\ asked = {} /\ solvable = {}
  /\ before = 0 /\ handled = <<>>
  /\ waiting = <<>> /\ calling = {} /\ answer = [i \in Item |-> Silent]
  /\ pool = Seed \X {"now"} /\ inbox = <<>>

-----------------------------------------------------------------------------
(* The pool: add_many rejects malformed records, and evicts when it is full. *)
AddMany(objects) ==
  \E valid \in SUBSET objects :
    LET all == pool \cup valid
    IN \E kept \in SUBSET all :
         /\ Cardinality(kept) = AtMost(Cardinality(all), Capacity)
         /\ pool' = kept

(* append to a deque with a maxlen: the oldest element falls off.          *)
PushInbox(items) ==
  inbox' = LET all == Append(inbox, items)
           IN IF Len(all) > InboxMax THEN Tail(all) ELSE all

-----------------------------------------------------------------------------
(* The trainer's thread: _drain_teacher_inbox, ...                         *)
DrainInbox ==
  /\ step = "drain"
  /\ step' = "integrate"
  /\ packets' = inbox
  /\ inbox' = <<>>
  /\ UNCHANGED <<made, archive, teacherVars, workVars, queue, running, open, pool>>

AddPacket ==
  /\ step = "integrate" /\ packets # <<>>
  /\ AddMany(Head(packets) \X {"later"})
  /\ packets' = Tail(packets)
  /\ UNCHANGED <<step, made, archive, teacherVars, workVars, queue, running, open, inbox>>

(* ... _reinsert_all_trained when the pool is too small for a batch, ...   *)
Recycle ==
  /\ step = "integrate" /\ packets = <<>>
  /\ step' = "sample"
  /\ \/ /\ Cardinality(pool) < Want
        /\ AddMany(archive)
        /\ archive' = {}
     \/ /\ Cardinality(pool) >= Want
        /\ UNCHANGED <<pool, archive>>
  /\ UNCHANGED <<packets, made, teacherVars, workVars, queue, running, open, inbox>>

(* ... sample_batch, and the archive of what was trained on.  A record     *)
(* without an answer, or a step that fails, is not archived.  The archive  *)
(* is keyed by record id: a second object of an id replaces the first.     *)
ArchiveTrained(S) ==
  \E new \in SUBSET S :
    /\ \A o, p \in new : o[1] = p[1] => o = p
    /\ archive' = {o \in archive : o[1] \notin Ids(new)} \cup new

Sample_Copies ==   \* slip: what is sampled stays in the pool, too
  /\ step = "sample"
  /\ \E S \in SUBSET pool :
       /\ Cardinality(S) = AtMost(Want, Cardinality(pool))
       /\ step' = IF S = {} THEN "drain" ELSE "augment"
       /\ archive' = {o \in archive : o[1] \notin Ids(S)} \cup S
  /\ UNCHANGED <<packets, made, teacherVars, workVars, queue, running, open, pool, inbox>>

Sample ==
  /\ step = "sample"
  /\ \E S \in SUBSET pool :
       /\ Cardinality(S) = AtMost(Want, Cardinality(pool))
       /\ pool' = pool \ S
       /\ step' = IF S = {} THEN "drain" ELSE "augment"
       /\ ArchiveTrained(S)
  /\ UNCHANGED <<packets, made, teacherVars, workVars, queue, running, open, inbox>>

(* Augmentation is skipped unless the pool has room for a whole batch now; *)
(* generating it takes long, and then it is queued, or dropped.            *)
CheckRoom ==
  /\ step = "augment"
  /\ step' = IF Capacity - Cardinality(pool) >= Width THEN "enqueue" ELSE "drain"
  /\ UNCHANGED <<packets, made, archive, teacherVars, workVars, queue, running,
                 open, pool, inbox>>

EnqueueAug ==
  /\ step = "enqueue"
  /\ step' = "drain"
  /\ \/ UNCHANGED <<made, queue>>    \* generating it failed
     \/ \E b \in Batch \ made :
          /\ made' = made \cup {b}
          /\ queue' = IF Len(queue) < QueueMax THEN Append(queue, b) ELSE queue
  /\ UNCHANGED <<packets, archive, teacherVars, workVars, running, open, pool, inbox>>

-----------------------------------------------------------------------------
(* shutdown(), called when training ends or fails: clear _running, wait    *)
(* for the queue at most five seconds, close the executor and wait for its *)
(* calls, then join the teacher's thread for at most ten seconds.          *)
Shutdown ==
  /\ step \in {"drain", "augment"}
  /\ step' = "stopping"
  /\ running' = FALSE
  /\ UNCHANGED <<packets, made, archive, teacherVars, workVars, queue, open, pool, inbox>>

(* Slip: shutdown waits until the queue is empty, however long it takes.   *)
CloseExecutor_Waits ==
  /\ step = "stopping" /\ queue = <<>>
  /\ step' = "closing"
  /\ open' = FALSE
  /\ UNCHANGED <<packets, made, archive, teacherVars, workVars, queue, running, pool, inbox>>

CloseExecutor ==   \* the queue is empty, or the five seconds are over
  /\ step = "stopping"
  /\ step' = "closing"
  /\ open' = FALSE
  /\ UNCHANGED <<packets, made, archive, teacherVars, workVars, queue, running, pool, inbox>>

(* Slip: the executor is not waited for.                                   *)
ExecutorClosed_NoWait ==
  /\ step = "closing"
  /\ step' = "joining"
  /\ UNCHANGED <<packets, made, archive, teacherVars, workVars, queue, running, open,
                 pool, inbox>>

ExecutorClosed ==
  /\ step = "closing"
  /\ waiting = <<>> /\ calling = {}
  /\ step' = "joining"
  /\ UNCHANGED <<packets, made, archive, teacherVars, workVars, queue, running, open,
                 pool, inbox>>

Join ==   \* the thread has ended, or the ten seconds are over
  /\ step = "joining"
  /\ step' = "stopped"
  /\ UNCHANGED <<packets, made, archive, teacherVars, workVars, queue, running, open,
                 pool, inbox>>

-----------------------------------------------------------------------------
(* The teacher's thread: run() ...                                         *)
Loop ==
  /\ pc = "loop"
  /\ pc' = IF running THEN "get" ELSE "dead"
  /\ UNCHANGED <<trainerVars, workVars, batch, at, asked, solvable, before,
                 handled, queue, running, open, pool, inbox>>

(* Slip: the batch stays in the queue.                                     *)
Get_Peeks ==
  /\ pc = "get" /\ queue # <<>>
  /\ pc' = "check"
  /\ batch' = Head(queue)
  /\ UNCHANGED <<trainerVars, workVars, at, asked, solvable, before, handled,
                 queue, running, open, pool, inbox>>

Get ==
  /\ pc = "get" /\ queue # <<>>
  /\ pc' = "check"
  /\ batch' = Head(queue)
  /\ queue' = Tail(queue)
  /\ UNCHANGED <<trainerVars, workVars, at, asked, solvable, before, handled,
                 running, open, pool, inbox>>

GetNothing_Again ==   \* slip: an empty queue is polled again, stopped or not
  /\ pc = "get" /\ queue = <<>>
  /\ UNCHANGED vars

GetNothing ==   \* the poll interval is over
  /\ pc = "get" /\ queue = <<>>
  /\ pc' = IF running THEN "loop" ELSE "dead"
  /\ UNCHANGED <<trainerVars, workVars, batch, at, asked, solvable, before,
                 handled, queue, running, open, pool, inbox>>

CheckRunning ==
  /\ pc = "check"
  /\ \/ /\ running
        /\ pc' = "submit" /\ at' = 1 /\ asked' = {} /\ solvable' = {}
        /\ handled' = Append(handled, batch)
        /\ UNCHANGED batch
     \/ /\ ~running
        /\ pc' = "dead" /\ batch' = None
        /\ UNCHANGED <<at, asked, solvable, handled>>
  /\ UNCHANGED <<trainerVars, workVars, before, queue, running, open, pool, inbox>>

(* ... and _process_augmented_proto.  Every item goes to the executor but  *)
(* those in Chinese; no more items once the shutdown has begun; and a      *)
(* closed executor raises, which ends the batch.                           *)
ScanItem ==
  /\ pc = "submit"
  /\ \/ /\ running /\ at <= Width
        /\ \/ pc' = "schedule" /\ UNCHANGED at
           \/ UNCHANGED pc /\ at' = at + 1
     \/ /\ ~running \/ at > Width
        /\ pc' = "collect" /\ at' = 1
  /\ UNCHANGED <<trainerVars, workVars, batch, asked, solvable, before, handled,
                 queue, running, open, pool, inbox>>

ScheduleCall ==
  /\ pc = "schedule"
  /\ \/ /\ open
        /\ waiting' = Append(waiting, <<batch, at>>)
        /\ asked' = asked \cup {<<batch, at>>}
        /\ at' = at + 1
        /\ pc' = "submit"
        /\ UNCHANGED batch
     \/ /\ ~open
        /\ pc' = "loop" /\ batch' = None
        /\ UNCHANGED <<waiting, asked, at>>
  /\ UNCHANGED <<trainerVars, solvable, before, handled, calling, answer, queue,
                 running, open, pool, inbox>>

(* Slip: an answer without a clean question counts as well.                *)
Accepted_Unclean == {"unclean", "unanswered", "solved"}

(* The answers that leave an item marked solvable: the branch for a        *)
(* solvable item without an answer does not continue, and is overwritten.  *)
Accepted == {"unanswered", "solved"}

Collect ==
  LET item == <<batch, at>>
  IN /\ pc = "collect" /\ at <= Width
     /\ at' = at + 1
     /\ \/ /\ item \in asked /\ answer[item] # Silent
           /\ solvable' = IF answer[item] \in Accepted THEN solvable \cup {item} ELSE solvable
        \/ /\ item \notin asked \/ answer[item] = Silent    \* result() timed out
           /\ UNCHANGED solvable
     /\ UNCHANGED <<trainerVars, workVars, pc, batch, asked, before, handled,
                    queue, running, open, pool, inbox>>

(* Slip: an exception in a batch ends the thread.                          *)
Collected_Dies ==
  /\ pc = "collect" /\ at > Width
  /\ \/ pc' = "dead" /\ batch' = None
     \/ solvable # {} /\ pc' = "measure" /\ UNCHANGED batch
  /\ UNCHANGED <<trainerVars, workVars, at, asked, solvable, before, handled,
                 queue, running, open, pool, inbox>>

Collected ==   \* without a solvable item, or when retokenizing fails, the batch ends
  /\ pc = "collect" /\ at > Width
  /\ \/ pc' = "loop" /\ batch' = None
     \/ solvable # {} /\ pc' = "measure" /\ UNCHANGED batch
  /\ UNCHANGED <<trainerVars, workVars, at, asked, solvable, before, handled,
                 queue, running, open, pool, inbox>>

(* _integrate_immediately: the size before, the records, the size after;   *)
(* the pool's lock is free between the three.  An error, or no record that *)
(* can be made of the answers, leads to the inbox as well.                 *)
Measure ==
  /\ pc = "measure"
  /\ \/ pc' = "add" /\ before' = Cardinality(pool)
     \/ pc' = "fallback" /\ UNCHANGED before
  /\ UNCHANGED <<trainerVars, workVars, batch, at, asked, solvable, handled,
                 queue, running, open, pool, inbox>>

AddSolvable ==
  /\ pc = "add"
  /\ pc' = "after"
  /\ AddMany(solvable \X {"now"})
  /\ UNCHANGED <<trainerVars, workVars, batch, at, asked, solvable, before,
                 handled, queue, running, open, inbox>>

(* Slip: what was added is always left in the inbox, too, even twice.      *)
After_AlwaysSubmits ==
  /\ pc = "after"
  /\ pc' = "fallback"
  /\ inbox' = Append(inbox, solvable)
  /\ UNCHANGED <<trainerVars, workVars, batch, at, asked, solvable, before, handled, queue,
                 running, open, pool>>

After ==
  /\ pc = "after"
  /\ \/ /\ Cardinality(pool) > before
        /\ pc' = "loop" /\ batch' = None
     \/ /\ Cardinality(pool) <= before
        /\ pc' = "fallback" /\ UNCHANGED batch
  /\ UNCHANGED <<trainerVars, workVars, at, asked, solvable, before, handled, queue,
                 running, open, pool, inbox>>

SubmitTeacherBatch ==
  /\ pc = "fallback"
  /\ pc' = "loop" /\ batch' = None
  /\ PushInbox(solvable)
  /\ UNCHANGED <<trainerVars, workVars, at, asked, solvable, before, handled,
                 queue, running, open, pool>>

-----------------------------------------------------------------------------
(* The executor's workers: _call_extract_solve_with_retry.  A call ends    *)
(* with an answer or, after the retries, with a failure.                   *)
StartCall ==
  /\ waiting # <<>> /\ Cardinality(calling) < Workers
  /\ waiting' = Tail(waiting)
  /\ calling' = calling \cup {Head(waiting)}
  /\ UNCHANGED <<trainerVars, teacherVars, answer, queue, running, open, pool, inbox>>

EndCall ==
  \E item \in calling, a \in Answers :
    /\ calling' = calling \ {item}
    /\ answer' = [answer EXCEPT ![item] = a]
    /\ UNCHANGED <<trainerVars, teacherVars, waiting, queue, running, open, pool, inbox>>

-----------------------------------------------------------------------------
Trainer ==
  \/ DrainInbox \/ AddPacket \/ Recycle \/ Sample \/ CheckRoom \/ EnqueueAug
Stopping == CloseExecutor \/ ExecutorClosed \/ Join
Teacher ==
  \/ Loop \/ Get \/ GetNothing \/ CheckRunning \/ ScanItem \/ ScheduleCall
  \/ Collect \/ Collected \/ Measure \/ AddSolvable \/ After \/ SubmitTeacherBatch
Work == StartCall \/ EndCall

(* Everything has ended.                                                   *)
Ended == step = "stopped" /\ pc = "dead" /\ UNCHANGED vars

Next == Trainer \/ Shutdown \/ Stopping \/ Teacher \/ Work \/ Ended

(* Threads keep running, calls time out, and so do the waits of shutdown:  *)
(* whatever stays enabled is done.  That training ends is not assumed.     *)
Fairness == WF_vars(Trainer) /\ WF_vars(Stopping) /\ WF_vars(Teacher) /\ WF_vars(Work)

Spec == Init /\ [][Next]_vars /\ Fairness

-----------------------------------------------------------------------------
Members(seq) == {seq[n] : n \in DOMAIN seq}
Once(seq) == \A m, n \in DOMAIN seq : seq[m] = seq[n] => m = n
Holding(seq, item) == {n \in DOMAIN seq : item \in seq[n]}

(* What is on its way into the pool, in it, or was sampled from it.        *)
LetIn == Ids(pool \cup archive) \cup UNION (Members(inbox) \cup Members(packets))

(* An item the teacher model refused, or did not answer, never gets into   *)
(* the pool, the archive or the inbox, whenever its answer comes: no call  *)
(* failed, no result() still to come, no question without a clean text.    *)
(* Questions said to be solvable without an answer do get in: see below.   *)
RefusedStaysOut ==
  \A item \in Item \cap LetIn : answer[item] \in {"unanswered", "solved"}

(* Said by the comment "Marked solvable but no answer" and by its branch,  *)
(* which counts such an item as unsolvable and clears teacher_solvable:    *)
(* only a question with an answer is added.                                *)
OnlyAnsweredEnters == \A item \in Item \cap LetIn : answer[item] = "solved"

(* The fallback hands an item to the trainer once: it waits in one packet, *)
(* or was added from one, never both.  (It may be added twice all the      *)
(* same: once by each thread, when the pool evicted as many as were added.)*)
OneFallback ==
  \A item \in Item :
    LET pending == Cardinality(Holding(inbox, item)) + Cardinality(Holding(packets, item))
    IN pending + (IF <<item, "later">> \in pool \cup archive THEN 1 ELSE 0) <= 1

(* The pool and the archive never hold more objects than its capacity and  *)
(* what was sampled; and an object is in one of the two only, so a recycle *)
(* cannot add what is still in the pool.                                   *)
PoolBounded ==
  /\ Cardinality(pool) <= Capacity
  /\ pool \cap archive = {}

(* A generated batch is waiting, or worked on, or was worked on: one of    *)
(* the three and once, so that no batch is paid for or added twice.        *)
EachBatchOnce ==
  /\ Once(handled) /\ Once(queue)
  /\ Members(handled) \cap Members(queue) = {}
  /\ pc = "check" => batch \notin Members(handled) \cup Members(queue)

(* Once shutdown has waited for the executor, no call to the teacher model *)
(* is in progress or ever starts again, although the teacher's thread may  *)
(* be in the middle of a batch.                                            *)
QuietAfterShutdown ==
  step \in {"joining", "stopped"} => waiting = <<>> /\ calling = {} /\ ~open

(* Shutdown comes to an end, whatever the teacher's thread, its queue and  *)
(* the calls in progress are doing.                                        *)
ShutdownCompletes == step = "stopping" ~> step = "stopped"

(* ... and so does the teacher's thread.                                   *)
TeacherEnds == ~running ~> pc = "dead"

(* A queued batch is taken up unless training ends: an exception in one    *)
(* batch does not stop the thread.                                         *)
QueuedIsTaken == \A b \in Batch : b \in Members(queue) ~> b \notin Members(queue) \/ ~running

=============================================================================
