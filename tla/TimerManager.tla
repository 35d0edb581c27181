---------------------------- MODULE TimerManager ----------------------------
(***************************************************************************)
(* TimerManager and its TimerBuckets, called from several threads.  A      *)
(* bucket's std::mutex is not recursive: add_task holds it while           *)
(* reschedule_timer asks get_next_expiry, which locks it again.            *)
(* next_expiry_time_ is never assigned and stays time_point::max(), so     *)
(* every deadline but "never" (max itself) takes that path, and the thread *)
(* waits for itself.  No task with a deadline therefore outlives the       *)
(* mutex, and process_expired_tasks never finds one to run.                *)
(***************************************************************************)
EXTENDS Naturals, FiniteSets

CONSTANTS
  Thread,
  Controller,   \* the threads that call start and stop
  BucketCount,  \* config.bucket_count at construction
  NewCounts,    \* what update_config may set it to
  MaxId         \* bound: tasks scheduled

ASSUME TimerAssumption ==
  /\ BucketCount \in Nat \ {0} /\ NewCounts \subseteq Nat
  /\ MaxId \in Nat /\ Controller \subseteq Thread

VARIABLES
  running,      \* TimerManager::is_running_
  bucketActive,       \* TimerBucket::is_running_
  mutex,        \* the holder of each bucket's mutex_
  pending,      \* the ids in pending_tasks_
  armed,        \* the buckets whose timer_ waits
  bucketCount,  \* config_.bucket_count
  nextId,       \* next_timer_id_
  timerPc, at, arg,  \* what a thread does, with which bucket, with which task
  noBucket,     \* a call has divided by a bucket_count of 0, or looked behind buckets_
  moved,        \* history: update_config changed bucket_count
  missed        \* history: a cancel looked for a pending task in another bucket

timerVars == <<running, bucketActive, mutex, pending, armed, bucketCount, nextId, timerPc, at, arg, noBucket, moved, missed>>

Bucket == 0 .. BucketCount - 1
Nobody == "nobody"
Task == [id : 1 .. MaxId, when : {"soon", "never"}]
NoTask == [id |-> 0, when |-> "never"]

TimerTypeOK ==
  /\ running \in BOOLEAN /\ bucketActive \in [Bucket -> BOOLEAN] /\ armed \in SUBSET Bucket
  /\ mutex \in [Bucket -> Thread \cup {Nobody}] /\ pending \in [Bucket -> SUBSET (1 .. MaxId)]
  /\ bucketCount \in NewCounts \cup {BucketCount}
  /\ nextId \in 0 .. MaxId /\ noBucket \in BOOLEAN /\ moved \in BOOLEAN /\ missed \in BOOLEAN
  /\ timerPc \in [Thread -> {"idle", "start", "expiry", "stop", "clear", "add", "relock", "cancel"}]
  /\ at \in [Thread -> Bucket] /\ arg \in [Thread -> Task \cup {NoTask}]

TimerInit ==
  /\ running = FALSE /\ bucketActive = [b \in Bucket |-> FALSE] /\ armed = {}
  /\ mutex = [b \in Bucket |-> Nobody] /\ pending = [b \in Bucket |-> {}]
  /\ bucketCount = BucketCount /\ nextId = 0 /\ noBucket = FALSE /\ moved = FALSE /\ missed = FALSE
  /\ timerPc = [t \in Thread |-> "idle"] /\ at = [t \in Thread |-> 0] /\ arg = [t \in Thread |-> NoTask]

Free(b) == mutex[b] = Nobody

Proceed(t, step, b, task) ==
  /\ timerPc' = [timerPc EXCEPT ![t] = step] /\ at' = [at EXCEPT ![t] = b] /\ arg' = [arg EXCEPT ![t] = task]

Return(t) == Proceed(t, "idle", 0, NoTask)

\* start and stop go through the buckets in order.
NextBucket(t, step) ==
  IF at[t] + 1 < BucketCount THEN Proceed(t, step, at[t] + 1, NoTask) ELSE Return(t)

-----------------------------------------------------------------------------
(* start and stop. *)

Start(t) ==
  /\ timerPc[t] = "idle" /\ ~running /\ running' = TRUE /\ Proceed(t, "start", 0, NoTask)
  /\ UNCHANGED <<bucketActive, mutex, pending, armed, bucketCount, nextId, noBucket, moved, missed>>

StartBucket(t) ==
  /\ timerPc[t] = "start" /\ bucketActive' = [bucketActive EXCEPT ![at[t]] = TRUE]
  /\ IF bucketActive[at[t]] THEN NextBucket(t, "start") ELSE Proceed(t, "expiry", at[t], NoTask)
  /\ UNCHANGED <<running, mutex, pending, armed, bucketCount, nextId, noBucket, moved, missed>>

\* start_timer: with tasks in the bucket the timer waits for the earliest.
StartTimer(t) ==
  /\ timerPc[t] = "expiry" /\ Free(at[t])
  /\ armed' = IF pending[at[t]] = {} THEN armed ELSE armed \cup {at[t]}
  /\ NextBucket(t, "start")
  /\ UNCHANGED <<running, bucketActive, mutex, pending, bucketCount, nextId, noBucket, moved, missed>>

Stop(t) ==
  /\ timerPc[t] = "idle" /\ running /\ running' = FALSE /\ Proceed(t, "stop", 0, NoTask)
  /\ UNCHANGED <<bucketActive, mutex, pending, armed, bucketCount, nextId, noBucket, moved, missed>>

StopBucket(t) ==
  /\ timerPc[t] = "stop" /\ bucketActive' = [bucketActive EXCEPT ![at[t]] = FALSE]
  /\ IF bucketActive[at[t]] THEN Proceed(t, "clear", at[t], NoTask) /\ armed' = armed \ {at[t]}
     ELSE NextBucket(t, "stop") /\ UNCHANGED armed
  /\ UNCHANGED <<running, mutex, pending, bucketCount, nextId, noBucket, moved, missed>>

ClearBucket(t) ==
  /\ timerPc[t] = "clear" /\ Free(at[t]) /\ pending' = [pending EXCEPT ![at[t]] = {}]
  /\ NextBucket(t, "stop")
  /\ UNCHANGED <<running, bucketActive, mutex, armed, bucketCount, nextId, noBucket, moved, missed>>

-----------------------------------------------------------------------------
(* schedule and cancel. *)

\* The index schedule_impl computes.  To divide by a bucket_count of 0 gives no
\* index: BucketCount stands for it, the first behind buckets_.
BucketIndex(id) == IF bucketCount = 0 THEN BucketCount ELSE id % bucketCount

\* A cancel that counts buckets from one.
BucketOfShifted(id) == BucketIndex(id + 1)

\* The index cancel computes.
BucketOf(id) == BucketIndex(id)

\* A call goes on in its bucket.  Where there is none the behaviour is undefined,
\* and nothing is said of what follows.
Enter(t, step, b, task) ==
  \/ b \in Bucket /\ Proceed(t, step, b, task) /\ UNCHANGED noBucket
  \/ b \notin Bucket /\ noBucket' = TRUE /\ UNCHANGED <<timerPc, at, arg>>

\* schedule_impl with the id it draws; it throws if the manager does not run.
Schedule(t, when) ==
  /\ timerPc[t] = "idle" /\ running /\ nextId < MaxId
  /\ nextId' = nextId + 1 /\ Enter(t, "add", BucketIndex(nextId + 1), [id |-> nextId + 1, when |-> when])
  /\ UNCHANGED <<running, bucketActive, mutex, pending, armed, bucketCount, moved, missed>>

\* An add_task that does not ask whether the bucket runs.
AddTaskUnchecked(t) ==
  LET b == at[t] IN
  /\ timerPc[t] = "add" /\ Free(b)
  /\ pending' = [pending EXCEPT ![b] = @ \cup {arg[t].id}]
  /\ Return(t) /\ UNCHANGED <<running, bucketActive, mutex, armed, bucketCount, nextId, noBucket, moved, missed>>

\* An add_task that keeps the mutex after an early return.
AddTaskKeepsLock(t) ==
  LET b == at[t] IN
  /\ timerPc[t] = "add" /\ Free(b)
  /\ pending' = [pending EXCEPT ![b] = IF bucketActive[b] THEN @ \cup {arg[t].id} ELSE @]
  /\ Return(t) /\ mutex' = [mutex EXCEPT ![b] = t]
  /\ UNCHANGED <<running, bucketActive, armed, bucketCount, nextId, noBucket, moved, missed>>

\* A stopped bucket makes schedule throw.  A deadline is before next_expiry_time_,
\* and the thread goes on to lock the mutex it holds.
AddTask(t) ==
  LET b == at[t] IN
  /\ timerPc[t] = "add" /\ Free(b)
  /\ pending' = [pending EXCEPT ![b] = IF bucketActive[b] THEN @ \cup {arg[t].id} ELSE @]
  /\ IF bucketActive[b] /\ arg[t].when = "soon"
     THEN Proceed(t, "relock", b, arg[t]) /\ mutex' = [mutex EXCEPT ![b] = t] /\ armed' = armed \ {b}
     ELSE Return(t) /\ UNCHANGED <<mutex, armed>>
  /\ UNCHANGED <<running, bucketActive, bucketCount, nextId, noBucket, moved, missed>>

CancelScheduled(t, id) ==
  /\ timerPc[t] = "idle" /\ id <= nextId /\ Enter(t, "cancel", BucketOf(id), [id |-> id, when |-> "never"])
  /\ UNCHANGED <<running, bucketActive, mutex, pending, armed, bucketCount, nextId, moved, missed>>

CancelTask(t) ==
  LET b == at[t] id == arg[t].id IN
  /\ timerPc[t] = "cancel" /\ Free(b)
  /\ pending' = [pending EXCEPT ![b] = @ \ {id}]
  /\ missed' = (missed \/ \E c \in Bucket \ {b} : id \in pending[c])
  /\ Return(t) /\ UNCHANGED <<running, bucketActive, mutex, armed, bucketCount, nextId, noBucket, moved>>

\* update_config asks nothing of bucket_count, makes no buckets and moves no tasks.
UpdateConfig(t, n) ==
  /\ timerPc[t] = "idle" /\ n # bucketCount /\ bucketCount' = n /\ moved' = TRUE
  /\ UNCHANGED <<running, bucketActive, mutex, pending, armed, nextId, timerPc, at, arg, noBucket, missed>>

-----------------------------------------------------------------------------
Step(t) ==
  /\ ~noBucket
  /\ StartBucket(t) \/ StartTimer(t) \/ StopBucket(t) \/ ClearBucket(t) \/ AddTask(t) \/ CancelTask(t)

Call ==
  \/ \E t \in Controller : Start(t) \/ Stop(t)
  \/ \E t \in Thread, when \in {"soon", "never"} : Schedule(t, when)
  \/ \E t \in Thread, id \in 1 .. MaxId : CancelScheduled(t, id)
  \/ \E t \in Thread, n \in NewCounts : UpdateConfig(t, n)

TimerNext ==
  \/ ~noBucket /\ Call
  \/ \E t \in Thread : Step(t)

TimerSpec == TimerInit /\ [][TimerNext]_timerVars

-----------------------------------------------------------------------------
(* Properties. *)

\* A bucket whose stop() is over holds no task until it is started again, though
\* schedule may have passed the manager's flag before stop() cleared it.
StopLeavesNothing ==
  \A b \in Bucket : ~bucketActive[b] /\ (\A t \in Thread : ~(timerPc[t] = "clear" /\ at[t] = b)) => pending[b] = {}

\* Unless update_config was called, cancel looks where schedule put the task, and
\* each of them finds a bucket.
CancelFindsTask == missed \/ noBucket => moved

\* A mutex that is not free is held by a thread that waits for it itself, adding a
\* task with a deadline, and so will never be free.  What is done under a mutex is
\* one step here, so nothing else can block a call, and nobody keeps a mutex on an
\* early return or an exception.
HeldByItsWaiter ==
  \A b \in Bucket : ~Free(b) =>
    LET t == mutex[b] IN timerPc[t] = "relock" /\ at[t] = b /\ arg[t].when = "soon"
=============================================================================
