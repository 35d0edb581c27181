--------------------------- MODULE ServicesProofs ---------------------------
(***************************************************************************)
(* Proofs about TimerManager and StrandPool, the services beside the       *)
(* server: for every set of threads, every number of buckets and strands,  *)
(* and any number of tasks.                                                *)
(***************************************************************************)
EXTENDS TimerManager, StrandPool, SequenceTheorems, WellFoundedInduction, TLAPS

-----------------------------------------------------------------------------
(* TimerManager. *)

\* A remainder is an index.
LEMMA RemainderInRange ==
  ASSUME NEW x \in Nat, NEW n \in Nat \ {0}, NEW m \in Nat, n <= m
  PROVE  x % n \in 0 .. m - 1
  OBVIOUS

\* TypeOK is not inductive: a call that adds or cancels has drawn or was given an
\* id.  Until update_config is called, that id decides the call's bucket.
CallsName ==
  \A t \in Thread : timerPc[t] \in {"add", "cancel"} =>
    arg[t] \in Task /\ (~moved => at[t] = BucketOf(arg[t].id))

\* A task is where its id says, as long as bucket_count is what it was.
Placed ==
  ~moved => /\ bucketCount = BucketCount
            /\ \A b \in Bucket : \A id \in pending[b] : b = BucketOf(id)

TimerShape == TimerTypeOK /\ CallsName

\* Where a thread goes, its call's state is well typed.
LEMMA ProceedType ==
  ASSUME TimerTypeOK, NEW t \in Thread, NEW b \in Bucket, NEW task \in Task \cup {NoTask},
         NEW step \in {"idle", "start", "expiry", "stop", "clear", "add", "relock", "cancel"},
         Proceed(t, step, b, task)
  PROVE  /\ timerPc' \in [Thread -> {"idle", "start", "expiry", "stop", "clear", "add", "relock", "cancel"}]
         /\ at' \in [Thread -> Bucket] /\ arg' \in [Thread -> Task \cup {NoTask}]
  BY DEF TimerTypeOK, Proceed

\* So it is where a call enters a bucket, or finds none.
LEMMA EnterType ==
  ASSUME TimerTypeOK, NEW t \in Thread, NEW b, NEW task \in Task, NEW step \in {"add", "cancel"},
         Enter(t, step, b, task)
  PROVE  /\ timerPc' \in [Thread -> {"idle", "start", "expiry", "stop", "clear", "add", "relock", "cancel"}]
         /\ at' \in [Thread -> Bucket] /\ arg' \in [Thread -> Task \cup {NoTask}] /\ noBucket' \in BOOLEAN
<1>1. CASE b \in Bucket /\ Proceed(t, step, b, task) /\ UNCHANGED noBucket
  BY <1>1, ProceedType DEF TimerTypeOK
<1>2. CASE noBucket' = TRUE /\ UNCHANGED <<timerPc, at, arg>>
  BY <1>2 DEF TimerTypeOK
<1>3. QED
  BY <1>1, <1>2 DEF Enter

LEMMA ReturnIsProceed == \A t : Return(t) = Proceed(t, "idle", 0, NoTask) /\ 0 \in Bucket /\ NoTask \in Task \cup {NoTask}
  BY TimerAssumption DEF Return, Bucket

LEMMA NextBucketIsProceed ==
  ASSUME TimerTypeOK, NEW t \in Thread, NEW step, NextBucket(t, step)
  PROVE  \/ Return(t)
         \/ at[t] + 1 \in Bucket /\ Proceed(t, step, at[t] + 1, NoTask)
  BY TimerAssumption DEF NextBucket, TimerTypeOK, Bucket

\* The manager's state keeps its shape; with it every bucket index is in range.
LEMMA TimerTypeStep == TimerShape /\ [TimerNext]_timerVars => TimerTypeOK'
<1> SUFFICES ASSUME TimerTypeOK, CallsName, [TimerNext]_timerVars PROVE TimerTypeOK'
  BY DEF TimerShape
<1> USE TimerAssumption
<1>0. NoTask \in Task \cup {NoTask} /\ 0 \in Bucket
  BY DEF Bucket
<1>1. ASSUME NEW t \in Controller, Start(t) \/ Stop(t) PROVE TimerTypeOK'
  <2>1. PICK step \in {"start", "stop"} : Proceed(t, step, 0, NoTask)
    BY <1>1 DEF Start, Stop
  <2>2. QED
    BY <1>0, <1>1, <2>1, ProceedType DEF Start, Stop, TimerTypeOK
<1>2. ASSUME NEW t \in Thread, StartBucket(t) \/ StopBucket(t) \/ StartTimer(t) \/ ClearBucket(t)
      PROVE  TimerTypeOK'
  <2>1. PICK step \in {"idle", "start", "expiry", "stop", "clear"}, b \in Bucket :
           Proceed(t, step, b, NoTask)
    BY <1>0, <1>2, NextBucketIsProceed DEF StartBucket, StopBucket, StartTimer, ClearBucket, Return, TimerTypeOK
  <2>2. /\ timerPc' \in [Thread -> {"idle", "start", "expiry", "stop", "clear", "add", "relock", "cancel"}]
        /\ at' \in [Thread -> Bucket] /\ arg' \in [Thread -> Task \cup {NoTask}]
    BY <1>0, <2>1, ProceedType
  <2>3. QED
    BY <1>2, <2>2 DEF StartBucket, StopBucket, StartTimer, ClearBucket, TimerTypeOK
<1>3. ASSUME NEW t \in Thread, AddTask(t) \/ CancelTask(t) PROVE TimerTypeOK'
  <2>1. PICK step \in {"idle", "relock"}, b \in Bucket, task \in Task \cup {NoTask} :
           Proceed(t, step, b, task)
    BY <1>0, <1>3 DEF AddTask, CancelTask, Return, TimerTypeOK
  <2>2. /\ timerPc' \in [Thread -> {"idle", "start", "expiry", "stop", "clear", "add", "relock", "cancel"}]
        /\ at' \in [Thread -> Bucket] /\ arg' \in [Thread -> Task \cup {NoTask}]
    BY <2>1, ProceedType
  <2>3. CASE AddTask(t)
    BY <2>2, <2>3 DEF AddTask, TimerTypeOK, CallsName, Task
  <2>4. CASE CancelTask(t)
    <3>1. missed' \in BOOLEAN
      BY <2>4, Zenon DEF CancelTask
    <3>2. QED
      BY <2>2, <2>4, <3>1 DEF CancelTask, TimerTypeOK
  <2>5. QED
    BY <1>3, <2>3, <2>4
<1>4. ASSUME NEW t \in Thread, NEW when \in {"soon", "never"}, Schedule(t, when) PROVE TimerTypeOK'
  <2>1. nextId' \in 0 .. MaxId /\ [id |-> nextId + 1, when |-> when] \in Task
    BY <1>4 DEF Schedule, TimerTypeOK, Task
  <2>2. Enter(t, "add", BucketIndex(nextId + 1), [id |-> nextId + 1, when |-> when])
    BY <1>4 DEF Schedule
  <2>3. QED
    BY <1>4, <2>1, <2>2, EnterType DEF Schedule, TimerTypeOK
<1>5. ASSUME NEW t \in Thread, NEW id \in 1 .. MaxId, CancelScheduled(t, id) PROVE TimerTypeOK'
  <2>1. [id |-> id, when |-> "never"] \in Task
    BY DEF Task
  <2>2. QED
    BY <1>5, <2>1, EnterType DEF CancelScheduled, TimerTypeOK
<1>6. ASSUME NEW t \in Thread, NEW n \in NewCounts, UpdateConfig(t, n) PROVE TimerTypeOK'
  BY <1>6 DEF UpdateConfig, TimerTypeOK
<1>7. CASE UNCHANGED timerVars
  BY <1>7 DEF timerVars, TimerTypeOK
<1>8. QED
  BY <1>1, <1>2, <1>3, <1>4, <1>5, <1>6, <1>7 DEF TimerNext, Call, Step

\* A thread that goes somewhere leaves the others' calls alone.
LEMMA ProceedOthers ==
  ASSUME TimerTypeOK, NEW t \in Thread, NEW step, NEW b, NEW task, Proceed(t, step, b, task)
  PROVE  /\ timerPc'[t] = step /\ at'[t] = b /\ arg'[t] = task
         /\ \A u \in Thread \ {t} : timerPc'[u] = timerPc[u] /\ at'[u] = at[u] /\ arg'[u] = arg[u]
  BY DEF TimerTypeOK, Proceed

\* A call keeps its task, and the bucket that follows from it.
LEMMA CallsNameStep == TimerShape /\ [TimerNext]_timerVars => CallsName'
<1> SUFFICES ASSUME TimerTypeOK, CallsName, [TimerNext]_timerVars PROVE CallsName'
  BY DEF TimerShape
<1>1. ASSUME NEW t \in Thread, NEW step, step \notin {"add", "cancel"}, NEW b, NEW task,
             Proceed(t, step, b, task), UNCHANGED <<bucketCount, moved>>
      PROVE  CallsName'
  BY <1>1, ProceedOthers DEF CallsName, BucketOf, BucketIndex
<1>2. ASSUME NEW t \in Controller, Start(t) \/ Stop(t) PROVE CallsName'
  BY <1>1, <1>2, TimerAssumption DEF Start, Stop
<1>3. ASSUME NEW t \in Thread, Step(t) PROVE CallsName'
  BY <1>1, <1>3 DEF Step, StartBucket, StopBucket, StartTimer, ClearBucket, AddTask, CancelTask,
     NextBucket, Return
<1>4. ASSUME NEW t \in Thread, NEW when \in {"soon", "never"}, Schedule(t, when) PROVE CallsName'
  <2>1. [id |-> nextId + 1, when |-> when] \in Task
    BY <1>4, TimerAssumption DEF Schedule, TimerTypeOK, Task
  <2>2. QED
    BY <1>4, <2>1, ProceedOthers DEF Schedule, Enter, CallsName, BucketOf, BucketIndex
<1>5. ASSUME NEW t \in Thread, NEW id \in 1 .. MaxId, CancelScheduled(t, id) PROVE CallsName'
  <2>1. [id |-> id, when |-> "never"] \in Task
    BY DEF Task
  <2>2. QED
    BY <1>5, <2>1, ProceedOthers DEF CancelScheduled, Enter, CallsName, BucketOf, BucketIndex
<1>6. ASSUME NEW t \in Thread, NEW n \in NewCounts, UpdateConfig(t, n) PROVE CallsName'
  BY <1>6 DEF UpdateConfig, CallsName
<1>7. CASE UNCHANGED timerVars
  BY <1>7 DEF timerVars, CallsName, BucketOf, BucketIndex
<1>8. QED
  BY <1>2, <1>3, <1>4, <1>5, <1>6, <1>7 DEF TimerNext, Call

\* The shape of the timer manager's state, for any buckets, threads and tasks.
LEMMA TimerShapeCorrect == TimerSpec => []TimerShape
<1>1. TimerInit => TimerTypeOK
  <2>1. 0 \in Bucket /\ BucketCount \in NewCounts \cup {BucketCount} /\ 0 \in 0 .. MaxId
    BY TimerAssumption DEF Bucket
  <2>2. QED
    BY <2>1 DEF TimerInit, TimerTypeOK
<1>2. TimerInit => CallsName
  BY DEF TimerInit, CallsName
<1>3. QED
  BY <1>1, <1>2, TimerTypeStep, CallsNameStep, PTL DEF TimerSpec, TimerShape

\* stop() leaves nothing behind: a bucket that does not run, and that no thread is
\* about to clear, holds no task.  add_task asks for is_running_ under the mutex
\* under which stop clears the tasks, so a schedule() that is late adds nothing.
THEOREM StopClears == TimerSpec => []StopLeavesNothing
<1>1. TimerInit => StopLeavesNothing
  BY DEF TimerInit, StopLeavesNothing
<1>2. TimerTypeOK /\ StopLeavesNothing /\ [TimerNext]_timerVars => StopLeavesNothing'
  <2> SUFFICES ASSUME TimerTypeOK, StopLeavesNothing, [TimerNext]_timerVars PROVE StopLeavesNothing'
    OBVIOUS
  <2>1. ASSUME NEW t \in Thread, NEW step, NEW b, NEW task, Proceed(t, step, b, task),
               timerPc[t] # "clear", UNCHANGED <<bucketActive, pending>>
        PROVE  StopLeavesNothing'
    BY <2>1, ProceedOthers DEF StopLeavesNothing
  <2>2. ASSUME NEW t \in Controller, Start(t) \/ Stop(t) PROVE StopLeavesNothing'
    BY <2>1, <2>2, TimerAssumption DEF Start, Stop
  <2>3. ASSUME NEW t \in Thread, StartTimer(t) PROVE StopLeavesNothing'
    BY <2>1, <2>3 DEF StartTimer, NextBucket, Return
  <2>4. ASSUME NEW t \in Thread, StartBucket(t) PROVE StopLeavesNothing'
    <3>1. PICK step, b, task : Proceed(t, step, b, task)
      BY <2>4 DEF StartBucket, NextBucket, Return
    <3>2. QED
      BY <2>4, <3>1, ProceedOthers DEF StartBucket, StopLeavesNothing, TimerTypeOK
  <2>5. ASSUME NEW t \in Thread, StopBucket(t) PROVE StopLeavesNothing'
    <3>1. CASE bucketActive[at[t]]
      BY <2>5, <3>1, ProceedOthers DEF StopBucket, StopLeavesNothing, TimerTypeOK
    <3>2. CASE ~bucketActive[at[t]]
      <4>1. PICK step, b, task : Proceed(t, step, b, task)
        BY <2>5, <3>2 DEF StopBucket, NextBucket, Return
      <4>2. QED
        BY <2>5, <3>2, <4>1, ProceedOthers DEF StopBucket, StopLeavesNothing, TimerTypeOK
    <3>3. QED
      BY <3>1, <3>2
  <2>6. ASSUME NEW t \in Thread, ClearBucket(t) PROVE StopLeavesNothing'
    <3>1. PICK step, b, task : Proceed(t, step, b, task)
      BY <2>6 DEF ClearBucket, NextBucket, Return
    <3>2. QED
      BY <2>6, <3>1, ProceedOthers DEF ClearBucket, StopLeavesNothing, TimerTypeOK
  <2>7. ASSUME NEW t \in Thread, AddTask(t) PROVE StopLeavesNothing'
    <3>1. PICK step, b, task : Proceed(t, step, b, task)
      BY <2>7 DEF AddTask, Return
    <3>2. QED
      BY <2>7, <3>1, ProceedOthers DEF AddTask, StopLeavesNothing, TimerTypeOK
  <2>8. ASSUME NEW t \in Thread, CancelTask(t) PROVE StopLeavesNothing'
    BY <2>8, ProceedOthers DEF CancelTask, Return, StopLeavesNothing, TimerTypeOK
  <2>9. ASSUME NEW t \in Thread, NEW when \in {"soon", "never"}, Schedule(t, when)
        PROVE  StopLeavesNothing'
    BY <2>1, <2>9 DEF Schedule, Enter, StopLeavesNothing
  <2>10. ASSUME NEW t \in Thread, NEW id \in 1 .. MaxId, CancelScheduled(t, id) PROVE StopLeavesNothing'
    BY <2>1, <2>10 DEF CancelScheduled, Enter, StopLeavesNothing
  <2>11. ASSUME NEW t \in Thread, NEW n \in NewCounts, UpdateConfig(t, n) PROVE StopLeavesNothing'
    BY <2>11 DEF UpdateConfig, StopLeavesNothing
  <2>12. CASE UNCHANGED timerVars
    BY <2>12 DEF timerVars, StopLeavesNothing
  <2>13. QED
    BY <2>2, <2>3, <2>4, <2>5, <2>6, <2>7, <2>8, <2>9, <2>10, <2>11, <2>12 DEF TimerNext, Call, Step
<1>3. QED
  BY <1>1, <1>2, TimerShapeCorrect, PTL DEF TimerSpec, TimerShape

\* cancel looks for a task where schedule put it, and both of them find a bucket,
\* unless update_config changed bucket_count.
THEOREM CancelLooksRight == TimerSpec => []CancelFindsTask
<1>1. TimerInit => Placed /\ CancelFindsTask
  BY DEF TimerInit, Placed, CancelFindsTask
<1>2. TimerShape /\ Placed /\ CancelFindsTask /\ [TimerNext]_timerVars => (Placed /\ CancelFindsTask)'
  <2> SUFFICES ASSUME TimerTypeOK, CallsName, Placed, CancelFindsTask, [TimerNext]_timerVars
               PROVE  (Placed /\ CancelFindsTask)'
    BY DEF TimerShape
  <2>1. ASSUME UNCHANGED <<bucketCount, moved, missed>>, noBucket' => noBucket \/ moved,
               \A b \in Bucket : pending'[b] \subseteq pending[b]
        PROVE  (Placed /\ CancelFindsTask)'
    BY <2>1 DEF Placed, CancelFindsTask, BucketOf, BucketIndex
  <2>0. ASSUME NEW id \in Nat, NEW t, NEW step, NEW task, Enter(t, step, BucketIndex(id), task)
        PROVE  noBucket' => noBucket \/ moved
    <3>1. CASE moved
      BY <3>1
    <3>2. CASE ~moved
      <4>1. BucketIndex(id) = id % BucketCount
        BY <3>2, TimerAssumption DEF Placed, BucketIndex
      <4>2. BucketIndex(id) \in Bucket
        BY <4>1, RemainderInRange, TimerAssumption DEF Bucket
      <4>3. QED
        BY <2>0, <4>2 DEF Enter
    <3>3. QED
      BY <3>1, <3>2
  <2>2. ASSUME NEW t \in Controller, Start(t) \/ Stop(t) PROVE (Placed /\ CancelFindsTask)'
    BY <2>1, <2>2 DEF Start, Stop
  <2>3. ASSUME NEW t \in Thread, StartTimer(t) \/ StartBucket(t) \/ StopBucket(t)
        PROVE  (Placed /\ CancelFindsTask)'
    BY <2>1, <2>3 DEF StartTimer, StartBucket, StopBucket
  <2>4. ASSUME NEW t \in Thread, ClearBucket(t) PROVE (Placed /\ CancelFindsTask)'
    BY <2>1, <2>4 DEF ClearBucket, TimerTypeOK
  <2>5. ASSUME NEW t \in Thread, AddTask(t) PROVE (Placed /\ CancelFindsTask)'
    BY <2>5 DEF AddTask, Placed, CancelFindsTask, CallsName, TimerTypeOK, BucketOf, BucketIndex
  <2>6. ASSUME NEW t \in Thread, CancelTask(t) PROVE (Placed /\ CancelFindsTask)'
    <3>1. ~moved => \A c \in Bucket \ {at[t]} : arg[t].id \notin pending[c]
      BY <2>6 DEF CancelTask, Placed, CallsName
    <3>2. missed' => missed \/ moved
      BY <2>6, <3>1 DEF CancelTask
    <3>3. Placed'
      BY <2>6 DEF CancelTask, Placed, TimerTypeOK, BucketOf, BucketIndex
    <3>4. QED
      BY <2>6, <3>2, <3>3 DEF CancelTask, CancelFindsTask
  <2>7. ASSUME NEW t \in Thread, NEW when \in {"soon", "never"}, Schedule(t, when)
        PROVE  (Placed /\ CancelFindsTask)'
    <3>1. nextId + 1 \in Nat
      BY TimerAssumption DEF TimerTypeOK
    <3>2. QED
      BY <2>0, <2>1, <2>7, <3>1 DEF Schedule
  <2>8. ASSUME NEW t \in Thread, NEW id \in 1 .. MaxId, CancelScheduled(t, id)
        PROVE  (Placed /\ CancelFindsTask)'
    BY <2>0, <2>1, <2>8 DEF CancelScheduled, BucketOf
  <2>9. ASSUME NEW t \in Thread, NEW n \in NewCounts, UpdateConfig(t, n)
        PROVE  (Placed /\ CancelFindsTask)'
    BY <2>9 DEF UpdateConfig, Placed, CancelFindsTask
  <2>10. CASE UNCHANGED timerVars
    BY <2>1, <2>10 DEF timerVars
  <2>11. QED
    BY <2>2, <2>3, <2>4, <2>5, <2>6, <2>7, <2>8, <2>9, <2>10 DEF TimerNext, Call, Step
<1>3. QED
  BY <1>1, <1>2, TimerShapeCorrect, PTL DEF TimerSpec

\* A mutex that is held stays held: its holder is in add_task and waits for the
\* mutex it has.  Every other operation has released it when its step is over.
THEOREM HeldForEver == TimerSpec => []HeldByItsWaiter
<1>1. TimerInit => HeldByItsWaiter
  BY DEF TimerInit, HeldByItsWaiter, Free
<1>2. TimerTypeOK /\ HeldByItsWaiter /\ [TimerNext]_timerVars => HeldByItsWaiter'
  <2> SUFFICES ASSUME TimerTypeOK, HeldByItsWaiter, [TimerNext]_timerVars PROVE HeldByItsWaiter'
    OBVIOUS
  <2>1. ASSUME NEW t \in Thread, timerPc[t] # "relock", NEW step, NEW b, NEW task,
               Proceed(t, step, b, task), UNCHANGED mutex
        PROVE  HeldByItsWaiter'
    BY <2>1, ProceedOthers DEF HeldByItsWaiter, Free, TimerTypeOK
  <2>2. ASSUME NEW t \in Controller, Start(t) \/ Stop(t) PROVE HeldByItsWaiter'
    BY <2>1, <2>2, TimerAssumption DEF Start, Stop
  <2>3. ASSUME NEW t \in Thread,
               StartTimer(t) \/ StartBucket(t) \/ StopBucket(t) \/ ClearBucket(t) \/ CancelTask(t)
        PROVE  HeldByItsWaiter'
    BY <2>1, <2>3 DEF StartTimer, StartBucket, StopBucket, ClearBucket, CancelTask, NextBucket, Return
  <2>4. ASSUME NEW t \in Thread, AddTask(t) PROVE HeldByItsWaiter'
    <3>1. CASE bucketActive[at[t]] /\ arg[t].when = "soon"
      BY <2>4, <3>1, ProceedOthers DEF AddTask, HeldByItsWaiter, Free, TimerTypeOK
    <3>2. CASE ~(bucketActive[at[t]] /\ arg[t].when = "soon")
      BY <2>1, <2>4, <3>2 DEF AddTask, Return
    <3>3. QED
      BY <3>1, <3>2
  <2>5. ASSUME NEW t \in Thread, NEW when \in {"soon", "never"}, Schedule(t, when)
        PROVE  HeldByItsWaiter'
    BY <2>1, <2>5 DEF Schedule, Enter, HeldByItsWaiter, Free
  <2>6. ASSUME NEW t \in Thread, NEW id \in 1 .. MaxId, CancelScheduled(t, id) PROVE HeldByItsWaiter'
    BY <2>1, <2>6 DEF CancelScheduled, Enter, HeldByItsWaiter, Free
  <2>7. CASE UNCHANGED <<timerPc, at, arg, mutex>>
    BY <2>7 DEF HeldByItsWaiter, Free
  <2>8. QED
    BY <2>2, <2>3, <2>4, <2>5, <2>6, <2>7 DEF TimerNext, Call, Step, UpdateConfig, timerVars
<1>3. QED
  BY <1>1, <1>2, TimerShapeCorrect, PTL DEF TimerSpec, TimerShape

-----------------------------------------------------------------------------
(* StrandPool. *)

\* The least-number principle, from the well-foundedness of < on Nat: induction for
\* what is defined by recursion, and the witness of a CHOOSE of a least element.
LEMMA NatMin ==
  ASSUME NEW T, T \subseteq Nat, T # {}
  PROVE  \E x \in T : \A y \in T : x <= y
<1>1. IsWellFoundedOn({ss \in Nat \X Nat : ss[1] < ss[2]}, Nat)
  BY NatLessThanWellFounded, Zenon DEF OpToRel
<1>2. PICK x \in T : \A y \in T : <<y, x>> \notin {ss \in Nat \X Nat : ss[1] < ss[2]}
  BY <1>1, WFMin, Zenon
<1>3. ASSUME NEW y \in T PROVE x <= y
  <2>1. <<y, x>> \in Nat \X Nat /\ <<y, x>>[1] = y /\ <<y, x>>[2] = x
    OBVIOUS
  <2>2. ~(y < x)
    BY <1>2, <2>1, Zenon
  <2>3. QED
    BY <2>2
<1>4. QED
  BY <1>3

\* The same for pairs in lexicographic order.
LEMMA PairMin ==
  ASSUME NEW T, T \subseteq Nat \X Nat, T # {}
  PROVE  \E n \in T : \A m \in T : n[1] < m[1] \/ (n[1] = m[1] /\ n[2] <= m[2])
<1>1. PICK x \in {n[1] : n \in T} : \A y \in {n[1] : n \in T} : x <= y
  <2>1. {n[1] : n \in T} \subseteq Nat /\ {n[1] : n \in T} # {}
    OBVIOUS
  <2>2. QED
    BY <2>1, NatMin
<1> DEFINE U == {n \in T : n[1] = x}
<1>2. PICK z \in {n[2] : n \in U} : \A y \in {n[2] : n \in U} : z <= y
  <2>1. {n[2] : n \in U} \subseteq Nat /\ {n[2] : n \in U} # {}
    BY <1>1
  <2>2. QED
    BY <2>1, NatMin
<1>3. PICK n \in T : n[1] = x /\ n[2] = z
  BY <1>2
<1>4. ASSUME NEW m \in T PROVE n[1] < m[1] \/ (n[1] = m[1] /\ n[2] <= m[2])
  <2>1. x <= m[1] /\ x \in Nat /\ m[1] \in Nat
    BY <1>1
  <2>2. m[1] = x => z <= m[2]
    BY <1>2
  <2>3. QED
    BY <1>3, <2>1, <2>2
<1>5. QED
  BY <1>3, <1>4

Item == [id : Nat, active : Nat, healthy : BOOLEAN]

\* The pool between two operations.  InBounds says nothing of the ring, which the
\* resize builds anew, nor that what is removed is no more than was asked for.
StrandInv ==
  /\ strands \in Seq(Item) /\ size \in Size /\ size <= Len(strands) /\ ring = Ring(size)
  /\ robin \in Nat /\ created \in Nat /\ strategy \in Strategy
  /\ asked \in [Updater -> SUBSET Size] /\ (noStrand => size = 0)

\* The recursion of Removed has a solution: there is a list for every step.
LEMMA RemovedExists ==
  ASSUME NEW order, NEW m \in Nat
  PROVE  \E g : g = [i \in 0 .. m |-> IF i = 0 THEN strands ELSE RemoveStrand(g[i - 1], order[i])]
<1> DEFINE Good(k) ==
      \E g : g = [i \in 0 .. k |-> IF i = 0 THEN strands ELSE RemoveStrand(g[i - 1], order[i])]
           Bad == {k \in Nat : ~Good(k)}
<1>1. SUFFICES ASSUME Bad # {} PROVE FALSE
  OBVIOUS
<1>2. PICK k \in Bad : \A j \in Bad : k <= j
  BY <1>1, NatMin
<1>3. Good(0)
  <2> DEFINE g == [i \in 0 .. 0 |-> strands]
  <2>1. g = [i \in 0 .. 0 |-> IF i = 0 THEN strands ELSE RemoveStrand(g[i - 1], order[i])]
    OBVIOUS
  <2>2. QED
    BY <2>1
<1>4. k \in Nat /\ k # 0
  BY <1>3
<1>5. k - 1 \in Nat /\ k - 1 \notin Bad
  <2>1. k - 1 \in Nat /\ ~(k <= k - 1)
    BY <1>4
  <2>2. QED
    BY <1>2, <2>1, Zenon
<1>6. PICK g : g = [i \in 0 .. k - 1 |-> IF i = 0 THEN strands ELSE RemoveStrand(g[i - 1], order[i])]
  BY <1>5
<1> DEFINE h == [i \in 0 .. k |-> IF i <= k - 1 THEN g[i] ELSE RemoveStrand(g[k - 1], order[k])]
<1>7. h = [i \in 0 .. k |-> IF i = 0 THEN strands ELSE RemoveStrand(h[i - 1], order[i])]
  <2> SUFFICES ASSUME NEW i \in 0 .. k
               PROVE  h[i] = IF i = 0 THEN strands ELSE RemoveStrand(h[i - 1], order[i])
    OBVIOUS
  <2>1. QED
    BY <1>4, <1>6
<1>8. QED
  BY <1>7

\* Removing by an index, in range or not, takes away at most one strand.
LEMMA RemoveStrandLen ==
  ASSUME NEW list \in Seq(Item), NEW i \in Nat \ {0}
  PROVE  RemoveStrand(list, i) \in Seq(Item) /\ Len(RemoveStrand(list, i)) >= Len(list) - 1
<1>1. CASE i <= Len(list)
  <2>1. /\ SubSeq(list, 1, i - 1) \in Seq(Item) /\ Len(SubSeq(list, 1, i - 1)) = i - 1
        /\ SubSeq(list, i + 1, Len(list)) \in Seq(Item)
        /\ Len(SubSeq(list, i + 1, Len(list))) = Len(list) - i
    BY <1>1
  <2>2. RemoveStrand(list, i) = SubSeq(list, 1, i - 1) \o SubSeq(list, i + 1, Len(list))
    BY <1>1 DEF RemoveStrand, RemoveAt
  <2>3. RemoveStrand(list, i) \in Seq(Item)
    BY <2>1, <2>2, ConcatProperties, Zenon
  <2>4. Len(RemoveStrand(list, i)) = Len(SubSeq(list, 1, i - 1)) + Len(SubSeq(list, i + 1, Len(list)))
    BY <2>1, <2>2, ConcatProperties, Zenon
  <2>5. Len(RemoveStrand(list, i)) = (i - 1) + (Len(list) - i)
    BY <2>1, <2>4, Zenon
  <2>6. Len(list) \in Nat /\ (i - 1) + (Len(list) - i) = Len(list) - 1
    OBVIOUS
  <2>7. QED
    BY <2>3, <2>5, <2>6
<1>2. CASE ~(i <= Len(list))
  BY <1>2 DEF RemoveStrand
<1>3. QED
  BY <1>1, <1>2

\* A shrink by m indices leaves a pool of at least Len(strands_) - m.
LEMMA RemovedLen ==
  ASSUME strands \in Seq(Item), NEW m \in Nat, NEW order,
         \A i \in 1 .. m : order[i] \in Nat \ {0}
  PROVE  Removed(order, m) \in Seq(Item) /\ Len(Removed(order, m)) >= Len(strands) - m
<1>1. PICK g : /\ g = [i \in 0 .. m |-> IF i = 0 THEN strands ELSE RemoveStrand(g[i - 1], order[i])]
               /\ Removed(order, m) = g[m]
  BY RemovedExists, Zenon DEF Removed
<1> DEFINE Good(i) == g[i] \in Seq(Item) /\ Len(g[i]) >= Len(strands) - i
           Bad == {i \in 0 .. m : ~Good(i)}
<1>2. SUFFICES ASSUME Bad # {} PROVE FALSE
  <2>1. m \in 0 .. m
    OBVIOUS
  <2>2. QED
    BY <1>1, <2>1, Zenon
<1>3. PICK k \in Bad : \A j \in Bad : k <= j
  <2>1. Bad \subseteq Nat
    OBVIOUS
  <2>2. QED
    BY <1>2, <2>1, NatMin, Zenon
<1>4. Good(0)
  BY <1>1
<1>5. k \in 1 .. m /\ k - 1 \in 0 .. m /\ k - 1 \notin Bad
  <2>1. k \in 1 .. m /\ k - 1 \in 0 .. m /\ ~(k <= k - 1)
    BY <1>4
  <2>2. QED
    BY <1>3, <2>1, Zenon
<1>6. Good(k - 1)
  BY <1>5
<1>7. g[k] = RemoveStrand(g[k - 1], order[k])
  BY <1>1, <1>5
<1>8. Good(k)
  <2>1. order[k] \in Nat \ {0} /\ Len(g[k - 1]) \in Nat
    BY <1>5, <1>6
  <2>2. g[k] \in Seq(Item) /\ Len(g[k]) >= Len(g[k - 1]) - 1
    BY <1>6, <1>7, <2>1, RemoveStrandLen
  <2>3. QED
    BY <1>5, <1>6, <2>1, <2>2
<1>9. QED
  BY <1>8

\* A ring of at least one strand has nodes, each a pair of a hash and an index.
LEMMA RingNodes ==
  ASSUME NEW n \in Size
  PROVE  /\ n # 0 => Ring(n) # {}
         /\ Ring(n) \subseteq Nat \X Nat /\ \A x \in Ring(n) : x[2] \in 0 .. n - 1
<1>1. n \in Nat /\ \A i \in 0 .. n - 1 : i \in Nat
  BY StrandAssumption
<1>2. \A i \in 0 .. n - 1 : Nodes[i] \subseteq Nat /\ Nodes[i] # {}
  BY StrandAssumption
<1>3. ASSUME n # 0 PROVE Ring(n) # {}
  <2>1. 0 \in 0 .. n - 1
    BY <1>1, <1>3
  <2>2. PICK h : h \in Nodes[0]
    BY <1>2, <2>1
  <2>3. <<h, 0>> \in Nodes[0] \X {0}
    BY <2>2
  <2>4. QED
    BY <2>1, <2>3 DEF Ring
<1>4. ASSUME NEW x \in Ring(n) PROVE x \in Nat \X Nat /\ x[2] \in 0 .. n - 1
  <2>1. PICK i \in 0 .. n - 1 : x \in Nodes[i] \X {i}
    BY DEF Ring
  <2>2. QED
    BY <1>1, <1>2, <2>1
<1>5. QED
  BY <1>3, <1>4

Above(nodes, h) == {x \in nodes : x[1] >= h}
From(nodes, h) == IF Above(nodes, h) = {} THEN nodes ELSE Above(nodes, h)
Hit(nodes, h) ==
  CHOOSE x \in From(nodes, h) : \A m \in From(nodes, h) : x[1] < m[1] \/ (x[1] = m[1] /\ x[2] <= m[2])

\* lower_bound finds the least node at or above the hash, or the first of the ring.
LEMMA HitIsLeast ==
  ASSUME NEW n \in Size, n # 0, NEW h
  PROVE  /\ Hit(Ring(n), h) \in From(Ring(n), h)
         /\ \A m \in From(Ring(n), h) :
              \/ Hit(Ring(n), h)[1] < m[1]
              \/ Hit(Ring(n), h)[1] = m[1] /\ Hit(Ring(n), h)[2] <= m[2]
<1>1. From(Ring(n), h) # {} /\ From(Ring(n), h) \subseteq Nat \X Nat
  BY RingNodes DEF From, Above
<1>2. PICK x \in From(Ring(n), h) :
        \A m \in From(Ring(n), h) : x[1] < m[1] \/ (x[1] = m[1] /\ x[2] <= m[2])
  BY <1>1, PairMin
<1>3. QED
  BY <1>2, Zenon DEF Hit

\* A lookup in a ring that has nodes.
LEMMA LookupIsHit == ring # {} => \A h : Lookup(h) = Hit(ring, h)[2]
  BY Zenon DEF Lookup, Hit, From, Above

\* A session's strand has an index below current_size_.
LEMMA LookupInRange ==
  ASSUME StrandInv, size # 0, NEW h \in Hash
  PROVE  Lookup(h) \in 0 .. size - 1
<1>0. ring = Ring(size) /\ ring # {}
  BY RingNodes DEF StrandInv
<1>1. Lookup(h) = Hit(Ring(size), h)[2]
  BY <1>0, LookupIsHit
<1>2. Hit(Ring(size), h) \in Ring(size)
  BY HitIsLeast DEF From, Above, StrandInv
<1>3. QED
  BY <1>1, <1>2, RingNodes DEF StrandInv

\* So has what a strategy returns.
LEMMA SelectableInRange ==
  ASSUME StrandInv, size # 0
  PROVE  Selectable \subseteq 0 .. size - 1
<1>0. size \in Nat \ {0} /\ Len(strands) \in Nat /\ 0 \in 0 .. size - 1
  BY StrandAssumption DEF StrandInv
<1>1. RoundRobin \in 0 .. size - 1
  BY <1>0, RemainderInRange DEF StrandInv, RoundRobin
<1>2. LeastConnections \subseteq 0 .. size - 1
  <2> DEFINE C == Healthy \cup {0}
             T == {<<strands[i + 1].active, i>> : i \in C}
             Least(i) == \A j \in C : \/ strands[i + 1].active < strands[j + 1].active
                                      \/ strands[i + 1].active = strands[j + 1].active /\ i <= j
  <2>1. C \subseteq 0 .. size - 1
    BY <1>0 DEF Healthy
  <2>2. ASSUME NEW i \in C PROVE i \in Nat /\ strands[i + 1].active \in Nat
    <3>1. i \in Nat /\ i + 1 \in 1 .. Len(strands)
      BY <1>0, <2>1 DEF StrandInv
    <3>2. strands[i + 1] \in Item
      BY <3>1, ElementOfSeq DEF StrandInv
    <3>3. QED
      BY <3>1, <3>2 DEF Item
  <2>3. T \subseteq Nat \X Nat /\ T # {}
    <3>1. ASSUME NEW x \in T PROVE x \in Nat \X Nat
      <4>1. PICK i \in C : x = <<strands[i + 1].active, i>>
        OBVIOUS
      <4>2. QED
        BY <2>2, <4>1
    <3>2. 0 \in C
      OBVIOUS
    <3>3. QED
      BY <3>1, <3>2, Zenon
  <2>4. PICK n \in T : \A m \in T : n[1] < m[1] \/ (n[1] = m[1] /\ n[2] <= m[2])
    BY <2>3, PairMin
  <2>5. PICK i \in C : n = <<strands[i + 1].active, i>>
    BY <2>4
  <2>6. \A j \in C : <<strands[j + 1].active, j>> \in T
    OBVIOUS
  <2>7. Least(i)
    BY <2>4, <2>5, <2>6
  <2>8. (CHOOSE x \in C : Least(x)) \in C
    BY <2>7, Zenon
  <2>9. LeastConnections = {CHOOSE x \in C : Least(x)}
    BY Zenon DEF LeastConnections
  <2>10. QED
    BY <2>1, <2>8, <2>9, Zenon
<1>3. {Lookup(h) : h \in Hash} \subseteq 0 .. size - 1
  BY LookupInRange
<1>4. Weighted \subseteq 0 .. size - 1
  BY DEF Weighted
<1>5. strategy \in {"RoundRobin", "LeastConnections", "ConsistentHash", "Random", "WeightedRoundRobin"}
  BY StrandAssumption DEF StrandInv
<1>6. QED
  BY <1>0, <1>1, <1>2, <1>3, <1>4, <1>5 DEF Selectable

\* The indices a shrink removes are those of strands.
LEMMA ByLoadIndices ==
  ASSUME NEW order \in ByLoad, NEW i \in 1 .. size
  PROVE  order[i] \in 1 .. size
  BY DEF ByLoad, Bijection, Injection, Surjection

\* Resizing to any size leaves at least as many strands as current_size_ says.
LEMMA ResizeKeeps ==
  ASSUME StrandInv, NEW n \in Size, Resize(n)
  PROVE  /\ strands' \in Seq(Item) /\ size' = n /\ n <= Len(strands') /\ ring' = Ring(n)
         /\ created' \in Nat
<1>0. n \in Nat /\ size \in Nat /\ Len(strands) \in Nat /\ size <= Len(strands)
  BY StrandAssumption DEF StrandInv
<1>1. CASE n > size /\ strands' = strands \o NewStrands(n - size) /\ created' = created + n - size
  <2>1. n - size \in Nat /\ created \in Nat
    BY <1>0, <1>1 DEF StrandInv
  <2>2. NewStrands(n - size) \in [1 .. n - size -> Item]
    BY <2>1 DEF NewStrands, Item
  <2>3. NewStrands(n - size) \in Seq(Item) /\ Len(NewStrands(n - size)) = n - size
    BY <2>1, <2>2
  <2>4. strands' \in Seq(Item) /\ Len(strands') = Len(strands) + Len(NewStrands(n - size))
    BY <1>1, <2>3, ConcatProperties, Zenon DEF StrandInv
  <2>5. n <= Len(strands')
    BY <1>0, <2>3, <2>4
  <2>6. created' \in Nat
    BY <1>0, <1>1, <2>1
  <2>7. QED
    BY <2>4, <2>5, <2>6 DEF Resize
<1>2. CASE n < size /\ (\E order \in ByLoad : strands' = Shrunk(order, n)) /\ created' = created
  <2>1. PICK order \in ByLoad : strands' = Removed(order, size - n)
    BY <1>2 DEF Shrunk
  <2>2. size - n \in Nat /\ \A i \in 1 .. size - n : i \in 1 .. size
    BY <1>0, <1>2
  <2>3. \A i \in 1 .. size - n : order[i] \in Nat \ {0}
    BY <1>0, <2>2, ByLoadIndices
  <2>4. strands' \in Seq(Item) /\ Len(strands') >= Len(strands) - (size - n)
    BY <2>1, <2>2, <2>3, RemovedLen DEF StrandInv
  <2>5. Len(strands') \in Nat /\ n <= Len(strands')
    BY <1>0, <2>4
  <2>6. QED
    BY <1>2, <2>4, <2>5 DEF Resize, StrandInv
<1>3. QED
  BY <1>1, <1>2 DEF Resize

\* Choosing a strand changes its counter and nothing of the list; only a pool of
\* size 0 may have no strand for the index.
LEMMA CountKeeps ==
  ASSUME StrandInv, ~noStrand, NEW i, size # 0 => i \in 0 .. size - 1, Count(i),
         UNCHANGED <<size, ring, created, strategy, asked>>, robin' \in Nat
  PROVE  StrandInv'
<1>1. CASE i + 1 \in DOMAIN strands /\ strands' = [strands EXCEPT ![i + 1].active = @ + 1] /\ UNCHANGED noStrand
  <2>1. strands \in Seq(Item) /\ DOMAIN strands = 1 .. Len(strands)
    BY DEF StrandInv
  <2>2. strands[i + 1] \in Item
    BY <1>1, <2>1, ElementOfSeq
  <2>3. [strands[i + 1] EXCEPT !.active = @ + 1] \in Item
    BY <2>2 DEF Item
  <2>4. strands' = [strands EXCEPT ![i + 1] = [strands[i + 1] EXCEPT !.active = @ + 1]]
    BY <1>1
  <2>5. strands' \in Seq(Item) /\ Len(strands') = Len(strands)
    BY <1>1, <2>1, <2>3, <2>4, ExceptSeq
  <2>6. QED
    BY <1>1, <2>5 DEF StrandInv, Ring
<1>2. CASE i + 1 \notin DOMAIN strands /\ UNCHANGED strands
  <2>1. ASSUME size # 0 PROVE i + 1 \in DOMAIN strands
    BY <2>1, StrandAssumption DEF StrandInv
  <2>2. QED
    BY <1>2, <2>1 DEF StrandInv, Ring
<1>3. QED
  BY <1>1, <1>2 DEF Count

\* Every operation of the pool keeps StrandInv.
LEMMA StrandInvStep == StrandInv /\ [StrandNext]_strandVars => StrandInv'
<1>0. CASE UNCHANGED strandVars
  BY <1>0 DEF strandVars, StrandInv, Ring
<1> SUFFICES ASSUME StrandInv, ~noStrand, StrandStep PROVE StrandInv'
  BY <1>0 DEF StrandNext
<1>1. ASSUME NEW n \in Size, CallResize(n) PROVE StrandInv'
  <2>1. Resize(n) /\ UNCHANGED asked
    BY <1>1 DEF CallResize
  <2>2. QED
    BY <2>1, ResizeKeeps DEF Resize, StrandInv
<1>2. ASSUME NEW t \in Updater, FinishUpdate(t) PROVE StrandInv'
  <2>1. PICK n \in asked[t] :
          /\ asked' = [asked EXCEPT ![t] = {}]
          /\ \/ Resize(n)
             \/ UNCHANGED <<strands, size, ring, robin, bounds, strategy, created, picks, checking, again, noStrand>>
    BY <1>2 DEF FinishUpdate
  <2>2. n \in Size /\ asked' \in [Updater -> SUBSET Size]
    BY <2>1 DEF StrandInv
  <2>3. CASE Resize(n)
    BY <2>2, <2>3, ResizeKeeps DEF Resize, StrandInv
  <2>4. CASE UNCHANGED <<strands, size, ring, robin, bounds, strategy, created, picks, checking, again, noStrand>>
    BY <2>2, <2>4 DEF StrandInv, Ring
  <2>5. QED
    BY <2>1, <2>3, <2>4
<1>3. ASSUME NEW t \in Updater, NEW b \in Bounds, NEW s \in Strategy, NEW n \in Size,
             UpdateStrandConfig(t, b, s, n)
      PROVE  StrandInv'
  BY <1>3 DEF UpdateStrandConfig, StrandInv, Ring
<1>4. ASSUME NEW s \in Strategy, SetLoadBalanceStrategy(s) PROVE StrandInv'
  BY <1>4 DEF SetLoadBalanceStrategy, StrandInv, Ring
<1>5. CASE NextStrand
  <2>1. PICK i \in Selectable : Count(i)
    BY <1>5 DEF NextStrand
  <2>2. (size # 0 => i \in 0 .. size - 1) /\ robin' \in Nat
    BY <1>5, SelectableInRange DEF NextStrand, StrandInv
  <2>3. QED
    BY <2>1, <2>2, CountKeeps DEF Count
<1>6. ASSUME NEW h \in Hash, StrandForSession(h) PROVE StrandInv'
  <2>1. (size # 0 => Lookup(h) \in 0 .. size - 1) /\ robin' \in Nat
    BY <1>6, LookupInRange DEF StrandForSession, StrandInv
  <2>2. QED
    BY <1>6, <2>1, CountKeeps DEF StrandForSession, Count
<1>10. CASE RoundRobinAgain
  <2>1. size # 0 => RoundRobin \in 0 .. size - 1
    BY RemainderInRange, StrandAssumption DEF RoundRobin, StrandInv
  <2>2. robin' \in Nat
    BY <1>10 DEF RoundRobinAgain, StrandInv
  <2>3. QED
    BY <1>10, <2>1, <2>2, CountKeeps DEF RoundRobinAgain, Count
<1>11. CASE FallBack \/ WaitBehindWriter
  BY <1>11 DEF FallBack, WaitBehindWriter, StrandInv, Ring
<1>7. CASE HealthCheck
  <2>1. PICK ill \in SUBSET (1 .. size) :
          strands' = [i \in DOMAIN strands |->
                        IF i <= size THEN [strands[i] EXCEPT !.healthy = i \notin ill] ELSE strands[i]]
    BY <1>7 DEF HealthCheck
  <2>2. ASSUME NEW i \in DOMAIN strands PROVE strands'[i] \in Item
    <3>1. strands[i] \in Item
      BY DEF StrandInv
    <3>2. \A v \in BOOLEAN : [strands[i] EXCEPT !.healthy = v] \in Item
      BY <3>1 DEF Item
    <3>3. (i \notin ill) \in BOOLEAN
      BY Zenon
    <3>4. [strands[i] EXCEPT !.healthy = (i \notin ill)] \in Item
      BY <3>2, <3>3, Zenon
    <3>5. QED
      BY <2>1, <3>1, <3>4
  <2>3. strands' \in [1 .. Len(strands) -> Item] /\ Len(strands) \in Nat
    BY <2>1, <2>2 DEF StrandInv
  <2>4. strands' \in Seq(Item) /\ Len(strands') = Len(strands)
    BY <2>3
  <2>5. QED
    BY <1>7, <2>4 DEF HealthCheck, StrandInv, Ring
<1>8. CASE StartChecks \/ StopChecks
  BY <1>8 DEF StartChecks, StopChecks, StrandInv, Ring
<1>9. QED
  BY <1>1, <1>2, <1>3, <1>4, <1>5, <1>6, <1>7, <1>8, <1>10, <1>11 DEF StrandStep

\* StrandInv holds from the start, whether initial_size is within the bounds or not.
LEMMA StrandInvCorrect == StrandSpec => []StrandInv
<1>1. StrandInit => StrandInv
  <2> SUFFICES ASSUME StrandInit PROVE StrandInv
    OBVIOUS
  <2>1. size \in Size /\ size \in Nat /\ created \in Nat
    BY StrandAssumption DEF StrandInit
  <2>2. strands \in [1 .. size -> Item]
    BY <2>1 DEF StrandInit, Item
  <2>3. strands \in Seq(Item) /\ Len(strands) = size
    BY <2>1, <2>2
  <2>4. QED
    BY <2>1, <2>3 DEF StrandInit, StrandInv
<1>2. QED
  BY <1>1, StrandInvStep, PTL DEF StrandSpec

\* Whatever a strategy or a hash gives, strands_[index] exists, after any sequence of
\* resizes by indices that have gone stale, as long as none was to the size 0.
THEOREM StrandsInBounds == StrandSpec => []InBounds
<1>1. StrandInv => InBounds
  <2> SUFFICES ASSUME StrandInv PROVE InBounds
    OBVIOUS
  <2>1. \A i \in 0 .. size - 1 : i + 1 \in DOMAIN strands
    BY StrandAssumption DEF StrandInv
  <2>2. QED
    BY <2>1, SelectableInRange, LookupInRange DEF InBounds, StrandInv
<1>2. QED
  BY <1>1, StrandInvCorrect, PTL

\* A bigger ring has the nodes of the smaller one, and new ones of new indices.
LEMMA RingGrows ==
  ASSUME NEW m \in Size, NEW n \in Size, m < n
  PROVE  /\ Ring(m) \subseteq Ring(n)
         /\ \A x \in Ring(n) : x \in Ring(m) \/ x[2] >= m
<1>0. m \in Nat /\ n \in Nat
  BY StrandAssumption
<1>1. ASSUME NEW x \in Ring(m) PROVE x \in Ring(n)
  <2>1. PICK i \in 0 .. m - 1 : x \in Nodes[i] \X {i}
    BY DEF Ring
  <2>2. i \in 0 .. n - 1
    BY <1>0
  <2>3. QED
    BY <2>1, <2>2 DEF Ring
<1>2. ASSUME NEW x \in Ring(n), ~(x[2] >= m) PROVE x \in Ring(m)
  <2>1. PICK i \in 0 .. n - 1 : x \in Nodes[i] \X {i}
    BY DEF Ring
  <2>2. x[2] = i
    BY <2>1
  <2>3. i \in 0 .. m - 1
    BY <1>0, <1>2, <2>2
  <2>4. QED
    BY <2>1, <2>3 DEF Ring
<1>3. QED
  BY <1>1, <1>2

\* Consistent hashing: when a pool that uses all its strands grows, a session stays
\* on its strand or moves to one that this growth made.
THEOREM GrowthIsConsistent == StrandSpec => GrowthKeepsSessions
<1>1. ASSUME StrandInv, StrandInv', [StrandNext]_strandVars, size' > size, Len(strands) = size,
             NEW h \in Hash
      PROVE  \/ strands'[Lookup(h)' + 1].id > created
             \/ strands'[Lookup(h)' + 1].id = strands[Lookup(h) + 1].id
  <2>0. size \in Nat /\ size' \in Nat
    <3>1. size \in Size /\ size' \in Size
      BY <1>1, Zenon DEF StrandInv
    <3>2. QED
      BY <3>1, StrandAssumption
  <2>1. PICK n \in Size : Resize(n)
    <3>1. size' # size
      BY <1>1, <2>0
    <3>2. CASE \E n \in Size : CallResize(n)
      BY <3>2 DEF CallResize
    <3>3. ASSUME NEW t \in Updater, FinishUpdate(t) PROVE \E n \in Size : Resize(n)
      <4>1. PICK n \in asked[t] : Resize(n)
        BY <3>1, <3>3 DEF FinishUpdate
      <4>2. n \in Size
        BY <1>1 DEF StrandInv
      <4>3. QED
        BY <4>1, <4>2
    <3>4. StrandStep
      BY <1>1, <3>1 DEF StrandNext, strandVars
    <3>5. QED
      BY <3>1, <3>2, <3>3, <3>4 DEF StrandStep, UpdateStrandConfig, SetLoadBalanceStrategy,
         NextStrand, FallBack, RoundRobinAgain, WaitBehindWriter, StrandForSession, Count,
         StartChecks, StopChecks, HealthCheck
  <2>2. size' = n /\ n > size /\ strands' = strands \o NewStrands(n - size)
    BY <1>1, <2>0, <2>1 DEF Resize
  <2>3. ring = Ring(size) /\ ring' = Ring(n) /\ size \in Size /\ n # 0 /\ ring' # {}
    BY <1>1, <2>0, <2>1, <2>2, RingNodes DEF StrandInv, Resize
  <2>4. /\ \A i \in 1 .. size : strands'[i] = strands[i]
        /\ \A i \in size + 1 .. n : strands'[i].id > created
    <3>1. n - size \in Nat /\ created \in Nat /\ strands \in Seq(Item)
      BY <1>1, <2>0, <2>2 DEF StrandInv
    <3>2. NewStrands(n - size) \in [1 .. n - size -> Item]
      BY <3>1 DEF NewStrands, Item
    <3>3. NewStrands(n - size) \in Seq(Item) /\ Len(NewStrands(n - size)) = n - size
      BY <3>1, <3>2
    <3>4. \A i \in 1 .. Len(strands) + Len(NewStrands(n - size)) :
             (strands \o NewStrands(n - size))[i] = IF i <= Len(strands) THEN strands[i]
                                               ELSE NewStrands(n - size)[i - Len(strands)]
      BY <3>1, <3>3, ConcatProperties
    <3>5. \A i \in 1 .. n : strands'[i] = IF i <= size THEN strands[i] ELSE NewStrands(n - size)[i - size]
      BY <1>1, <2>0, <2>2, <3>1, <3>3, <3>4
    <3>6. \A j \in 1 .. n - size : NewStrands(n - size)[j].id > created
      BY <3>1 DEF NewStrands
    <3>7. \A i \in size + 1 .. n : i \in 1 .. n /\ ~(i <= size) /\ i - size \in 1 .. n - size
      BY <2>0, <2>2, StrandAssumption
    <3>8. \A i \in 1 .. size : i \in 1 .. n /\ i <= size
      BY <2>0, <2>2
    <3>9. QED
      BY <3>5, <3>6, <3>7, <3>8
  <2> DEFINE old == Hit(Ring(size), h)
             new == Hit(Ring(n), h)
  <2>5. Lookup(h)' = new[2] /\ new[2] \in 0 .. n - 1
    <3>1. Lookup(h)' = new[2]
      BY <2>3, Zenon DEF Lookup, Hit, From, Above
    <3>2. Lookup(h)' \in 0 .. size' - 1
      <4>1. (ring # {} => \A k : Lookup(k) = Hit(ring, k)[2])'
        BY <2>3, Zenon DEF Lookup, Hit, From, Above
      <4>2. new \in Ring(n)
        BY <2>3, HitIsLeast DEF From, Above
      <4>3. QED
        BY <2>2, <3>1, <4>2, RingNodes
    <3>3. QED
      BY <2>2, <3>1, <3>2
  <2>6. CASE new[2] >= size
    <3>1. new[2] + 1 \in size + 1 .. n
      BY <2>0, <2>2, <2>5, <2>6, StrandAssumption
    <3>2. QED
      BY <2>4, <2>5, <3>1
  <2>7. CASE ~(new[2] >= size)
    \* The new node is one of the old ring, and the least there, too.
    <3>0. size # 0 /\ ring # {}
      BY <2>0, <2>3, <2>5, <2>7, RingNodes
    <3>1. Lookup(h) = old[2]
      BY <2>3, <3>0, LookupIsHit
    <3>2. /\ old \in From(Ring(size), h)
          /\ \A m \in From(Ring(size), h) : old[1] < m[1] \/ (old[1] = m[1] /\ old[2] <= m[2])
      BY <2>3, <3>0, HitIsLeast
    <3>3. /\ new \in From(Ring(n), h)
          /\ \A m \in From(Ring(n), h) : new[1] < m[1] \/ (new[1] = m[1] /\ new[2] <= m[2])
      BY <2>3, HitIsLeast
    <3>4. Ring(size) \subseteq Ring(n) /\ \A x \in Ring(n) : x \in Ring(size) \/ x[2] >= size
      BY <2>2, <2>3, RingGrows
    <3> HIDE DEF old, new
    <3>5. new \in Ring(size)
      BY <2>7, <3>3, <3>4 DEF From, Above
    <3>6. new \in From(Ring(size), h) /\ From(Ring(size), h) \subseteq From(Ring(n), h)
      BY <3>3, <3>4, <3>5 DEF From, Above
    <3>7. old \in Ring(size) /\ Ring(size) \subseteq Nat \X Nat
      BY <2>3, <3>2, RingNodes DEF From, Above
    <3>8. new[2] = old[2] /\ new[2] \in 0 .. size - 1
      <4>1. old[1] \in Nat /\ old[2] \in Nat /\ new[1] \in Nat /\ new[2] \in Nat
        BY <3>5, <3>7
      <4>2. new[1] < old[1] \/ (new[1] = old[1] /\ new[2] <= old[2])
        BY <3>2, <3>3, <3>6
      <4>3. old[1] < new[1] \/ (old[1] = new[1] /\ old[2] <= new[2])
        BY <3>2, <3>6
      <4>4. QED
        BY <2>0, <2>7, <4>1, <4>2, <4>3
    <3>9. new[2] + 1 \in 1 .. size
      BY <2>0, <3>8
    <3>10. QED
      BY <2>4, <2>5, <3>1, <3>8, <3>9
  <2>8. QED
    BY <2>6, <2>7
<1>2. StrandInv /\ StrandInv' /\ [StrandNext]_strandVars =>
        [size' > size /\ Len(strands) = size =>
           \A h \in Hash : \/ strands'[Lookup(h)' + 1].id > created
                           \/ strands'[Lookup(h)' + 1].id = strands[Lookup(h) + 1].id]_strandVars
  BY <1>1
<1>3. QED
  BY <1>2, StrandInvCorrect, PTL DEF StrandSpec, GrowthKeepsSessions
=============================================================================
