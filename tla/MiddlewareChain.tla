-------------------------- MODULE MiddlewareChain --------------------------
(***************************************************************************)
(* The middleware pipeline: the registry of a MiddlewareChain, and the     *)
(* runs of execute() and execute_async() over snapshots of it.             *)
(*                                                                         *)
(* A run is driven by several threads of control: the caller of            *)
(* execute_async, the threads on which asynchronous middlewares call back, *)
(* the io thread on which the timers fire, and whoever calls cancel().     *)
(* Every call of the code belongs to an owner: 0 is execute/execute_async  *)
(* itself, i in 1..MaxLen the i-th middleware of the snapshot and Global   *)
(* the handler of the global timer.  An index is popped only once per run, *)
(* so a program counter per owner stands for the whole call stack: an      *)
(* owner at "wait" waits for the operator() of its child to return.        *)
(***************************************************************************)
EXTENDS Integers, Sequences, FiniteSets

CONSTANTS
  Run,        \* identities of the runs (PipelineExecutionState objects)
  Mw,         \* the middleware objects
  AsyncMw,    \* those that override the asynchronous operator()
  TimeoutMw,  \* those whose timeout() is positive
  Priority,   \* priority() of each middleware
  InitMws,    \* mws_ when the model starts
  InitIo,     \* initial values of "io_context_ is not null"
  InitGlobal, \* initial values of "global_timeout_ is positive"
  MaxLen,     \* bound on the length of mws_
  MaxConfig,  \* bound on the number of configuration calls
  MaxControl  \* bound on the number of cancel/pause/resume calls

ASSUME ChainAssumption ==
  /\ MaxLen \in Nat /\ MaxConfig \in Nat /\ MaxControl \in Nat
  /\ AsyncMw \subseteq Mw /\ TimeoutMw \subseteq Mw
  /\ Priority \in [Mw -> Int]
  /\ InitMws \in Seq(Mw) /\ Len(InitMws) <= MaxLen
  /\ InitIo \subseteq BOOLEAN /\ InitGlobal \subseteq BOOLEAN

VARIABLES
  \* MiddlewareChain
  mws,         \* mws_
  inserted,    \* history: insert() has been called since the last sort
  global,      \* global_timeout_ > 0
  io,          \* io_context_ # nullptr
  paused,      \* paused_
  active,      \* active_runs_
  cancelling,  \* runs a cancel() call has snapshotted and not yet cancelled
  configs,     \* number of configuration calls made
  controls,    \* number of cancel/pause/resume calls made
  \* the snapshot a run takes, and its PipelineExecutionState
  mode,        \* which entry point was called
  pipe,        \* pipeline
  timing,      \* global_to and io at the snapshot: no timeout, a timeout that
               \* only the steps' clock test enforces, or one with a timer
  cur,         \* current_index
  timed_out, cancelled, finished,
  gtimer,      \* global_timeout_timer
  slot,        \* the index whose timer is middleware_timeout_timer, 0: null
  mtimer,      \* the timer created for each index
  \* the threads of control
  pc, ret, child, verdict, detached,
  \* what the caller of execute_async sees
  delivered,   \* number of calls of the completion callback
  result,      \* the result it was last called with
  \* history
  halted,      \* a middleware returned without having called next(), and none
               \* that had called next() before has called it again since
  wasPaused    \* the run met paused_

registry == <<mws, inserted, global, io, configs>>
control  == <<paused, active, cancelling, controls>>
snapshot == <<mode, pipe, timing>>
flags    == <<timed_out, cancelled, finished>>
timers   == <<gtimer, slot, mtimer>>
calls    == <<pc, ret, child, verdict, detached>>
outcome  == <<delivered, result>>
history  == <<halted, wasPaused>>
vars     == <<registry, control, snapshot, cur, flags, timers, calls, outcome, history>>

Index  == 1 .. MaxLen
Global == MaxLen + 1
Owner  == 0 .. Global

Result == {"Continue", "Stop", "Error", "Timeout"}
Timer  == {"null", "created", "armed", "cancelled", "fired", "handled"}
PC     == {"idle", "entry", "popped", "arming", "body", "afterNext", "pending",
           "step", "wait", "stopping", "completing", "finishing", "done"}

SwitchesOK ==
  /\ inserted \in BOOLEAN /\ global \in BOOLEAN /\ io \in BOOLEAN /\ paused \in BOOLEAN

RegistryOK ==
  /\ mws \in Seq(Mw) /\ Len(mws) <= MaxLen /\ configs \in 0 .. MaxConfig

ControlOK ==
  /\ active \subseteq Run /\ cancelling \subseteq Run /\ controls \in 0 .. MaxControl

SnapshotOK ==
  /\ mode \in [Run -> {"none", "sync", "async"}] /\ timing \in [Run -> {"off", "clock", "timer"}]
  /\ pipe \in [Run -> Seq(Mw)] /\ cur \in [Run -> Nat]
  /\ \A r \in Run : cur[r] <= Len(pipe[r]) /\ Len(pipe[r]) <= MaxLen
  /\ \A r \in Run : mode[r] = "none" => pipe[r] = <<>>

FlagsOK ==
  /\ timed_out \in [Run -> BOOLEAN] /\ cancelled \in [Run -> BOOLEAN]
  /\ finished \in [Run -> BOOLEAN]

TimersOK ==
  /\ gtimer \in [Run -> Timer] /\ slot \in [Run -> 0 .. MaxLen]
  /\ mtimer \in [Run -> [Index -> Timer]]

CallsOK ==
  /\ pc \in [Run -> [Owner -> PC]]
  /\ ret \in [Run -> [Owner -> {"afterNext", "completing", "done"}]]
  /\ child \in [Run -> [Owner -> 0 .. MaxLen]]
  /\ verdict \in [Run -> [Owner -> Result]] /\ detached \in [Run -> SUBSET Index]

OutcomeOK ==
  /\ delivered \in [Run -> Nat] /\ result \in [Run -> Result \cup {"none"}]
  /\ halted \in [Run -> BOOLEAN] /\ wasPaused \in [Run -> BOOLEAN]

\* The shape of the chain's and of every run's state; an index never leaves
\* the snapshot it points into.
TypeOK ==
  /\ SwitchesOK /\ RegistryOK /\ ControlOK /\ SnapshotOK /\ FlagsOK /\ TimersOK /\ CallsOK /\ OutcomeOK

Init ==
  /\ mws = InitMws /\ inserted = FALSE
  /\ global \in InitGlobal /\ io \in InitIo /\ paused = FALSE
  /\ active = {} /\ cancelling = {} /\ configs = 0 /\ controls = 0
  /\ mode = [r \in Run |-> "none"] /\ pipe = [r \in Run |-> <<>>]
  /\ timing = [r \in Run |-> "off"] /\ cur = [r \in Run |-> 0]
  /\ timed_out = [r \in Run |-> FALSE] /\ cancelled = [r \in Run |-> FALSE]
  /\ finished = [r \in Run |-> FALSE]
  /\ gtimer = [r \in Run |-> "null"] /\ slot = [r \in Run |-> 0]
  /\ mtimer = [r \in Run |-> [i \in Index |-> "null"]]
  /\ pc = [r \in Run |-> [o \in Owner |-> "idle"]]
  /\ ret = [r \in Run |-> [o \in Owner |-> "done"]]
  /\ child = [r \in Run |-> [o \in Owner |-> 0]]
  /\ verdict = [r \in Run |-> [o \in Owner |-> "Continue"]]
  /\ detached = [r \in Run |-> {}]
  /\ delivered = [r \in Run |-> 0] /\ result = [r \in Run |-> "none"]
  /\ halted = [r \in Run |-> FALSE] /\ wasPaused = [r \in Run |-> FALSE]

-----------------------------------------------------------------------------
(***************************************************************************)
(* Registration.  std::sort promises no order among equal priorities.      *)
(***************************************************************************)
Rearrangements(s) ==
  {[i \in DOMAIN s |-> s[p[i]]] :
     p \in {q \in [DOMAIN s -> DOMAIN s] : \A i, j \in DOMAIN s : q[i] = q[j] => i = j}}

Ascending(s) == \A i, j \in DOMAIN s : i < j => Priority[s[i]] <= Priority[s[j]]

\* mws_ starts empty; the model starts after some calls of use().
ASSUME PriorityAssumption == Ascending(InitMws)

SortMiddlewaresByPriority(s) == {t \in Rearrangements(s) : Ascending(t)}

Configure ==
  /\ configs < MaxConfig
  /\ configs' = configs + 1
  /\ UNCHANGED <<control, snapshot, cur, flags, timers, calls, outcome, history>>

\* Mutant: use() forgets the sort.
UseUnsorted(m) ==
  /\ Configure
  /\ Len(mws) < MaxLen
  /\ mws' = Append(mws, m)
  /\ inserted' = FALSE
  /\ UNCHANGED <<global, io>>

\* use(mw), and insert_by_priority(mw), which does the same while
\* auto_sort_by_priority_ keeps its initial value (nothing assigns it).
Use(m) ==
  /\ Configure
  /\ Len(mws) < MaxLen
  /\ mws' \in SortMiddlewaresByPriority(Append(mws, m))
  /\ inserted' = FALSE
  /\ UNCHANGED <<global, io>>

\* insert(index, mw): the position is the caller's, no sort follows.
Insert(k, m) ==
  /\ Configure
  /\ Len(mws) < MaxLen
  /\ LET p == IF k >= Len(mws) THEN Len(mws) ELSE k
     IN  mws' = [j \in 1 .. Len(mws) + 1 |->
                   IF j <= p THEN mws[j] ELSE IF j = p + 1 THEN m ELSE mws[j - 1]]
  /\ inserted' = TRUE
  /\ UNCHANGED <<global, io>>

\* std::remove_if: what is left of s, in order, without m.
RemoveIf(s, m) ==
  UNION {{[k \in 1 .. n |-> s[f[k]]] :
            f \in {g \in [1 .. n -> DOMAIN s] :
                     /\ \A j, k \in 1 .. n : j < k => g[j] < g[k]
                     /\ {g[k] : k \in 1 .. n} = {i \in DOMAIN s : s[i] # m}}} :
         n \in 0 .. Len(s)}

\* remove(name): every middleware of that name goes.
Remove(m) ==
  /\ Configure
  /\ mws' \in RemoveIf(mws, m)
  /\ UNCHANGED <<global, io, inserted>>

Clear ==
  /\ Configure
  /\ mws' = <<>>
  /\ inserted' = FALSE
  /\ UNCHANGED <<global, io>>

SetGlobalTimeout ==
  /\ Configure
  /\ global' \in BOOLEAN
  /\ UNCHANGED <<mws, io, inserted>>

SetIoContext ==
  /\ Configure
  /\ io' = TRUE
  /\ UNCHANGED <<mws, global, inserted>>

-----------------------------------------------------------------------------
(***************************************************************************)
(* Entry points.                                                           *)
(***************************************************************************)
TakeSnapshot(r, m) ==
  /\ mode[r] = "none"
  /\ mode' = [mode EXCEPT ![r] = m]
  /\ pipe' = [pipe EXCEPT ![r] = mws]
  /\ timing' = [timing EXCEPT ![r] = IF ~global THEN "off"
                                     ELSE IF m = "async" /\ io THEN "timer" ELSE "clock"]

\* register_run
RegisterRun(r) ==
  /\ active' = active \cup {r}
  /\ UNCHANGED <<paused, cancelling, controls>>

\* An empty chain calls the callback at once, still holding config_mutex_,
\* and never becomes a run.
ExecuteAsyncEmpty(r) ==
  /\ mws = <<>>
  /\ TakeSnapshot(r, "async")
  /\ delivered' = [delivered EXCEPT ![r] = @ + 1]
  /\ result' = [result EXCEPT ![r] = "Continue"]
  /\ UNCHANGED <<registry, control, cur, flags, timers, calls, history>>

ExecuteAsync(r) ==
  /\ mws # <<>>
  /\ TakeSnapshot(r, "async")
  /\ RegisterRun(r)
  /\ pc' = [pc EXCEPT ![r][0] = "entry"]
  /\ UNCHANGED <<registry, cur, flags, timers, ret, child, verdict, detached, outcome, history>>

\* The global timer is created after the run is visible to cancel().
ArmGlobalTimer(r) ==
  /\ pc[r][0] = "entry"
  /\ gtimer' = [gtimer EXCEPT ![r] = IF timing[r] = "timer" THEN "armed" ELSE @]
  /\ pc' = [pc EXCEPT ![r][0] = "step"]
  /\ UNCHANGED <<registry, control, snapshot, cur, flags, slot, mtimer, ret, child, verdict,
                 detached, outcome, history>>

\* execute(): no timer, and the run is finished when the first step returns.
Execute(r) ==
  /\ mws # <<>>
  /\ TakeSnapshot(r, "sync")
  /\ RegisterRun(r)
  /\ pc' = [pc EXCEPT ![r][0] = "step"]
  /\ ret' = [ret EXCEPT ![r][0] = "completing"]
  /\ UNCHANGED <<registry, cur, flags, timers, child, verdict, detached, outcome, history>>

-----------------------------------------------------------------------------
(***************************************************************************)
(* execute_next_sync and execute_next_async_step.                          *)
(***************************************************************************)
\* Mutant: the bound of the pipeline is off by one.
MustStopLate(r) ==
  \/ cancelled[r] \/ timed_out[r] \/ paused
  \/ cur[r] > Len(pipe[r])

MustStop(r) ==
  \/ cancelled[r] \/ timed_out[r] \/ paused
  \/ cur[r] >= Len(pipe[r])

\* Where an owner goes when the completion it asked for is over.
AfterCompletion(r, o) == IF mode[r] = "async" THEN ret[r][o] ELSE "done"

\* Mutant: the step returns without completing the run.
StepStopsSilently(r, o) ==
  /\ pc[r][o] = "step"
  /\ MustStop(r)
  /\ pc' = [pc EXCEPT ![r][o] = ret[r][o]]
  /\ wasPaused' = [wasPaused EXCEPT ![r] = @ \/ paused]
  /\ UNCHANGED <<registry, control, snapshot, cur, flags, timers, ret, child, verdict, detached,
                 outcome, halted>>

\* The test fails: an asynchronous run completes, a synchronous one returns.
StepStops(r, o) ==
  /\ pc[r][o] = "step"
  /\ MustStop(r)
  /\ pc' = [pc EXCEPT ![r][o] = IF mode[r] = "async" THEN "stopping" ELSE ret[r][o]]
  /\ wasPaused' = [wasPaused EXCEPT ![r] = @ \/ paused]
  /\ UNCHANGED <<registry, control, snapshot, cur, flags, timers, ret, child, verdict, detached,
                 outcome, halted>>

\* Mutant: the verdict does not look at cancelled.
ReadVerdictUncancelled(r, o) ==
  /\ pc[r][o] = "stopping"
  /\ pc' = [pc EXCEPT ![r][o] = "completing"]
  /\ verdict' = [verdict EXCEPT ![r][o] = IF timed_out[r] THEN "Timeout" ELSE "Continue"]
  /\ UNCHANGED <<registry, control, snapshot, cur, flags, timers, ret, child, detached, outcome,
                 history>>

\* The flags are read again, after the mutex is released.
ReadVerdict(r, o) ==
  /\ pc[r][o] = "stopping"
  /\ pc' = [pc EXCEPT ![r][o] = "completing"]
  /\ verdict' = [verdict EXCEPT ![r][o] = IF cancelled[r] THEN "Stop"
                                          ELSE IF timed_out[r] THEN "Timeout" ELSE "Continue"]
  /\ UNCHANGED <<registry, control, snapshot, cur, flags, timers, ret, child, detached, outcome,
                 history>>

\* The clock test of a run with a global timeout and no timer to enforce it.
StepTimesOut(r, o) ==
  /\ pc[r][o] = "step"
  /\ ~MustStop(r)
  /\ timing[r] # "off" /\ gtimer[r] = "null"
  /\ timed_out' = [timed_out EXCEPT ![r] = TRUE]
  /\ verdict' = [verdict EXCEPT ![r][o] = "Timeout"]
  /\ pc' = [pc EXCEPT ![r][o] = IF mode[r] = "async" THEN "completing" ELSE ret[r][o]]
  /\ UNCHANGED <<registry, control, snapshot, cur, cancelled, finished, timers, ret, child,
                 detached, outcome, history>>

\* Mutant: current_index is left where it was.
StepPopsAgain(r, o) ==
  /\ pc[r][o] = "step"
  /\ ~MustStop(r)
  /\ pc' = [pc EXCEPT ![r][o] = "wait", ![r][cur[r] + 1] = "popped"]
  /\ child' = [child EXCEPT ![r][o] = cur[r] + 1]
  /\ UNCHANGED <<registry, control, snapshot, cur, flags, timers, ret, verdict, detached, outcome,
                 history>>

\* The next middleware is taken, under the mutex.
StepPops(r, o) ==
  /\ pc[r][o] = "step"
  /\ ~MustStop(r)
  /\ cur' = [cur EXCEPT ![r] = @ + 1]
  /\ pc' = [pc EXCEPT ![r][o] = "wait", ![r][cur[r] + 1] = "popped"]
  /\ child' = [child EXCEPT ![r][o] = cur[r] + 1]
  /\ UNCHANGED <<registry, control, snapshot, flags, timers, ret, verdict, detached, outcome,
                 history>>

\* The operator() of the middleware at index i has returned to its caller.
Returned(r, i) == pc[r][i] = "done" \/ i \in detached[r]

StepReturns(r, o) ==
  /\ pc[r][o] = "wait"
  /\ Returned(r, child[r][o])
  /\ pc' = [pc EXCEPT ![r][o] = ret[r][o]]
  /\ UNCHANGED <<registry, control, snapshot, cur, flags, timers, ret, child, verdict, detached,
                 outcome, history>>

\* should_execute() is false: the step recurses.
SkipMiddleware(r, i) ==
  /\ pc[r][i] = "popped"
  /\ pc' = [pc EXCEPT ![r][i] = "step"]
  /\ UNCHANGED <<registry, control, snapshot, cur, flags, timers, ret, child, verdict, detached,
                 outcome, history>>

\* timer->cancel(): only a wait that has not expired is cancelled.
CancelTimer(t) == IF t = "armed" THEN "cancelled" ELSE t

CancelSlot(r) ==
  mtimer' = [mtimer EXCEPT ![r] = [i \in Index |-> IF i = slot[r] THEN CancelTimer(@[i]) ELSE @[i]]]

\* should_execute() is true and the middleware has no timeout to enforce.
EnterBody(r, i) ==
  /\ pc[r][i] = "popped"
  /\ mode[r] = "async" => ~(pipe[r][i] \in TimeoutMw /\ io)
  /\ pc' = [pc EXCEPT ![r][i] = "body"]
  /\ UNCHANGED <<registry, control, snapshot, cur, flags, timers, ret, child, verdict, detached,
                 outcome, history>>

\* setup_middleware_timeout, under the mutex: the timer before is replaced.
SetupMiddlewareTimeout(r, i) ==
  /\ pc[r][i] = "popped"
  /\ mode[r] = "async" /\ pipe[r][i] \in TimeoutMw /\ io
  /\ mtimer' = [mtimer EXCEPT ![r] =
                  [j \in Index |-> IF j = i THEN "created"
                                   ELSE IF j = slot[r] THEN CancelTimer(@[j]) ELSE @[j]]]
  /\ slot' = [slot EXCEPT ![r] = i]
  /\ pc' = [pc EXCEPT ![r][i] = "arming"]
  /\ UNCHANGED <<registry, control, snapshot, cur, flags, gtimer, ret, child, verdict, detached,
                 outcome, history>>

\* Its async_wait, without the mutex.  A timer that has lost the slot dies
\* when setup_middleware_timeout returns, and its wait is aborted.
StartWait(r, i) ==
  /\ pc[r][i] = "arming"
  /\ mtimer' = [mtimer EXCEPT ![r][i] = IF slot[r] = i THEN "armed" ELSE "cancelled"]
  /\ pc' = [pc EXCEPT ![r][i] = "body"]
  /\ UNCHANGED <<registry, control, snapshot, cur, flags, gtimer, slot, ret, child, verdict,
                 detached, outcome, history>>

-----------------------------------------------------------------------------
(***************************************************************************)
(* What a middleware does.  "Synchronous" covers operator()(ctx, res,      *)
(* next) under the default asynchronous operator(), which calls the        *)
(* callback itself, and the library middlewares that call next() and then  *)
(* callback(Continue).                                                     *)
(***************************************************************************)
RunsSync(r, i) == mode[r] = "sync" \/ pipe[r][i] \notin AsyncMw

\* The timer in the slot, whoever owns it, is cancelled and dropped.
ResetSlot(r) ==
  /\ CancelSlot(r)
  /\ slot' = [slot EXCEPT ![r] = 0]

\* The middleware calls next(), the first time or again.
CallNext(r, i) ==
  /\ pc[r][i] \in {"body", "afterNext"} /\ RunsSync(r, i)
  /\ ResetSlot(r)
  /\ pc' = [pc EXCEPT ![r][i] = "step"]
  /\ ret' = [ret EXCEPT ![r][i] = "afterNext"]
  /\ halted' = [halted EXCEPT ![r] = @ /\ pc[r][i] = "body"]
  /\ UNCHANGED <<registry, control, snapshot, cur, flags, gtimer, child, verdict, detached, outcome,
                 wasPaused>>

\* Mutant: execute_next_sync goes on to the next middleware by itself.
SyncReturnsOnwards(r, i) ==
  /\ pc[r][i] \in {"body", "afterNext"} /\ RunsSync(r, i)
  /\ ResetSlot(r)
  /\ pc' = [pc EXCEPT ![r][i] = "step"]
  /\ ret' = [ret EXCEPT ![r][i] = "done"]
  /\ halted' = [halted EXCEPT ![r] = @ \/ pc[r][i] = "body"]
  /\ UNCHANGED <<registry, control, snapshot, cur, flags, gtimer, child, verdict, detached, outcome,
                 wasPaused>>

\* It returns: execute() is done with it, the default asynchronous operator()
\* calls callback(Continue) whether next() was called or not.
SyncReturns(r, i) ==
  /\ pc[r][i] \in {"body", "afterNext"} /\ RunsSync(r, i)
  /\ IF mode[r] = "async"
       THEN ResetSlot(r) /\ pc' = [pc EXCEPT ![r][i] = "step"]
       ELSE UNCHANGED <<slot, mtimer>> /\ pc' = [pc EXCEPT ![r][i] = "done"]
  /\ ret' = [ret EXCEPT ![r][i] = "done"]
  /\ halted' = [halted EXCEPT ![r] = @ \/ pc[r][i] = "body"]
  /\ UNCHANGED <<registry, control, snapshot, cur, flags, gtimer, child, verdict, detached, outcome,
                 wasPaused>>

\* It throws: execute_next_sync answers and returns, the default asynchronous
\* operator() calls callback(Error).
SyncThrows(r, i) ==
  /\ pc[r][i] \in {"body", "afterNext"} /\ RunsSync(r, i)
  /\ IF mode[r] = "async"
       THEN ResetSlot(r) /\ pc' = [pc EXCEPT ![r][i] = "completing"]
       ELSE UNCHANGED <<slot, mtimer>> /\ pc' = [pc EXCEPT ![r][i] = "done"]
  /\ ret' = [ret EXCEPT ![r][i] = "done"]
  /\ verdict' = [verdict EXCEPT ![r][i] = "Error"]
  /\ halted' = [halted EXCEPT ![r] = @ \/ pc[r][i] = "body"]
  /\ UNCHANGED <<registry, control, snapshot, cur, flags, gtimer, child, detached, outcome,
                 wasPaused>>

\* An asynchronous middleware returns and keeps the callback for later.
AsyncReturns(r, i) ==
  /\ pc[r][i] = "body" /\ ~RunsSync(r, i)
  /\ pc' = [pc EXCEPT ![r][i] = "pending"]
  /\ detached' = [detached EXCEPT ![r] = @ \cup {i}]
  /\ UNCHANGED <<registry, control, snapshot, cur, flags, timers, ret, child, verdict, outcome,
                 history>>

\* It throws instead: handle_error_run, the slot untouched.
AsyncThrows(r, i) ==
  /\ pc[r][i] = "body" /\ ~RunsSync(r, i)
  /\ pc' = [pc EXCEPT ![r][i] = "completing"]
  /\ ret' = [ret EXCEPT ![r][i] = "done"]
  /\ verdict' = [verdict EXCEPT ![r][i] = "Error"]
  /\ UNCHANGED <<registry, control, snapshot, cur, flags, timers, child, detached, outcome,
                 history>>

\* async_callback and handle_middleware_result_run, inside operator() or
\* later, on any thread.
AsyncCallback(r, i, res) ==
  /\ pc[r][i] \in {"body", "pending"} /\ ~RunsSync(r, i)
  /\ ResetSlot(r)
  /\ pc' = [pc EXCEPT ![r][i] = IF res = "Continue" THEN "step" ELSE "completing"]
  /\ ret' = [ret EXCEPT ![r][i] = "done"]
  /\ verdict' = [verdict EXCEPT ![r][i] = res]
  /\ UNCHANGED <<registry, control, snapshot, cur, flags, gtimer, child, detached, outcome,
                 history>>

-----------------------------------------------------------------------------
(***************************************************************************)
(* Completion: complete_async_run, and the end of execute().               *)
(***************************************************************************)
\* Mutant: finished is stored, not exchanged, so there is no loser.
TryFinishRunTwice(r, o) ==
  /\ pc[r][o] = "completing"
  /\ finished' = [finished EXCEPT ![r] = TRUE]
  /\ pc' = [pc EXCEPT ![r][o] = "finishing"]
  /\ UNCHANGED <<registry, control, snapshot, cur, timed_out, cancelled, timers, ret, child,
                 verdict, detached, outcome, history>>

\* The compare-exchange of try_finish_run.
TryFinishRun(r, o) ==
  /\ pc[r][o] = "completing"
  /\ finished' = [finished EXCEPT ![r] = TRUE]
  /\ pc' = [pc EXCEPT ![r][o] = IF finished[r] THEN AfterCompletion(r, o) ELSE "finishing"]
  /\ UNCHANGED <<registry, control, snapshot, cur, timed_out, cancelled, timers, ret, child,
                 verdict, detached, outcome, history>>

\* Mutant: the run is not unregistered.
CompleteRunRegistered(r, o) ==
  /\ pc[r][o] = "finishing"
  /\ gtimer' = [gtimer EXCEPT ![r] = CancelTimer(@)]
  /\ CancelSlot(r)
  /\ IF mode[r] = "async"
       THEN /\ delivered' = [delivered EXCEPT ![r] = @ + 1]
            /\ result' = [result EXCEPT ![r] = verdict[r][o]]
       ELSE UNCHANGED outcome
  /\ pc' = [pc EXCEPT ![r][o] = AfterCompletion(r, o)]
  /\ UNCHANGED <<registry, control, snapshot, cur, flags, slot, ret, child, verdict, detached,
                 history>>

\* The winner cancels both timers, unregisters the run and calls the callback.
CompleteRun(r, o) ==
  /\ pc[r][o] = "finishing"
  /\ gtimer' = [gtimer EXCEPT ![r] = CancelTimer(@)]
  /\ CancelSlot(r)
  /\ active' = active \ {r}
  /\ IF mode[r] = "async"
       THEN /\ delivered' = [delivered EXCEPT ![r] = @ + 1]
            /\ result' = [result EXCEPT ![r] = verdict[r][o]]
       ELSE UNCHANGED outcome
  /\ pc' = [pc EXCEPT ![r][o] = AfterCompletion(r, o)]
  /\ UNCHANGED <<registry, paused, cancelling, controls, snapshot, cur, flags, slot, ret, child,
                 verdict, detached, history>>

-----------------------------------------------------------------------------
(***************************************************************************)
(* Timers.  A wait that has expired is queued with success: cancelling the *)
(* timer afterwards does not stop its handler.                             *)
(***************************************************************************)
\* Somebody still holds the run's state, so weak_ptr::lock succeeds.
Alive(r) == r \in active \/ r \in cancelling \/ \E o \in Owner : pc[r][o] \notin {"idle", "done"}

GlobalTimerExpires(r) ==
  /\ gtimer[r] = "armed" /\ Alive(r)
  /\ gtimer' = [gtimer EXCEPT ![r] = "fired"]
  /\ UNCHANGED <<registry, control, snapshot, cur, flags, slot, mtimer, calls, outcome, history>>

MiddlewareTimerExpires(r, i) ==
  /\ mtimer[r][i] = "armed" /\ Alive(r)
  /\ mtimer' = [mtimer EXCEPT ![r][i] = "fired"]
  /\ UNCHANGED <<registry, control, snapshot, cur, flags, gtimer, slot, calls, outcome, history>>

\* Mutant: the handler marks the run, as the middleware timer's does, and
\* leaves the completion to others.
OnGlobalTimeoutMarks(r) ==
  /\ gtimer[r] = "fired"
  /\ gtimer' = [gtimer EXCEPT ![r] = "handled"]
  /\ timed_out' = [timed_out EXCEPT ![r] = @ \/ Alive(r)]
  /\ UNCHANGED <<registry, control, snapshot, cur, cancelled, finished, slot, mtimer, calls,
                 outcome, history>>

\* The handler of the global timer: the first timeout of the run completes it.
OnGlobalTimeout(r) ==
  /\ gtimer[r] = "fired"
  /\ gtimer' = [gtimer EXCEPT ![r] = "handled"]
  /\ IF Alive(r) /\ ~timed_out[r]
       THEN /\ timed_out' = [timed_out EXCEPT ![r] = TRUE]
            /\ verdict' = [verdict EXCEPT ![r][Global] = "Timeout"]
            /\ pc' = [pc EXCEPT ![r][Global] = "completing"]
       ELSE UNCHANGED <<timed_out, verdict, pc>>
  /\ UNCHANGED <<registry, control, snapshot, cur, cancelled, finished, slot, mtimer, ret, child,
                 detached, outcome, history>>

\* The handler of a middleware's timer marks the run and answers, but does
\* not complete it.
OnMiddlewareTimeout(r, i) ==
  /\ mtimer[r][i] = "fired"
  /\ mtimer' = [mtimer EXCEPT ![r][i] = "handled"]
  /\ timed_out' = [timed_out EXCEPT ![r] = @ \/ Alive(r)]
  /\ UNCHANGED <<registry, control, snapshot, cur, cancelled, finished, gtimer, slot, calls,
                 outcome, history>>

-----------------------------------------------------------------------------
(***************************************************************************)
(* cancel(), pause() and resume().                                         *)
(***************************************************************************)
Controlled == controls < MaxControl /\ controls' = controls + 1

\* cancel() copies the runs under runs_mutex_ ...
Cancel ==
  /\ Controlled
  /\ cancelling = {}
  /\ cancelling' = active
  /\ UNCHANGED <<registry, paused, active, snapshot, cur, flags, timers, calls, outcome, history>>

\* ... and then marks each and cancels its timers; it completes none.  (The
\* store of the flag and the cancellation are one step: what may come between
\* them may as well come before both.)
CancelRun(r) ==
  /\ r \in cancelling
  /\ cancelling' = cancelling \ {r}
  /\ cancelled' = [cancelled EXCEPT ![r] = TRUE]
  /\ gtimer' = [gtimer EXCEPT ![r] = CancelTimer(@)]
  /\ CancelSlot(r)
  /\ UNCHANGED <<registry, paused, active, controls, snapshot, cur, timed_out, finished, slot,
                 calls, outcome, history>>

Pause ==
  /\ Controlled
  /\ paused' = TRUE
  /\ UNCHANGED <<registry, active, cancelling, snapshot, cur, flags, timers, calls, outcome,
                 history>>

Resume ==
  /\ Controlled
  /\ paused' = FALSE
  /\ UNCHANGED <<registry, active, cancelling, snapshot, cur, flags, timers, calls, outcome,
                 history>>

-----------------------------------------------------------------------------
\* Steps a thread of control takes by itself once it has the processor.
OwnerStep(r, o) ==
  \/ StepStops(r, o) \/ ReadVerdict(r, o) \/ StepTimesOut(r, o) \/ StepPops(r, o)
  \/ StepReturns(r, o) \/ TryFinishRun(r, o) \/ CompleteRun(r, o)

\* A middleware that has been invoked, up to its return.
MiddlewareStep(r, i) ==
  \/ SkipMiddleware(r, i) \/ EnterBody(r, i) \/ SetupMiddlewareTimeout(r, i) \/ StartWait(r, i)
  \/ CallNext(r, i) \/ SyncReturns(r, i) \/ SyncThrows(r, i)
  \/ AsyncReturns(r, i) \/ AsyncThrows(r, i)

TimerStep(r) ==
  \/ GlobalTimerExpires(r) \/ OnGlobalTimeout(r)
  \/ \E i \in Index : MiddlewareTimerExpires(r, i) \/ OnMiddlewareTimeout(r, i)

EntryStep(r) == ExecuteAsyncEmpty(r) \/ ExecuteAsync(r) \/ Execute(r) \/ ArmGlobalTimer(r)

ConfigStep ==
  \/ \E m \in Mw : Use(m) \/ Remove(m) \/ \E k \in 0 .. MaxLen : Insert(k, m)
  \/ Clear \/ SetGlobalTimeout \/ SetIoContext

ControlStep == Cancel \/ Pause \/ Resume \/ \E r \in Run : CancelRun(r)

RunStep(r) ==
  \/ EntryStep(r) \/ TimerStep(r)
  \/ \E o \in Owner : OwnerStep(r, o)
  \/ \E i \in Index : MiddlewareStep(r, i) \/ \E res \in Result : AsyncCallback(r, i, res)

Next == ConfigStep \/ ControlStep \/ \E r \in Run : RunStep(r)

Spec == Init /\ [][Next]_vars

\* Threads that have work to do run, a body that has been entered returns and
\* the io_context dispatches expired waits.  Nothing makes an asynchronous
\* middleware call back, or anybody call execute, cancel, pause or resume.
Fairness ==
  \A r \in Run :
    /\ WF_vars(ArmGlobalTimer(r)) /\ WF_vars(TimerStep(r)) /\ WF_vars(CancelRun(r))
    /\ \A o \in Owner : WF_vars(OwnerStep(r, o))
    /\ \A i \in Index : WF_vars(MiddlewareStep(r, i))

FairSpec == Spec /\ Fairness
-----------------------------------------------------------------------------
(***************************************************************************)
(* Properties.                                                             *)
(***************************************************************************)
Settled(r) == \A o \in Owner : pc[r][o] \in {"idle", "done"}

\* However callbacks, timers, errors and cancel() race to end a run, its
\* completion callback is called at most once (complete_async_run; a second
\* call would resume the session through a timer that no longer exists).
CompletesAtMostOnce == \A r \in Run : delivered[r] <= 1

\* No run is lost: once every call of an asynchronous run has returned and no
\* middleware holds a callback, the completion callback has been called
\* (every path through execute_next_async_step ends in complete_async_run).
NoLostRun == \A r \in Run : mode[r] = "async" /\ Settled(r) => delivered[r] = 1

\* is_running() and cancel() see a run exactly from register_run until the
\* winner of try_finish_run has unregistered it, in both modes.
RegisteredWhileUnfinished ==
  \A r \in Run :
    r \in active <=> /\ mode[r] # "none" /\ pipe[r] # <<>>
                     /\ finished[r] => \E o \in Owner : pc[r][o] = "finishing"

\* A run reported as Continue has started its whole snapshot, unless pause()
\* cut it short (execute_next_async_step reads the flags twice).
ContinueMeansAllStarted ==
  \A r \in Run : result[r] = "Continue" => cur[r] = Len(pipe[r]) \/ wasPaused[r]

\* Unless insert() chose a place by hand, a run starts its middlewares in
\* ascending priority: the sort of use() survives remove() and clear().
StartsByPriority ==
  [][\A r \in Run : mode[r] = "none" /\ mode'[r] # "none" /\ ~inserted => Ascending(pipe'[r])]_vars

\* No middleware of a snapshot is started twice, whichever threads step the
\* run at the same time (current_index moves under the mutex).
StartedAtMostOnce ==
  [][\A r \in Run : \A i \in Index :
       pc'[r][i] = "popped" /\ pc[r][i] # "popped" => pc[r][i] = "idle"]_vars

\* Synchronous path: a middleware that returns without calling next() stops
\* the rest of the pipeline (execute_next_sync), unless one before it calls
\* next() a second time.
SyncStopsPipeline ==
  [][\A r \in Run : mode[r] = "sync" /\ halted[r] => cur'[r] = cur[r]]_vars

\* Every asynchronous run that was started with a global timeout and an
\* io_context is completed, whatever its middlewares do.
EveryRunCompletes ==
  \A r \in Run : mode[r] = "async" /\ timing[r] = "timer" ~> delivered[r] = 1

\* An asynchronous run implements RunOutcome: it is answered after it was
\* begun, once, and no late completion replaces the answer.
Answer ==
  [r \in Run |-> IF delivered[r] > 0 THEN result[r]
                 ELSE IF mode[r] = "async" THEN "running" ELSE "idle"]

RO == INSTANCE RunOutcome WITH answer <- Answer

\* Every step of the chain is a step of RunOutcome or leaves the answers alone.
ImplementsRunOutcome == RO!Spec
-----------------------------------------------------------------------------
(***************************************************************************)
(* The inductive invariant behind the completion properties.               *)
(***************************************************************************)
Finishing(r) == \E o \in Owner : pc[r][o] = "finishing"

\* A call that will go on by itself, or whose callback is still to come.
Drives(s) == s \notin {"idle", "done", "wait", "finishing"}

\* A snapshot is empty before the run starts and for an empty chain, which is
\* answered on the spot.
EmptyRun(r) ==
  pipe[r] = <<>> => /\ \A o \in Owner : pc[r][o] = "idle"
                    /\ gtimer[r] = "null" /\ ~finished[r] /\ r \notin active
                    /\ delivered[r] = (IF mode[r] = "async" THEN 1 ELSE 0)

\* The finished flag is set by one owner, which still has to deliver or has
\* delivered; nobody else delivers.
OneFinisher(r) ==
  /\ \A o, p \in Owner : pc[r][o] = "finishing" /\ pc[r][p] = "finishing" => o = p
  /\ Finishing(r) => finished[r]
  /\ pipe[r] # <<>> =>
       /\ delivered[r] = (IF mode[r] = "async" /\ finished[r] /\ ~Finishing(r) THEN 1 ELSE 0)
       /\ r \in active <=> (finished[r] => Finishing(r))

\* An unfinished asynchronous run always has somebody left to end it.
Driven(r) ==
  mode[r] = "async" /\ pipe[r] # <<>> /\ ~finished[r] => \E o \in Owner : Drives(pc[r][o])

\* An owner not yet called is idle: the indexes after current_index, and the
\* global timer's handler until it has run.
NotYetCalled(r) ==
  /\ \A i \in Index : i > cur[r] => pc[r][i] = "idle"
  /\ gtimer[r] # "handled" => pc[r][Global] = "idle"
  /\ pc[r][0] = "entry" => gtimer[r] = "null"

RunInv(r) == EmptyRun(r) /\ OneFinisher(r) /\ Driven(r) /\ NotYetCalled(r)

\* Between the exchange of finished and the callback exactly one owner is left
\* to deliver, before it somebody is still driving the run, and what has not
\* been called yet is idle (try_finish_run, complete_async_run).
CompletionInv == \A r \in Run : RunInv(r)
=============================================================================
