----------------------- MODULE MiddlewareChainProofs -----------------------
(***************************************************************************)
(* Proofs about MiddlewareChain, for every set of runs and middlewares and *)
(* every pipeline length: its type invariant; that every asynchronous run  *)
(* is answered once, from CompletionInv, up to the refinement of           *)
(* RunOutcome; the order of a run's middlewares; what Continue means; and  *)
(* that a middleware can end a synchronous run.                            *)
(***************************************************************************)
EXTENDS MiddlewareChain, SequenceTheorems, TLAPS

\* A function on 1..n is a sequence of length n (the shape in which the
\* registry operations build their results).
LEMMA FunctionIsSeq ==
  ASSUME NEW S, NEW n \in Nat, NEW f \in [1 .. n -> S]
  PROVE  f \in Seq(S) /\ Len(f) = n
<1>1. f \in Seq(S)
  BY SeqDef
<1>2. Len(f) \in Nat /\ DOMAIN f = 1 .. Len(f)
  BY <1>1, LenProperties
<1>3. 1 .. n = 1 .. Len(f)
  BY <1>2
<1>4. QED
  BY <1>1, <1>2, <1>3

\* Every initial state of the chain is well typed.
LEMMA InitTypeOK == Init => TypeOK
<1> USE ChainAssumption DEF Init
<1> SUFFICES ASSUME Init PROVE TypeOK
  OBVIOUS
<1>1. SwitchesOK
  BY Zenon DEF SwitchesOK
<1>2. RegistryOK
  BY DEF RegistryOK
<1>3. ControlOK
  BY DEF ControlOK
<1>5. SnapshotOK
  BY DEF SnapshotOK
<1>6. FlagsOK
  BY DEF FlagsOK
<1>7. TimersOK
  BY DEF TimersOK, Timer
<1>8. CallsOK
  BY DEF CallsOK, PC, Result
<1>9. OutcomeOK
  BY DEF OutcomeOK
<1>10. QED
  BY <1>1, <1>2, <1>3, <1>5, <1>6, <1>7, <1>8, <1>9 DEF TypeOK

\* The registry's and the controls' switches stay Boolean.
LEMMA SwitchesStep == TypeOK /\ [Next]_vars => SwitchesOK'
<1> SUFFICES ASSUME SwitchesOK, [Next]_vars PROVE SwitchesOK'
  BY DEF TypeOK
<1> USE DEF SwitchesOK
<1>1. CASE ConfigStep
  BY <1>1, Zenon DEF ConfigStep, Use, Remove, Insert, Clear, SetGlobalTimeout, SetIoContext,
     Configure, control
<1>2. CASE ControlStep
  BY <1>2, Zenon DEF ControlStep, Cancel, Pause, Resume, CancelRun, registry
<1>3. ASSUME NEW r \in Run, RunStep(r) PROVE UNCHANGED <<registry, paused>>
  BY <1>3 DEF RunStep, EntryStep, TimerStep, OwnerStep, MiddlewareStep, AsyncCallback,
     ExecuteAsyncEmpty, ExecuteAsync, Execute, ArmGlobalTimer, GlobalTimerExpires, OnGlobalTimeout,
     MiddlewareTimerExpires, OnMiddlewareTimeout, StepStops, ReadVerdict, StepTimesOut, StepPops,
     StepReturns, TryFinishRun, CompleteRun, SkipMiddleware, EnterBody, SetupMiddlewareTimeout,
     StartWait, CallNext, SyncReturns, SyncThrows, AsyncReturns, AsyncThrows, RegisterRun,
     registry, control
<1>4. CASE UNCHANGED vars
  BY <1>4, Zenon DEF vars, registry, control
<1>5. QED
  BY <1>1, <1>2, <1>3, <1>4, Zenon DEF Next, registry

\* use(), insert(), remove() and clear() keep mws_ a sequence of middlewares
\* within its bound.
LEMMA RegistryStep == TypeOK /\ [Next]_vars => RegistryOK'
<1> SUFFICES ASSUME TypeOK, [Next]_vars PROVE RegistryOK'
  OBVIOUS
<1> USE ChainAssumption DEF TypeOK, RegistryOK
<1>1. ASSUME NEW m \in Mw, Use(m) PROVE RegistryOK'
  <2>1. DOMAIN Append(mws, m) = 1 .. Len(mws) + 1 /\ Append(mws, m) \in Seq(Mw)
    OBVIOUS
  <2>2. PICK p \in [1 .. Len(mws) + 1 -> 1 .. Len(mws) + 1] :
           mws' = [i \in 1 .. Len(mws) + 1 |-> Append(mws, m)[p[i]]]
    BY <1>1, <2>1 DEF Use, SortMiddlewaresByPriority, Rearrangements
  <2>3. mws' \in [1 .. Len(mws) + 1 -> Mw]
    BY <2>1, <2>2
  <2>0. Len(mws) + 1 \in Nat
    OBVIOUS
  <2>4. mws' \in Seq(Mw) /\ Len(mws') = Len(mws) + 1
    BY <2>0, <2>3, FunctionIsSeq, Zenon
  <2>5. Len(mws) + 1 <= MaxLen /\ configs' \in 0 .. MaxConfig
    BY <1>1 DEF Use, Configure
  <2>6. QED
    BY <1>1, <2>4, <2>5 DEF Use
<1>2. ASSUME NEW m \in Mw, Remove(m) PROVE RegistryOK'
  <2>1. PICK n \in 0 .. Len(mws) : \E f \in [1 .. n -> DOMAIN mws] :
           mws' = [k \in 1 .. n |-> mws[f[k]]]
    BY <1>2, ZenonT(30) DEF Remove, RemoveIf
  <2>2. mws' \in [1 .. n -> Mw]
    BY <2>1
  <2>3. mws' \in Seq(Mw) /\ Len(mws') = n
    BY <2>2, FunctionIsSeq
  <2>4. QED
    BY <1>2, <2>3 DEF Remove, Configure
<1>3. ASSUME NEW m \in Mw, NEW k \in 0 .. MaxLen, Insert(k, m) PROVE RegistryOK'
  <2>1. mws' \in [1 .. Len(mws) + 1 -> Mw]
    BY <1>3, SMTT(30) DEF Insert
  <2>0. Len(mws) + 1 \in Nat
    OBVIOUS
  <2>2. mws' \in Seq(Mw) /\ Len(mws') = Len(mws) + 1
    BY <2>0, <2>1, FunctionIsSeq, Zenon
  <2>3. QED
    BY <1>3, <2>2 DEF Insert, Configure
<1>4. CASE Clear
  BY <1>4 DEF Clear, Configure
<1>5. CASE SetGlobalTimeout \/ SetIoContext
  BY <1>5 DEF SetGlobalTimeout, SetIoContext, Configure
<1>6. CASE ControlStep
  BY <1>6 DEF ControlStep, Cancel, Pause, Resume, CancelRun, registry
<1>7. ASSUME NEW r \in Run, RunStep(r) PROVE RegistryOK'
  BY <1>7 DEF RunStep, EntryStep, TimerStep, OwnerStep, MiddlewareStep, AsyncCallback,
     ExecuteAsyncEmpty, ExecuteAsync, Execute, ArmGlobalTimer, GlobalTimerExpires, OnGlobalTimeout,
     MiddlewareTimerExpires, OnMiddlewareTimeout, StepStops, ReadVerdict, StepTimesOut, StepPops,
     StepReturns, TryFinishRun, CompleteRun, SkipMiddleware, EnterBody, SetupMiddlewareTimeout,
     StartWait, CallNext, SyncReturns, SyncThrows, AsyncReturns, AsyncThrows, registry
<1>8. CASE UNCHANGED vars
  BY <1>8 DEF vars, registry
<1>9. QED
  BY <1>1, <1>2, <1>3, <1>4, <1>5, <1>6, <1>7, <1>8 DEF Next, ConfigStep, RunStep

\* What one call of the registry or of the controls leaves alone.
LEMMA ConfigFrame ==
  ASSUME ConfigStep
  PROVE  UNCHANGED <<control, snapshot, cur, flags, timers, calls, outcome, history>>
BY DEF ConfigStep, Use, Remove, Insert, Clear, SetGlobalTimeout, SetIoContext, Configure

\* What a control call leaves alone.
LEMMA ControlFrame ==
  ASSUME ControlStep
  PROVE  UNCHANGED <<registry, active, snapshot, cur, timed_out, finished, slot, calls, outcome,
                     history>>
BY DEF ControlStep, Cancel, Pause, Resume, CancelRun, flags, timers

\* active_runs_ and the runs that cancel() has copied are runs of the chain.
LEMMA ControlOKStep == TypeOK /\ [Next]_vars => ControlOK'
<1> SUFFICES ASSUME ControlOK, [Next]_vars PROVE ControlOK'
  BY DEF TypeOK
<1> USE ChainAssumption DEF ControlOK
<1>1. CASE ConfigStep
  BY <1>1, ConfigFrame DEF control
<1>2. CASE ControlStep
  BY <1>2 DEF ControlStep, Controlled, Cancel, Pause, Resume, CancelRun
<1>3. ASSUME NEW r \in Run, RunStep(r) PROVE ControlOK'
  BY <1>3 DEF RunStep, EntryStep, TimerStep, OwnerStep, MiddlewareStep, AsyncCallback,
     ExecuteAsyncEmpty, ExecuteAsync, Execute, ArmGlobalTimer, GlobalTimerExpires, OnGlobalTimeout,
     MiddlewareTimerExpires, OnMiddlewareTimeout, StepStops, ReadVerdict, StepTimesOut, StepPops,
     StepReturns, TryFinishRun, CompleteRun, SkipMiddleware, EnterBody, SetupMiddlewareTimeout,
     StartWait, CallNext, SyncReturns, SyncThrows, AsyncReturns, AsyncThrows, RegisterRun, control
<1>4. CASE UNCHANGED vars
  BY <1>4 DEF vars, control
<1>5. QED
  BY <1>1, <1>2, <1>3, <1>4 DEF Next

\* A run's snapshot is taken once and current_index stays within it.
LEMMA SnapshotOKStep == TypeOK /\ [Next]_vars => SnapshotOK'
<1> SUFFICES ASSUME SwitchesOK, RegistryOK, SnapshotOK, [Next]_vars PROVE SnapshotOK'
  BY DEF TypeOK
<1> USE ChainAssumption
<1>1. CASE UNCHANGED <<snapshot, cur>>
  BY <1>1 DEF SnapshotOK, snapshot
<1>2. ASSUME NEW r \in Run, NEW m \in {"sync", "async"}, TakeSnapshot(r, m), UNCHANGED cur
      PROVE  SnapshotOK'
  <2>1. cur[r] = 0
    BY <1>2 DEF SnapshotOK, TakeSnapshot
  <2>2. QED
    BY <1>2, <2>1 DEF SnapshotOK, TakeSnapshot, RegistryOK, SwitchesOK
<1>3. ASSUME NEW r \in Run, NEW o \in Owner, StepPops(r, o) PROVE SnapshotOK'
  BY <1>3 DEF SnapshotOK, StepPops, MustStop, snapshot
<1>4. ASSUME NEW r \in Run, RunStep(r), ~(\E o \in Owner : StepPops(r, o)),
             ~(ExecuteAsyncEmpty(r) \/ ExecuteAsync(r) \/ Execute(r))
      PROVE  UNCHANGED <<snapshot, cur>>
  BY <1>4 DEF RunStep, EntryStep, TimerStep, OwnerStep, MiddlewareStep, AsyncCallback,
     ArmGlobalTimer, GlobalTimerExpires, OnGlobalTimeout, MiddlewareTimerExpires,
     OnMiddlewareTimeout, StepStops, ReadVerdict, StepTimesOut, StepReturns, TryFinishRun,
     CompleteRun, SkipMiddleware, EnterBody, SetupMiddlewareTimeout, StartWait, CallNext,
     SyncReturns, SyncThrows, AsyncReturns, AsyncThrows
<1>5. ASSUME NEW r \in Run, ExecuteAsyncEmpty(r) \/ ExecuteAsync(r) \/ Execute(r)
      PROVE  SnapshotOK'
  BY <1>2, <1>5 DEF ExecuteAsyncEmpty, ExecuteAsync, Execute
<1>6. CASE ConfigStep
  BY <1>1, <1>6, ConfigFrame
<1>7. CASE ControlStep
  BY <1>1, <1>7, ControlFrame
<1>8. CASE UNCHANGED vars
  BY <1>1, <1>8 DEF vars
<1>9. QED
  BY <1>1, <1>3, <1>4, <1>5, <1>6, <1>7, <1>8 DEF Next

\* The flags of a run stay Boolean.
LEMMA FlagsOKStep == TypeOK /\ [Next]_vars => FlagsOK'
<1> SUFFICES ASSUME FlagsOK, [Next]_vars PROVE FlagsOK'
  BY DEF TypeOK
<1> USE DEF FlagsOK, flags
<1>1. CASE ConfigStep
  BY <1>1, ConfigFrame
<1>2. CASE ControlStep
  BY <1>2 DEF ControlStep, Controlled, Cancel, Pause, Resume, CancelRun
<1>3. ASSUME NEW r \in Run, RunStep(r) PROVE FlagsOK'
  BY <1>3, ZenonT(60) DEF RunStep, EntryStep, TimerStep, OwnerStep, MiddlewareStep, AsyncCallback,
     ExecuteAsyncEmpty, ExecuteAsync, Execute, ArmGlobalTimer, GlobalTimerExpires, OnGlobalTimeout,
     MiddlewareTimerExpires, OnMiddlewareTimeout, StepStops, ReadVerdict, StepTimesOut, StepPops,
     StepReturns, TryFinishRun, CompleteRun, SkipMiddleware, EnterBody, SetupMiddlewareTimeout,
     StartWait, CallNext, SyncReturns, SyncThrows, AsyncReturns, AsyncThrows
<1>4. CASE UNCHANGED vars
  BY <1>4 DEF vars
<1>5. QED
  BY <1>1, <1>2, <1>3, <1>4 DEF Next

\* Cancelling the slot's timer keeps the timers' shape.
LEMMA CancelSlotType ==
  ASSUME NEW r \in Run, mtimer \in [Run -> [Index -> Timer]], CancelSlot(r)
  PROVE  mtimer' \in [Run -> [Index -> Timer]]
<1>1. [i \in Index |-> IF i = slot[r] THEN CancelTimer(mtimer[r][i]) ELSE mtimer[r][i]]
        \in [Index -> Timer]
  BY DEF CancelTimer, Timer
<1>2. QED
  BY <1>1 DEF CancelSlot

\* Timers move between the states a steady_timer can be in.
LEMMA TimersOKStep == TypeOK /\ [Next]_vars => TimersOK'
<1> SUFFICES ASSUME TimersOK, [Next]_vars PROVE TimersOK'
  BY DEF TypeOK
<1> USE ChainAssumption DEF TimersOK, timers
<1>1. CASE UNCHANGED timers
  BY <1>1
<1>2. ASSUME NEW r \in Run, CancelRun(r) \/ \E o \in Owner : CompleteRun(r, o) PROVE TimersOK'
  <2>1. mtimer' \in [Run -> [Index -> Timer]]
    BY <1>2, CancelSlotType DEF CancelRun, CompleteRun
  <2>2. gtimer' \in [Run -> Timer] /\ slot' = slot
    BY <1>2 DEF CancelRun, CompleteRun, CancelTimer, Timer
  <2>3. QED
    BY <2>1, <2>2
<1>3. CASE ControlStep
  BY <1>1, <1>2, <1>3 DEF ControlStep, Cancel, Pause, Resume
<1>4. ASSUME NEW r \in Run, EntryStep(r) PROVE TimersOK'
  BY <1>4 DEF EntryStep, ExecuteAsyncEmpty, ExecuteAsync, Execute, ArmGlobalTimer, Timer
<1>5. ASSUME NEW r \in Run, TimerStep(r) PROVE TimersOK'
  <2>1. CASE GlobalTimerExpires(r)
    BY <2>1 DEF GlobalTimerExpires, Timer
  <2>2. CASE OnGlobalTimeout(r)
    BY <2>2 DEF OnGlobalTimeout, Timer
  <2>3. ASSUME NEW i \in Index, MiddlewareTimerExpires(r, i) PROVE TimersOK'
    BY <2>3 DEF MiddlewareTimerExpires, Timer
  <2>4. ASSUME NEW i \in Index, OnMiddlewareTimeout(r, i) PROVE TimersOK'
    BY <2>4 DEF OnMiddlewareTimeout, Timer
  <2>5. QED
    BY <1>5, <2>1, <2>2, <2>3, <2>4 DEF TimerStep
<1>6. ASSUME NEW r \in Run, NEW o \in Owner, OwnerStep(r, o) PROVE TimersOK'
  BY <1>1, <1>2, <1>6 DEF OwnerStep, StepStops, ReadVerdict, StepTimesOut, StepPops,
     StepReturns, TryFinishRun
<1>7. ASSUME NEW r \in Run, ResetSlot(r), UNCHANGED gtimer PROVE TimersOK'
  <2>1. mtimer' \in [Run -> [Index -> Timer]]
    BY <1>7, CancelSlotType DEF ResetSlot
  <2>2. slot' \in [Run -> 0 .. MaxLen]
    BY <1>7 DEF ResetSlot
  <2>3. QED
    BY <1>7, <2>1, <2>2
<1>8. ASSUME NEW r \in Run, NEW i \in Index, SetupMiddlewareTimeout(r, i) PROVE TimersOK'
  <2>1. [j \in Index |-> IF j = i THEN "created"
                         ELSE IF j = slot[r] THEN CancelTimer(mtimer[r][j]) ELSE mtimer[r][j]]
          \in [Index -> Timer]
    BY DEF CancelTimer, Timer
  <2>2. QED
    BY <1>8, <2>1 DEF SetupMiddlewareTimeout, Index
<1>9. ASSUME NEW r \in Run, NEW i \in Index, StartWait(r, i) PROVE TimersOK'
  BY <1>9 DEF StartWait, Timer
<1>10. ASSUME NEW r \in Run, NEW i \in Index, MiddlewareStep(r, i) PROVE TimersOK'
  BY <1>1, <1>7, <1>8, <1>9, <1>10 DEF MiddlewareStep, SkipMiddleware, EnterBody, CallNext,
     SyncReturns, SyncThrows, AsyncReturns, AsyncThrows
<1>11. ASSUME NEW r \in Run, NEW i \in Index, NEW res \in Result, AsyncCallback(r, i, res)
       PROVE  TimersOK'
  BY <1>7, <1>11 DEF AsyncCallback
<1>12. CASE ConfigStep \/ UNCHANGED vars
  BY <1>1, <1>12, ConfigFrame DEF vars
<1>13. QED
  BY <1>3, <1>4, <1>5, <1>6, <1>10, <1>11, <1>12 DEF Next, RunStep

\* The owners are execute_async, the indexes and the global timer's handler.
LEMMA OwnerFacts ==
  /\ 0 \in Owner /\ 0 \notin Index
  /\ Global \in Owner /\ Global \notin Index /\ Global # 0
  /\ Index \subseteq Owner
  /\ \A o \in Owner : o = 0 \/ o = Global \/ o \in Index
BY ChainAssumption DEF Owner, Global, Index

\* The index a step takes is one of the snapshot's.
LEMMA PoppedIndex ==
  ASSUME SnapshotOK, NEW r \in Run, ~MustStop(r)
  PROVE  cur[r] + 1 \in Index /\ cur[r] + 1 \in 0 .. MaxLen
BY ChainAssumption DEF SnapshotOK, MustStop, Index

\* Every owner of a run stays at a point of the code it can be at.
LEMMA CallsOKStep == TypeOK /\ [Next]_vars => CallsOK'
<1> SUFFICES ASSUME SnapshotOK, CallsOK, [Next]_vars PROVE CallsOK'
  BY DEF TypeOK
<1> USE OwnerFacts DEF CallsOK, calls
<1>1. CASE UNCHANGED calls
  BY <1>1
<1>2. ASSUME NEW r \in Run, ExecuteAsync(r) PROVE CallsOK'
  BY <1>2 DEF ExecuteAsync, PC
<1>3. ASSUME NEW r \in Run, ArmGlobalTimer(r) PROVE CallsOK'
  BY <1>3 DEF ArmGlobalTimer, PC
<1>4. ASSUME NEW r \in Run, Execute(r) PROVE CallsOK'
  BY <1>4 DEF Execute, PC
<1>5. ASSUME NEW r \in Run, EntryStep(r) PROVE CallsOK'
  BY <1>1, <1>2, <1>3, <1>4, <1>5 DEF EntryStep, ExecuteAsyncEmpty
<1>6. ASSUME NEW r \in Run, OnGlobalTimeout(r) PROVE CallsOK'
  <2>1. UNCHANGED <<ret, child, detached>>
    BY <1>6 DEF OnGlobalTimeout
  <2>2. CASE /\ pc' = [pc EXCEPT ![r][Global] = "completing"]
             /\ verdict' = [verdict EXCEPT ![r][Global] = "Timeout"]
    BY <2>1, <2>2 DEF PC, Result
  <2>3. CASE UNCHANGED <<pc, verdict>>
    BY <2>1, <2>3
  <2>4. QED
    BY <1>6, <2>2, <2>3 DEF OnGlobalTimeout
<1>7. ASSUME NEW r \in Run, TimerStep(r) PROVE CallsOK'
  BY <1>1, <1>6, <1>7 DEF TimerStep, GlobalTimerExpires, MiddlewareTimerExpires,
     OnMiddlewareTimeout
<1>8. ASSUME NEW r \in Run, NEW o \in Owner, OwnerStep(r, o) PROVE CallsOK'
  <2>1. CASE StepPops(r, o)
    BY <2>1, PoppedIndex DEF StepPops, PC
  <2>2. CASE StepStops(r, o)
    BY <2>2 DEF StepStops, PC
  <2>3. CASE ReadVerdict(r, o)
    BY <2>3 DEF ReadVerdict, PC, Result
  <2>4. CASE StepTimesOut(r, o)
    BY <2>4 DEF StepTimesOut, PC, Result
  <2>5. CASE StepReturns(r, o)
    BY <2>5 DEF StepReturns, PC
  <2>6. CASE TryFinishRun(r, o)
    BY <2>6 DEF TryFinishRun, AfterCompletion, PC
  <2>7. CASE CompleteRun(r, o)
    BY <2>7 DEF CompleteRun, AfterCompletion, PC
  <2>8. QED
    BY <1>8, <2>1, <2>2, <2>3, <2>4, <2>5, <2>6, <2>7 DEF OwnerStep
<1>9. ASSUME NEW r \in Run, NEW i \in Index, MiddlewareStep(r, i) PROVE CallsOK'
  <2>1. CASE SkipMiddleware(r, i)
    BY <2>1 DEF SkipMiddleware, PC
  <2>2. CASE EnterBody(r, i)
    BY <2>2 DEF EnterBody, PC
  <2>3. CASE SetupMiddlewareTimeout(r, i)
    BY <2>3 DEF SetupMiddlewareTimeout, PC
  <2>4. CASE StartWait(r, i)
    BY <2>4 DEF StartWait, PC
  <2>5. CASE CallNext(r, i)
    BY <2>5 DEF CallNext, PC
  <2>6. CASE SyncReturns(r, i)
    <3>1. PICK to \in PC : pc' = [pc EXCEPT ![r][i] = to]
      BY <2>6 DEF SyncReturns, PC
    <3>2. QED
      BY <2>6, <3>1 DEF SyncReturns
  <2>7. CASE SyncThrows(r, i)
    <3>1. PICK to \in PC : pc' = [pc EXCEPT ![r][i] = to]
      BY <2>7 DEF SyncThrows, PC
    <3>2. QED
      BY <2>7, <3>1 DEF SyncThrows, Result
  <2>8. CASE AsyncReturns(r, i)
    BY <2>8 DEF AsyncReturns, PC
  <2>9. CASE AsyncThrows(r, i)
    BY <2>9 DEF AsyncThrows, PC, Result
  <2>10. QED
    BY <1>9, <2>1, <2>2, <2>3, <2>4, <2>5, <2>6, <2>7, <2>8, <2>9 DEF MiddlewareStep
<1>10. ASSUME NEW r \in Run, NEW i \in Index, NEW res \in Result, AsyncCallback(r, i, res)
       PROVE  CallsOK'
  BY <1>10 DEF AsyncCallback, PC
<1>11. CASE ConfigStep \/ ControlStep \/ UNCHANGED vars
  BY <1>1, <1>11, ConfigFrame, ControlFrame DEF vars
<1>12. QED
  BY <1>5, <1>7, <1>8, <1>9, <1>10, <1>11 DEF Next, RunStep

\* What the caller sees of a run keeps its shape.
LEMMA OutcomeOKStep == TypeOK /\ [Next]_vars => OutcomeOK'
<1> SUFFICES ASSUME SwitchesOK, CallsOK, OutcomeOK, [Next]_vars PROVE OutcomeOK'
  BY DEF TypeOK
<1> USE DEF OutcomeOK, outcome, history
<1>1. CASE UNCHANGED <<outcome, history>>
  BY <1>1
<1>2. ASSUME NEW r \in Run, ExecuteAsyncEmpty(r) PROVE OutcomeOK'
  BY <1>2 DEF ExecuteAsyncEmpty, Result
<1>3. ASSUME NEW r \in Run, NEW o \in Owner, CompleteRun(r, o) PROVE OutcomeOK'
  <2>1. UNCHANGED history
    BY <1>3 DEF CompleteRun
  <2>2. CASE /\ delivered' = [delivered EXCEPT ![r] = @ + 1]
             /\ result' = [result EXCEPT ![r] = verdict[r][o]]
    BY <2>1, <2>2 DEF CallsOK
  <2>3. CASE UNCHANGED outcome
    BY <2>1, <2>3
  <2>4. QED
    BY <1>3, <2>2, <2>3 DEF CompleteRun
<1>4. ASSUME NEW r \in Run, NEW o \in Owner, StepStops(r, o) PROVE OutcomeOK'
  <2>1. (wasPaused[r] \/ paused) \in BOOLEAN
    BY Zenon
  <2>2. wasPaused' \in [Run -> BOOLEAN]
    BY <1>4, <2>1 DEF StepStops
  <2>3. QED
    BY <1>4, <2>2 DEF StepStops
<1>5. ASSUME NEW r \in Run, NEW i \in Index, SyncReturns(r, i) \/ SyncThrows(r, i) PROVE OutcomeOK'
  <2>1. (halted[r] \/ pc[r][i] = "body") \in BOOLEAN
    BY Zenon
  <2>2. halted' \in [Run -> BOOLEAN]
    BY <1>5, <2>1 DEF SyncReturns, SyncThrows
  <2>3. QED
    BY <1>5, <2>2 DEF SyncReturns, SyncThrows
<1>0. ASSUME NEW r \in Run, NEW i \in Index, CallNext(r, i) PROVE OutcomeOK'
  <2>1. (halted[r] /\ pc[r][i] = "body") \in BOOLEAN
    BY Zenon
  <2>2. halted' \in [Run -> BOOLEAN]
    BY <1>0, <2>1 DEF CallNext
  <2>3. QED
    BY <1>0, <2>2 DEF CallNext
<1>6. ASSUME NEW r \in Run, EntryStep(r) \/ TimerStep(r) PROVE OutcomeOK'
  BY <1>1, <1>2, <1>6 DEF EntryStep, TimerStep, ExecuteAsync, Execute, ArmGlobalTimer,
     GlobalTimerExpires, OnGlobalTimeout, MiddlewareTimerExpires, OnMiddlewareTimeout
<1>7. ASSUME NEW r \in Run, NEW o \in Owner, OwnerStep(r, o) PROVE OutcomeOK'
  BY <1>1, <1>3, <1>4, <1>7 DEF OwnerStep, ReadVerdict, StepTimesOut, StepPops, StepReturns,
     TryFinishRun
<1>8. ASSUME NEW r \in Run, NEW i \in Index,
             MiddlewareStep(r, i) \/ \E res \in Result : AsyncCallback(r, i, res)
      PROVE  OutcomeOK'
  BY <1>0, <1>1, <1>5, <1>8 DEF MiddlewareStep, SkipMiddleware, EnterBody, SetupMiddlewareTimeout,
     StartWait, AsyncReturns, AsyncThrows, AsyncCallback
<1>9. CASE ConfigStep \/ ControlStep \/ UNCHANGED vars
  BY <1>1, <1>9, ConfigFrame, ControlFrame DEF vars
<1>10. QED
  BY <1>6, <1>7, <1>8, <1>9 DEF Next, RunStep

\* The chain's state keeps its shape, and current_index never passes the end
\* of the snapshot.
THEOREM TypeCorrect == Spec => []TypeOK
<1>1. TypeOK /\ [Next]_vars => TypeOK'
  BY SwitchesStep, RegistryStep, ControlOKStep, SnapshotOKStep, FlagsOKStep, TimersOKStep,
     CallsOKStep, OutcomeOKStep DEF TypeOK
<1>2. QED
  BY <1>1, InitTypeOK, PTL DEF Spec

-----------------------------------------------------------------------------
(* Every asynchronous run is answered once. *)

\* A step that leaves a run's view alone keeps the run's invariant.
LEMMA SameView ==
  ASSUME NEW r \in Run, RunInv(r),
         mode'[r] = mode[r], pipe'[r] = pipe[r], cur'[r] = cur[r], finished'[r] = finished[r],
         gtimer'[r] = gtimer[r], pc'[r] = pc[r], delivered'[r] = delivered[r],
         r \in active' <=> r \in active
  PROVE  RunInv(r)'
<1>1. EmptyRun(r)'
  BY DEF RunInv, EmptyRun
<1>2. OneFinisher(r)'
  BY DEF RunInv, OneFinisher, Finishing
<1>3. Driven(r)'
  BY DEF RunInv, Driven
<1>4. NotYetCalled(r)'
  BY DEF RunInv, NotYetCalled
<1>5. QED
  BY <1>1, <1>2, <1>3, <1>4 DEF RunInv

\* An owner that neither takes nor leaves "finishing" leaves the finisher alone.
LEMMA SameFinisher ==
  ASSUME NEW r \in Run, RunInv(r), NEW o \in Owner,
         pc[r][o] # "finishing", pc'[r][o] # "finishing",
         \A p \in Owner : p # o => pc'[r][p] = pc[r][p],
         mode'[r] = mode[r], pipe'[r] = pipe[r], finished'[r] = finished[r],
         delivered'[r] = delivered[r], r \in active' <=> r \in active
  PROVE  OneFinisher(r)'
<1>1. Finishing(r)' <=> Finishing(r)
  BY DEF Finishing
<1>2. QED
  BY <1>1 DEF RunInv, OneFinisher

\* A called owner that moves on, without taking or leaving "finishing", keeps
\* the run's invariant, if the run still has somebody to drive it.
LEMMA OwnerMoves ==
  ASSUME TypeOK, NEW r \in Run, RunInv(r), NEW o \in Owner, NEW to \in PC,
         pc[r][o] \notin {"idle", "finishing"},
         pc' = [pc EXCEPT ![r][o] = to],
         to \notin {"idle", "finishing", "entry"},
         Drives(to) \/ pc[r][o] = "wait" \/ mode[r] # "async" \/ finished[r],
         mode'[r] = mode[r], pipe'[r] = pipe[r], cur'[r] = cur[r], finished'[r] = finished[r],
         gtimer'[r] = gtimer[r], delivered'[r] = delivered[r],
         r \in active' <=> r \in active
  PROVE  RunInv(r)'
<1> USE DEF TypeOK, CallsOK
<1>1. pc'[r][o] = to /\ \A p \in Owner : p # o => pc'[r][p] = pc[r][p]
  OBVIOUS
<1>2. EmptyRun(r)'
  BY <1>1 DEF RunInv, EmptyRun
<1>4. OneFinisher(r)'
  BY <1>1, SameFinisher
<1>5. Driven(r)'
  BY <1>1 DEF RunInv, Driven, Drives
<1>6. NotYetCalled(r)'
  BY <1>1, OwnerFacts DEF RunInv, NotYetCalled
<1>7. QED
  BY <1>2, <1>4, <1>5, <1>6 DEF RunInv

\* The winner of try_finish_run is the only owner at "finishing".
LEMMA OwnerWins ==
  ASSUME TypeOK, NEW r \in Run, RunInv(r), NEW o \in Owner, TryFinishRun(r, o), ~finished[r]
  PROVE  RunInv(r)'
<1> USE DEF TypeOK, CallsOK, FlagsOK
<1>1. pc'[r][o] = "finishing" /\ \A p \in Owner : p # o => pc'[r][p] = pc[r][p]
  BY DEF TryFinishRun
<1>2. finished'[r] = TRUE /\ UNCHANGED <<control, snapshot, cur, timers, outcome>>
  BY DEF TryFinishRun
<1> USE DEF control, snapshot, timers, outcome
<1>3. pc[r][o] = "completing" /\ ~Finishing(r)
  BY DEF TryFinishRun, RunInv, OneFinisher
<1>4. Finishing(r)'
  BY <1>1 DEF Finishing
<1>5. EmptyRun(r)'
  BY <1>2, <1>3 DEF RunInv, EmptyRun
<1>6. OneFinisher(r)'
  BY <1>1, <1>2, <1>3, <1>4 DEF RunInv, OneFinisher, Finishing
<1>7. Driven(r)'
  BY <1>2 DEF Driven
<1>8. NotYetCalled(r)'
  BY <1>1, <1>2, <1>3, OwnerFacts DEF RunInv, NotYetCalled
<1>9. QED
  BY <1>5, <1>6, <1>7, <1>8 DEF RunInv

\* The winner delivers an answer that had not been delivered.
LEMMA OwnerDelivers ==
  ASSUME TypeOK, NEW r \in Run, RunInv(r), NEW o \in Owner, CompleteRun(r, o)
  PROVE  RunInv(r)' /\ (mode[r] = "async" => delivered[r] = 0)
<1> USE DEF TypeOK, CallsOK, FlagsOK, TimersOK, OutcomeOK
<1>1. pc[r][o] = "finishing" /\ Finishing(r) /\ finished[r]
  BY DEF CompleteRun, RunInv, OneFinisher, Finishing
<1>2. pipe[r] # <<>> /\ delivered[r] = 0
  BY <1>1 DEF RunInv, EmptyRun, OneFinisher
<1>3. pc'[r][o] \in {"afterNext", "completing", "done"}
  BY DEF CompleteRun, AfterCompletion
<1>4. \A p \in Owner : p # o => pc'[r][p] = pc[r][p]
  BY DEF CompleteRun
<1>5. ~Finishing(r)'
  BY <1>1, <1>3, <1>4 DEF RunInv, OneFinisher, Finishing
<1>6. UNCHANGED <<snapshot, cur, flags>> /\ active' = active \ {r}
  BY DEF CompleteRun
<1> USE DEF snapshot, flags
<1>7. delivered'[r] = IF mode[r] = "async" THEN 1 ELSE 0
  <2>1. CASE mode[r] = "async"
    BY <1>2, <2>1 DEF CompleteRun
  <2>2. CASE mode[r] # "async"
    BY <1>2, <2>2 DEF CompleteRun, outcome
  <2>3. QED
    BY <2>1, <2>2
<1>8. EmptyRun(r)'
  BY <1>2, <1>6 DEF EmptyRun
<1>9. OneFinisher(r)'
  BY <1>1, <1>5, <1>6, <1>7 DEF OneFinisher, Finishing
<1>10. Driven(r)'
  BY <1>1, <1>6 DEF Driven
<1>11. gtimer'[r] = CancelTimer(gtimer[r])
  BY DEF CompleteRun
<1>12. NotYetCalled(r)'
  BY <1>1, <1>3, <1>4, <1>6, <1>11, OwnerFacts DEF RunInv, NotYetCalled, CancelTimer
<1>13. QED
  BY <1>2, <1>8, <1>9, <1>10, <1>12 DEF RunInv

\* The index a step takes was idle, and now drives the run in its caller's
\* stead.
LEMMA OwnerPops ==
  ASSUME TypeOK, NEW r \in Run, RunInv(r), NEW o \in Owner, StepPops(r, o)
  PROVE  RunInv(r)'
<1> USE DEF TypeOK, CallsOK
<1> DEFINE k == cur[r] + 1
<1>1. k \in Index /\ k \in Owner /\ k # 0 /\ k # Global
  BY PoppedIndex, OwnerFacts DEF StepPops
<1>2. pc[r][k] = "idle" /\ pc[r][o] = "step" /\ k # o
  BY <1>1 DEF RunInv, NotYetCalled, StepPops, SnapshotOK
<1>3. /\ pc'[r][o] = "wait" /\ pc'[r][k] = "popped"
      /\ \A p \in Owner : p \notin {o, k} => pc'[r][p] = pc[r][p]
  BY <1>1, <1>2 DEF StepPops
<1>4. cur'[r] = cur[r] + 1 /\ UNCHANGED <<control, snapshot, flags, timers, outcome>>
  BY DEF StepPops, SnapshotOK
<1> USE DEF control, snapshot, flags, timers, outcome
<1>5. Finishing(r)' <=> Finishing(r)
  BY <1>1, <1>2, <1>3 DEF Finishing
<1>6. EmptyRun(r)'
  BY <1>2, <1>4 DEF RunInv, EmptyRun
<1>7. OneFinisher(r)'
  BY <1>1, <1>2, <1>3, <1>4, <1>5, ZenonT(30) DEF RunInv, OneFinisher
<1>8. Driven(r)'
  BY <1>1, <1>3 DEF Driven, Drives
<1>9. NotYetCalled(r)'
  <2>1. ASSUME NEW i \in Index, i > cur'[r] PROVE pc'[r][i] = "idle"
    <3>0. i \in Int /\ cur[r] \in Int /\ i > cur[r] + 1 /\ i \in Owner
      <4>1. cur[r] \in Int
        BY DEF SnapshotOK
      <4>2. i \in Int
        BY ChainAssumption DEF Index
      <4>3. i > cur[r] + 1
        BY <1>4, <2>1
      <4>4. QED
        BY <4>1, <4>2, <4>3, OwnerFacts
    <3>1. i > cur[r] /\ i # k /\ i \in Owner
      BY <3>0
    <3>2. i # o
      BY <1>2, <3>1 DEF RunInv, NotYetCalled
    <3>3. QED
      BY <1>3, <3>1, <3>2 DEF RunInv, NotYetCalled
  <2>2. QED
    BY <2>1, <1>1, <1>2, <1>3, <1>4, OwnerFacts DEF RunInv, NotYetCalled
<1>10. QED
  BY <1>6, <1>7, <1>8, <1>9 DEF RunInv

\* A timer that moves on without being started or handled changes nothing
\* the invariant depends on.
LEMMA GlobalTimerMoves ==
  ASSUME NEW r \in Run, RunInv(r),
         gtimer'[r] = gtimer[r] \/ (gtimer[r] # "null" /\ gtimer[r] # "handled"),
         gtimer'[r] = "handled" => gtimer[r] = "handled" \/ pc[r][Global] = "idle",
         mode'[r] = mode[r], pipe'[r] = pipe[r], cur'[r] = cur[r], finished'[r] = finished[r],
         pc'[r] = pc[r], delivered'[r] = delivered[r], r \in active' <=> r \in active
  PROVE  RunInv(r)'
<1>1. EmptyRun(r)'
  BY DEF RunInv, EmptyRun
<1>2. OneFinisher(r)'
  BY DEF RunInv, OneFinisher, Finishing
<1>3. Driven(r)'
  BY DEF RunInv, Driven
<1>4. NotYetCalled(r)'
  BY DEF RunInv, NotYetCalled
<1>5. QED
  BY <1>1, <1>2, <1>3, <1>4 DEF RunInv

\* A run begins idle and unfinished, and its entry call drives it.
LEMMA RunBegins ==
  ASSUME TypeOK, NEW r \in Run, RunInv(r),
         ExecuteAsyncEmpty(r) \/ ExecuteAsync(r) \/ Execute(r)
  PROVE  RunInv(r)'
<1> USE OwnerFacts DEF TypeOK, CallsOK, SnapshotOK, OutcomeOK
<1>1. mode[r] = "none" /\ pipe[r] = <<>>
  BY DEF ExecuteAsyncEmpty, ExecuteAsync, Execute, TakeSnapshot
<1>2. /\ \A o \in Owner : pc[r][o] = "idle"
      /\ gtimer[r] = "null" /\ ~finished[r] /\ delivered[r] = 0 /\ r \notin active
  BY <1>1 DEF RunInv, EmptyRun
<1>3. UNCHANGED <<cur, flags, timers>>
  BY DEF ExecuteAsyncEmpty, ExecuteAsync, Execute
<1>4. CASE ExecuteAsyncEmpty(r)
  <2>1. /\ pipe'[r] = <<>> /\ mode'[r] = "async" /\ delivered'[r] = 1 /\ pc' = pc
        /\ active' = active
    BY <1>2, <1>4 DEF ExecuteAsyncEmpty, TakeSnapshot, calls, control
  <2>2. QED
    BY <1>2, <1>3, <2>1 DEF RunInv, EmptyRun, OneFinisher, Finishing, Driven, NotYetCalled,
       flags, timers
<1>5. CASE ExecuteAsync(r) \/ Execute(r)
  <2>1. /\ pipe'[r] # <<>> /\ delivered' = delivered
        /\ pc'[r][0] \in {"entry", "step"} /\ \A o \in Owner : o # 0 => pc'[r][o] = "idle"
        /\ r \in active'
    BY <1>2, <1>5 DEF ExecuteAsync, Execute, TakeSnapshot, RegisterRun, outcome
  <2>2. ~Finishing(r)'
    BY <2>1 DEF Finishing
  <2>3. EmptyRun(r)' /\ OneFinisher(r)'
    BY <1>2, <1>3, <2>1, <2>2 DEF EmptyRun, OneFinisher, Finishing, flags, timers
  <2>4. Driven(r)'
    BY <2>1 DEF Driven, Drives
  <2>5. NotYetCalled(r)'
    BY <1>2, <1>3, <2>1 DEF NotYetCalled, flags, timers
  <2>6. QED
    BY <2>3, <2>4, <2>5 DEF RunInv
<1>6. QED
  BY <1>4, <1>5

\* The entry call goes on to its first step, with or without a global timer.
LEMMA EntryArms ==
  ASSUME TypeOK, NEW r \in Run, RunInv(r), ArmGlobalTimer(r)
  PROVE  RunInv(r)'
<1> USE OwnerFacts DEF TypeOK, CallsOK, TimersOK
<1>1. /\ pc[r][0] = "entry" /\ pc'[r][0] = "step"
      /\ \A o \in Owner : o # 0 => pc'[r][o] = pc[r][o]
  BY DEF ArmGlobalTimer
<1>2. gtimer[r] = "null" /\ gtimer'[r] \in {"null", "armed"}
  BY <1>1 DEF ArmGlobalTimer, RunInv, NotYetCalled
<1>3. UNCHANGED <<control, snapshot, cur, flags, outcome>>
  BY DEF ArmGlobalTimer
<1> USE DEF control, snapshot, flags, outcome
<1>5. EmptyRun(r)'
  BY <1>1, <1>3 DEF RunInv, EmptyRun
<1>6. OneFinisher(r)'
  BY <1>1, <1>3, SameFinisher
<1>7. Driven(r)'
  BY <1>1 DEF Driven, Drives
<1>8. NotYetCalled(r)'
  BY <1>1, <1>2, <1>3 DEF RunInv, NotYetCalled
<1>9. QED
  BY <1>5, <1>6, <1>7, <1>8 DEF RunInv

\* The handler of the global timer joins the owners that may end the run.
LEMMA GlobalHandlerRuns ==
  ASSUME TypeOK, NEW r \in Run, RunInv(r), OnGlobalTimeout(r)
  PROVE  RunInv(r)'
<1> USE OwnerFacts DEF TypeOK, CallsOK, TimersOK
<1>1. /\ gtimer[r] = "fired" /\ gtimer'[r] = "handled" /\ pc[r][Global] = "idle"
      /\ UNCHANGED <<control, snapshot, cur, finished, outcome>>
  BY DEF OnGlobalTimeout, RunInv, NotYetCalled
<1> USE DEF control, snapshot, outcome
<1>2. CASE pc' = pc
  BY <1>1, <1>2, GlobalTimerMoves
<1>3. CASE pc' = [pc EXCEPT ![r][Global] = "completing"]
  <2>1. /\ pc'[r][Global] = "completing"
        /\ \A o \in Owner : o # Global => pc'[r][o] = pc[r][o]
    BY <1>3
  <2>3. EmptyRun(r)'
    BY <1>1 DEF RunInv, EmptyRun
  <2>4. OneFinisher(r)'
    BY <1>1, <2>1, SameFinisher
  <2>5. Driven(r)'
    BY <2>1 DEF Driven, Drives
  <2>6. NotYetCalled(r)'
    BY <1>1, <2>1 DEF RunInv, NotYetCalled
  <2>7. QED
    BY <2>3, <2>4, <2>5, <2>6 DEF RunInv
<1>4. QED
  BY <1>2, <1>3 DEF OnGlobalTimeout

\* Every step of a run keeps that run's invariant.
LEMMA OwnStep ==
  ASSUME TypeOK, NEW r \in Run, RunInv(r), RunStep(r)
  PROVE  RunInv(r)'
<1> USE DEF TypeOK, CallsOK, control, snapshot, flags, timers, outcome
<1>1. CASE EntryStep(r)
  BY <1>1, RunBegins, EntryArms DEF EntryStep
<1>2. CASE TimerStep(r)
  <2>1. CASE GlobalTimerExpires(r)
    BY <2>1, GlobalTimerMoves DEF GlobalTimerExpires, TimersOK, calls
  <2>2. CASE OnGlobalTimeout(r)
    BY <2>2, GlobalHandlerRuns
  <2>3. ASSUME NEW i \in Index, MiddlewareTimerExpires(r, i) \/ OnMiddlewareTimeout(r, i)
        PROVE  RunInv(r)'
    BY <2>3, SameView DEF MiddlewareTimerExpires, OnMiddlewareTimeout, calls
  <2>4. QED
    BY <1>2, <2>1, <2>2, <2>3 DEF TimerStep
<1>3. ASSUME NEW o \in Owner, OwnerStep(r, o) PROVE RunInv(r)'
  <2>0. ret[r][o] \in PC /\ ret[r][o] \notin {"idle", "finishing", "entry"}
    BY DEF PC
  <2>1. CASE StepStops(r, o)
    <3>1. CASE mode[r] = "async"
      BY <2>1, <3>1, OwnerMoves DEF StepStops, Drives, PC
    <3>2. CASE mode[r] # "async"
      <4>1. pc' = [pc EXCEPT ![r][o] = ret[r][o]]
        BY <2>1, <3>2 DEF StepStops
      <4>2. QED
        BY <2>1, <2>0, <3>2, <4>1, OwnerMoves DEF StepStops
    <3>3. QED
      BY <3>1, <3>2
  <2>2. CASE ReadVerdict(r, o)
    BY <2>2, OwnerMoves DEF ReadVerdict, Drives, PC
  <2>3. CASE StepTimesOut(r, o)
    <3>1. CASE mode[r] = "async"
      BY <2>3, <3>1, OwnerMoves DEF StepTimesOut, Drives, PC
    <3>2. CASE mode[r] # "async"
      <4>1. pc' = [pc EXCEPT ![r][o] = ret[r][o]]
        BY <2>3, <3>2 DEF StepTimesOut
      <4>2. QED
        BY <2>3, <2>0, <3>2, <4>1, OwnerMoves DEF StepTimesOut
    <3>3. QED
      BY <3>1, <3>2
  <2>4. CASE StepPops(r, o)
    BY <2>4, OwnerPops
  <2>5. CASE StepReturns(r, o)
    BY <2>0, <2>5, OwnerMoves DEF StepReturns
  <2>6. CASE TryFinishRun(r, o)
    <3>1. CASE ~finished[r]
      BY <2>6, <3>1, OwnerWins
    <3>2. CASE finished[r]
      <4>1. finished'[r] = finished[r]
        BY <2>6, <3>2, Zenon DEF TryFinishRun, FlagsOK
      <4>2. pc' = [pc EXCEPT ![r][o] = AfterCompletion(r, o)]
        BY <2>6, <3>2 DEF TryFinishRun
      <4>3. AfterCompletion(r, o) \in PC /\ AfterCompletion(r, o) \notin {"idle", "finishing", "entry"}
        BY <2>0 DEF AfterCompletion, PC
      <4>4. QED
        BY <2>6, <3>2, <4>1, <4>2, <4>3, OwnerMoves DEF TryFinishRun
    <3>3. QED
      BY <3>1, <3>2
  <2>7. CASE CompleteRun(r, o)
    BY <2>7, OwnerDelivers
  <2>8. QED
    BY <1>3, <2>1, <2>2, <2>3, <2>4, <2>5, <2>6, <2>7 DEF OwnerStep
<1>4. ASSUME NEW i \in Index, MiddlewareStep(r, i) PROVE RunInv(r)'
  <2> USE OwnerFacts
  <2>1. CASE SkipMiddleware(r, i)
    BY <2>1, OwnerMoves DEF SkipMiddleware, Drives, PC
  <2>2. CASE EnterBody(r, i)
    BY <2>2, OwnerMoves DEF EnterBody, Drives, PC
  <2>3. CASE SetupMiddlewareTimeout(r, i)
    BY <2>3, OwnerMoves DEF SetupMiddlewareTimeout, Drives, PC
  <2>4. CASE StartWait(r, i)
    BY <2>4, OwnerMoves DEF StartWait, Drives, PC
  <2>5. CASE CallNext(r, i)
    BY <2>5, OwnerMoves DEF CallNext, Drives, PC
  <2>6. CASE SyncReturns(r, i) \/ SyncThrows(r, i)
    <3>1. PICK to \in PC : /\ pc' = [pc EXCEPT ![r][i] = to]
                           /\ to \in {"step", "completing", "done"}
                           /\ mode[r] = "async" => to # "done"
      BY <2>6 DEF SyncReturns, SyncThrows, PC
    <3>2. QED
      BY <2>6, <3>1, OwnerMoves DEF SyncReturns, SyncThrows, Drives
  <2>7. CASE AsyncReturns(r, i)
    BY <2>7, OwnerMoves DEF AsyncReturns, Drives, PC
  <2>8. CASE AsyncThrows(r, i)
    BY <2>8, OwnerMoves DEF AsyncThrows, Drives, PC
  <2>9. QED
    BY <1>4, <2>1, <2>2, <2>3, <2>4, <2>5, <2>6, <2>7, <2>8 DEF MiddlewareStep
<1>5. ASSUME NEW i \in Index, NEW res \in Result, AsyncCallback(r, i, res) PROVE RunInv(r)'
  <2>1. PICK to \in PC : pc' = [pc EXCEPT ![r][i] = to] /\ to \in {"step", "completing"}
    BY <1>5 DEF AsyncCallback, PC
  <2>2. QED
    BY <1>5, <2>1, OwnerMoves, OwnerFacts DEF AsyncCallback, Drives
<1>6. QED
  BY <1>1, <1>2, <1>3, <1>4, <1>5 DEF RunStep

\* A step of one run leaves every other run's view alone.
LEMMA OtherRun ==
  ASSUME TypeOK, NEW r \in Run, NEW q \in Run, q # r, RunStep(r)
  PROVE  /\ mode'[q] = mode[q] /\ pipe'[q] = pipe[q] /\ cur'[q] = cur[q]
         /\ finished'[q] = finished[q] /\ gtimer'[q] = gtimer[q] /\ pc'[q] = pc[q]
         /\ delivered'[q] = delivered[q] /\ (q \in active' <=> q \in active)
         /\ result'[q] = result[q]
<1> USE DEF TypeOK, SnapshotOK, FlagsOK, TimersOK, CallsOK, OutcomeOK, control, snapshot, flags,
        timers, calls, outcome
<1>1. CASE EntryStep(r)
  BY <1>1 DEF EntryStep, ExecuteAsyncEmpty, ExecuteAsync, Execute, ArmGlobalTimer, TakeSnapshot,
     RegisterRun
<1>2. CASE TimerStep(r)
  BY <1>2 DEF TimerStep, GlobalTimerExpires, OnGlobalTimeout, MiddlewareTimerExpires,
     OnMiddlewareTimeout
<1>3. ASSUME NEW o \in Owner, OwnerStep(r, o), ~CompleteRun(r, o)
      PROVE  /\ UNCHANGED <<mode, pipe, gtimer, delivered, result, active>>
             /\ cur'[q] = cur[q] /\ finished'[q] = finished[q] /\ pc'[q] = pc[q]
  BY <1>3 DEF OwnerStep, StepStops, ReadVerdict, StepTimesOut, StepPops, StepReturns, TryFinishRun
<1>4. ASSUME NEW o \in Owner, CompleteRun(r, o)
      PROVE  /\ UNCHANGED <<mode, pipe, cur, finished>> /\ active' = active \ {r}
             /\ gtimer'[q] = gtimer[q] /\ pc'[q] = pc[q]
             /\ delivered'[q] = delivered[q] /\ result'[q] = result[q]
  BY <1>4 DEF CompleteRun
<1>5. ASSUME NEW i \in Index, MiddlewareStep(r, i) \/ \E res \in Result : AsyncCallback(r, i, res)
      PROVE  /\ UNCHANGED <<mode, pipe, cur, finished, gtimer, delivered, result, active>>
             /\ pc'[q] = pc[q]
  BY <1>5 DEF MiddlewareStep, SkipMiddleware, EnterBody, SetupMiddlewareTimeout, StartWait,
     CallNext, SyncReturns, SyncThrows, AsyncReturns, AsyncThrows, AsyncCallback
<1>6. QED
  BY <1>1, <1>2, <1>3, <1>4, <1>5 DEF RunStep

\* CompletionInv is kept by every step of the chain.
LEMMA CompletionStep == TypeOK /\ CompletionInv /\ [Next]_vars => CompletionInv'
<1> SUFFICES ASSUME TypeOK, CompletionInv, [Next]_vars, NEW q \in Run PROVE RunInv(q)'
  BY DEF CompletionInv
<1>0. RunInv(q)
  BY DEF CompletionInv
<1> USE <1>0 DEF control, snapshot, flags, timers, calls, outcome
<1>1. CASE UNCHANGED <<snapshot, cur, finished, gtimer, pc, delivered, active>>
  BY <1>1, SameView
<1>2. ASSUME NEW r \in Run, RunStep(r) PROVE RunInv(q)'
  <2>1. CASE q = r
    BY <1>2, <2>1, OwnStep
  <2>2. CASE q # r
    BY <1>2, <2>2, OtherRun, SameView
  <2>3. QED
    BY <2>1, <2>2
<1>3. ASSUME NEW r \in Run, CancelRun(r) PROVE RunInv(q)'
  <2>1. /\ UNCHANGED <<snapshot, cur, finished, pc, delivered, active>>
        /\ gtimer'[q] = gtimer[q] \/ (gtimer[q] = "armed" /\ gtimer'[q] = "cancelled")
    BY <1>3 DEF CancelRun, CancelTimer, TypeOK, TimersOK
  <2>2. QED
    BY <2>1, GlobalTimerMoves
<1>4. CASE ControlStep
  BY <1>1, <1>3, <1>4 DEF ControlStep, Cancel, Pause, Resume
<1>5. CASE ConfigStep \/ UNCHANGED vars
  BY <1>1, <1>5, ConfigFrame DEF vars
<1>6. QED
  BY <1>2, <1>4, <1>5 DEF Next

\* Initially no run has begun.
LEMMA CompletionInit == Init => CompletionInv
BY OwnerFacts DEF Init, CompletionInv, RunInv, EmptyRun, OneFinisher, Finishing, Driven, NotYetCalled

\* The inductive invariant: one owner ends a run, somebody drives a run that
\* has not ended, and an owner that has not been called is idle.
THEOREM CompletionCorrect == Spec => []CompletionInv
<1>1. QED
  BY TypeCorrect, CompletionInit, CompletionStep, PTL DEF Spec

\* complete_async_run calls the completion callback at most once, whatever
\* middlewares, timers and cancel() do and however many runs share the chain.
THEOREM AnsweredAtMostOnce == Spec => []CompletesAtMostOnce
<1>1. TypeOK /\ CompletionInv => CompletesAtMostOnce
  BY DEF CompletionInv, RunInv, EmptyRun, OneFinisher, CompletesAtMostOnce
<1>2. QED
  BY <1>1, TypeCorrect, CompletionCorrect, PTL

\* No path through execute_next_async_step drops a run: when all its calls
\* have returned and nobody holds its callback, it has been answered.
THEOREM NoRunIsLost == Spec => []NoLostRun
<1>1. TypeOK /\ CompletionInv => NoLostRun
  <2> SUFFICES ASSUME TypeOK, CompletionInv, NEW r \in Run, mode[r] = "async", Settled(r)
               PROVE  delivered[r] = 1
    BY DEF NoLostRun
  <2>1. RunInv(r)
    BY DEF CompletionInv
  <2>2. CASE pipe[r] = <<>>
    BY <2>1, <2>2 DEF RunInv, EmptyRun
  <2>3. CASE pipe[r] # <<>>
    <3>1. finished[r]
      BY <2>1, <2>3 DEF RunInv, Driven, Drives, Settled
    <3>2. ~Finishing(r)
      BY DEF Finishing, Settled
    <3>3. QED
      BY <2>1, <2>3, <3>1, <3>2 DEF RunInv, OneFinisher
  <2>4. QED
    BY <2>2, <2>3
<1>2. QED
  BY <1>1, TypeCorrect, CompletionCorrect, PTL

\* active_runs_ holds exactly the runs that are not over.
THEOREM RegisteredExactly == Spec => []RegisteredWhileUnfinished
<1>1. TypeOK /\ CompletionInv => RegisteredWhileUnfinished
  BY DEF TypeOK, SnapshotOK, CompletionInv, RunInv, EmptyRun, OneFinisher, Finishing,
     RegisteredWhileUnfinished
<1>2. QED
  BY <1>1, TypeCorrect, CompletionCorrect, PTL

\* Only StepPops starts a middleware.
LEMMA OnlyStepPops ==
  ASSUME TypeOK, NEW r \in Run, RunStep(r), NEW i \in Index, pc'[r][i] = "popped",
         pc[r][i] # "popped"
  PROVE  \E o \in Owner : StepPops(r, o)
<1> USE OwnerFacts DEF TypeOK, CallsOK, calls
<1>1. CASE EntryStep(r)
  BY <1>1 DEF EntryStep, ExecuteAsyncEmpty, ExecuteAsync, Execute, ArmGlobalTimer
<1>2. CASE TimerStep(r)
  BY <1>2 DEF TimerStep, GlobalTimerExpires, OnGlobalTimeout, MiddlewareTimerExpires,
     OnMiddlewareTimeout
<1>3. ASSUME NEW o \in Owner, OwnerStep(r, o) PROVE StepPops(r, o)
  BY <1>3 DEF OwnerStep, StepStops, ReadVerdict, StepTimesOut, StepReturns, TryFinishRun,
     CompleteRun, AfterCompletion
<1>4. ASSUME NEW j \in Index, MiddlewareStep(r, j) \/ \E res \in Result : AsyncCallback(r, j, res)
      PROVE  FALSE
  BY <1>4 DEF MiddlewareStep, SkipMiddleware, EnterBody, SetupMiddlewareTimeout, StartWait,
     CallNext, SyncReturns, SyncThrows, AsyncReturns, AsyncThrows, AsyncCallback
<1>5. QED
  BY <1>1, <1>2, <1>3, <1>4 DEF RunStep

\* current_index moves past a middleware before it is started, so none is
\* started twice in a run, however many threads step the run.
THEOREM StartedOnce == Spec => StartedAtMostOnce
<1>1. ASSUME TypeOK, CompletionInv, [Next]_vars, NEW r \in Run, NEW i \in Index,
             pc'[r][i] = "popped", pc[r][i] # "popped"
      PROVE  pc[r][i] = "idle"
  <2>1. PICK q \in Run : RunStep(q)
    BY <1>1, ConfigFrame, ControlFrame DEF Next, vars, calls
  <2>2. q = r
    BY <1>1, <2>1, OtherRun
  <2>3. PICK o \in Owner : StepPops(r, o)
    BY <1>1, <2>1, <2>2, OnlyStepPops
  <2>4. cur[r] + 1 \in Index /\ i \in Owner /\ cur[r] + 1 \in Owner
    BY <1>1, <2>3, PoppedIndex, OwnerFacts DEF StepPops, TypeOK
  <2>5. i = cur[r] + 1
    BY <1>1, <2>3, <2>4 DEF StepPops, TypeOK, CallsOK
  <2>6. QED
    BY <1>1, <2>4, <2>5 DEF CompletionInv, RunInv, NotYetCalled, TypeOK, SnapshotOK
<1>2. TypeOK /\ CompletionInv /\ [Next]_vars
        => [\A r \in Run : \A i \in Index :
              pc'[r][i] = "popped" /\ pc[r][i] # "popped" => pc[r][i] = "idle"]_vars
  BY <1>1
<1>3. QED
  BY <1>2, TypeCorrect, CompletionCorrect, PTL DEF Spec, StartedAtMostOnce

\* What the caller of execute_async sees of a run changes only when the run
\* begins or is answered.
LEMMA AnswerSame ==
  ASSUME mode' = mode, delivered' = delivered, result' = result
  PROVE  Answer' = Answer
BY DEF Answer

\* A step of a run begins it, answers it or leaves its answer alone.
LEMMA AnswerStep ==
  ASSUME TypeOK, CompletionInv, NEW r \in Run, RunStep(r)
  PROVE  Answer' = Answer \/ RO!Begin(r) \/ \E res \in Result : RO!Complete(r, res)
<1> USE DEF TypeOK, SnapshotOK, OutcomeOK, snapshot, outcome
<1>0. RunInv(r)
  BY DEF CompletionInv
<1>1. ASSUME NEW a, mode'[r] = "async", \A q \in Run : q # r => mode'[q] = mode[q],
             \A q \in Run : q # r => delivered'[q] = delivered[q] /\ result'[q] = result[q],
             (IF delivered'[r] > 0 THEN result'[r] ELSE "running") = a
      PROVE  Answer' = [Answer EXCEPT ![r] = a]
  BY <1>1 DEF Answer
<1>2. CASE ExecuteAsyncEmpty(r)
  <2>1. mode[r] = "none" /\ delivered[r] = 0
    BY <1>0, <1>2 DEF ExecuteAsyncEmpty, TakeSnapshot, RunInv, EmptyRun
  <2>2. Answer[r] = "idle"
    BY <2>1 DEF Answer
  <2>3. delivered'[r] = 1 /\ result'[r] = "Continue" /\ mode'[r] = "async"
    BY <1>2, <2>1 DEF ExecuteAsyncEmpty, TakeSnapshot
  <2>4. Answer' = [Answer EXCEPT ![r] = "Continue"]
    BY <1>1, <1>2, <2>3, OtherRun
  <2>5. QED
    BY <2>2, <2>4 DEF RO!Complete, Result
<1>3. CASE ExecuteAsync(r)
  <2>1. mode[r] = "none" /\ delivered[r] = 0 /\ UNCHANGED outcome
    BY <1>0, <1>3 DEF ExecuteAsync, TakeSnapshot, RunInv, EmptyRun
  <2>2. Answer[r] = "idle"
    BY <2>1 DEF Answer
  <2>3. delivered'[r] = 0 /\ mode'[r] = "async"
    BY <1>3, <2>1 DEF ExecuteAsync, TakeSnapshot
  <2>4. Answer' = [Answer EXCEPT ![r] = "running"]
    BY <1>1, <1>3, <2>3, OtherRun
  <2>5. QED
    BY <2>2, <2>4 DEF RO!Begin
<1>4. CASE Execute(r)
  <2>1. mode' = [mode EXCEPT ![r] = "sync"] /\ mode[r] = "none" /\ UNCHANGED outcome
    BY <1>4 DEF Execute, TakeSnapshot
  <2>2. QED
    BY <2>1 DEF Answer
<1>5. ASSUME NEW o \in Owner, CompleteRun(r, o)
      PROVE  Answer' = Answer \/ \E res \in Result : RO!Complete(r, res)
  <2>1. CASE mode[r] = "async"
    <3>1. delivered[r] = 0 /\ Answer[r] = "running"
      BY <1>0, <1>5, <2>1, OwnerDelivers DEF Answer
    <3>2. delivered'[r] = 1 /\ result'[r] = verdict[r][o] /\ mode' = mode
      BY <1>5, <2>1, <3>1 DEF CompleteRun
    <3>3. Answer' = [Answer EXCEPT ![r] = verdict[r][o]]
      BY <1>1, <1>5, <2>1, <3>2, OtherRun DEF RunStep, OwnerStep
    <3>4. verdict[r][o] \in Result
      BY DEF CallsOK
    <3>5. QED
      BY <3>1, <3>3, <3>4 DEF RO!Complete
  <2>2. CASE mode[r] # "async"
    BY <1>5, <2>2, AnswerSame DEF CompleteRun
  <2>3. QED
    BY <2>1, <2>2
<1>6. ASSUME ~(ExecuteAsyncEmpty(r) \/ ExecuteAsync(r) \/ Execute(r)),
             ~(\E o \in Owner : CompleteRun(r, o))
      PROVE  UNCHANGED <<mode, delivered, result>>
  BY <1>6 DEF RunStep, EntryStep, TimerStep, OwnerStep, MiddlewareStep, AsyncCallback,
     ArmGlobalTimer, GlobalTimerExpires, OnGlobalTimeout, MiddlewareTimerExpires,
     OnMiddlewareTimeout, StepStops, ReadVerdict, StepTimesOut, StepPops, StepReturns,
     TryFinishRun, SkipMiddleware, EnterBody, SetupMiddlewareTimeout, StartWait, CallNext,
     SyncReturns, SyncThrows, AsyncReturns, AsyncThrows
<1>7. QED
  BY <1>2, <1>3, <1>4, <1>5, <1>6, AnswerSame

\* The chain implements RunOutcome: a request that was begun gets one answer,
\* and no late callback, timer or cancellation replaces it.
THEOREM ChainRefinesRunOutcome == Spec => ImplementsRunOutcome
<1>1. Init => RO!Init
  BY DEF Init, RO!Init, Answer
<1>2. TypeOK /\ CompletionInv /\ [Next]_vars => [RO!Next]_Answer
  <2> SUFFICES ASSUME TypeOK, CompletionInv, [Next]_vars PROVE Answer' = Answer \/ RO!Next
    OBVIOUS
  <2>1. ASSUME NEW r \in Run, RunStep(r) PROVE Answer' = Answer \/ RO!Next
    BY <2>1, AnswerStep DEF RO!Next
  <2>2. CASE ConfigStep \/ ControlStep \/ UNCHANGED vars
    BY <2>2, ConfigFrame, ControlFrame, AnswerSame DEF vars, snapshot, outcome
  <2>3. QED
    BY <2>1, <2>2 DEF Next
<1>3. QED
  BY <1>1, <1>2, TypeCorrect, CompletionCorrect, PTL DEF Spec, ImplementsRunOutcome, RO!Spec

-----------------------------------------------------------------------------
(* The order of the middlewares. *)

\* Unless insert() chose a place, mws_ is in ascending priority.
SortedInv == ~inserted => Ascending(mws)

\* The registry's calls keep it: use() sorts, and remove_if keeps the order.
LEMMA SortedStep == TypeOK /\ SortedInv /\ [Next]_vars => SortedInv'
<1> SUFFICES ASSUME TypeOK, SortedInv, [Next]_vars PROVE SortedInv'
  OBVIOUS
<1>1. ASSUME NEW m \in Mw, Use(m) PROVE SortedInv'
  BY <1>1 DEF Use, SortMiddlewaresByPriority, SortedInv, Ascending
<1>2. ASSUME NEW m \in Mw, Remove(m) PROVE SortedInv'
  <2>a. PICK n \in 0 .. Len(mws) : \E f \in [1 .. n -> DOMAIN mws] :
          mws' = [k \in 1 .. n |-> mws[f[k]]] /\ \A j, k \in 1 .. n : j < k => f[j] < f[k]
    BY <1>2 DEF Remove, RemoveIf
  <2>1. PICK f \in [1 .. n -> DOMAIN mws] :
          mws' = [k \in 1 .. n |-> mws[f[k]]] /\ \A j, k \in 1 .. n : j < k => f[j] < f[k]
    BY <2>a
  <2>2. inserted' = inserted
    BY <1>2 DEF Remove
  <2>3. DOMAIN mws' = 1 .. n /\ \A k \in 1 .. n : mws'[k] = mws[f[k]] /\ f[k] \in DOMAIN mws
    BY <2>1
  <2>4. Ascending(mws) => Ascending(mws')
    BY <2>1, <2>3 DEF Ascending
  <2>5. QED
    BY <2>2, <2>4 DEF SortedInv, Ascending
<1>3. ASSUME NEW m \in Mw, NEW k \in 0 .. MaxLen, Insert(k, m) PROVE SortedInv'
  BY <1>3 DEF Insert, SortedInv
<1>4. CASE Clear
  BY <1>4 DEF Clear, SortedInv, Ascending
<1>5. CASE UNCHANGED <<mws, inserted>>
  BY <1>5 DEF SortedInv, Ascending
<1>6. CASE ControlStep
  BY <1>5, <1>6, ControlFrame DEF registry
<1>7. ASSUME NEW r \in Run, RunStep(r) PROVE UNCHANGED registry
  BY <1>7 DEF RunStep, EntryStep, TimerStep, OwnerStep, MiddlewareStep, AsyncCallback,
     ExecuteAsyncEmpty, ExecuteAsync, Execute, ArmGlobalTimer, GlobalTimerExpires, OnGlobalTimeout,
     MiddlewareTimerExpires, OnMiddlewareTimeout, StepStops, ReadVerdict, StepTimesOut, StepPops,
     StepReturns, TryFinishRun, CompleteRun, SkipMiddleware, EnterBody, SetupMiddlewareTimeout,
     StartWait, CallNext, SyncReturns, SyncThrows, AsyncReturns, AsyncThrows
<1>8. QED
  BY <1>1, <1>2, <1>3, <1>4, <1>5, <1>6, <1>7
  DEF Next, ConfigStep, SetGlobalTimeout, SetIoContext, registry, vars

\* A run begins with the middlewares as they are registered.
LEMMA BeginsWithMws ==
  ASSUME TypeOK, [Next]_vars, NEW r \in Run, mode[r] = "none", mode'[r] # "none"
  PROVE  pipe'[r] = mws
<1>1. PICK q \in Run : RunStep(q)
  BY ConfigFrame, ControlFrame DEF Next, vars, snapshot
<1>2. q = r
  BY <1>1, OtherRun
<1>3. EntryStep(r)
  BY <1>1, <1>2 DEF RunStep, TimerStep, OwnerStep, MiddlewareStep, AsyncCallback,
     GlobalTimerExpires, OnGlobalTimeout, MiddlewareTimerExpires, OnMiddlewareTimeout, StepStops,
     ReadVerdict, StepTimesOut, StepPops, StepReturns, TryFinishRun, CompleteRun, SkipMiddleware,
     EnterBody, SetupMiddlewareTimeout, StartWait, CallNext, SyncReturns, SyncThrows, AsyncReturns,
     AsyncThrows, snapshot
<1>4. QED
  BY <1>3 DEF EntryStep, ExecuteAsyncEmpty, ExecuteAsync, Execute, ArmGlobalTimer, TakeSnapshot,
     snapshot, TypeOK, SnapshotOK

\* A run starts its middlewares in ascending priority, whatever was used, removed
\* and cleared before, as long as nothing was inserted by hand.
THEOREM RunsInPriorityOrder == Spec => StartsByPriority
<1>1. Init => SortedInv
  BY PriorityAssumption DEF Init, SortedInv
<1>2. TypeOK /\ SortedInv /\ [Next]_vars
        => [\A r \in Run : mode[r] = "none" /\ mode'[r] # "none" /\ ~inserted => Ascending(pipe'[r])]_vars
  BY BeginsWithMws DEF SortedInv
<1>3. QED
  BY <1>1, <1>2, SortedStep, TypeCorrect, PTL DEF Spec, StartsByPriority

-----------------------------------------------------------------------------
(* What Continue tells the caller. *)

\* The whole snapshot was started, or pause() cut the run short.
Whole(r) == cur[r] = Len(pipe[r]) \/ wasPaused[r]

\* Why a step stopped: a reason that does not go away until the flags are read
\* for the second time.
Cut(r) == cancelled[r] \/ timed_out[r] \/ Whole(r)

\* What an owner is about to report is true.
Justified(r, o) ==
  /\ ret[r][o] = "completing" => mode[r] = "sync"
  /\ mode[r] = "async" /\ pc[r][o] = "stopping" => Cut(r)
  /\ mode[r] = "async" /\ pc[r][o] \in {"completing", "finishing"} /\ verdict[r][o] = "Continue" => Whole(r)

\* The invariant of ContinueMeansAllStarted.
VerdictInv(r) ==
  /\ mode[r] = "none" => result[r] = "none"
  /\ result[r] = "Continue" => Whole(r)
  /\ \A o \in Owner : Justified(r, o)

\* A pause that a run has met is not forgotten.
LEMMA PauseStays ==
  ASSUME TypeOK, [Next]_vars, NEW q \in Run, wasPaused[q]
  PROVE  wasPaused'[q]
<1>1. CASE UNCHANGED wasPaused
  BY <1>1
<1>2. ASSUME NEW r \in Run, NEW o \in Owner, StepStops(r, o) PROVE wasPaused'[q]
  BY <1>2, Zenon DEF StepStops, TypeOK, OutcomeOK
<1>3. CASE ConfigStep \/ ControlStep \/ UNCHANGED vars
  BY <1>1, <1>3, ConfigFrame, ControlFrame DEF history, vars
<1>4. ASSUME NEW r \in Run, RunStep(r), ~\E o \in Owner : StepStops(r, o) PROVE UNCHANGED wasPaused
  BY <1>4 DEF RunStep, EntryStep, TimerStep, OwnerStep, MiddlewareStep, AsyncCallback,
     ExecuteAsyncEmpty, ExecuteAsync, Execute, ArmGlobalTimer, GlobalTimerExpires, OnGlobalTimeout,
     MiddlewareTimerExpires, OnMiddlewareTimeout, ReadVerdict, StepTimesOut, StepPops,
     StepReturns, TryFinishRun, CompleteRun, SkipMiddleware, EnterBody, SetupMiddlewareTimeout,
     StartWait, CallNext, SyncReturns, SyncThrows, AsyncReturns, AsyncThrows, history
<1>5. QED
  BY <1>1, <1>2, <1>3, <1>4 DEF Next

\* Neither are a timeout and a cancellation.
LEMMA FlagsStay ==
  ASSUME TypeOK, [Next]_vars, NEW q \in Run
  PROVE  (timed_out[q] => timed_out'[q]) /\ (cancelled[q] => cancelled'[q])
<1>1. CASE UNCHANGED <<timed_out, cancelled>>
  BY <1>1
<1>2. ASSUME NEW r \in Run, CancelRun(r) PROVE (timed_out[q] => timed_out'[q]) /\ (cancelled[q] => cancelled'[q])
  BY <1>2, Zenon DEF CancelRun, TypeOK, FlagsOK
<1>3. ASSUME NEW r \in Run, cancelled' = cancelled,
             \/ timed_out' = [timed_out EXCEPT ![r] = TRUE]
             \/ timed_out' = [timed_out EXCEPT ![r] = @ \/ Alive(r)]
      PROVE  (timed_out[q] => timed_out'[q]) /\ (cancelled[q] => cancelled'[q])
  BY <1>3, Zenon DEF TypeOK, FlagsOK
<1>4. CASE ConfigStep \/ UNCHANGED vars \/ Cancel \/ Pause \/ Resume
  BY <1>1, <1>4, ConfigFrame DEF flags, vars, Cancel, Pause, Resume
<1>5. ASSUME NEW r \in Run, RunStep(r)
      PROVE  \/ UNCHANGED <<timed_out, cancelled>>
             \/ /\ cancelled' = cancelled
                /\ \/ timed_out' = [timed_out EXCEPT ![r] = TRUE]
                   \/ timed_out' = [timed_out EXCEPT ![r] = @ \/ Alive(r)]
  BY <1>5, ZenonT(60) DEF RunStep, EntryStep, TimerStep, OwnerStep, MiddlewareStep, AsyncCallback,
     ExecuteAsyncEmpty, ExecuteAsync, Execute, ArmGlobalTimer, GlobalTimerExpires, OnGlobalTimeout,
     MiddlewareTimerExpires, OnMiddlewareTimeout, StepStops, ReadVerdict, StepTimesOut, StepPops,
     StepReturns, TryFinishRun, CompleteRun, SkipMiddleware, EnterBody, SetupMiddlewareTimeout,
     StartWait, CallNext, SyncReturns, SyncThrows, AsyncReturns, AsyncThrows, flags
<1>6. QED
  BY <1>1, <1>2, <1>3, <1>4, <1>5 DEF Next, ControlStep

\* The index only moves forward, within the snapshot, which stays as it was taken.
LEMMA RunGrows ==
  ASSUME TypeOK, [Next]_vars, NEW q \in Run, mode[q] # "none"
  PROVE  /\ mode'[q] = mode[q] /\ pipe'[q] = pipe[q]
         /\ cur[q] = Len(pipe[q]) => cur'[q] = cur[q]
<1>1. CASE UNCHANGED <<mode, pipe, cur>>
  BY <1>1
<1>2. CASE ConfigStep \/ ControlStep \/ UNCHANGED vars
  BY <1>1, <1>2, ConfigFrame, ControlFrame DEF snapshot, vars
<1>3. ASSUME NEW r \in Run, EntryStep(r) PROVE mode'[q] = mode[q] /\ pipe'[q] = pipe[q] /\ cur' = cur
  BY <1>3 DEF EntryStep, ExecuteAsyncEmpty, ExecuteAsync, Execute, ArmGlobalTimer, TakeSnapshot, snapshot,
     TypeOK, SnapshotOK
<1>4. ASSUME NEW r \in Run, NEW o \in Owner, StepPops(r, o)
      PROVE  mode' = mode /\ pipe' = pipe /\ (cur[q] = Len(pipe[q]) => cur'[q] = cur[q])
  BY <1>4 DEF StepPops, MustStop, snapshot, TypeOK, SnapshotOK
<1>5. ASSUME NEW r \in Run, RunStep(r), ~EntryStep(r), ~\E o \in Owner : StepPops(r, o)
      PROVE  UNCHANGED <<mode, pipe, cur>>
  BY <1>5 DEF RunStep, TimerStep, OwnerStep, MiddlewareStep, AsyncCallback,
     GlobalTimerExpires, OnGlobalTimeout, MiddlewareTimerExpires, OnMiddlewareTimeout, StepStops,
     ReadVerdict, StepTimesOut, StepReturns, TryFinishRun, CompleteRun, SkipMiddleware, EnterBody,
     SetupMiddlewareTimeout, StartWait, CallNext, SyncReturns, SyncThrows, AsyncReturns, AsyncThrows, snapshot
<1>6. QED
  BY <1>1, <1>2, <1>3, <1>4, <1>5 DEF Next

\* So a reason to stop, and what Continue means, stay true.
LEMMA ReasonsStay ==
  ASSUME TypeOK, [Next]_vars, NEW q \in Run, mode[q] # "none"
  PROVE  (Whole(q) => Whole(q)') /\ (Cut(q) => Cut(q)')
<1>1. Whole(q) => Whole(q)'
  BY RunGrows, PauseStays DEF Whole
<1>2. QED
  BY <1>1, FlagsStay DEF Cut

\* A step of one run leaves the calls of every other alone.
LEMMA OtherCalls ==
  ASSUME TypeOK, NEW r \in Run, NEW q \in Run, q # r, RunStep(r)
  PROVE  /\ ret'[q] = ret[q] /\ verdict'[q] = verdict[q] /\ child'[q] = child[q]
         /\ detached'[q] = detached[q] /\ halted'[q] = halted[q]
<1> USE DEF TypeOK, CallsOK, OutcomeOK, calls, history
<1>1. CASE EntryStep(r) \/ TimerStep(r)
  BY <1>1 DEF EntryStep, ExecuteAsyncEmpty, ExecuteAsync, Execute, ArmGlobalTimer,
     TimerStep, GlobalTimerExpires, OnGlobalTimeout, MiddlewareTimerExpires, OnMiddlewareTimeout
<1>2. ASSUME NEW o \in Owner, OwnerStep(r, o)
      PROVE  /\ ret'[q] = ret[q] /\ verdict'[q] = verdict[q] /\ child'[q] = child[q]
             /\ detached'[q] = detached[q] /\ halted'[q] = halted[q]
  BY <1>2 DEF OwnerStep, StepStops, ReadVerdict, StepTimesOut, StepPops, StepReturns, TryFinishRun, CompleteRun
<1>3. ASSUME NEW i \in Index, MiddlewareStep(r, i) \/ \E res \in Result : AsyncCallback(r, i, res)
      PROVE  /\ ret'[q] = ret[q] /\ verdict'[q] = verdict[q] /\ child'[q] = child[q]
             /\ detached'[q] = detached[q]
  BY <1>3 DEF MiddlewareStep, SkipMiddleware, EnterBody, SetupMiddlewareTimeout, StartWait,
     CallNext, SyncReturns, SyncThrows, AsyncReturns, AsyncThrows, AsyncCallback
<1>4. ASSUME NEW i \in Index, MiddlewareStep(r, i) \/ \E res \in Result : AsyncCallback(r, i, res)
      PROVE  halted'[q] = halted[q]
  BY <1>4, Zenon DEF MiddlewareStep, SkipMiddleware, EnterBody, SetupMiddlewareTimeout, StartWait,
     CallNext, SyncReturns, SyncThrows, AsyncReturns, AsyncThrows, AsyncCallback
<1>5. QED
  BY <1>1, <1>2, <1>3, <1>4 DEF RunStep

\* An owner whose call does not move stays justified.
LEMMA StaysJustified ==
  ASSUME NEW q, NEW p, Justified(q, p), mode'[q] = mode[q],
         Whole(q) => Whole(q)', Cut(q) => Cut(q)',
         pc'[q][p] = pc[q][p], ret'[q][p] = ret[q][p], verdict'[q][p] = verdict[q][p]
  PROVE  Justified(q, p)'
  BY DEF Justified

\* An owner's own step: it stops for a reason, reads the flags again, or reports
\* what a middleware or a timeout told it.
LEMMA OwnerJustified ==
  ASSUME TypeOK, [Next]_vars, NEW q \in Run, VerdictInv(q), mode[q] = "async",
         NEW o \in Owner, OwnerStep(q, o), NEW p \in Owner
  PROVE  Justified(q, p)'
<1> USE DEF TypeOK, CallsOK, calls
<1>0. /\ (Whole(q) => Whole(q)') /\ (Cut(q) => Cut(q)') /\ mode'[q] = mode[q]
      /\ Justified(q, p) /\ Justified(q, o) /\ ret' = ret /\ ret[q][p] # "completing"
  BY ReasonsStay, RunGrows DEF VerdictInv, Justified, OwnerStep, StepStops, ReadVerdict, StepTimesOut,
     StepPops, StepReturns, TryFinishRun, CompleteRun
<1>1. CASE StepStops(q, o)
  <2>1. pc' = [pc EXCEPT ![q][o] = "stopping"] /\ verdict' = verdict /\ MustStop(q)
    BY <1>1 DEF StepStops
  <2>2. CASE p = o
    <3>1. pc'[q][o] = "stopping"
      BY <2>1
    <3>2. paused => wasPaused'[q]
      BY <1>1, Zenon DEF StepStops, OutcomeOK
    <3>3. Cut(q)'
      <4>1. CASE paused
        BY <3>2, <4>1 DEF Cut, Whole
      <4>2. CASE ~paused
        <5>1. Cut(q)
          BY <2>1, <4>2 DEF MustStop, Cut, Whole, SnapshotOK
        <5>2. QED
          BY <1>0, <5>1
      <4>3. QED
        BY <4>1, <4>2
    <3>4. QED
      BY <1>0, <2>2, <3>1, <3>3 DEF Justified
  <2>3. CASE p # o
    BY <1>0, <2>1, <2>3, StaysJustified
  <2>4. QED
    BY <2>2, <2>3
<1>2. CASE ReadVerdict(q, o)
  <2>1. CASE p = o
    <3>1. pc'[q][o] = "completing" /\ pc[q][o] = "stopping"
      BY <1>2 DEF ReadVerdict
    <3>2. verdict'[q][o] = "Continue" => ~cancelled[q] /\ ~timed_out[q]
      BY <1>2 DEF ReadVerdict
    <3>3. Cut(q)
      BY <1>0, <3>1 DEF Justified
    <3>4. QED
      BY <1>0, <2>1, <3>1, <3>2, <3>3 DEF Justified, Cut
  <2>2. CASE p # o
    BY <1>0, <1>2, <2>2, StaysJustified DEF ReadVerdict
  <2>3. QED
    BY <2>1, <2>2
<1>3. CASE StepTimesOut(q, o)
  <2>1. CASE p = o
    BY <1>0, <1>3, <2>1 DEF StepTimesOut, Justified
  <2>2. CASE p # o
    BY <1>0, <1>3, <2>2, StaysJustified DEF StepTimesOut
  <2>3. QED
    BY <2>1, <2>2
<1>4. CASE StepPops(q, o)
  <2>1. pc'[q][p] \in {pc[q][p], "wait", "popped"} /\ verdict' = verdict
    BY <1>4 DEF StepPops
  <2>2. QED
    BY <1>0, <2>1 DEF Justified
<1>5. CASE StepReturns(q, o)
  <2>1. pc'[q][p] \in {pc[q][p], "afterNext", "done"} /\ verdict' = verdict
    BY <1>0, <1>5 DEF StepReturns, VerdictInv, Justified
  <2>2. QED
    BY <1>0, <2>1 DEF Justified
<1>6. CASE TryFinishRun(q, o)
  <2>1. verdict' = verdict /\ pc[q][o] = "completing"
    BY <1>6 DEF TryFinishRun
  <2>2. CASE p = o
    <3>1. pc'[q][o] \in {"finishing", "afterNext", "done"}
      BY <1>0, <1>6, <2>2 DEF TryFinishRun, AfterCompletion
    <3>2. QED
      BY <1>0, <2>1, <2>2, <3>1 DEF Justified
  <2>3. CASE p # o
    BY <1>0, <1>6, <2>1, <2>3, StaysJustified DEF TryFinishRun
  <2>4. QED
    BY <2>2, <2>3
<1>7. CASE CompleteRun(q, o)
  <2>1. verdict' = verdict
    BY <1>7 DEF CompleteRun
  <2>2. CASE p = o
    <3>1. pc'[q][o] \in {"afterNext", "done"}
      BY <1>0, <1>7, <2>2 DEF CompleteRun, AfterCompletion
    <3>2. QED
      BY <1>0, <2>1, <2>2, <3>1 DEF Justified
  <2>3. CASE p # o
    BY <1>0, <1>7, <2>1, <2>3, StaysJustified DEF CompleteRun
  <2>4. QED
    BY <2>2, <2>3
<1>8. QED
  BY <1>1, <1>2, <1>3, <1>4, <1>5, <1>6, <1>7 DEF OwnerStep

\* A middleware's step: it completes the run only with a result other than Continue.
LEMMA MiddlewareJustified ==
  ASSUME TypeOK, [Next]_vars, NEW q \in Run, VerdictInv(q), mode[q] = "async", NEW i \in Index,
         MiddlewareStep(q, i) \/ \E res \in Result : AsyncCallback(q, i, res), NEW p \in Owner
  PROVE  Justified(q, p)'
<1> USE DEF TypeOK, CallsOK, calls
<1>0. /\ (Whole(q) => Whole(q)') /\ (Cut(q) => Cut(q)') /\ mode'[q] = mode[q]
      /\ Justified(q, p) /\ i \in Owner
  BY ReasonsStay, RunGrows, OwnerFacts DEF VerdictInv
<1>1. CASE p = i
  <2>1. /\ pc'[q][i] \in {"step", "body", "arming", "pending"} \/ (pc'[q][i] = "completing" /\ verdict'[q][i] # "Continue")
        /\ ret'[q][i] \in {ret[q][i], "afterNext", "done"}
    <3>1. CASE MiddlewareStep(q, i)
      BY <1>0, <3>1 DEF MiddlewareStep, SkipMiddleware, EnterBody, SetupMiddlewareTimeout, StartWait,
         CallNext, SyncReturns, SyncThrows, AsyncReturns, AsyncThrows
    <3>2. ASSUME NEW res \in Result, AsyncCallback(q, i, res)
          PROVE  /\ pc'[q][i] = "step" \/ (pc'[q][i] = "completing" /\ verdict'[q][i] # "Continue")
                 /\ ret'[q][i] = "done"
      BY <1>0, <3>2 DEF AsyncCallback
    <3>3. QED
      BY <3>1, <3>2
  <2>2. QED
    BY <1>0, <1>1, <2>1 DEF Justified
<1>2. CASE p # i
  <2>1. pc'[q][p] = pc[q][p] /\ ret'[q][p] = ret[q][p] /\ verdict'[q][p] = verdict[q][p]
    BY <1>0, <1>2 DEF MiddlewareStep, SkipMiddleware, EnterBody, SetupMiddlewareTimeout, StartWait,
       CallNext, SyncReturns, SyncThrows, AsyncReturns, AsyncThrows, AsyncCallback
  <2>2. QED
    BY <1>0, <2>1, StaysJustified
<1>3. QED
  BY <1>1, <1>2

\* Before a run has begun none of its owners moves: the only step is its entry.
LEMMA OnlyEntry ==
  ASSUME TypeOK, NEW q \in Run, RunInv(q), RunStep(q), mode[q] = "none"
  PROVE  ExecuteAsyncEmpty(q) \/ ExecuteAsync(q) \/ Execute(q)
         \/ \E i \in Index : MiddlewareTimerExpires(q, i) \/ OnMiddlewareTimeout(q, i)
<1>1. /\ \A o \in Owner : pc[q][o] = "idle"
      /\ gtimer[q] = "null" /\ Index \subseteq Owner /\ 0 \in Owner
  BY OwnerFacts DEF TypeOK, SnapshotOK, RunInv, EmptyRun
<1>2. ASSUME NEW o \in Owner PROVE ~OwnerStep(q, o)
  BY <1>1 DEF OwnerStep, StepStops, ReadVerdict, StepTimesOut, StepPops, StepReturns, TryFinishRun, CompleteRun
<1>3. ASSUME NEW i \in Index PROVE ~MiddlewareStep(q, i) /\ \A res : ~AsyncCallback(q, i, res)
  BY <1>1 DEF MiddlewareStep, SkipMiddleware, EnterBody, SetupMiddlewareTimeout, StartWait,
     CallNext, SyncReturns, SyncThrows, AsyncReturns, AsyncThrows, AsyncCallback
<1>4. ~ArmGlobalTimer(q) /\ ~GlobalTimerExpires(q) /\ ~OnGlobalTimeout(q)
  BY <1>1 DEF ArmGlobalTimer, GlobalTimerExpires, OnGlobalTimeout
<1>5. QED
  BY <1>2, <1>3, <1>4 DEF RunStep, EntryStep, TimerStep

\* The entry itself: only an empty chain is answered on the spot.
LEMMA EntryVerdict ==
  ASSUME TypeOK, NEW q \in Run, RunInv(q), VerdictInv(q), mode[q] = "none",
         ExecuteAsyncEmpty(q) \/ ExecuteAsync(q) \/ Execute(q)
  PROVE  VerdictInv(q)'
<1> USE DEF TypeOK, CallsOK, SnapshotOK, OutcomeOK
<1>1. /\ \A o \in Owner : pc[q][o] = "idle" /\ ret[q][o] # "completing"
      /\ cur[q] = 0 /\ 0 \in Owner /\ result[q] = "none"
  BY OwnerFacts DEF RunInv, EmptyRun, VerdictInv, Justified
<1>2. CASE ExecuteAsyncEmpty(q)
  <2>1. Whole(q)' /\ mode'[q] = "async" /\ UNCHANGED <<pc, ret>>
    BY <1>1, <1>2 DEF ExecuteAsyncEmpty, TakeSnapshot, Whole, calls
  <2>2. QED
    BY <1>1, <2>1 DEF VerdictInv, Justified
<1>3. CASE ExecuteAsync(q)
  <2>1. /\ mode'[q] = "async" /\ result' = result /\ ret' = ret
        /\ \A o \in Owner : pc'[q][o] \in {"idle", "entry"}
    BY <1>1, <1>3 DEF ExecuteAsync, TakeSnapshot, outcome
  <2>2. QED
    BY <1>1, <2>1 DEF VerdictInv, Justified
<1>4. CASE Execute(q)
  <2>1. mode'[q] = "sync" /\ result' = result
    BY <1>4 DEF Execute, TakeSnapshot, outcome
  <2>2. QED
    BY <1>1, <2>1 DEF VerdictInv, Justified
<1>5. QED
  BY <1>2, <1>3, <1>4

\* VerdictInv is kept by every step of the chain.
LEMMA VerdictStep ==
  ASSUME TypeOK, CompletionInv, [Next]_vars, NEW q \in Run, VerdictInv(q)
  PROVE  VerdictInv(q)'
<1>0. RunInv(q)
  BY DEF CompletionInv
<1>a. mode[q] # "none" => (Whole(q) => Whole(q)') /\ (Cut(q) => Cut(q)') /\ mode'[q] = mode[q]
  BY ReasonsStay, RunGrows
<1>1. ASSUME mode'[q] = mode[q], pc'[q] = pc[q], ret'[q] = ret[q], verdict'[q] = verdict[q],
             result'[q] = result[q]
      PROVE  VerdictInv(q)'
  <2>1. CASE mode[q] = "none"
    BY <1>1, <2>1 DEF VerdictInv, Justified
  <2>2. CASE mode[q] # "none"
    <3>1. \A p \in Owner : Justified(q, p)'
      BY <1>1, <1>a, <2>2, StaysJustified DEF VerdictInv
    <3>2. QED
      BY <1>1, <1>a, <2>2, <3>1 DEF VerdictInv
  <2>3. QED
    BY <2>1, <2>2
<1>2. CASE ConfigStep \/ ControlStep \/ UNCHANGED vars
  BY <1>1, <1>2, ConfigFrame, ControlFrame DEF snapshot, calls, outcome, vars
<1>3. ASSUME NEW r \in Run, RunStep(r), r # q PROVE VerdictInv(q)'
  BY <1>1, <1>3, OtherRun, OtherCalls
<1>4. ASSUME RunStep(q) PROVE VerdictInv(q)'
  <2>1. CASE \E i \in Index : MiddlewareTimerExpires(q, i) \/ OnMiddlewareTimeout(q, i)
    BY <1>1, <2>1 DEF MiddlewareTimerExpires, OnMiddlewareTimeout, snapshot, calls, outcome
  <2>2. CASE mode[q] = "none"
    BY <1>0, <1>4, <2>1, <2>2, OnlyEntry, EntryVerdict
  <2>3. CASE mode[q] = "sync"
    <3>1. result'[q] = result[q]
      BY <1>4, <2>3 DEF RunStep, EntryStep, TimerStep, OwnerStep, MiddlewareStep, AsyncCallback,
         ExecuteAsyncEmpty, ExecuteAsync, Execute, TakeSnapshot, ArmGlobalTimer, GlobalTimerExpires,
         OnGlobalTimeout, MiddlewareTimerExpires, OnMiddlewareTimeout, StepStops, ReadVerdict, StepTimesOut,
         StepPops, StepReturns, TryFinishRun, CompleteRun, SkipMiddleware, EnterBody, SetupMiddlewareTimeout,
         StartWait, CallNext, SyncReturns, SyncThrows, AsyncReturns, AsyncThrows, outcome
    <3>2. QED
      BY <1>a, <2>3, <3>1 DEF VerdictInv, Justified
  <2>4. CASE mode[q] = "async"
    <3>1. ASSUME NEW p \in Owner PROVE Justified(q, p)'
      <4>1. CASE \E o \in Owner : OwnerStep(q, o)
        BY <2>4, <4>1, OwnerJustified
      <4>2. CASE \E i \in Index : MiddlewareStep(q, i) \/ \E res \in Result : AsyncCallback(q, i, res)
        BY <2>4, <4>2, MiddlewareJustified
      <4>3. CASE EntryStep(q) \/ GlobalTimerExpires(q)
        <5>1. /\ pc'[q][p] = pc[q][p] \/ pc'[q][p] = "step"
              /\ ret' = ret /\ verdict' = verdict
          BY <2>4, <4>3 DEF EntryStep, ExecuteAsyncEmpty, ExecuteAsync, Execute, TakeSnapshot, ArmGlobalTimer,
             GlobalTimerExpires, calls, TypeOK, CallsOK
        <5>2. QED
          BY <1>a, <2>4, <5>1 DEF VerdictInv, Justified
      <4>4. CASE OnGlobalTimeout(q)
        <5>1. /\ \/ pc'[q][p] = pc[q][p] /\ verdict'[q][p] = verdict[q][p]
                 \/ pc'[q][p] = "completing" /\ verdict'[q][p] = "Timeout"
              /\ ret' = ret
          BY <4>4, OwnerFacts DEF OnGlobalTimeout, TypeOK, CallsOK
        <5>2. QED
          BY <1>a, <2>4, <5>1 DEF VerdictInv, Justified
      <4>5. QED
        BY <1>4, <2>1, <4>1, <4>2, <4>3, <4>4 DEF RunStep, TimerStep, VerdictInv
    <3>2. result'[q] = "Continue" => Whole(q)'
      <4>1. ASSUME NEW o \in Owner, CompleteRun(q, o) PROVE result'[q] = "Continue" => Whole(q)'
        <5>1. pc[q][o] = "finishing" /\ result'[q] = verdict[q][o]
          BY <2>4, <4>1 DEF CompleteRun, TypeOK, OutcomeOK
        <5>2. QED
          BY <1>a, <2>4, <5>1 DEF VerdictInv, Justified
      <4>2. ASSUME ~\E o \in Owner : CompleteRun(q, o) PROVE result'[q] = result[q]
        BY <1>4, <2>4, <4>2 DEF RunStep, EntryStep, TimerStep, OwnerStep, MiddlewareStep, AsyncCallback,
           ExecuteAsyncEmpty, ExecuteAsync, Execute, TakeSnapshot, ArmGlobalTimer, GlobalTimerExpires,
           OnGlobalTimeout, MiddlewareTimerExpires, OnMiddlewareTimeout, StepStops, ReadVerdict, StepTimesOut,
           StepPops, StepReturns, TryFinishRun, SkipMiddleware, EnterBody, SetupMiddlewareTimeout,
           StartWait, CallNext, SyncReturns, SyncThrows, AsyncReturns, AsyncThrows, outcome
      <4>3. QED
        BY <1>a, <2>4, <4>1, <4>2 DEF VerdictInv
    <3>3. QED
      BY <1>a, <2>4, <3>1, <3>2 DEF VerdictInv
  <2>5. QED
    BY <2>2, <2>3, <2>4 DEF TypeOK, SnapshotOK
<1>5. QED
  BY <1>2, <1>3, <1>4 DEF Next

\* Continue is reported only of a run that started its whole snapshot or met a
\* pause, although the flags are read twice with no mutex between.
THEOREM ContinueIsWhole == Spec => []ContinueMeansAllStarted
<1>1. Init => \A r \in Run : VerdictInv(r)
  BY DEF Init, VerdictInv, Justified
<1>2. TypeOK /\ CompletionInv /\ (\A r \in Run : VerdictInv(r)) /\ [Next]_vars
        => (\A r \in Run : VerdictInv(r))'
  BY VerdictStep
<1>3. (\A r \in Run : VerdictInv(r)) => ContinueMeansAllStarted
  BY DEF VerdictInv, Whole, ContinueMeansAllStarted
<1>4. QED
  BY <1>1, <1>2, <1>3, TypeCorrect, CompletionCorrect, PTL DEF Spec

-----------------------------------------------------------------------------
(* execute() is one call stack. *)

\* An owner that has been called and has not returned.
Active(r, o) == pc[r][o] \notin {"idle", "done"}

\* All but the innermost call wait, each for one that has not returned.
Nested(r) ==
  \A a, b \in Owner : Active(r, a) /\ Active(r, b) /\ a < b =>
    pc[r][a] = "wait" /\ child[r][a] <= b /\ Active(r, child[r][a])

\* Where owners may be once a middleware has ended the pipeline.
Quiet == {"idle", "done", "wait", "afterNext", "completing", "finishing"}

\* The invariant of SyncStopsPipeline.
SyncInv(r) ==
  /\ mode[r] = "none" => ~halted[r]
  /\ mode[r] # "async" => detached[r] = {} /\ gtimer[r] = "null" /\ pc[r][0] # "entry"
  /\ mode[r] = "sync" => /\ Nested(r)
                         /\ halted[r] => \A a \in Owner : pc[r][a] \in Quiet

\* Owners are numbers, in the order in which they are called.
LEMMA OwnersInOrder == Owner \subseteq Nat /\ 0 .. MaxLen \subseteq Owner
  BY ChainAssumption DEF Owner, Global

\* The innermost call is the one that is not waiting, or whose callee has returned.
LEMMA Innermost ==
  ASSUME NEW r, Nested(r), NEW o \in Owner, Active(r, o),
         pc[r][o] # "wait" \/ ~Active(r, child[r][o])
  PROVE  /\ \A b \in Owner : Active(r, b) => b <= o
         /\ \A b \in Owner : Active(r, b) /\ b # o => pc[r][b] = "wait"
<1>1. ASSUME NEW b \in Owner, Active(r, b) PROVE b <= o /\ (b # o => pc[r][b] = "wait")
  <2>1. ~(o < b)
    BY <1>1 DEF Nested
  <2>2. b \in Nat /\ o \in Nat
    BY OwnersInOrder
  <2>3. b <= o /\ (b # o => b < o)
    BY <2>1, <2>2
  <2>4. b # o => pc[r][b] = "wait"
    BY <1>1, <2>3 DEF Nested
  <2>5. QED
    BY <2>3, <2>4
<1>2. QED
  BY <1>1

\* When the innermost call goes on or returns, the stack stays one.
LEMMA InnermostMoves ==
  ASSUME TypeOK, NEW r \in Run, SyncInv(r), mode[r] = "sync", mode'[r] = "sync",
         NEW o \in Owner, Active(r, o), pc[r][o] # "wait" \/ ~Active(r, child[r][o]),
         NEW to \in PC, to \notin {"idle", "entry"}, pc' = [pc EXCEPT ![r][o] = to],
         child' = child, detached'[r] = detached[r], gtimer'[r] = gtimer[r],
         halted'[r] => to \in Quiet
  PROVE  SyncInv(r)'
<1>0. Nested(r)
  BY DEF SyncInv
<1>1. /\ \A b \in Owner : Active(r, b) => b <= o
      /\ \A b \in Owner : Active(r, b) /\ b # o => pc[r][b] = "wait"
  BY <1>0, Innermost
<1>2. pc'[r][o] = to /\ \A p \in Owner : p # o => pc'[r][p] = pc[r][p]
  BY DEF TypeOK, CallsOK
<1>3. Nested(r)'
  <2> SUFFICES ASSUME NEW a \in Owner, NEW b \in Owner, Active(r, a)', Active(r, b)', a < b
               PROVE  pc'[r][a] = "wait" /\ child'[r][a] <= b /\ Active(r, child[r][a])'
    BY DEF Nested
  <2>1. Active(r, a) /\ Active(r, b) /\ a # o
    <3>1. Active(r, a) /\ Active(r, b)
      BY <1>2 DEF Active
    <3>2. b <= o /\ a \in Nat /\ b \in Nat /\ o \in Nat
      BY <1>1, <3>1, OwnersInOrder
    <3>3. QED
      BY <3>1, <3>2
  <2>2. pc[r][a] = "wait" /\ child[r][a] <= b /\ Active(r, child[r][a])
    BY <1>0, <2>1 DEF Nested
  <2>3. child[r][a] \in Owner
    BY OwnersInOrder DEF TypeOK, CallsOK
  <2>4. Active(r, child[r][a])'
    <3>1. CASE child[r][a] # o
      BY <1>2, <2>2, <2>3, <3>1 DEF Active
    <3>2. CASE child[r][a] = o
      <4>1. b = o
        <5>1. b <= o /\ o <= b /\ b \in Nat /\ o \in Nat
          BY <1>1, <2>1, <2>2, <3>2, OwnersInOrder
        <5>2. QED
          BY <5>1
      <4>2. QED
        BY <3>2, <4>1
    <3>3. QED
      BY <3>1, <3>2
  <2>5. QED
    BY <1>2, <2>1, <2>2, <2>4
<1>4. halted'[r] => \A a \in Owner : pc'[r][a] \in Quiet
  <2>1. \A a \in Owner : a # o => pc'[r][a] \in {"idle", "done", "wait"}
    BY <1>1, <1>2 DEF Active
  <2>2. QED
    BY <1>2, <2>1 DEF Quiet
<1>5. pc'[r][0] # "entry"
  BY <1>2, OwnerFacts DEF SyncInv
<1>6. QED
  BY <1>3, <1>4, <1>5 DEF SyncInv

\* When it calls the next middleware, that one is the innermost call.
LEMMA InnermostCalls ==
  ASSUME TypeOK, NEW r \in Run, RunInv(r), SyncInv(r), mode[r] = "sync", NEW o \in Owner, StepPops(r, o)
  PROVE  SyncInv(r)'
<1>0. Nested(r) /\ ~halted[r] /\ gtimer[r] = "null" /\ pc[r][0] # "entry" /\ pc[r][o] = "step"
  BY DEF SyncInv, StepPops, Quiet
<1>1. PICK c : c = cur[r] + 1 /\ c \in Index /\ c \in Owner /\ c \in Nat
  BY PoppedIndex, OwnerFacts, OwnersInOrder DEF StepPops, TypeOK
<1>2. /\ \A b \in Owner : Active(r, b) => b <= o
      /\ \A b \in Owner : Active(r, b) /\ b # o => pc[r][b] = "wait"
  BY <1>0, Innermost DEF Active
<1>3. \A b \in Owner : Active(r, b) => b < c
  <2> SUFFICES ASSUME NEW b \in Owner, Active(r, b) PROVE b < c
    OBVIOUS
  <2>1. b # Global
    BY <1>0 DEF RunInv, NotYetCalled, Active
  <2>2. b = 0 \/ (b \in Index /\ ~(b > cur[r]))
    BY <2>1, OwnerFacts DEF RunInv, NotYetCalled, Active
  <2>3. b \in Nat /\ cur[r] \in Nat
    BY OwnersInOrder DEF TypeOK, SnapshotOK
  <2>4. QED
    BY <1>1, <2>2, <2>3
<1>4. o < c /\ o # c
  <2>1. o < c /\ o \in Nat
    BY <1>0, <1>3, OwnersInOrder DEF Active
  <2>2. QED
    BY <1>1, <2>1
<1>5. /\ pc'[r][o] = "wait" /\ pc'[r][c] = "popped" /\ child'[r][o] = c
      /\ \A p \in Owner : p # o /\ p # c => pc'[r][p] = pc[r][p]
      /\ \A p \in Owner : p # o => child'[r][p] = child[r][p]
  BY <1>1, <1>4 DEF StepPops, TypeOK, CallsOK
<1>6. Nested(r)'
  <2> SUFFICES ASSUME NEW a \in Owner, NEW b \in Owner, Active(r, a)', Active(r, b)', a < b
               PROVE  pc'[r][a] = "wait" /\ child'[r][a] <= b /\ Active(r, child[r][a])'
    BY DEF Nested
  <2>0. a \in Nat /\ b \in Nat /\ o \in Nat
    BY OwnersInOrder
  <2>1. Active(r, o)
    BY <1>0 DEF Active
  <2>2. CASE a = o
    <3>1. b = c
      BY <1>2, <1>5, <2>0, <2>1, <2>2 DEF Active
    <3>2. QED
      BY <1>1, <1>5, <2>2, <3>1 DEF Active
  <2>3. CASE a = c
    <3>1. Active(r, b)
      BY <1>5, <1>4, <2>0, <2>1, <2>3 DEF Active
    <3>2. QED
      BY <1>1, <1>3, <2>0, <2>3, <3>1
  <2>4. CASE a # o /\ a # c
    <3>1. Active(r, a) /\ pc'[r][a] = pc[r][a] /\ child'[r][a] = child[r][a] /\ pc[r][a] = "wait"
      BY <1>2, <1>5, <2>4 DEF Active
    <3>2. a < o
      BY <1>2, <2>0, <2>4, <3>1
    <3>3. child[r][a] <= o /\ Active(r, child[r][a]) /\ child[r][a] \in Owner /\ child[r][a] \in Nat
      BY <1>0, <2>1, <3>1, <3>2, OwnersInOrder DEF Nested, TypeOK, CallsOK
    <3>4. Active(r, child[r][a])'
      BY <1>5, <3>1, <3>3 DEF Active
    <3>5. child[r][a] <= b
      <4>1. CASE b = c
        BY <1>1, <1>4, <2>0, <3>3, <4>1
      <4>2. CASE b # c
        BY <1>0, <1>5, <2>1, <3>1, <4>2 DEF Nested, Active
      <4>3. QED
        BY <4>1, <4>2
    <3>6. QED
      BY <3>1, <3>4, <3>5
  <2>5. QED
    BY <2>2, <2>3, <2>4
<1>7. mode' = mode /\ gtimer' = gtimer /\ detached' = detached /\ halted' = halted /\ pc'[r][0] # "entry"
  BY <1>0, <1>5, OwnerFacts DEF StepPops, snapshot, timers, history
<1>8. QED
  BY <1>0, <1>6, <1>7 DEF SyncInv

\* An owner's own step keeps the stack.
LEMMA SyncOwner ==
  ASSUME TypeOK, NEW r \in Run, RunInv(r), SyncInv(r), mode[r] = "sync", NEW o \in Owner, OwnerStep(r, o)
  PROVE  SyncInv(r)'
<1> USE DEF TypeOK, CallsOK
<1>0. /\ ret[r][o] \in PC /\ ret[r][o] \in Quiet /\ ret[r][o] \notin {"idle", "entry"}
      /\ gtimer[r] = "null" /\ detached[r] = {}
  BY DEF PC, Quiet, SyncInv
<1>1. CASE StepPops(r, o)
  BY <1>1, InnermostCalls
<1>2. CASE StepStops(r, o)
  <2>1. /\ pc[r][o] = "step" /\ pc' = [pc EXCEPT ![r][o] = ret[r][o]]
        /\ UNCHANGED <<mode, child, detached, gtimer, halted>>
    BY <1>2 DEF StepStops, snapshot, timers
  <2>2. QED
    BY <1>0, <2>1, InnermostMoves DEF Active
<1>3. CASE ReadVerdict(r, o)
  <2>1. /\ pc[r][o] = "stopping" /\ pc' = [pc EXCEPT ![r][o] = "completing"]
        /\ UNCHANGED <<mode, child, detached, gtimer, halted>>
    BY <1>3 DEF ReadVerdict, snapshot, timers, history
  <2>2. QED
    BY <2>1, InnermostMoves DEF Active, PC, Quiet
<1>4. CASE StepTimesOut(r, o)
  <2>1. /\ pc[r][o] = "step" /\ pc' = [pc EXCEPT ![r][o] = ret[r][o]]
        /\ UNCHANGED <<mode, child, detached, gtimer, halted>>
    BY <1>4 DEF StepTimesOut, snapshot, timers, history
  <2>2. QED
    BY <1>0, <2>1, InnermostMoves DEF Active
<1>5. CASE StepReturns(r, o)
  <2>1. /\ pc[r][o] = "wait" /\ pc[r][child[r][o]] = "done" /\ pc' = [pc EXCEPT ![r][o] = ret[r][o]]
        /\ UNCHANGED <<mode, child, detached, gtimer, halted>>
    BY <1>0, <1>5 DEF StepReturns, Returned, snapshot, timers, history
  <2>2. QED
    BY <1>0, <2>1, InnermostMoves DEF Active
<1>6. CASE TryFinishRun(r, o)
  <2>1. PICK to \in {"finishing", "done"} :
          /\ pc[r][o] = "completing" /\ pc' = [pc EXCEPT ![r][o] = to]
          /\ UNCHANGED <<mode, child, detached, gtimer, halted>>
    BY <1>6 DEF TryFinishRun, AfterCompletion, snapshot, timers, history
  <2>2. QED
    BY <2>1, InnermostMoves DEF Active, PC, Quiet
<1>7. CASE CompleteRun(r, o)
  <2>1. /\ pc[r][o] = "finishing" /\ pc' = [pc EXCEPT ![r][o] = "done"]
        /\ UNCHANGED <<mode, child, detached, halted>>
    BY <1>7 DEF CompleteRun, AfterCompletion, snapshot, history
  <2>2. gtimer'[r] = gtimer[r]
    BY <1>0, <1>7 DEF CompleteRun, CancelTimer, TimersOK
  <2>3. QED
    BY <2>1, <2>2, InnermostMoves DEF Active, PC, Quiet
<1>8. QED
  BY <1>1, <1>2, <1>3, <1>4, <1>5, <1>6, <1>7 DEF OwnerStep

\* So does a middleware's: one that goes on in the pipeline has not been halted, or
\* calls next() again and takes the halt back.
LEMMA SyncMiddleware ==
  ASSUME TypeOK, NEW r \in Run, SyncInv(r), mode[r] = "sync", NEW i \in Index,
         MiddlewareStep(r, i) \/ \E res \in Result : AsyncCallback(r, i, res)
  PROVE  SyncInv(r)'
<1>0. i \in Owner /\ RunsSync(r, i) /\ (halted[r] => pc[r][i] \in Quiet)
  BY OwnerFacts DEF RunsSync, SyncInv
<1>1. CASE SkipMiddleware(r, i)
  <2>1. /\ pc[r][i] = "popped" /\ pc' = [pc EXCEPT ![r][i] = "step"]
        /\ UNCHANGED <<mode, child, detached, gtimer, halted>>
    BY <1>1 DEF SkipMiddleware, snapshot, timers, history
  <2>2. ~halted'[r]
    BY <1>0, <2>1 DEF Quiet
  <2>3. QED
    BY <1>0, <2>1, <2>2, InnermostMoves DEF Active, PC
<1>2. CASE EnterBody(r, i) \/ StartWait(r, i)
  <2>1. /\ pc[r][i] \in {"popped", "arming"} /\ pc' = [pc EXCEPT ![r][i] = "body"]
        /\ UNCHANGED <<mode, child, detached, gtimer, halted>>
    BY <1>2 DEF EnterBody, StartWait, snapshot, timers, history
  <2>2. ~halted'[r]
    BY <1>0, <2>1 DEF Quiet
  <2>3. QED
    BY <1>0, <2>1, <2>2, InnermostMoves DEF Active, PC
<1>3. CASE CallNext(r, i)
  <2>1. /\ pc[r][i] \in {"body", "afterNext"} /\ pc' = [pc EXCEPT ![r][i] = "step"]
        /\ UNCHANGED <<mode, child, detached, gtimer>>
    BY <1>3 DEF CallNext, snapshot
  <2>2. halted'[r] => halted[r] /\ pc[r][i] = "body"
    BY <1>3, Zenon DEF CallNext, TypeOK, OutcomeOK
  <2>3. ~halted'[r]
    BY <1>0, <2>2 DEF Quiet
  <2>4. QED
    BY <1>0, <2>1, <2>3, InnermostMoves DEF Active, PC
<1>4. CASE SyncReturns(r, i) \/ SyncThrows(r, i)
  <2>1. /\ pc[r][i] \in {"body", "afterNext"} /\ pc' = [pc EXCEPT ![r][i] = "done"]
        /\ UNCHANGED <<mode, child, detached, gtimer>>
    BY <1>4 DEF SyncReturns, SyncThrows, snapshot
  <2>2. QED
    BY <1>0, <2>1, InnermostMoves DEF Active, PC, Quiet
<1>5. ~SetupMiddlewareTimeout(r, i)
  BY DEF SetupMiddlewareTimeout
<1>6. ~AsyncReturns(r, i) /\ ~AsyncThrows(r, i) /\ \A res : ~AsyncCallback(r, i, res)
  BY <1>0 DEF AsyncReturns, AsyncThrows, AsyncCallback
<1>7. QED
  BY <1>1, <1>2, <1>3, <1>4, <1>5, <1>6 DEF MiddlewareStep

\* SyncInv is kept by every step of the chain.
LEMMA SyncStep ==
  ASSUME TypeOK, CompletionInv, [Next]_vars, NEW q \in Run, SyncInv(q)
  PROVE  SyncInv(q)'
<1>0. RunInv(q)
  BY DEF CompletionInv
<1>1. ASSUME mode'[q] = mode[q], pc'[q] = pc[q], child'[q] = child[q], detached'[q] = detached[q],
             halted'[q] = halted[q], mode[q] # "async" => gtimer'[q] = gtimer[q]
      PROVE  SyncInv(q)'
  BY <1>1 DEF SyncInv, Nested, Active
<1>2. CASE ConfigStep \/ UNCHANGED vars \/ Cancel \/ Pause \/ Resume
  BY <1>1, <1>2, ConfigFrame DEF snapshot, timers, calls, history, vars, Cancel, Pause, Resume
<1>3. ASSUME NEW r \in Run, CancelRun(r) PROVE SyncInv(q)'
  <2>1. mode[q] # "async" => gtimer'[q] = gtimer[q]
    BY <1>3 DEF CancelRun, CancelTimer, SyncInv, TypeOK, TimersOK
  <2>2. QED
    BY <1>1, <1>3, <2>1 DEF CancelRun, snapshot, calls, history
<1>4. ASSUME NEW r \in Run, RunStep(r), r # q PROVE SyncInv(q)'
  BY <1>1, <1>4, OtherRun, OtherCalls
<1>5. ASSUME RunStep(q) PROVE SyncInv(q)'
  <2>1. CASE \E i \in Index : MiddlewareTimerExpires(q, i) \/ OnMiddlewareTimeout(q, i)
    BY <1>1, <2>1 DEF MiddlewareTimerExpires, OnMiddlewareTimeout, snapshot, timers, calls, history
  <2>2. CASE mode[q] = "async"
    <3>1. mode'[q] = "async"
      BY <2>2, RunGrows
    <3>2. QED
      BY <3>1 DEF SyncInv
  <2>3. CASE mode[q] = "sync"
    <3>1. gtimer[q] = "null" /\ pc[q][0] # "entry"
      BY <2>3 DEF SyncInv
    <3>2. ~EntryStep(q) /\ ~GlobalTimerExpires(q) /\ ~OnGlobalTimeout(q)
      BY <2>3, <3>1 DEF EntryStep, ExecuteAsyncEmpty, ExecuteAsync, Execute, TakeSnapshot, ArmGlobalTimer,
         GlobalTimerExpires, OnGlobalTimeout
    <3>3. QED
      BY <1>0, <1>5, <2>1, <2>3, <3>2, SyncOwner, SyncMiddleware DEF RunStep, TimerStep
  <2>4. CASE mode[q] = "none"
    <3>1. CASE ExecuteAsyncEmpty(q) \/ ExecuteAsync(q)
      <4>1. mode'[q] = "async"
        BY <3>1 DEF ExecuteAsyncEmpty, ExecuteAsync, TakeSnapshot, TypeOK, SnapshotOK
      <4>2. QED
        BY <4>1 DEF SyncInv
    <3>2. CASE Execute(q)
      <4>1. /\ mode'[q] = "sync" /\ UNCHANGED <<detached, gtimer, halted>> /\ 0 \in Owner
            /\ pc'[q][0] = "step" /\ \A o \in Owner : o # 0 => pc'[q][o] = pc[q][o]
        BY <3>2, OwnerFacts DEF Execute, TakeSnapshot, TypeOK, SnapshotOK, CallsOK, timers, history
      <4>2. \A o \in Owner : o # 0 => pc'[q][o] = "idle"
        BY <1>0, <2>4, <4>1 DEF RunInv, EmptyRun, TypeOK, SnapshotOK
      <4>3. Nested(q)'
        <5>1. \A o \in Owner : Active(q, o)' => o = 0
          BY <4>2 DEF Active
        <5>2. QED
          BY <5>1 DEF Nested
      <4>4. QED
        BY <2>4, <4>1, <4>3 DEF SyncInv
    <3>3. QED
      BY <1>0, <1>5, <2>1, <2>4, <3>1, <3>2, OnlyEntry
  <2>5. QED
    BY <2>2, <2>3, <2>4 DEF TypeOK, SnapshotOK
<1>6. QED
  BY <1>2, <1>3, <1>4, <1>5 DEF Next, ControlStep

\* Under execute(), nothing of the pipeline is started any more once a middleware
\* has returned without calling next(): the call that goes on is one that has
\* called next() before, and it starts nothing unless it calls it again.
THEOREM HaltStopsPipeline == Spec => SyncStopsPipeline
<1>1. Init => \A r \in Run : SyncInv(r)
  <2> SUFFICES ASSUME Init, NEW r \in Run PROVE SyncInv(r)
    OBVIOUS
  <2>1. /\ mode[r] = "none" /\ halted[r] = FALSE /\ detached[r] = {} /\ gtimer[r] = "null"
        /\ pc[r][0] = "idle"
    BY OwnerFacts DEF Init
  <2>2. QED
    BY <2>1 DEF SyncInv
<1>2. TypeOK /\ CompletionInv /\ (\A r \in Run : SyncInv(r)) /\ [Next]_vars
        => (\A r \in Run : SyncInv(r))'
  BY SyncStep
<1>3. ASSUME TypeOK, [Next]_vars, NEW q \in Run, SyncInv(q), mode[q] = "sync", halted[q]
      PROVE  cur'[q] = cur[q]
  <2>1. CASE UNCHANGED cur
    BY <2>1
  <2>2. CASE ConfigStep \/ ControlStep \/ UNCHANGED vars
    BY <2>1, <2>2, ConfigFrame, ControlFrame DEF vars
  <2>3. ASSUME NEW r \in Run, NEW o \in Owner, StepPops(r, o) PROVE cur'[q] = cur[q]
    <3>1. r # q
      BY <1>3, <2>3 DEF StepPops, SyncInv, Quiet
    <3>2. QED
      BY <2>3, <3>1 DEF StepPops, TypeOK, SnapshotOK
  <2>4. ASSUME NEW r \in Run, RunStep(r), ~\E o \in Owner : StepPops(r, o) PROVE UNCHANGED cur
    BY <2>4 DEF RunStep, EntryStep, TimerStep, OwnerStep, MiddlewareStep, AsyncCallback,
       ExecuteAsyncEmpty, ExecuteAsync, Execute, ArmGlobalTimer, GlobalTimerExpires, OnGlobalTimeout,
       MiddlewareTimerExpires, OnMiddlewareTimeout, StepStops, ReadVerdict, StepTimesOut,
       StepReturns, TryFinishRun, CompleteRun, SkipMiddleware, EnterBody, SetupMiddlewareTimeout,
       StartWait, CallNext, SyncReturns, SyncThrows, AsyncReturns, AsyncThrows
  <2>5. QED
    BY <1>3, <2>1, <2>2, <2>3, <2>4 DEF Next
<1>4. TypeOK /\ (\A r \in Run : SyncInv(r)) /\ [Next]_vars
        => [\A r \in Run : mode[r] = "sync" /\ halted[r] => cur'[r] = cur[r]]_vars
  BY <1>3
<1>5. QED
  BY <1>1, <1>2, <1>4, TypeCorrect, CompletionCorrect, PTL DEF Spec, SyncStopsPipeline

-----------------------------------------------------------------------------
(* The global timer enforces its deadline. *)

\* The handler of a middleware's timer has run: it marks the run as timed out, and
\* the handler of the global timer then leaves the run to its middlewares.
Overrun(r) == \E i \in Index : mtimer[r][i] = "handled"

\* The timer is about to be started, runs, or has expired; or its handler completes
\* the run.
Deadline(r) ==
  pc[r][0] = "entry" \/ gtimer[r] \in {"armed", "fired"} \/ pc[r][Global] = "completing"

\* A run with a global timer that was neither answered nor cancelled has its
\* deadline still before it or is being answered, unless a middleware's timer took
\* the deadline's place.
DeadlineStands ==
  \A r \in Run :
    mode[r] = "async" /\ timing[r] = "timer" /\ delivered[r] = 0 /\ ~cancelled[r] /\ ~Overrun(r) =>
      Deadline(r) \/ Finishing(r)

\* Only the global timer's own handler, or a middleware timer's, marks such a run.
\* Before the timer is started nobody else is called, and an index has no timer
\* before it was started.
TimerKept(r) ==
  /\ pipe[r] = <<>> => ~timed_out[r]
  /\ pc[r][0] = "entry" => \A o \in Owner : o # 0 => pc[r][o] = "idle"
  /\ \A i \in Index : /\ pc[r][i] \in {"idle", "popped"} => mtimer[r][i] = "null"
                      /\ pc[r][i] = "arming" => mtimer[r][i] = "created"

Enforced(r) ==
  mode[r] = "async" /\ timing[r] = "timer" /\ pipe[r] # <<>> =>
    /\ pc[r][0] = "entry" \/ gtimer[r] # "null"
    /\ ~Overrun(r) => /\ timed_out[r] => gtimer[r] = "handled"
                      /\ finished[r] \/ cancelled[r] \/ Deadline(r)

DeadlineInv(r) == TimerKept(r) /\ Enforced(r)

\* What a run's deadline depends on.
SameDeadline(r) ==
  /\ mode'[r] = mode[r] /\ pipe'[r] = pipe[r] /\ timing'[r] = timing[r] /\ timed_out'[r] = timed_out[r]
  /\ cancelled'[r] = cancelled[r] /\ finished'[r] = finished[r] /\ gtimer'[r] = gtimer[r]
  /\ mtimer'[r] = mtimer[r] /\ pc'[r] = pc[r]

\* A step that changes none of it keeps the invariant.
LEMMA DeadlineSame ==
  ASSUME NEW r \in Run, DeadlineInv(r), SameDeadline(r)
  PROVE  DeadlineInv(r)'
<1>1. TimerKept(r)'
  BY DEF DeadlineInv, TimerKept, SameDeadline
<1>2. Enforced(r)'
  BY DEF DeadlineInv, Enforced, SameDeadline, Overrun, Deadline
<1>3. QED
  BY <1>1, <1>2 DEF DeadlineInv

\* The timers of the indexes stay, or one that is armed is cancelled.
SlotsKept(r) ==
  \A i \in Index : mtimer'[r][i] = mtimer[r][i] \/ (mtimer[r][i] = "armed" /\ mtimer'[r][i] = "cancelled")

\* Cancelling the slot's timer is such a change.
LEMMA CancelKeepsSlots ==
  ASSUME TypeOK, NEW r \in Run, CancelSlot(r)
  PROVE  SlotsKept(r)
BY DEF TypeOK, TimersOK, CancelSlot, SlotsKept, CancelTimer

\* And so is leaving the timers alone.
LEMMA SameSlots ==
  ASSUME NEW r, mtimer' = mtimer
  PROVE  SlotsKept(r)
BY DEF SlotsKept

\* An owner that is under way moves on.
LEMMA CalledMoves ==
  ASSUME TypeOK, NEW r \in Run, RunInv(r), DeadlineInv(r), NEW o \in Owner, NEW to,
         pc[r][o] \notin {"idle", "entry"}, to \notin {"idle", "popped", "entry", "arming"},
         pc' = [pc EXCEPT ![r][o] = to], SlotsKept(r),
         pc[r][o] = "completing" => finished'[r],
         mode' = mode, pipe' = pipe, timing' = timing, timed_out' = timed_out, cancelled' = cancelled,
         finished[r] => finished'[r],
         gtimer'[r] = gtimer[r] \/ (finished'[r] /\ gtimer[r] = "armed" /\ gtimer'[r] = "cancelled")
  PROVE  DeadlineInv(r)'
<1>1. pc'[r][o] = to /\ \A p \in Owner : p # o => pc'[r][p] = pc[r][p]
  BY DEF TypeOK, CallsOK
<1>2. pc[r][0] # "entry" /\ pc'[r][0] # "entry"
  BY <1>1, OwnerFacts DEF DeadlineInv, TimerKept
<1>3. TimerKept(r)'
  <2>1. \A i \in Index : /\ pc'[r][i] \in {"idle", "popped"} => mtimer'[r][i] = "null"
                         /\ pc'[r][i] = "arming" => mtimer'[r][i] = "created"
    <3> SUFFICES ASSUME NEW i \in Index
                 PROVE  /\ pc'[r][i] \in {"idle", "popped"} => mtimer'[r][i] = "null"
                        /\ pc'[r][i] = "arming" => mtimer'[r][i] = "created"
      OBVIOUS
    <3>1. pc'[r][i] \in {"idle", "popped", "arming"} => pc'[r][i] = pc[r][i]
      BY <1>1, OwnerFacts
    <3>2. mtimer[r][i] # "armed" => mtimer'[r][i] = mtimer[r][i]
      BY DEF SlotsKept
    <3>3. QED
      BY <3>1, <3>2 DEF DeadlineInv, TimerKept
  <2>2. QED
    BY <1>2, <2>1 DEF DeadlineInv, TimerKept
<1>4. Enforced(r)'
  <2> SUFFICES ASSUME mode[r] = "async", timing[r] = "timer", pipe[r] # <<>>
               PROVE  /\ gtimer'[r] # "null"
                      /\ ~Overrun(r)' => /\ timed_out[r] => gtimer'[r] = "handled"
                                         /\ finished'[r] \/ cancelled[r] \/ Deadline(r)'
    BY DEF Enforced
  <2>1. gtimer[r] # "null" /\ gtimer'[r] # "null"
    BY <1>2 DEF DeadlineInv, Enforced
  <2>2. ~Overrun(r)' => ~Overrun(r)
    BY DEF Overrun, SlotsKept
  <2>3. ~Overrun(r) /\ timed_out[r] => gtimer'[r] = "handled"
    BY DEF DeadlineInv, Enforced
  <2>4. ~Overrun(r) => finished'[r] \/ cancelled[r] \/ Deadline(r)'
    <3>1. pc[r][Global] = "completing" => pc'[r][Global] = "completing" \/ finished'[r]
      BY <1>1, OwnerFacts
    <3>2. QED
      BY <1>2, <3>1 DEF DeadlineInv, Enforced, Deadline
  <2>5. QED
    BY <2>1, <2>2, <2>3, <2>4
<1>5. QED
  BY <1>3, <1>4 DEF DeadlineInv

\* A run begins with no timer and no mark.
LEMMA DeadlineBegins ==
  ASSUME TypeOK, NEW r \in Run, RunInv(r), DeadlineInv(r), ExecuteAsyncEmpty(r) \/ ExecuteAsync(r) \/ Execute(r)
  PROVE  DeadlineInv(r)'
<1>1. mode[r] = "none" /\ pipe[r] = <<>>
  BY DEF ExecuteAsyncEmpty, ExecuteAsync, Execute, TakeSnapshot, TypeOK, SnapshotOK
<1>2. (\A o \in Owner : pc[r][o] = "idle") /\ ~timed_out[r]
  BY <1>1 DEF RunInv, EmptyRun, DeadlineInv, TimerKept
<1>3. UNCHANGED <<timed_out, gtimer, mtimer>>
  BY DEF ExecuteAsyncEmpty, ExecuteAsync, Execute, flags, timers
<1>4. \A i \in Index : mtimer[r][i] = "null"
  BY <1>2, OwnerFacts DEF DeadlineInv, TimerKept
<1>5. \A o \in Owner : o # 0 => pc'[r][o] = "idle"
  BY <1>2 DEF ExecuteAsyncEmpty, ExecuteAsync, Execute, calls, TypeOK, CallsOK
<1>6. TimerKept(r)'
  BY <1>2, <1>3, <1>4, <1>5, OwnerFacts DEF TimerKept
<1>7. mode'[r] = "async" /\ pipe'[r] # <<>> => pc'[r][0] = "entry"
  BY OwnerFacts DEF ExecuteAsyncEmpty, ExecuteAsync, Execute, TakeSnapshot, TypeOK, CallsOK, SnapshotOK
<1>8. Enforced(r)'
  BY <1>2, <1>3, <1>7 DEF Enforced, Deadline
<1>9. QED
  BY <1>6, <1>8 DEF DeadlineInv

\* The timer is started before the first step.
LEMMA DeadlineStarts ==
  ASSUME TypeOK, NEW r \in Run, RunInv(r), DeadlineInv(r), ArmGlobalTimer(r)
  PROVE  DeadlineInv(r)'
<1>1. /\ pc[r][0] = "entry" /\ pc'[r][0] = "step" /\ \A o \in Owner : o # 0 => pc'[r][o] = pc[r][o]
  BY OwnerFacts DEF ArmGlobalTimer, TypeOK, CallsOK
<1>2. /\ UNCHANGED <<mode, pipe, timing, timed_out, cancelled, finished, mtimer>>
      /\ timing[r] = "timer" => gtimer'[r] = "armed"
  BY DEF ArmGlobalTimer, snapshot, flags, TypeOK, TimersOK
<1>3. gtimer[r] = "null"
  BY <1>1 DEF RunInv, NotYetCalled
<1>4. TimerKept(r)'
  BY <1>1, <1>2, OwnerFacts DEF DeadlineInv, TimerKept
<1>5. Enforced(r)'
  <2>1. Overrun(r)' = Overrun(r)
    BY <1>2 DEF Overrun
  <2>2. QED
    BY <1>1, <1>2, <1>3, <2>1 DEF DeadlineInv, Enforced, Deadline
<1>6. QED
  BY <1>4, <1>5 DEF DeadlineInv

\* The timers expire and their handlers run.
LEMMA DeadlineTimers ==
  ASSUME TypeOK, NEW r \in Run, RunInv(r), DeadlineInv(r), TimerStep(r)
  PROVE  DeadlineInv(r)'
<1> USE DEF snapshot, flags, calls, DeadlineInv
<1>1. CASE GlobalTimerExpires(r)
  <2>1. /\ UNCHANGED <<mode, pipe, timing, timed_out, cancelled, finished, mtimer, pc>>
        /\ gtimer[r] = "armed" /\ gtimer'[r] = "fired"
    BY <1>1 DEF GlobalTimerExpires, TypeOK, TimersOK
  <2>2. TimerKept(r)'
    BY <2>1 DEF TimerKept
  <2>3. Enforced(r)'
    <3>1. Overrun(r)' = Overrun(r)
      BY <2>1 DEF Overrun
    <3>2. QED
      BY <2>1, <3>1 DEF Enforced, Deadline
  <2>4. QED
    BY <2>2, <2>3
<1>2. CASE OnGlobalTimeout(r)
  <2>1. /\ UNCHANGED <<mode, pipe, timing, cancelled, finished, mtimer>>
        /\ gtimer[r] = "fired" /\ gtimer'[r] = "handled"
    BY <1>2 DEF OnGlobalTimeout, TypeOK, TimersOK
  <2>2. pc[r][0] # "entry" /\ pipe[r] # <<>>
    BY <2>1 DEF RunInv, NotYetCalled, EmptyRun
  <2>3. (\A o \in Owner : o # Global => pc'[r][o] = pc[r][o]) /\ pc'[r][0] = pc[r][0]
    BY <1>2, OwnerFacts DEF OnGlobalTimeout, TypeOK, CallsOK
  <2>4. TimerKept(r)'
    BY <2>1, <2>2, <2>3, OwnerFacts DEF TimerKept
  <2>5. Enforced(r)'
    <3>1. Overrun(r)' = Overrun(r)
      BY <2>1 DEF Overrun
    <3> SUFFICES ASSUME mode[r] = "async", timing[r] = "timer", ~Overrun(r), ~finished[r]
                 PROVE  pc'[r][Global] = "completing"
      BY <2>1, <3>1 DEF Enforced, Deadline
    <3>2. ~timed_out[r]
      BY <2>1, <2>2 DEF Enforced
    <3>3. Alive(r)
      BY <2>2 DEF Alive, RunInv, OneFinisher
    <3>4. pc' = [pc EXCEPT ![r][Global] = "completing"]
      BY <1>2, <3>2, <3>3 DEF OnGlobalTimeout
    <3>5. QED
      BY <3>4, OwnerFacts DEF TypeOK, CallsOK
  <2>6. QED
    BY <2>4, <2>5
<1>3. ASSUME NEW i \in Index, MiddlewareTimerExpires(r, i) PROVE DeadlineInv(r)'
  <2>1. /\ UNCHANGED <<mode, pipe, timing, timed_out, cancelled, finished, gtimer, pc>>
        /\ mtimer[r][i] = "armed" /\ mtimer'[r][i] = "fired" /\ \A j \in Index : j # i => mtimer'[r][j] = mtimer[r][j]
    BY <1>3 DEF MiddlewareTimerExpires, TypeOK, TimersOK
  <2>2. TimerKept(r)'
    BY <2>1 DEF TimerKept
  <2>3. Enforced(r)'
    <3>1. Overrun(r)' = Overrun(r)
      BY <2>1 DEF Overrun
    <3>2. QED
      BY <2>1, <3>1 DEF Enforced, Deadline
  <2>4. QED
    BY <2>2, <2>3
<1>4. ASSUME NEW i \in Index, OnMiddlewareTimeout(r, i) PROVE DeadlineInv(r)'
  <2>1. /\ UNCHANGED <<mode, pipe, timing, cancelled, finished, gtimer, pc>>
        /\ mtimer[r][i] = "fired" /\ mtimer'[r][i] = "handled" /\ \A j \in Index : j # i => mtimer'[r][j] = mtimer[r][j]
    BY <1>4 DEF OnMiddlewareTimeout, TypeOK, TimersOK
  <2>2. pipe[r] # <<>>
    BY <2>1, OwnerFacts DEF TimerKept, RunInv, EmptyRun
  <2>3. TimerKept(r)'
    BY <2>1, <2>2 DEF TimerKept
  <2>4. Overrun(r)'
    BY <2>1 DEF Overrun
  <2>5. Enforced(r)'
    BY <2>1, <2>4 DEF Enforced
  <2>6. QED
    BY <2>3, <2>5
<1>5. QED
  BY <1>1, <1>2, <1>3, <1>4 DEF TimerStep

\* The steps, and whoever completes the run.
LEMMA DeadlineOwner ==
  ASSUME TypeOK, NEW r \in Run, RunInv(r), DeadlineInv(r), NEW o \in Owner, OwnerStep(r, o)
  PROVE  DeadlineInv(r)'
<1> USE DEF snapshot, flags, timers
<1>0. /\ ret[r][o] \notin {"idle", "popped", "entry", "arming"}
      /\ AfterCompletion(r, o) \notin {"idle", "popped", "entry", "arming"}
  BY DEF TypeOK, CallsOK, AfterCompletion
<1>1. CASE StepStops(r, o) \/ ReadVerdict(r, o) \/ StepReturns(r, o)
  <2>1. PICK to : pc' = [pc EXCEPT ![r][o] = to] /\ to \notin {"idle", "popped", "entry", "arming"}
    BY <1>0, <1>1 DEF StepStops, ReadVerdict, StepReturns
  <2>2. pc[r][o] \in {"step", "stopping", "wait"} /\ UNCHANGED <<mode, pipe, timing, flags, timers>>
    BY <1>1 DEF StepStops, ReadVerdict, StepReturns
  <2>3. QED
    BY <2>1, <2>2, SameSlots, CalledMoves
<1>2. CASE StepTimesOut(r, o)
  <2>1. /\ pc[r][o] = "step" /\ gtimer[r] = "null"
        /\ UNCHANGED <<mode, pipe, timing, cancelled, finished, gtimer, mtimer>>
    BY <1>2 DEF StepTimesOut
  <2>2. PICK to : pc' = [pc EXCEPT ![r][o] = to] /\ to \notin {"idle", "popped", "entry", "arming"}
    <3> DEFINE at == IF mode[r] = "async" THEN "completing" ELSE ret[r][o]
    <3>1. pc' = [pc EXCEPT ![r][o] = at]
      BY <1>2 DEF StepTimesOut
    <3>2. at \notin {"idle", "popped", "entry", "arming"}
      BY <1>0
    <3> HIDE DEF at
    <3>3. QED
      BY <3>1, <3>2
  <2>3. pc'[r][o] = to /\ \A p \in Owner : p # o => pc'[r][p] = pc[r][p]
    BY <2>2 DEF TypeOK, CallsOK
  <2>4. pc[r][0] # "entry" /\ pc'[r][0] # "entry" /\ pipe[r] # <<>>
    BY <2>1, <2>2, <2>3, OwnerFacts DEF DeadlineInv, TimerKept, RunInv, EmptyRun
  \* With a timer it would be there by now, so this run has none.
  <2>5. ~(mode[r] = "async" /\ timing[r] = "timer")
    BY <2>1, <2>4 DEF DeadlineInv, Enforced
  <2>6. TimerKept(r)'
    BY <2>1, <2>2, <2>3, <2>4, OwnerFacts DEF DeadlineInv, TimerKept
  <2>7. QED
    BY <2>1, <2>5, <2>6 DEF DeadlineInv, Enforced
<1>3. CASE StepPops(r, o)
  <2> DEFINE n == cur[r] + 1
  <2>1. n \in Index
    BY <1>3, PoppedIndex DEF StepPops, TypeOK
  <2>2. pc[r][n] = "idle" /\ pc[r][o] = "step"
    BY <1>3, <2>1 DEF StepPops, RunInv, NotYetCalled, TypeOK, SnapshotOK, Index
  <2>3. pc' = [pc EXCEPT ![r][o] = "wait", ![r][n] = "popped"] /\ UNCHANGED <<mode, pipe, timing, flags, timers>>
    BY <1>3 DEF StepPops
  <2> HIDE DEF n
  <2>4. pc'[r][o] = "wait" /\ pc'[r][n] = "popped" /\ \A p \in Owner : p # o /\ p # n => pc'[r][p] = pc[r][p]
    BY <2>1, <2>2, <2>3, OwnerFacts DEF TypeOK, CallsOK
  <2>5. pc[r][0] # "entry" /\ pc'[r][0] # "entry"
    BY <2>1, <2>2, <2>4, OwnerFacts DEF DeadlineInv, TimerKept
  <2>6. TimerKept(r)'
    BY <2>1, <2>2, <2>3, <2>4, <2>5, OwnerFacts DEF DeadlineInv, TimerKept
  <2>7. Enforced(r)'
    <3>1. Overrun(r)' = Overrun(r)
      BY <2>3 DEF Overrun
    <3>2. pc[r][Global] = "completing" => pc'[r][Global] = "completing"
      BY <2>1, <2>2, <2>4, OwnerFacts
    <3>3. QED
      BY <2>3, <2>5, <3>1, <3>2 DEF DeadlineInv, Enforced, Deadline
  <2>8. QED
    BY <2>6, <2>7 DEF DeadlineInv
<1>4. CASE TryFinishRun(r, o)
  <2>1. PICK to : pc' = [pc EXCEPT ![r][o] = to] /\ to \notin {"idle", "popped", "entry", "arming"}
    <3> DEFINE at == IF finished[r] THEN AfterCompletion(r, o) ELSE "finishing"
    <3>1. pc' = [pc EXCEPT ![r][o] = at]
      BY <1>4 DEF TryFinishRun
    <3>2. at \notin {"idle", "popped", "entry", "arming"}
      BY <1>0
    <3> HIDE DEF at
    <3>3. QED
      BY <3>1, <3>2
  <2>2. pc[r][o] = "completing" /\ finished'[r] /\ UNCHANGED <<mode, pipe, timing, timed_out, cancelled, timers>>
    BY <1>4 DEF TryFinishRun, TypeOK, FlagsOK
  <2>3. QED
    BY <2>1, <2>2, SameSlots, CalledMoves
<1>5. CASE CompleteRun(r, o)
  <2>1. pc[r][o] = "finishing" /\ finished[r]
    BY <1>5 DEF CompleteRun, RunInv, OneFinisher, Finishing
  <2>2. /\ pc' = [pc EXCEPT ![r][o] = AfterCompletion(r, o)] /\ UNCHANGED <<mode, pipe, timing, flags>>
        /\ gtimer'[r] = CancelTimer(gtimer[r]) /\ CancelSlot(r)
    BY <1>5 DEF CompleteRun, TypeOK, TimersOK
  <2>3. SlotsKept(r)
    BY <2>2, CancelKeepsSlots
  <2>4. gtimer'[r] = gtimer[r] \/ (gtimer[r] = "armed" /\ gtimer'[r] = "cancelled")
    BY <2>2 DEF CancelTimer
  <2>5. QED
    BY <1>0, <2>1, <2>2, <2>3, <2>4, CalledMoves
<1>6. QED
  BY <1>1, <1>2, <1>3, <1>4, <1>5 DEF OwnerStep

\* The middlewares.
LEMMA DeadlineMiddleware ==
  ASSUME TypeOK, NEW r \in Run, RunInv(r), DeadlineInv(r), NEW i \in Index,
         MiddlewareStep(r, i) \/ \E res \in Result : AsyncCallback(r, i, res)
  PROVE  DeadlineInv(r)'
<1> USE DEF snapshot, flags
<1>0. i \in Owner /\ i # 0 /\ i # Global
  BY OwnerFacts
<1>1. CASE SkipMiddleware(r, i) \/ EnterBody(r, i) \/ AsyncReturns(r, i) \/ AsyncThrows(r, i)
  <2>1. PICK to : pc' = [pc EXCEPT ![r][i] = to] /\ to \notin {"idle", "popped", "entry", "arming"}
    BY <1>1 DEF SkipMiddleware, EnterBody, AsyncReturns, AsyncThrows
  <2>2. pc[r][i] \in {"popped", "body"} /\ UNCHANGED <<mode, pipe, timing, flags, gtimer, mtimer>>
    BY <1>1 DEF SkipMiddleware, EnterBody, AsyncReturns, AsyncThrows, timers
  <2>3. QED
    BY <1>0, <2>1, <2>2, SameSlots, CalledMoves
<1>2. CASE CallNext(r, i) \/ SyncReturns(r, i) \/ SyncThrows(r, i) \/ \E res \in Result : AsyncCallback(r, i, res)
  <2>1. PICK to : pc' = [pc EXCEPT ![r][i] = to] /\ to \notin {"idle", "popped", "entry", "arming"}
    <3>1. CASE CallNext(r, i) \/ SyncReturns(r, i) \/ SyncThrows(r, i)
      BY <1>2, <3>1 DEF CallNext, SyncReturns, SyncThrows
    <3>2. ASSUME NEW res \in Result, AsyncCallback(r, i, res)
          PROVE  \E to : pc' = [pc EXCEPT ![r][i] = to] /\ to \notin {"idle", "popped", "entry", "arming"}
      <4> DEFINE at == IF res = "Continue" THEN "step" ELSE "completing"
      <4>1. pc' = [pc EXCEPT ![r][i] = at]
        BY <3>2 DEF AsyncCallback
      <4>2. at \notin {"idle", "popped", "entry", "arming"}
        OBVIOUS
      <4> HIDE DEF at
      <4>3. QED
        BY <4>1, <4>2
    <3>3. QED
      BY <1>2, <3>1, <3>2
  <2>2. pc[r][i] \in {"body", "afterNext", "pending"} /\ UNCHANGED <<mode, pipe, timing, flags, gtimer>>
    BY <1>2 DEF CallNext, SyncReturns, SyncThrows, AsyncCallback
  <2>3. SlotsKept(r)
    <3>1. CancelSlot(r) \/ mtimer' = mtimer
      BY <1>2 DEF CallNext, SyncReturns, SyncThrows, AsyncCallback, ResetSlot
    <3>2. QED
      BY <3>1, CancelKeepsSlots, SameSlots
  <2>4. QED
    BY <1>0, <2>1, <2>2, <2>3, CalledMoves
\* A timer is created for an index that had none, and started.
<1>3. CASE SetupMiddlewareTimeout(r, i) \/ StartWait(r, i)
  <2>1. /\ UNCHANGED <<mode, pipe, timing, flags, gtimer>>
        /\ pc[r][i] \in {"popped", "arming"} /\ pc'[r][i] \in {"arming", "body"}
        /\ \A p \in Owner : p # i => pc'[r][p] = pc[r][p]
    BY <1>0, <1>3 DEF SetupMiddlewareTimeout, StartWait, TypeOK, CallsOK
  <2>2. /\ \A j \in Index : j # i => mtimer'[r][j] = mtimer[r][j] \/ (mtimer[r][j] = "armed" /\ mtimer'[r][j] = "cancelled")
        /\ mtimer'[r][i] # "handled" /\ (pc'[r][i] = "arming" => mtimer'[r][i] = "created")
    <3>1. CASE SetupMiddlewareTimeout(r, i)
      BY <3>1 DEF SetupMiddlewareTimeout, CancelTimer, TypeOK, TimersOK
    <3>2. CASE StartWait(r, i)
      BY <1>0, <3>2 DEF StartWait, TypeOK, TimersOK, CallsOK
    <3>3. QED
      BY <1>3, <3>1, <3>2
  <2>3. mtimer[r][i] \in {"null", "created"}
    BY <2>1 DEF DeadlineInv, TimerKept
  <2>4. pc[r][0] # "entry" /\ pc'[r][0] # "entry"
    BY <1>0, <2>1, OwnerFacts DEF DeadlineInv, TimerKept
  <2>5. TimerKept(r)'
    <3>1. \A j \in Index : j # i => pc'[r][j] = pc[r][j]
      BY <2>1, OwnerFacts
    <3>2. QED
      BY <2>1, <2>2, <2>4, <3>1 DEF DeadlineInv, TimerKept
  <2>6. Enforced(r)'
    <3>1. Overrun(r)' = Overrun(r)
      BY <2>2, <2>3 DEF Overrun
    <3>2. pc'[r][Global] = pc[r][Global]
      BY <1>0, <2>1, OwnerFacts
    <3>3. QED
      BY <2>1, <2>4, <3>1, <3>2 DEF DeadlineInv, Enforced, Deadline
  <2>7. QED
    BY <2>5, <2>6 DEF DeadlineInv
<1>4. QED
  BY <1>1, <1>2, <1>3 DEF MiddlewareStep

\* A step of one run leaves the deadlines of the others alone.
LEMMA OtherDeadline ==
  ASSUME TypeOK, NEW r \in Run, NEW q \in Run, q # r, RunStep(r)
  PROVE  SameDeadline(q)
<1> USE DEF TypeOK, SnapshotOK, FlagsOK, TimersOK, snapshot, flags, timers
<1>1. /\ mode'[q] = mode[q] /\ pipe'[q] = pipe[q] /\ finished'[q] = finished[q]
      /\ gtimer'[q] = gtimer[q] /\ pc'[q] = pc[q]
  BY OtherRun
<1>2. CASE EntryStep(r)
  <2>1. UNCHANGED <<timed_out, cancelled, mtimer>> /\ timing'[q] = timing[q]
    BY <1>2 DEF EntryStep, ExecuteAsyncEmpty, ExecuteAsync, Execute, ArmGlobalTimer, TakeSnapshot
  <2>2. QED
    BY <1>1, <2>1 DEF SameDeadline
<1>3. CASE TimerStep(r)
  <2>1. UNCHANGED <<timing, cancelled>> /\ timed_out'[q] = timed_out[q] /\ mtimer'[q] = mtimer[q]
    BY <1>3 DEF TimerStep, GlobalTimerExpires, OnGlobalTimeout, MiddlewareTimerExpires, OnMiddlewareTimeout
  <2>2. QED
    BY <1>1, <2>1 DEF SameDeadline
<1>4. ASSUME NEW o \in Owner, OwnerStep(r, o) PROVE SameDeadline(q)
  <2>1. UNCHANGED <<timing, cancelled>> /\ timed_out'[q] = timed_out[q] /\ mtimer'[q] = mtimer[q]
    BY <1>4 DEF OwnerStep, StepStops, ReadVerdict, StepTimesOut, StepPops, StepReturns, TryFinishRun, CompleteRun, CancelSlot
  <2>2. QED
    BY <1>1, <2>1 DEF SameDeadline
<1>5. ASSUME NEW i \in Index, MiddlewareStep(r, i) \/ \E res \in Result : AsyncCallback(r, i, res) PROVE SameDeadline(q)
  <2>1. UNCHANGED <<timing, cancelled, timed_out>> /\ mtimer'[q] = mtimer[q]
    BY <1>5 DEF MiddlewareStep, SkipMiddleware, EnterBody, SetupMiddlewareTimeout, StartWait,
       CallNext, SyncReturns, SyncThrows, AsyncReturns, AsyncThrows, AsyncCallback, ResetSlot, CancelSlot
  <2>2. QED
    BY <1>1, <2>1 DEF SameDeadline
<1>6. QED
  BY <1>2, <1>3, <1>4, <1>5 DEF RunStep

\* Every step of the chain keeps every run's deadline.
LEMMA DeadlineStep ==
  ASSUME TypeOK, CompletionInv, [Next]_vars, NEW q \in Run, DeadlineInv(q)
  PROVE  DeadlineInv(q)'
<1>0. RunInv(q)
  BY DEF CompletionInv
<1> USE DEF control, snapshot, flags, timers, calls
<1>1. CASE UNCHANGED <<snapshot, flags, timers, calls>>
  <2>1. SameDeadline(q)
    BY <1>1 DEF SameDeadline
  <2>2. QED
    BY <2>1, DeadlineSame
<1>2. ASSUME NEW r \in Run, RunStep(r) PROVE DeadlineInv(q)'
  <2>1. CASE q # r
    BY <1>2, <2>1, OtherDeadline, DeadlineSame
  <2>2. CASE q = r
    BY <1>0, <1>2, <2>2, DeadlineBegins, DeadlineStarts, DeadlineTimers, DeadlineOwner, DeadlineMiddleware
       DEF RunStep, EntryStep
  <2>3. QED
    BY <2>1, <2>2
<1>3. ASSUME NEW r \in Run, CancelRun(r) PROVE DeadlineInv(q)'
  <2>1. UNCHANGED <<mode, pipe, timing, timed_out, finished, pc>>
    BY <1>3 DEF CancelRun
  <2>2. CASE q # r
    <3>1. cancelled'[q] = cancelled[q] /\ gtimer'[q] = gtimer[q] /\ mtimer'[q] = mtimer[q]
      BY <1>3, <2>2 DEF CancelRun, CancelSlot, TypeOK, FlagsOK, TimersOK
    <3>2. QED
      BY <2>1, <3>1, DeadlineSame DEF SameDeadline
  <2>3. CASE q = r
    <3>1. cancelled'[q] /\ gtimer'[q] = CancelTimer(gtimer[q])
      BY <1>3, <2>3 DEF CancelRun, TypeOK, FlagsOK, TimersOK
    <3>2. SlotsKept(q)
      BY <1>3, <2>3, CancelKeepsSlots DEF CancelRun
    <3>3. TimerKept(q)'
      BY <2>1, <3>2 DEF DeadlineInv, TimerKept, SlotsKept
    <3>4. Overrun(q)' = Overrun(q)
      BY <3>2 DEF Overrun, SlotsKept
    <3>5. Enforced(q)'
      BY <2>1, <3>1, <3>4 DEF DeadlineInv, Enforced, CancelTimer
    <3>6. QED
      BY <3>3, <3>5 DEF DeadlineInv
  <2>4. QED
    BY <2>2, <2>3
<1>4. CASE ControlStep
  BY <1>1, <1>3, <1>4 DEF ControlStep, Cancel, Pause, Resume
<1>5. CASE ConfigStep \/ UNCHANGED vars
  BY <1>1, <1>5, ConfigFrame DEF vars
<1>6. QED
  BY <1>2, <1>4, <1>5 DEF Next

\* The global timer is not lost: until the run is answered or cancelled it is armed,
\* or its handler is on its way to complete the run, whatever the middlewares, the
\* other runs and the registry do (execute_async, complete_async_run).  This is the
\* safety half of EveryRunCompletes.
THEOREM DeadlineIsKept == Spec => []DeadlineStands
<1> DEFINE Inv == \A r \in Run : DeadlineInv(r)
<1>1. Init => Inv
  BY OwnerFacts DEF Init, DeadlineInv, TimerKept, Enforced
<1>2. TypeOK /\ CompletionInv /\ Inv /\ [Next]_vars => Inv'
  BY DeadlineStep
<1>3. TypeOK /\ CompletionInv /\ Inv => DeadlineStands
  <2> SUFFICES ASSUME TypeOK, CompletionInv, Inv, NEW r \in Run, mode[r] = "async", timing[r] = "timer",
                      delivered[r] = 0, ~cancelled[r], ~Overrun(r), ~Finishing(r)
               PROVE  Deadline(r)
    BY DEF DeadlineStands
  <2>1. RunInv(r) /\ DeadlineInv(r)
    BY DEF CompletionInv
  <2>2. pipe[r] # <<>> /\ ~finished[r]
    BY <2>1 DEF RunInv, EmptyRun, OneFinisher
  <2>3. QED
    BY <2>1, <2>2 DEF DeadlineInv, Enforced
<1> HIDE DEF Inv
<1>4. QED
  BY <1>1, <1>2, <1>3, TypeCorrect, CompletionCorrect, PTL DEF Spec
=============================================================================
