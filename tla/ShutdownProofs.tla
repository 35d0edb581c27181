--------------------------- MODULE ShutdownProofs ---------------------------
(***************************************************************************)
(* Proofs about Shutdown, for every size of the pool, every set of clients *)
(* and any number of signals and failing accepts.                          *)
(***************************************************************************)
EXTENDS Shutdown, TLAPS

\* BlocksUntilStopped says nothing of what makes a thread leave.  Before stop()
\* every context has its work guard and none is stopped; and a caller that gets
\* to the guards or beyond has set stopped_ before.
StopInv ==
  /\ stopper \in [Caller -> {"idle", "flag", "close", "closed", "pool", "guard", "halt", "over"}]
  /\ \A s \in Caller : stopper[s] \in {"guard", "halt"} => poolStopped
  /\ ~poolStopped => guard = Ctx /\ halted = {}
  /\ BlocksUntilStopped

\* What none of the server's, the clients' and the signals' steps does.
LEMMA OutsideThePool ==
  ASSUME StopInv, UNCHANGED poolVars,
         \/ UNCHANGED stopper
         \/ \E s \in Caller, to \in {"flag", "close", "closed", "pool"} :
              stopper' = [stopper EXCEPT ![s] = to]
  PROVE  StopInv'
  BY DEF StopInv, BlocksUntilStopped, poolVars

\* Every step keeps StopInv.
LEMMA StopInvStep == StopInv /\ [ShutdownNext]_shutdownVars => StopInv'
<1> SUFFICES ASSUME StopInv, [ShutdownNext]_shutdownVars PROVE StopInv'
  OBVIOUS
<1>1. CASE AcceptFails \/ LoopStep
  BY <1>1, OutsideThePool DEF AcceptFails, LoopStep, LoopStarts, LoopCheck, LoopAccept,
     AcceptCompletes, LoopResumes, LoopVerify, StartSession
<1>2. ASSUME NEW k \in Client, Connect(k) \/ SendRequest(k) \/ Disconnect(k) \/ SessionStep(k)
      PROVE  StopInv'
  BY <1>2, OutsideThePool DEF Connect, SendRequest, Disconnect, SessionStep, Handle, HandlerReturns,
     Answer, Becomes
<1>3. CASE SignalStep \/ StartSignals \/ StopSignals \/ Raise
  BY <1>3, OutsideThePool DEF SignalStep, Deliver, OnSignal, OnSignalError, OnHandled, Rearm,
     StartSignals, StopSignals, Raise, Caller
<1>4. CASE CallStop \/ CallPoolStop
  BY <1>4, OutsideThePool DEF CallStop, CallPoolStop, At, Caller
<1>5. ASSUME NEW s \in Caller, SetStopping(s) \/ CloseAcceptor(s)
      PROVE  StopInv'
  BY <1>5, OutsideThePool DEF SetStopping, CloseAcceptor, At
<1>6. ASSUME NEW s \in Caller, PoolStop(s) \/ ResetGuards(s) \/ HaltContext(s)
      PROVE  StopInv'
  <2>1. poolStopped'
    BY <1>6 DEF PoolStop, ResetGuards, HaltContext, At, StopInv
  <2>2. QED
    BY <1>6, <2>1 DEF PoolStop, ResetGuards, HaltContext, At, StopInv, BlocksUntilStopped
<1>7. CASE RunBlocking
  BY <1>7 DEF RunBlocking, StopInv, BlocksUntilStopped
<1>8. ASSUME NEW c \in Ctx, SpawnThread(c)
      PROVE  StopInv'
  BY <1>8 DEF SpawnThread, StopInv, BlocksUntilStopped
<1>9. CASE Joined
  \* There is a context, and it is gone only after stop().
  <2>1. Listen \in Ctx
    BY ShutdownAssumption DEF Listen, Ctx
  <2>2. poolStopped
    BY <1>9, <2>1 DEF Joined, StopInv, BlocksUntilStopped
  <2>3. QED
    BY <1>9, <2>2 DEF Joined, StopInv, BlocksUntilStopped
<1>10. ASSUME NEW c \in Ctx, ThreadExits(c)
       PROVE  StopInv'
  <2>1. poolStopped
    BY <1>10 DEF ThreadExits, HasWork, StopInv
  <2>2. QED
    BY <1>10, <2>1 DEF ThreadExits, StopInv, BlocksUntilStopped
<1>11. CASE UNCHANGED shutdownVars
  BY <1>11, OutsideThePool DEF shutdownVars, poolVars
<1>12. QED
  BY <1>1, <1>2, <1>3, <1>4, <1>5, <1>6, <1>7, <1>8, <1>9, <1>10, <1>11
     DEF ShutdownNext, RunnerStep, StopStep

\* run_blocking does not return and no thread of the pool ends before stop():
\* the work guards keep every context running, whatever the server, its clients
\* and the signals do.
THEOREM RunBlockingBlocks == ShutdownSpec => []BlocksUntilStopped
<1>1. ShutdownInit => StopInv
  BY DEF ShutdownInit, StopInv, BlocksUntilStopped
<1>2. StopInv => BlocksUntilStopped
  BY DEF StopInv
<1>3. QED
  BY <1>1, <1>2, StopInvStep, PTL DEF ShutdownSpec

\* Once stop() of the server has closed the acceptor, no accept is outstanding that
\* nothing would complete, and the loop will see the flag.
LoopIsReleased == ~open => stopping /\ loop # "waiting"

\* Once stop() of the pool has begun, one of its callers goes on with it until no
\* context has a guard and every one is stopped.  A caller that finds stopped_ set
\* returns at once and may rely on the other, even if it is a signal's handler.
StopGoesOn ==
  poolStopped => \/ guard = {} /\ halted = Ctx
                 \/ \E s \in Caller : stopper[s] \in {"guard", "halt"}

\* A signal's handler is not entered again before its stop() has returned, the flag
\* is set before the acceptor is closed, and the guards before the contexts.
CallerInv ==
  /\ stopper \in [Caller -> {"idle", "flag", "close", "closed", "pool", "guard", "halt", "over"}]
  /\ stopper["handler"] \in {"idle", "over"} \/ sig = "handling"
  /\ \A s \in Caller : stopper[s] = "close" => stopping
  /\ \A s \in Caller : stopper[s] = "halt" => guard = {}

StopDriven == CallerInv /\ LoopIsReleased /\ StopGoesOn

\* A caller of stop() that is not yet at the pool moves on.
LEMMA CallerMoves ==
  ASSUME StopDriven, NEW s \in Caller, NEW to \in {"flag", "close", "closed", "pool"},
         stopper[s] \notin {"guard", "halt"}, stopper' = [stopper EXCEPT ![s] = to],
         s = "handler" => sig' = "handling", s # "handler" => sig' = sig,
         to = "close" => stopping', stopping => stopping', UNCHANGED poolVars
  PROVE  CallerInv' /\ StopGoesOn'
<1>1. stopper'[s] = to /\ \A p \in Caller : p # s => stopper'[p] = stopper[p]
  BY DEF StopDriven, CallerInv
<1>2. UNCHANGED <<guard, halted, poolStopped>>
  BY DEF poolVars
<1>3. CallerInv'
  BY <1>1, <1>2 DEF StopDriven, CallerInv, Caller
<1>4. StopGoesOn'
  BY <1>1, <1>2 DEF StopDriven, StopGoesOn
<1>5. QED
  BY <1>3, <1>4

\* A step that touches neither the callers nor the pool keeps both.
LEMMA CallersStay ==
  ASSUME StopDriven, UNCHANGED <<stopper, guard, halted, poolStopped>>, stopping => stopping',
         sig' = sig \/ stopper["handler"] \in {"idle", "over"}
  PROVE  CallerInv' /\ StopGoesOn'
BY DEF StopDriven, CallerInv, StopGoesOn

\* Every step keeps the invariant.
LEMMA StopDrivenStep == StopDriven /\ [ShutdownNext]_shutdownVars => StopDriven'
<1> SUFFICES ASSUME StopDriven, [ShutdownNext]_shutdownVars PROVE StopDriven'
  OBVIOUS
<1> USE DEF poolVars, serverVars, signalVars
<1>1. CASE AcceptFails \/ LoopStep
  <2>1. UNCHANGED <<stopper, guard, halted, poolStopped, stopping, sig, open>>
    BY <1>1 DEF AcceptFails, LoopStep, LoopStarts, LoopCheck, LoopAccept, AcceptCompletes, LoopResumes,
       LoopVerify, StartSession
  <2>2. LoopIsReleased'
    <3>1. ~open => loop' # "waiting"
      BY <1>1 DEF AcceptFails, LoopStep, LoopStarts, LoopCheck, LoopAccept, AcceptCompletes, LoopResumes,
         LoopVerify, StartSession, AfterError
    <3>2. QED
      BY <2>1, <3>1 DEF StopDriven, LoopIsReleased
  <2>3. QED
    BY <2>1, <2>2, CallersStay DEF StopDriven
<1>2. ASSUME NEW k \in Client, Connect(k) \/ SendRequest(k) \/ Disconnect(k) \/ SessionStep(k) PROVE StopDriven'
  <2>1. UNCHANGED <<stopper, guard, halted, poolStopped, stopping, sig, open, loop>>
    BY <1>2 DEF Connect, SendRequest, Disconnect, SessionStep, Handle, HandlerReturns, Answer, Becomes
  <2>2. QED
    BY <2>1, CallersStay DEF StopDriven, LoopIsReleased
<1>3. CASE Deliver \/ OnSignalError \/ OnHandled \/ Rearm \/ StartSignals \/ StopSignals \/ Raise
  <2>1. UNCHANGED <<stopper, guard, halted, poolStopped, stopping, open, loop>>
    BY <1>3 DEF Deliver, OnSignalError, OnHandled, Rearm, StartSignals, StopSignals, Raise
  <2>2. sig' = sig \/ stopper["handler"] \in {"idle", "over"}
    <3>1. CASE sig # "handling"
      BY <3>1 DEF StopDriven, CallerInv
    <3>2. CASE sig = "handling"
      BY <1>3, <3>2 DEF Deliver, OnSignalError, OnHandled, Rearm, StartSignals, StopSignals, Raise
    <3>3. QED
      BY <3>1, <3>2
  <2>3. QED
    BY <2>1, <2>2, CallersStay DEF StopDriven, LoopIsReleased
<1>4. CASE OnSignal
  <2>1. /\ sig = "queued" /\ sig' = "handling" /\ UNCHANGED <<poolVars, stopping, open, loop>>
        /\ stopper' = [stopper EXCEPT !["handler"] = "flag"]
    BY <1>4 DEF OnSignal
  <2>2. stopper["handler"] \in {"idle", "over"} /\ "handler" \in Caller
    BY <2>1 DEF StopDriven, CallerInv, Caller
  <2>3. CallerInv' /\ StopGoesOn'
    BY <2>1, <2>2, CallerMoves
  <2>4. QED
    BY <2>1, <2>3 DEF StopDriven, LoopIsReleased
<1>5. CASE CallStop \/ CallPoolStop
  <2>1. PICK to \in {"flag", "pool"} : stopper' = [stopper EXCEPT !["control"] = to]
    BY <1>5 DEF CallStop, CallPoolStop, At
  <2>2. stopper["control"] \notin {"guard", "halt"} /\ UNCHANGED <<poolVars, stopping, sig, open, loop>>
    BY <1>5 DEF CallStop, CallPoolStop, At
  <2>3. CallerInv' /\ StopGoesOn'
    BY <2>1, <2>2, CallerMoves DEF Caller
  <2>4. QED
    BY <2>2, <2>3 DEF StopDriven, LoopIsReleased
<1>6. ASSUME NEW s \in Caller, SetStopping(s) \/ CloseAcceptor(s) PROVE StopDriven'
  <2>1. /\ stopper[s] \in {"flag", "close"} /\ UNCHANGED <<poolVars, sig>> /\ (stopping => stopping')
        /\ s = "handler" => sig = "handling"
    BY <1>6 DEF SetStopping, CloseAcceptor, At, StopDriven, CallerInv
  <2>2. CASE SetStopping(s)
    <3>1. stopper' = [stopper EXCEPT ![s] = "close"] /\ stopping' /\ UNCHANGED <<open, loop>>
      BY <2>2 DEF SetStopping, At
    <3>2. CallerInv' /\ StopGoesOn'
      BY <2>1, <3>1, CallerMoves
    <3>3. QED
      BY <3>1, <3>2 DEF StopDriven, LoopIsReleased
  <2>3. CASE CloseAcceptor(s)
    <3>1. stopper[s] = "close" /\ stopping /\ stopping' /\ loop' # "waiting"
      BY <2>3 DEF CloseAcceptor, At, StopDriven, CallerInv
    <3>2. PICK to \in {"pool", "closed"} : stopper' = [stopper EXCEPT ![s] = to]
      BY <2>3 DEF CloseAcceptor, At
    <3>3. CallerInv' /\ StopGoesOn'
      BY <2>1, <3>1, <3>2, CallerMoves
    <3>4. QED
      BY <3>1, <3>3 DEF StopDriven, LoopIsReleased
  <2>4. QED
    BY <1>6, <2>2, <2>3
<1>7. ASSUME NEW s \in Caller, PoolStop(s) \/ ResetGuards(s) \/ HaltContext(s) PROVE StopDriven'
  <2>1. UNCHANGED <<stopping, open, loop, sig>> /\ (s = "handler" => sig = "handling") /\ LoopIsReleased'
    BY <1>7 DEF PoolStop, ResetGuards, HaltContext, At, StopDriven, CallerInv, LoopIsReleased
  <2>2. CASE PoolStop(s) /\ poolStopped
    <3>1. /\ stopper[s] = "pool" /\ stopper'[s] = "over" /\ \A p \in Caller : p # s => stopper'[p] = stopper[p]
          /\ stopper' \in [Caller -> {"idle", "flag", "close", "closed", "pool", "guard", "halt", "over"}]
          /\ UNCHANGED <<guard, halted>> /\ poolStopped'
      BY <2>2 DEF PoolStop, At, StopDriven, CallerInv
    <3>2. CallerInv'
      BY <2>1, <3>1 DEF StopDriven, CallerInv, Caller
    <3>3. StopGoesOn'
      BY <2>2, <3>1 DEF StopDriven, StopGoesOn
    <3>4. QED
      BY <2>1, <3>2, <3>3 DEF StopDriven
  <2>3. CASE (PoolStop(s) /\ ~poolStopped) \/ ResetGuards(s)
    <3>1. /\ stopper'[s] \in {"guard", "halt"} /\ \A p \in Caller : p # s => stopper'[p] = stopper[p]
          /\ stopper' \in [Caller -> {"idle", "flag", "close", "closed", "pool", "guard", "halt", "over"}]
          /\ guard' \in {guard, {}} /\ (stopper'[s] = "halt" => guard' = {})
      BY <2>3 DEF PoolStop, ResetGuards, At, StopDriven, CallerInv
    <3>2. CallerInv'
      BY <2>1, <3>1 DEF StopDriven, CallerInv, Caller
    <3>3. StopGoesOn'
      BY <3>1 DEF StopGoesOn
    <3>4. QED
      BY <2>1, <3>2, <3>3 DEF StopDriven
  <2>4. CASE HaltContext(s) /\ halted = Ctx
    <3>1. /\ stopper[s] = "halt" /\ stopper'[s] = "over" /\ \A p \in Caller : p # s => stopper'[p] = stopper[p]
          /\ stopper' \in [Caller -> {"idle", "flag", "close", "closed", "pool", "guard", "halt", "over"}]
          /\ UNCHANGED <<guard, halted>> /\ guard = {}
      BY <2>4 DEF HaltContext, At, StopDriven, CallerInv
    <3>2. CallerInv'
      BY <2>1, <3>1 DEF StopDriven, CallerInv, Caller
    <3>3. StopGoesOn'
      BY <2>4, <3>1 DEF StopGoesOn
    <3>4. QED
      BY <2>1, <3>2, <3>3 DEF StopDriven
  <2>5. CASE HaltContext(s) /\ halted # Ctx
    <3>1. stopper[s] = "halt" /\ UNCHANGED <<stopper, guard, stopping, sig>>
      BY <2>5 DEF HaltContext
    <3>2. CallerInv' /\ StopGoesOn'
      BY <3>1 DEF StopDriven, CallerInv, StopGoesOn
    <3>3. QED
      BY <2>1, <3>2 DEF StopDriven
  <2>6. QED
    BY <1>7, <2>2, <2>3, <2>4, <2>5
<1>8. CASE RunBlocking \/ Joined \/ \E c \in Ctx : SpawnThread(c)
  <2>1. UNCHANGED <<stopper, guard, halted, poolStopped, stopping, sig, open, loop>>
    BY <1>8 DEF RunBlocking, Joined, SpawnThread
  <2>2. QED
    BY <2>1, CallersStay DEF StopDriven, LoopIsReleased
<1>9. ASSUME NEW c \in Ctx, ThreadExits(c) PROVE StopDriven'
  <2>1. UNCHANGED <<stopper, guard, poolStopped, stopping, sig, open, loop>> /\ halted' = halted \cup {c}
    BY <1>9 DEF ThreadExits
  <2>2. CallerInv' /\ LoopIsReleased'
    BY <2>1 DEF StopDriven, CallerInv, LoopIsReleased
  <2>3. StopGoesOn'
    BY <2>1 DEF StopDriven, StopGoesOn
  <2>4. QED
    BY <2>2, <2>3 DEF StopDriven
<1>10. CASE UNCHANGED shutdownVars
  <2>1. UNCHANGED <<stopper, guard, halted, poolStopped, stopping, sig, open, loop>>
    BY <1>10 DEF shutdownVars
  <2>2. QED
    BY <2>1, CallersStay DEF StopDriven, LoopIsReleased
<1>11. QED
  BY <1>1, <1>2, <1>3, <1>4, <1>5, <1>6, <1>7, <1>8, <1>9, <1>10 DEF ShutdownNext, RunnerStep, StopStep, SignalStep

\* stop() of the server leaves no accept behind on a closed acceptor, and stop() of
\* the pool, begun by the application or by a signal's handler, is carried on until
\* every context is stopped: the safety halves of LoopEnds and SignalEndsRun.
THEOREM StopIsCarriedOut == ShutdownSpec => [](LoopIsReleased /\ StopGoesOn)
<1>1. ShutdownInit => StopDriven
  BY DEF ShutdownInit, StopDriven, CallerInv, LoopIsReleased, StopGoesOn, Caller
<1>2. StopDriven => LoopIsReleased /\ StopGoesOn
  BY DEF StopDriven
<1>3. QED
  BY <1>1, <1>2, StopDrivenStep, PTL DEF ShutdownSpec
=============================================================================
