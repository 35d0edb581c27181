------------------------------ MODULE Shutdown ------------------------------
(***************************************************************************)
(* A server on an IoContextPool and the ways to stop it: the accept loop   *)
(* of Server or SslServer and its sessions on context 0, a SignalSet on    *)
(* the next context whose handler stops the server and then the pool, and  *)
(* an application thread that does the same by itself.  A context is one   *)
(* thread that runs one handler at a time; io_context::stop() lets the     *)
(* handler that runs finish and starts no other.                           *)
(***************************************************************************)
EXTENDS Naturals, FiniteSets

CONSTANTS
  PoolSize,    \* pool_size_
  Tls,         \* the loop is SslServer's
  Client,
  MaxErrors,   \* bound: accepts that fail for another reason than a close
  MaxSignals   \* bound: signals raised

ASSUME ShutdownAssumption ==
  PoolSize \in Nat \ {0} /\ Tls \in BOOLEAN /\ MaxErrors \in Nat /\ MaxSignals \in Nat

VARIABLES
  runner,            \* the thread in run_blocking
  thread,            \* threads_
  guard,             \* the contexts whose work guard is set
  halted,            \* the contexts that are stopped
  busy,              \* whose handler each context runs
  poolStopped,       \* IoContextPool::stopped_
  stopping,          \* Server::stopping_
  open,              \* the acceptor
  loop, accepted,    \* the accept loop, and what its accept completed with
  client,            \* the connections
  sig, sigStopped,   \* the SignalSet
  raised, errors,    \* signals not delivered yet; counters of the bounds
  signals,
  interrupted,       \* history: the requests in a handler when a signal was raised
  stopper            \* how far each caller is with stopping

shutdownVars == <<runner, thread, guard, halted, busy, poolStopped, stopping, open, loop, accepted,
          client, sig, sigStopped, raised, errors, signals, interrupted, stopper>>

Ctx == 0 .. PoolSize - 1
Listen == 0
SignalCtx == 1 % PoolSize
Caller == {"handler", "control"}
Nothing == "nothing"

ShutdownTypeOK ==
  /\ runner \in {"out", "spawning", "joining", "returned"}
  /\ thread \in [Ctx -> {"none", "running", "gone"}]
  /\ guard \in SUBSET Ctx /\ halted \in SUBSET Ctx
  /\ busy \in [Ctx -> {Nothing, "loop", "signal"} \cup Client]
  /\ poolStopped \in BOOLEAN /\ stopping \in BOOLEAN /\ open \in BOOLEAN /\ sigStopped \in BOOLEAN
  /\ loop \in {"spawned", "check", "accept", "waiting", "queued", "verify", "start", "ended"}
  /\ accepted \in {Nothing, "aborted", "error"} \cup Client
  /\ client \in [Client -> {"away", "backlog", "taken", "session", "requested", "handling", "posted",
                            "answered", "dropped"}]
  /\ sig \in {"idle", "waiting", "queued", "aborted", "handling", "rearm", "ended"}
  /\ raised \in 0 .. MaxSignals /\ signals \in 0 .. MaxSignals /\ errors \in 0 .. MaxErrors
  /\ interrupted \subseteq Client
  /\ stopper \in [Caller -> {"idle", "flag", "close", "closed", "pool", "guard", "halt", "over"}]

\* The server is constructed, which spawns its loop; the pool does not run yet.
ShutdownInit ==
  /\ runner = "out" /\ thread = [c \in Ctx |-> "none"] /\ busy = [c \in Ctx |-> Nothing]
  /\ guard = Ctx /\ halted = {} /\ poolStopped = FALSE
  /\ stopping = FALSE /\ open = TRUE /\ loop = "spawned" /\ accepted = Nothing
  /\ client = [k \in Client |-> "away"]
  /\ sig = "idle" /\ sigStopped = FALSE /\ raised = 0 /\ signals = 0 /\ errors = 0
  /\ interrupted = {}
  /\ stopper = [s \in Caller |-> "idle"]

poolVars == <<runner, thread, guard, halted, poolStopped>>
serverVars == <<stopping, open, loop, accepted, client, errors>>
signalVars == <<sig, sigStopped, raised, signals, interrupted>>

-----------------------------------------------------------------------------
(* The contexts. *)

\* Asio: a handler starts on a context that runs, is not stopped and runs no other.
CanRun(c) == thread[c] = "running" /\ c \notin halted /\ busy[c] = Nothing
Take(c, who) == busy' = [busy EXCEPT ![c] = who]

\* A pool that sets no work guards.
HasWorkUnguarded(c) ==
  \/ c = Listen /\ (loop # "ended" \/ \E k \in Client : client[k] \in {"session", "requested", "posted"})
  \/ c = SignalCtx /\ sig \in {"waiting", "queued", "aborted"}

\* What a context waits for keeps it running: its guard, the loop, the sessions
\* and the wait for a signal.
HasWork(c) ==
  \/ c \in guard
  \/ c = Listen /\ (loop # "ended" \/ \E k \in Client : client[k] \in {"session", "requested", "posted"})
  \/ c = SignalCtx /\ sig \in {"waiting", "queued", "aborted"}

\* run_blocking starts a thread per context and joins them all.
RunBlocking ==
  /\ runner = "out" /\ runner' = "spawning"
  /\ UNCHANGED <<thread, guard, halted, poolStopped, busy, serverVars, signalVars, stopper>>

SpawnThread(c) ==
  /\ runner = "spawning" /\ thread[c] = "none" /\ \A d \in 0 .. c - 1 : thread[d] # "none"
  /\ thread' = [thread EXCEPT ![c] = "running"]
  /\ runner' = IF c + 1 = PoolSize THEN "joining" ELSE runner
  /\ UNCHANGED <<guard, halted, poolStopped, busy, serverVars, signalVars, stopper>>

\* io_context::run returns when the context is stopped, or stops it for want of work.
ThreadExits(c) ==
  /\ thread[c] = "running" /\ busy[c] = Nothing /\ (c \in halted \/ ~HasWork(c))
  /\ thread' = [thread EXCEPT ![c] = "gone"] /\ halted' = halted \cup {c}
  /\ UNCHANGED <<runner, guard, poolStopped, busy, serverVars, signalVars, stopper>>

Joined ==
  /\ runner = "joining" /\ \A c \in Ctx : thread[c] = "gone" /\ runner' = "returned"
  /\ UNCHANGED <<thread, guard, halted, poolStopped, busy, serverVars, signalVars, stopper>>

-----------------------------------------------------------------------------
(* The accept loop. *)

LoopStarts ==
  /\ loop = "spawned" /\ CanRun(Listen) /\ loop' = "check" /\ Take(Listen, "loop")
  /\ UNCHANGED <<poolVars, stopping, open, accepted, client, errors, signalVars, stopper>>

LoopCheck ==
  /\ loop = "check"
  /\ IF stopping THEN loop' = "ended" /\ Take(Listen, Nothing) ELSE loop' = "accept" /\ UNCHANGED busy
  /\ UNCHANGED <<poolVars, stopping, open, accepted, client, errors, signalVars, stopper>>

\* async_accept; on a closed acceptor it completes with bad_descriptor.
LoopAccept ==
  /\ loop = "accept" /\ Take(Listen, Nothing)
  /\ IF open THEN loop' = "waiting" /\ UNCHANGED accepted ELSE loop' = "queued" /\ accepted' = "error"
  /\ UNCHANGED <<poolVars, stopping, open, client, errors, signalVars, stopper>>

\* The operation is completed before its handler runs: a close in between comes too late.
AcceptCompletes(k) ==
  /\ loop = "waiting" /\ client[k] = "backlog" /\ CanRun(Listen)
  /\ loop' = "queued" /\ accepted' = k /\ client' = [client EXCEPT ![k] = "taken"]
  /\ UNCHANGED <<poolVars, busy, stopping, open, errors, signalVars, stopper>>

AcceptFails ==
  /\ loop = "waiting" /\ CanRun(Listen) /\ errors < MaxErrors
  /\ errors' = errors + 1 /\ loop' = "queued" /\ accepted' = "error"
  /\ UNCHANGED <<poolVars, busy, stopping, open, client, signalVars, stopper>>

\* Server returns on operation_aborted, SslServer only when it stops as well.
AfterError == IF accepted = "aborted" /\ (Tls => stopping) THEN "ended" ELSE "check"

LoopResumes ==
  /\ loop = "queued" /\ CanRun(Listen)
  /\ loop' = IF accepted \in Client THEN "verify" ELSE AfterError
  /\ accepted' = IF accepted \in Client THEN accepted ELSE Nothing
  /\ Take(Listen, IF loop' = "ended" THEN Nothing ELSE "loop")
  /\ UNCHANGED <<poolVars, stopping, open, client, errors, signalVars, stopper>>

\* The flag is read again; a socket that is not handed on is closed.
LoopVerify ==
  /\ loop = "verify"
  /\ IF stopping
     THEN loop' = "check" /\ client' = [client EXCEPT ![accepted] = "dropped"] /\ accepted' = Nothing
     ELSE loop' = "start" /\ UNCHANGED <<client, accepted>>
  /\ UNCHANGED <<poolVars, busy, stopping, open, errors, signalVars, stopper>>

StartSession ==
  /\ loop = "start" /\ loop' = "check"
  /\ client' = [client EXCEPT ![accepted] = "session"] /\ accepted' = Nothing
  /\ UNCHANGED <<poolVars, busy, stopping, open, errors, signalVars, stopper>>

LoopStep ==
  LoopStarts \/ LoopCheck \/ LoopAccept \/ (\E k \in Client : AcceptCompletes(k)) \/ LoopResumes
    \/ LoopVerify \/ StartSession

-----------------------------------------------------------------------------
(* The connections; Session and MiddlewareChain say more of what they do. *)

Becomes(k, state) ==
  /\ client' = [client EXCEPT ![k] = state]
  /\ UNCHANGED <<poolVars, stopping, open, loop, accepted, errors, signalVars, stopper>>

\* A client connects, or sends its request, or leaves.
Connect(k) == client[k] = "away" /\ open /\ Becomes(k, "backlog") /\ UNCHANGED busy
SendRequest(k) == client[k] = "session" /\ runner # "returned" /\ Becomes(k, "requested") /\ UNCHANGED busy
Disconnect(k) == client[k] = "session" /\ CanRun(Listen) /\ Becomes(k, "dropped") /\ UNCHANGED busy

\* The session reads the request and runs the chain.
Handle(k) == client[k] = "requested" /\ CanRun(Listen) /\ Becomes(k, "handling") /\ Take(Listen, k)

\* The chain's completion is posted, and the response written by a later handler.
HandlerReturns(k) == client[k] = "handling" /\ Becomes(k, "posted") /\ Take(Listen, Nothing)
Answer(k) == client[k] = "posted" /\ CanRun(Listen) /\ Becomes(k, "answered") /\ UNCHANGED busy

SessionStep(k) == Handle(k) \/ HandlerReturns(k) \/ Answer(k)

-----------------------------------------------------------------------------
(* Server::stop, IoContextPool::stop and SignalSet. *)

At(s, from, to) == stopper[s] = from /\ stopper' = [stopper EXCEPT ![s] = to]

\* The application thread stops the server, and may leave it at that.
CallStop ==
  /\ At("control", "idle", "flag")
  /\ UNCHANGED <<poolVars, busy, serverVars, signalVars>>

CallPoolStop ==
  /\ At("control", "closed", "pool")
  /\ UNCHANGED <<poolVars, busy, serverVars, signalVars>>

SetStopping(s) ==
  /\ At(s, "flag", "close") /\ stopping' = TRUE
  /\ UNCHANGED <<poolVars, busy, open, loop, accepted, client, errors, signalVars>>

\* What a close leaves of the backlog.
Refused == [k \in Client |-> IF client[k] = "backlog" THEN "dropped" ELSE client[k]]

\* A stop that relies on the flag alone.
CloseAcceptorNot(s) ==
  /\ At(s, "close", IF s = "handler" THEN "pool" ELSE "closed")
  /\ UNCHANGED <<poolVars, busy, serverVars, signalVars>>

\* Closing cancels the accept that waits.
CloseAcceptor(s) ==
  /\ At(s, "close", IF s = "handler" THEN "pool" ELSE "closed")
  /\ open' = FALSE /\ client' = Refused
  /\ IF loop = "waiting" THEN loop' = "queued" /\ accepted' = "aborted" ELSE UNCHANGED <<loop, accepted>>
  /\ UNCHANGED <<poolVars, busy, stopping, errors, signalVars>>

\* IoContextPool::stop: only the first caller goes on.
PoolStop(s) ==
  /\ At(s, "pool", IF poolStopped THEN "over" ELSE "guard") /\ poolStopped' = TRUE
  /\ UNCHANGED <<runner, thread, guard, halted, busy, serverVars, signalVars>>

ResetGuards(s) ==
  /\ At(s, "guard", "halt") /\ guard' = {}
  /\ UNCHANGED <<runner, thread, halted, poolStopped, busy, serverVars, signalVars>>

\* A stop that only lets the contexts run out of work.
HaltContextNot(s) ==
  /\ At(s, "halt", "over") /\ UNCHANGED <<poolVars, busy, serverVars, signalVars>>

HaltContext(s) ==
  LET c == CHOOSE d \in Ctx : d \notin halted /\ \A e \in 0 .. d - 1 : e \in halted IN
  /\ stopper[s] = "halt"
  /\ IF halted = Ctx THEN At(s, "halt", "over") /\ UNCHANGED halted
     ELSE halted' = halted \cup {c} /\ UNCHANGED stopper
  /\ UNCHANGED <<runner, thread, guard, poolStopped, busy, serverVars, signalVars>>

StopStep(s) == SetStopping(s) \/ CloseAcceptor(s) \/ PoolStop(s) \/ ResetGuards(s) \/ HaltContext(s)

\* SignalSet::start arms the wait unless stop() was called before.
StartSignals ==
  /\ sig = "idle" /\ sig' = IF sigStopped THEN "ended" ELSE "waiting"
  /\ UNCHANGED <<poolVars, busy, serverVars, sigStopped, raised, signals, interrupted, stopper>>

\* SignalSet::stop: the flag, and a cancel of the wait.
StopSignals ==
  /\ ~sigStopped /\ sigStopped' = TRUE
  /\ sig' = IF sig = "waiting" THEN "aborted" ELSE sig
  /\ UNCHANGED <<poolVars, busy, serverVars, raised, signals, interrupted, stopper>>

\* Asio keeps a signal that no wait is there for.
Raise ==
  /\ signals < MaxSignals /\ signals' = signals + 1 /\ raised' = raised + 1
  /\ interrupted' = interrupted \cup {k \in Client : client[k] = "handling"}
  /\ UNCHANGED <<poolVars, busy, serverVars, sig, sigStopped, stopper>>

Deliver ==
  /\ sig = "waiting" /\ raised > 0 /\ sig' = "queued" /\ raised' = raised - 1
  /\ UNCHANGED <<poolVars, busy, serverVars, sigStopped, signals, interrupted, stopper>>

\* handle_signal runs the handler, whose stops are those of examples 01 to 08.
OnSignal ==
  /\ sig = "queued" /\ CanRun(SignalCtx) /\ sig' = "handling" /\ Take(SignalCtx, "signal")
  /\ stopper' = [stopper EXCEPT !["handler"] = "flag"]
  /\ UNCHANGED <<poolVars, serverVars, sigStopped, raised, signals, interrupted>>

OnSignalError ==
  /\ sig = "aborted" /\ CanRun(SignalCtx) /\ sig' = "ended"
  /\ UNCHANGED <<poolVars, busy, serverVars, sigStopped, raised, signals, interrupted, stopper>>

\* The flag is read, and the wait armed after that: a stop in between cancels nothing.
OnHandled ==
  /\ sig = "handling" /\ stopper["handler"] = "over"
  /\ sig' = IF sigStopped THEN "ended" ELSE "rearm"
  /\ Take(SignalCtx, IF sigStopped THEN Nothing ELSE "signal")
  /\ UNCHANGED <<poolVars, serverVars, sigStopped, raised, signals, interrupted, stopper>>

Rearm ==
  /\ sig = "rearm" /\ sig' = "waiting" /\ Take(SignalCtx, Nothing)
  /\ UNCHANGED <<poolVars, serverVars, sigStopped, raised, signals, interrupted, stopper>>

SignalStep == Deliver \/ OnSignal \/ OnSignalError \/ OnHandled \/ Rearm

-----------------------------------------------------------------------------
RunnerStep == (\E c \in Ctx : SpawnThread(c)) \/ Joined

ShutdownNext ==
  \/ RunBlocking \/ RunnerStep \/ AcceptFails \/ LoopStep \/ SignalStep
  \/ \E c \in Ctx : ThreadExits(c)
  \/ \E k \in Client : Connect(k) \/ SendRequest(k) \/ Disconnect(k) \/ SessionStep(k)
  \/ CallStop \/ CallPoolStop \/ StartSignals \/ StopSignals \/ Raise
  \/ \E s \in Caller : StopStep(s)

\* Threads go on, a context runs what is queued on it in its order, and the
\* program calls run_blocking.  Clients, signals and the application owe nothing.
Fairness ==
  /\ WF_shutdownVars(RunBlocking) /\ WF_shutdownVars(RunnerStep) /\ WF_shutdownVars(LoopStep) /\ WF_shutdownVars(SignalStep)
  /\ \A c \in Ctx : WF_shutdownVars(ThreadExits(c))
  /\ \A k \in Client : WF_shutdownVars(SessionStep(k))
  /\ \A s \in Caller : WF_shutdownVars(StopStep(s))

ShutdownSpec == ShutdownInit /\ [][ShutdownNext]_shutdownVars /\ Fairness

-----------------------------------------------------------------------------
(* Properties. *)

\* run_blocking blocks until stop(): whatever has ended - the loop, the sessions,
\* the wait for signals - no thread leaves, and none misses what comes later.
BlocksUntilStopped == ~poolStopped => runner # "returned" /\ \A c \in Ctx : thread[c] # "gone"

\* Server::stop ends the accept loop wherever it is - before its check, before
\* or in the accept, with a socket in hand - unless its context stops first.
LoopEnds == stopping ~> (loop = "ended" \/ Listen \in halted)

\* A signal the set waits for brings run_blocking to its end, with other callers
\* of stop() in between, sessions open and requests in progress.
SignalEndsRun == (sig = "queued") ~> (runner = "returned")

\* "slow request completion": a request whose handler ran when the signal was raised
\* is answered before the stop of that signal's handler lets run_blocking return.
RequestsComplete ==
  runner = "returned" /\ stopper["control"] = "idle" =>
    \A k \in interrupted : client[k] = "answered"
=============================================================================
