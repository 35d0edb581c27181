------------------------------ MODULE Session ------------------------------
(***************************************************************************)
(* One connection: the coroutine of Session::run, or of SslSession::run    *)
(* when tls, together with the timers of SessionBase.                      *)
(*                                                                         *)
(* A connection lives on one io_context, which one thread runs             *)
(* (IoContextPool), so its handlers run one at a time, to completion, in   *)
(* the order in which they were queued.  What makes it hard is that a      *)
(* handler that is already queued can no longer be cancelled: cancelling a *)
(* timer that has expired, or a socket whose operation has completed, has  *)
(* no effect.  The middleware chain is the abstract RunOutcome, which      *)
(* MiddlewareChain is shown to implement.                                  *)
(***************************************************************************)
EXTENDS Naturals, Sequences

CONSTANTS
  TlsModes,     \* the connections there are: SslSession (TRUE), Session (FALSE)
  KeepAlive,    \* limits().enable_keep_alive
  MaxRequests,  \* limits().max_requests_per_connection, 0: no limit
  Request,      \* the requests a client may send: [ver, conn, upgrade]
  ResponseConn, \* what the chain may leave in the response's Connection field
  Result,       \* the results of the middleware chain
  MaxReads      \* bound: the requests the client sends on the connection

ASSUME SessionAssumption ==
  /\ TlsModes \subseteq BOOLEAN /\ KeepAlive \in BOOLEAN
  /\ MaxRequests \in Nat /\ MaxReads \in Nat
  /\ Request \subseteq [ver : {10, 11}, conn : {"none", "close", "keep"}, upgrade : BOOLEAN]
  /\ ResponseConn \subseteq {"none", "close", "keep"}
  /\ {"idle", "running"} \cap Result = {}

VARIABLES
  tls,       \* this is an SslSession
  pc,        \* where run() is suspended
  op,        \* the outstanding operation of the socket
  part,      \* what async_read is reading
  abort,     \* read_abort_
  shut,      \* the socket has been shut down
  armed,     \* the timers with a pending wait ("tls": handshake_timer_)
  queue,     \* completed operations whose handlers have not run
  waiting,   \* the wait on the chain's done timer is pending
  req, res,  \* req_ and res_: version and Connection field
  served,    \* requests_served_
  reads,     \* number of requests read
  answer     \* RunOutcome: what the chain answered to each of them

vars == <<tls, pc, op, part, abort, shut, armed, queue, waiting, req, res, served, reads, answer>>

Chain == INSTANCE RunOutcome WITH Run <- 1 .. MaxReads

Timer   == {"idle", "header", "tls"}
SockOp  == {"handshake", "read", "write"}
Code    == {"ok", "more", "error", "aborted"}
Handler == [on : SockOp \cup Timer \cup {"start", "post", "resume"}, ec : Code]
Ended   == {"gone", "upgraded"}
Message == [ver : {10, 11}, conn : {"none", "close", "keep"}]

\* The shape of a connection's state.
TypeOK ==
  /\ pc \in {"start", "handshake", "read", "reply408", "chain", "write"} \cup Ended
  /\ op \in SockOp \cup {"none"} /\ part \in {"headers", "body"}
  /\ abort \in {"None", "HeaderTimeout", "BodyTimeout", "HandshakeTimeout"}
  /\ tls \in BOOLEAN /\ shut \in BOOLEAN /\ waiting \in BOOLEAN /\ armed \subseteq Timer
  /\ queue \in Seq(Handler)
  /\ req \in Message /\ res \in Message
  /\ reads \in 0 .. MaxReads /\ served \in 0 .. MaxReads
  /\ answer \in [1 .. MaxReads -> Result \cup {"idle", "running"}]

Fresh(version) == [ver |-> version, conn |-> "none"]

Init ==
  /\ tls \in TlsModes /\ pc = "start" /\ op = "none" /\ part = "headers" /\ abort = "None"
  /\ shut = FALSE /\ armed = {"idle"} /\ waiting = FALSE
  /\ queue = <<[on |-> "start", ec |-> "ok"]>>
  /\ req = Fresh(11) /\ res = Fresh(11) /\ served = 0 /\ reads = 0
  /\ Chain!Init

-----------------------------------------------------------------------------
(* What happens around the connection. *)

\* Handlers are queued behind those that are waiting already.
Queued(h) == Append(queue, h)

\* The outstanding operation of the socket completes with ec.
OpCompletes(ec) ==
  /\ queue' = Queued([on |-> op, ec |-> ec]) /\ op' = "none"
  /\ UNCHANGED <<tls, pc, part, abort, shut, armed, waiting, req, res, served, reads, answer>>

HandshakeCompletes == op = "handshake" /\ OpCompletes("ok")

\* async_read consists of several reads of the socket: the headers have
\* arrived and the body has not.
HeadersArrive == op = "read" /\ part = "headers" /\ reads < MaxReads /\ OpCompletes("more")

ReadCompletes == op = "read" /\ reads < MaxReads /\ OpCompletes("ok")

WriteCompletes == op = "write" /\ ~shut /\ OpCompletes("ok")

\* The peer closes, sends something malformed, or the socket was shut down.
OpFails == op # "none" /\ OpCompletes("error")

TimerExpires(t) ==
  /\ t \in armed
  /\ armed' = armed \ {t} /\ queue' = Queued([on |-> t, ec |-> "ok"])
  /\ UNCHANGED <<tls, pc, op, part, abort, shut, waiting, req, res, served, reads, answer>>

\* A completion handler that cancels the done timer at once, although run()
\* does not wait on it yet when the chain completes inside execute_async.
CompletionTooEarly(q) ==
  IF waiting THEN Append(q, [on |-> "resume", ec |-> "aborted"]) ELSE q

\* The completion handler await_middleware_chain_async gives to execute_async.
Completion(q) == Append(q, [on |-> "post", ec |-> "ok"])

\* Some time after it was started the chain completes, on any thread.
ChainCompletes ==
  /\ pc = "chain" /\ answer[reads] = "running"
  /\ \E result \in Result : Chain!Complete(reads, result)
  /\ \E c \in ResponseConn : res' = [res EXCEPT !.conn = c]
  /\ queue' = Completion(queue)
  /\ UNCHANGED <<tls, pc, op, part, abort, shut, armed, waiting, req, served, reads>>

-----------------------------------------------------------------------------
(* The handlers.  Each runs to completion and suspends run() again. *)

Running(on, codes) == queue # <<>> /\ Head(queue).on = on /\ Head(queue).ec \in codes

\* An on_activity that forgets to arm the timer it cancelled.
OnActivityCancels(timers) == timers \ {"idle"}

OnActivity(timers) == timers \cup {"idle"}

\* The top of the loop: arm the header timer and read.
StartRead(timers) ==
  /\ pc' = "read" /\ op' = "read" /\ part' = "headers"
  /\ abort' = "None" /\ armed' = timers \cup {"header"}

\* run() returns: the session is destroyed, and its timers with it.
Leave(final) ==
  /\ pc' = final /\ op' = "none" /\ armed' = {} /\ UNCHANGED <<part, abort>>

OnStart ==
  /\ pc = "start" /\ Running("start", {"ok"}) /\ queue' = Tail(queue)
  /\ \/ ~tls /\ StartRead(armed)
     \/ /\ tls /\ pc' = "handshake" /\ op' = "handshake"
        /\ armed' = armed \cup {"tls"} /\ UNCHANGED <<part, abort>>
  /\ UNCHANGED <<tls, shut, waiting, req, res, served, reads, answer>>

OnHandshake ==
  /\ pc = "handshake" /\ Running("handshake", Code) /\ queue' = Tail(queue)
  /\ \/ /\ Running("handshake", {"ok"})
        /\ StartRead(OnActivity(armed \ {"tls"})) /\ UNCHANGED shut
     \/ /\ Running("handshake", {"error", "aborted"}) /\ Leave("gone")
        /\ shut' = (shut \/ (Running("handshake", {"aborted"}) /\ abort = "HandshakeTimeout"))
  /\ UNCHANGED <<tls, waiting, req, res, served, reads, answer>>

\* Inside async_read: the next read of the socket is started.
OnReadMore ==
  /\ pc = "read" /\ Running("read", {"more"})
  /\ queue' = Tail(queue) /\ op' = "read" /\ part' = "body"
  /\ UNCHANGED <<tls, pc, abort, shut, armed, waiting, req, res, served, reads, answer>>

\* async_read failed.  Only an abort by a read timeout is answered.
OnReadFailed ==
  /\ pc = "read" /\ Running("read", {"error", "aborted"}) /\ queue' = Tail(queue)
  /\ \/ /\ Running("read", {"aborted"}) /\ abort \in {"HeaderTimeout", "BodyTimeout"}
        /\ pc' = "reply408" /\ op' = "write" /\ abort' = "None"
        /\ armed' = armed \ {"header"} /\ UNCHANGED part
     \/ /\ Running("read", {"aborted"}) => abort \notin {"HeaderTimeout", "BodyTimeout"}
        /\ Leave("gone")
  /\ UNCHANGED <<tls, shut, waiting, req, res, served, reads, answer>>

\* A done timer that expires by itself: its expiry was not set to max().
OnRequestDoneExpires ==
  /\ pc = "read" /\ Running("read", {"ok"}) /\ reads' = reads + 1
  /\ \E request \in Request : req' = [ver |-> request.ver, conn |-> request.conn]
  /\ pc' = "chain" /\ waiting' = FALSE /\ armed' = OnActivity(armed \ {"header"})
  /\ Chain!Begin(reads') /\ queue' = Append(Tail(queue), [on |-> "resume", ec |-> "ok"])
  /\ UNCHANGED <<tls, op, part, abort, res, shut, served>>

\* A bridge that resumes run() inside execute_async instead of posting.
OnRequestInline ==
  /\ pc = "read" /\ Running("read", {"ok"}) /\ reads' = reads + 1 /\ queue' = Tail(queue)
  /\ \E request \in Request : req' = [ver |-> request.ver, conn |-> request.conn]
  /\ pc' = "write" /\ op' = "write" /\ armed' = OnActivity(armed \ {"header"})
  /\ \E result \in Result : Chain!Complete(reads', result)
  /\ UNCHANGED <<tls, part, abort, res, waiting, shut, served>>

\* A request was read.  It is handed over to a WebSocket session or given to
\* the chain, which completes before execute_async returns, later, or throws
\* something it does not catch itself.
OnRequest ==
  /\ pc = "read" /\ Running("read", {"ok"}) /\ reads' = reads + 1
  /\ \E request \in Request :
       /\ req' = [ver |-> request.ver, conn |-> request.conn]
       /\ \/ /\ request.upgrade /\ Leave("upgraded")
             /\ queue' = Tail(queue) /\ UNCHANGED <<res, waiting, answer>>
          \/ /\ ~request.upgrade /\ Chain!Begin(reads') /\ Leave("gone")
             /\ queue' = Tail(queue) /\ UNCHANGED <<res, waiting>>
          \/ /\ ~request.upgrade /\ pc' = "chain" /\ waiting' = TRUE
             /\ armed' = OnActivity(armed \ {"header"}) /\ UNCHANGED <<op, part, abort>>
             /\ \/ /\ Chain!Begin(reads') /\ queue' = Tail(queue) /\ UNCHANGED res
                \/ /\ \E result \in Result : Chain!Complete(reads', result)
                   /\ \E c \in ResponseConn : res' = [res EXCEPT !.conn = c]
                   /\ queue' = Completion(Tail(queue))
  /\ UNCHANGED <<tls, shut, served>>

\* The posted part of the completion handler cancels the done timer.
OnPosted ==
  /\ Running("post", {"ok"}) /\ pc = "chain"
  /\ queue' = Tail(queue) \o IF waiting THEN <<[on |-> "resume", ec |-> "aborted"]>> ELSE <<>>
  /\ waiting' = FALSE
  /\ UNCHANGED <<tls, pc, op, part, abort, shut, armed, req, res, served, reads, answer>>

\* run() is resumed and writes the response.
OnResume ==
  /\ pc = "chain" /\ Running("resume", Code)
  /\ queue' = Tail(queue) /\ pc' = "write" /\ op' = "write"
  /\ UNCHANGED <<tls, part, abort, shut, armed, waiting, req, res, served, reads, answer>>

\* message::keep_alive(): HTTP/1.1 stays open unless told to close.
SaysKeepAlive(msg) == IF msg.ver = 11 THEN msg.conn # "close" ELSE msg.conn = "keep"

KeepOpen(n) == KeepAlive /\ SaysKeepAlive(res) /\ (MaxRequests = 0 \/ n < MaxRequests)

\* The response was written: close, or reset req_ and res_ and read again.
OnWritten ==
  /\ pc = "write" /\ Running("write", {"ok"})
  /\ queue' = Tail(queue) /\ served' = served + 1
  /\ \/ ~KeepOpen(served') /\ shut' = TRUE /\ Leave("gone") /\ UNCHANGED <<req, res>>
     \/ /\ KeepOpen(served') /\ StartRead(OnActivity(armed))
        /\ res' = Fresh(req.ver) /\ req' = Fresh(11) /\ UNCHANGED shut
  /\ UNCHANGED <<tls, waiting, reads, answer>>

OnWriteFailed ==
  /\ pc = "write" /\ Running("write", {"error", "aborted"})
  /\ queue' = Tail(queue) /\ shut' = TRUE /\ Leave("gone")
  /\ UNCHANGED <<tls, waiting, req, res, served, reads, answer>>

\* The 408 was written, or could not be.
OnReplied ==
  /\ pc = "reply408" /\ Running("write", Code) /\ queue' = Tail(queue) /\ Leave("gone")
  /\ UNCHANGED <<tls, shut, waiting, req, res, served, reads, answer>>

OnTimeoutIdle ==
  /\ pc \notin Ended /\ Running("idle", {"ok"}) /\ queue' = Tail(queue) /\ shut' = TRUE
  /\ UNCHANGED <<tls, pc, op, part, abort, armed, waiting, req, res, served, reads, answer>>

\* socket.cancel(): what is outstanding completes with operation_aborted.
CancelSocket ==
  /\ queue' = Tail(queue) \o IF op = "none" THEN <<>> ELSE <<[on |-> op, ec |-> "aborted"]>>
  /\ op' = "none"

\* A timeout that cancels the socket and does not say why.
OnTimeoutHeaderUnnamed ==
  /\ pc \notin Ended /\ Running("header", {"ok"}) /\ CancelSocket
  /\ UNCHANGED <<tls, pc, part, abort, shut, armed, waiting, req, res, served, reads, answer>>

OnTimeoutHeader ==
  /\ pc \notin Ended /\ Running("header", {"ok"}) /\ abort' = "HeaderTimeout" /\ CancelSocket
  /\ UNCHANGED <<tls, pc, part, shut, armed, waiting, req, res, served, reads, answer>>

OnTimeoutHandshake ==
  /\ pc \notin Ended /\ Running("tls", {"ok"}) /\ abort' = "HandshakeTimeout" /\ CancelSocket
  /\ UNCHANGED <<tls, pc, part, shut, armed, waiting, req, res, served, reads, answer>>

\* A timer handler that was queued when the session was destroyed runs on a
\* dangling pointer; whatever it does, the session's state is gone.
OnDangling ==
  /\ pc \in Ended /\ queue # <<>> /\ queue' = Tail(queue)
  /\ UNCHANGED <<tls, pc, op, part, abort, shut, armed, waiting, req, res, served, reads, answer>>

Environment ==
  \/ HandshakeCompletes \/ HeadersArrive \/ ReadCompletes \/ WriteCompletes \/ OpFails
  \/ \E t \in Timer : TimerExpires(t)
  \/ ChainCompletes

Handlers ==
  \/ OnStart \/ OnHandshake \/ OnReadMore \/ OnReadFailed \/ OnRequest \/ OnPosted \/ OnResume
  \/ OnWritten \/ OnWriteFailed \/ OnReplied
  \/ OnTimeoutIdle \/ OnTimeoutHeader \/ OnTimeoutHandshake \/ OnDangling

Next == Environment \/ Handlers

Spec == Init /\ [][Next]_vars

-----------------------------------------------------------------------------
(* Properties. *)

IsQueued(on) == \E i \in 1 .. Len(queue) : queue[i].on = on
Due(t) == t \in armed \/ IsQueued(t)

\* A connection is never without a watchdog: the idle timer runs, or its
\* handler is about to, or the socket was shut down.  (on_activity cancels the
\* timer before it arms it again, and a timer that fired is not armed again.)
AlwaysWatched == pc \in Ended \/ shut \/ Due("idle")

\* While a response is being written no timeout handler that would cancel the
\* write can run, not even one that was queued before its timer was cancelled:
\* await_middleware_chain_async posts the completion behind it.
TimeoutsSpareTheResponse == op = "write" => ~Due("header") /\ ~Due("tls")

\* A read that a timeout aborts is answered with a 408 ("the session coroutine
\* sends 408 when the abort is due to timeout").
AbortedReadAnswered ==
  pc = "read" /\ Running("read", {"aborted"}) => abort \in {"HeaderTimeout", "BodyTimeout"}

\* So it is on a plain connection, in whatever order the timeout, the read and the
\* peer come.
PlainAbortedReadAnswered == ~tls => AbortedReadAnswered

\* What is written is the answer to the last request read: run() is not resumed
\* before the chain has completed, and nothing resumes it twice.
WritesTheAnswer ==
  /\ pc = "write" => answer[reads] \in Result
  /\ pc \in {"read", "reply408"} => \A i \in 1 .. reads : answer[i] \in Result
  /\ pc \notin Ended => served = reads - (IF pc \in {"chain", "write"} THEN 1 ELSE 0)
=============================================================================
