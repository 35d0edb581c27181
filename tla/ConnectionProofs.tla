-------------------------- MODULE ConnectionProofs --------------------------
(***************************************************************************)
(* Proofs about a connection: its HTTP session with timers and queued      *)
(* handlers, and the WebSocket session after an upgrade, for any number of *)
(* requests and messages, every limit and every answer of the chain.       *)
(***************************************************************************)
EXTENDS Connection, SequenceTheorems, TLAPS

-----------------------------------------------------------------------------
(* The queue of handlers: what is in it, and what may be behind what. *)

Elems(q) == {q[i] : i \in 1 .. Len(q)}

\* A handler g that is queued may have h behind it: run() waits for one operation
\* of the socket and is resumed once; a timeout of the header is not behind the
\* completion of the chain, and that of the handshake not behind what follows it.
Ordered(g, h) ==
  /\ ~(g.on \in SockOp /\ h.on \in SockOp)
  /\ ~(g.on \in {"post", "resume"} /\ h.on \in {"post", "resume", "header"})
  /\ ~(g.on = "header" /\ h.on \in {"header", "tls"})
  /\ ~(g.on \in {"read", "tls"} /\ h.on = "tls")
  /\ ~(g.on = "start" /\ h.on = "start")

InOrder(q) == \A i, j \in 1 .. Len(q) : i < j => Ordered(q[i], q[j])

\* The operation of the socket that run() waits for.
Awaited(p) == CASE p \in {"handshake", "read", "write"} -> p [] p = "reply408" -> "write" [] OTHER -> "none"

\* A handler fits the state it will run in.
Fits(h) ==
  /\ h.on \in SockOp => h.on = Awaited(pc) /\ op = "none"
  /\ h.on = "start" => pc = "start"
  /\ h.on \in {"post", "resume"} => pc = "chain" /\ answer[reads] \in Result
  /\ h.on = "header" => pc \in {"read", "chain"} /\ "header" \notin armed /\ (pc = "read" => abort # "HeaderTimeout")
  /\ h.on = "tls" => tls /\ pc \in {"handshake", "read"} /\ "tls" \notin armed /\ abort # "HeaderTimeout"
  /\ h = [on |-> "read", ec |-> "aborted"] => abort # "None" /\ (tls \/ abort = "HeaderTimeout")
  /\ h = [on |-> "read", ec |-> "ok"] => reads < MaxReads

SessionShape ==
  /\ queue \in Seq(Handler) /\ InOrder(queue)
  /\ pc \in {"start", "handshake", "read", "reply408", "chain", "write"} \cup Ended
  /\ op \in SockOp \cup {"none"} /\ abort \in {"None", "HeaderTimeout", "HandshakeTimeout"} /\ armed \subseteq Timer
  /\ reads \in 0 .. MaxReads /\ answer \in [1 .. MaxReads -> Result \cup {"idle", "running"}]
  /\ pc \in Ended => op = "none" /\ armed = {}

\* The state of a connection that is not over.
Alive ==
  /\ \A h \in Elems(queue) : Fits(h)
  /\ op # "none" => op = Awaited(pc)
  /\ "header" \in armed => pc = "read" /\ abort # "HeaderTimeout"
  /\ "tls" \in armed => tls /\ pc = "handshake" /\ abort # "HeaderTimeout"
  /\ pc = "start" => abort = "None"
  /\ pc \in {"start", "handshake"} => reads = 0
  /\ pc \in {"chain", "write"} => reads > 0
  /\ pc = "write" => answer[reads] \in Result
  /\ \A i \in 1 .. (IF pc \in {"chain", "write"} THEN reads - 1 ELSE reads) : answer[i] \in Result
  /\ served = reads - (IF pc \in {"chain", "write"} THEN 1 ELSE 0)

SessionInv == SessionShape /\ (pc \notin Ended => Alive)

\* Taking the first handler from the queue.
LEMMA Popped ==
  ASSUME NEW q \in Seq(Handler), q # <<>>, InOrder(q)
  PROVE  /\ Head(q) \in Handler /\ Tail(q) \in Seq(Handler) /\ InOrder(Tail(q))
         /\ Elems(q) = Elems(Tail(q)) \cup {Head(q)}
         /\ \A h \in Elems(Tail(q)) : h \in Handler /\ Ordered(Head(q), h)
<1>1. /\ Tail(q) \in Seq(Handler) /\ Head(q) = q[1] /\ Len(q) \in Nat \ {0} /\ Len(Tail(q)) = Len(q) - 1
      /\ \A i \in 1 .. Len(q) : q[i] \in Handler
  OBVIOUS
<1>2. \A i \in 1 .. Len(Tail(q)) : Tail(q)[i] = q[i + 1] /\ i + 1 \in 1 .. Len(q) /\ 1 < i + 1
  BY <1>1
<1>3. 1 \in 1 .. Len(q) /\ \A i \in 1 .. Len(q) : i # 1 => i - 1 \in 1 .. Len(Tail(q)) /\ Tail(q)[i - 1] = q[i]
  BY <1>1
<1>4. \A i, j \in 1 .. Len(Tail(q)) : i < j => i + 1 < j + 1
  BY <1>1
<1>5. InOrder(Tail(q))
  BY <1>2, <1>4, Zenon DEF InOrder
<1>6. Elems(q) = Elems(Tail(q)) \cup {Head(q)}
  <2>1. ASSUME NEW h \in Elems(q) PROVE h \in Elems(Tail(q)) \cup {Head(q)}
    <3>1. PICK i \in 1 .. Len(q) : h = q[i]
      BY DEF Elems
    <3>2. CASE i = 1
      BY <1>1, <3>1, <3>2
    <3>3. CASE i # 1
      BY <1>3, <3>1, <3>3, Zenon DEF Elems
    <3>4. QED
      BY <3>2, <3>3
  <2>2. ASSUME NEW h \in Elems(Tail(q)) PROVE h \in Elems(q)
    <3>1. PICK i \in 1 .. Len(Tail(q)) : h = Tail(q)[i]
      BY DEF Elems
    <3>2. QED
      BY <1>2, <3>1, Zenon DEF Elems
  <2>3. Head(q) \in Elems(q)
    BY <1>1, <1>3, Zenon DEF Elems
  <2>4. QED
    BY <2>1, <2>2, <2>3
<1>7. ASSUME NEW h \in Elems(Tail(q)) PROVE h \in Handler /\ Ordered(Head(q), h)
  <2>1. PICK i \in 1 .. Len(Tail(q)) : h = Tail(q)[i]
    BY DEF Elems
  <2>2. h = q[i + 1] /\ i + 1 \in 1 .. Len(q) /\ 1 < i + 1
    BY <1>2, <2>1, Zenon
  <2>3. Ordered(q[1], q[i + 1])
    BY <1>3, <2>2, Zenon DEF InOrder
  <2>4. QED
    BY <1>1, <2>2, <2>3
<1>8. QED
  BY <1>1, <1>3, <1>5, <1>6, <1>7

\* Queueing a handler behind those that are there.
LEMMA Pushed ==
  ASSUME NEW q \in Seq(Handler), NEW h \in Handler, InOrder(q), \A g \in Elems(q) : Ordered(g, h)
  PROVE  Append(q, h) \in Seq(Handler) /\ InOrder(Append(q, h)) /\ Elems(Append(q, h)) = Elems(q) \cup {h}
<1> DEFINE p == Append(q, h)
<1>1. /\ p \in Seq(Handler) /\ Len(q) \in Nat /\ Len(p) = Len(q) + 1 /\ p[Len(q) + 1] = h
      /\ \A i \in 1 .. Len(q) : p[i] = q[i]
  OBVIOUS
<1> HIDE DEF p
<1>2. 1 .. Len(p) = (1 .. Len(q)) \cup {Len(q) + 1}
  BY <1>1
<1>3. \A i \in 1 .. Len(p) : ~(Len(q) + 1 < i)
  BY <1>1
<1>4. InOrder(p)
  <2> SUFFICES ASSUME NEW i \in 1 .. Len(p), NEW j \in 1 .. Len(p), i < j PROVE Ordered(p[i], p[j])
    BY DEF InOrder
  <2>1. i \in 1 .. Len(q)
    BY <1>2, <1>3
  <2>2. CASE j \in 1 .. Len(q)
    BY <1>1, <2>1, <2>2 DEF InOrder
  <2>3. CASE j = Len(q) + 1
    BY <1>1, <2>1, <2>3, Zenon DEF Elems
  <2>4. QED
    BY <1>2, <2>2, <2>3
<1>5. Elems(p) = Elems(q) \cup {h}
  BY <1>1, <1>2 DEF Elems
<1>6. QED
  BY <1>1, <1>4, <1>5 DEF p

\* Whatever is queued, nothing that was queued is lost.
LEMMA Grows ==
  ASSUME NEW q \in Seq(Handler), NEW h
  PROVE  Elems(q) \subseteq Elems(Append(q, h)) /\ h \in Elems(Append(q, h))
<1>1. /\ Len(q) \in Nat /\ Len(Append(q, h)) = Len(q) + 1 /\ Append(q, h)[Len(q) + 1] = h
      /\ \A i \in 1 .. Len(q) : Append(q, h)[i] = q[i]
  OBVIOUS
<1>2. 1 .. Len(Append(q, h)) = (1 .. Len(q)) \cup {Len(q) + 1}
  BY <1>1
<1>3. QED
  BY <1>1, <1>2 DEF Elems

\* Adding one handler or none, as the cancellations do.
LEMMA Joined ==
  ASSUME NEW q \in Seq(Handler), NEW h \in Handler
  PROVE  q \o <<>> = q /\ q \o <<h>> = Append(q, h)
  OBVIOUS

\* What every handler of run() starts from.
LEMMA HandlerRuns ==
  ASSUME SessionInv, pc \notin Ended, NEW on, NEW codes, Running(on, codes)
  PROVE  /\ Head(queue) \in Handler /\ Head(queue).on = on /\ Head(queue).ec \in codes /\ Fits(Head(queue))
         /\ Tail(queue) \in Seq(Handler) /\ InOrder(Tail(queue))
         /\ \A h \in Elems(Tail(queue)) : h \in Handler /\ Ordered(Head(queue), h) /\ Fits(h)
<1>1. queue \in Seq(Handler) /\ InOrder(queue) /\ queue # <<>> /\ \A h \in Elems(queue) : Fits(h)
  BY DEF SessionInv, SessionShape, Alive, Running
<1>2. Elems(queue) = Elems(Tail(queue)) \cup {Head(queue)}
  BY <1>1, Popped
<1>3. QED
  BY <1>1, <1>2, Popped, Zenon DEF Running

\* An operation of the socket completes behind everything that is queued.
LEMMA OpCompletesStep ==
  ASSUME SessionInv, NEW ec \in {"ok", "more", "error"}, op # "none", OpCompletes(ec),
         op = "read" /\ ec = "ok" => reads < MaxReads
  PROVE  SessionInv'
<1> PICK o : o = op
  OBVIOUS
<1> DEFINE h == [on |-> o, ec |-> ec]
<1> USE DEF SessionInv, SessionShape, Alive, SockOp, Timer, Ended
<1>1. pc \notin Ended /\ h \in Handler
  BY DEF Handler, Code
<1>2. \A g \in Elems(queue) : Fits(g) /\ Ordered(g, h)
  BY <1>1 DEF Fits, Ordered
<1>3. queue' = Append(queue, h) /\ op' = "none" /\ UNCHANGED <<tls, pc, abort, armed, served, reads, answer>>
  BY DEF OpCompletes, Queued
<1>4. queue' \in Seq(Handler) /\ InOrder(queue') /\ Elems(queue') = Elems(queue) \cup {h}
  BY <1>1, <1>2, <1>3, Pushed
<1>5. \A g \in Elems(queue) : Fits(g)'
  BY <1>1, <1>2, <1>3 DEF Fits
<1>6. Fits(h)'
  BY <1>1, <1>3 DEF Fits
<1>7. QED
  BY <1>1, <1>3, <1>4, <1>5, <1>6

\* So does a timer.
LEMMA TimerExpiresStep ==
  ASSUME SessionInv, NEW t \in Timer, TimerExpires(t)
  PROVE  SessionInv'
<1> DEFINE h == [on |-> t, ec |-> "ok"]
<1> USE DEF SessionInv, SessionShape, Alive, SockOp, Timer, Ended
<1>1. pc \notin Ended /\ h \in Handler
  BY DEF Handler, Code, TimerExpires
<1>2. \A g \in Elems(queue) : Fits(g) /\ Ordered(g, h)
  BY <1>1 DEF Fits, Ordered, Awaited, TimerExpires
<1>3. queue' = Append(queue, h) /\ armed' = armed \ {t} /\ UNCHANGED <<tls, pc, op, abort, served, reads, answer>>
  BY DEF TimerExpires, Queued
<1>4. queue' \in Seq(Handler) /\ InOrder(queue') /\ Elems(queue') = Elems(queue) \cup {h}
  BY <1>1, <1>2, <1>3, Pushed
<1>5. \A g \in Elems(queue) : Fits(g)'
  BY <1>1, <1>2, <1>3 DEF Fits
<1>6. Fits(h)'
  BY <1>1, <1>3 DEF Fits, TimerExpires
<1>7. QED
  BY <1>1, <1>3, <1>4, <1>5, <1>6

\* And the chain: its completion is behind a header timeout that is queued.
LEMMA ChainCompletesStep ==
  ASSUME SessionInv, ChainCompletes
  PROVE  SessionInv'
<1> DEFINE h == [on |-> "post", ec |-> "ok"]
<1> USE SessionAssumption DEF SessionInv, SessionShape, Alive, SockOp, Timer, Ended
<1>1. pc = "chain" /\ h \in Handler /\ reads \in 1 .. MaxReads
  BY DEF Handler, Code, ChainCompletes
<1>2. PICK result \in Result : answer' = [answer EXCEPT ![reads] = result]
  BY DEF ChainCompletes, Chain!Complete
<1>3. queue' = Append(queue, h) /\ UNCHANGED <<tls, pc, op, abort, armed, served, reads>>
  BY DEF ChainCompletes, Completion
<1>4. \A g \in Elems(queue) : Fits(g) /\ Ordered(g, h)
  BY <1>1 DEF Fits, Ordered, Awaited, ChainCompletes
<1>5. queue' \in Seq(Handler) /\ InOrder(queue') /\ Elems(queue') = Elems(queue) \cup {h}
  BY <1>1, <1>3, <1>4, Pushed
<1>6. answer'[reads] \in Result /\ answer' \in [1 .. MaxReads -> Result \cup {"idle", "running"}]
      /\ \A i \in 1 .. reads - 1 : answer'[i] = answer[i]
  BY <1>1, <1>2
<1>7. \A g \in Elems(queue) : Fits(g)'
  BY <1>1, <1>3, <1>4, <1>6 DEF Fits
<1>8. Fits(h)'
  BY <1>1, <1>3, <1>6 DEF Fits
<1>9. QED
  BY <1>1, <1>3, <1>5, <1>6, <1>7, <1>8

\* run() goes back to reading, with an empty queue or one that holds timeouts.
LEMMA StartReadStep ==
  ASSUME SessionInv, pc \notin Ended, NEW timers, timers \subseteq Timer, "tls" \notin timers,
         NEW on, Running(on, Code), on \in {"start", "handshake", "write"}, queue' = Tail(queue),
         StartRead(timers), UNCHANGED <<tls, reads, answer>>, served' = reads,
         \A i \in 1 .. reads : answer[i] \in Result
  PROVE  SessionInv'
<1> USE DEF SessionInv, SessionShape, Alive, SockOp, Timer, Ended
<1>1. /\ Fits(Head(queue)) /\ Head(queue).on = on /\ Tail(queue) \in Seq(Handler) /\ InOrder(Tail(queue))
      /\ \A h \in Elems(Tail(queue)) : h \in Handler /\ Ordered(Head(queue), h) /\ Fits(h)
  BY HandlerRuns
<1>2. /\ pc' = "read" /\ op' = "read" /\ abort' = "None" /\ armed' = timers \cup {"header"}
  BY DEF StartRead
<1>3. pc \in {"start", "handshake", "write", "reply408"}
  BY <1>1 DEF Fits, Awaited
<1>4. \A h \in Elems(Tail(queue)) : h.on \notin SockOp \cup {"start", "post", "resume", "header"}
  BY <1>1, <1>3 DEF Fits, Ordered, Awaited
<1>5. \A h \in Elems(Tail(queue)) : Fits(h)'
  BY <1>1, <1>2, <1>4 DEF Fits
<1>6. QED
  BY <1>1, <1>2, <1>5 DEF Awaited

\* run() returns.
LEMMA LeaveStep ==
  ASSUME SessionInv, pc \notin Ended, queue # <<>>, NEW final \in Ended, Leave(final), queue' = Tail(queue),
         reads' \in 0 .. MaxReads, answer' \in [1 .. MaxReads -> Result \cup {"idle", "running"}]
  PROVE  SessionInv'
<1>1. queue \in Seq(Handler) /\ InOrder(queue)
  BY DEF SessionInv, SessionShape
<1>2. Tail(queue) \in Seq(Handler) /\ InOrder(Tail(queue))
  BY <1>1, Popped
<1>3. QED
  BY <1>2 DEF SessionInv, SessionShape, Leave, Ended

\* on_timeout_header and the handshake's timeout, with the cancellation they cause.
LEMMA TimeoutStep ==
  ASSUME SessionInv, pc \notin Ended, NEW t, Running(t, {"ok"}), CancelSocket,
         \/ t = "header" /\ abort' = "HeaderTimeout"
         \/ t = "tls" /\ abort' = "HandshakeTimeout",
         UNCHANGED <<tls, pc, armed, served, reads, answer>>
  PROVE  SessionInv'
<1> USE DEF SessionInv, SessionShape, Alive, SockOp, Timer, Ended
<1> PICK o : o = op
  OBVIOUS
<1> DEFINE h == [on |-> o, ec |-> "aborted"]
<1>1. /\ Fits(Head(queue)) /\ Head(queue).on = t /\ Tail(queue) \in Seq(Handler) /\ InOrder(Tail(queue))
      /\ \A g \in Elems(Tail(queue)) : g \in Handler /\ Ordered(Head(queue), g) /\ Fits(g)
  BY HandlerRuns
<1>2. \A g \in Elems(Tail(queue)) : Fits(g)'
  <2>1. op' = "none"
    BY DEF CancelSocket
  <2>2. QED
    BY <1>1, <2>1 DEF Fits, Ordered
<1>3. CASE op = "none"
  <2>1. queue' = Tail(queue) /\ op' = op
    BY <1>1, <1>3 DEF CancelSocket
  <2>2. QED
    BY <1>1, <1>2, <1>3, <2>1 DEF Fits
<1>4. CASE op # "none"
  <2>1. h \in Handler /\ op' = "none"
    BY <1>4 DEF Handler, Code, CancelSocket
  <2>2. \A g \in Elems(Tail(queue)) : Ordered(g, h)
    BY <1>1, <1>4 DEF Fits, Ordered
  <2>3. queue' = Append(Tail(queue), h)
    BY <1>1, <1>4, <2>1, Joined DEF CancelSocket
  <2>4. queue' \in Seq(Handler) /\ InOrder(queue') /\ Elems(queue') = Elems(Tail(queue)) \cup {h}
    BY <1>1, <2>1, <2>2, <2>3, Pushed
  <2>5. Fits(h)'
    BY <1>1, <1>4, <2>1 DEF Fits, Awaited
  <2>6. QED
    BY <1>1, <1>2, <2>1, <2>4, <2>5 DEF Fits
<1>5. QED
  BY <1>3, <1>4

\* Every step of the session keeps its invariant.
LEMMA SessionInvStep == SessionInv /\ [Next]_vars => SessionInv'
<1> SUFFICES ASSUME SessionInv, [Next]_vars PROVE SessionInv'
  OBVIOUS
<1> USE SessionAssumption DEF SessionInv, SessionShape, Alive, SockOp, Timer, Ended
<1>1. CASE HandshakeCompletes \/ HeadersArrive \/ ReadCompletes \/ WriteCompletes \/ OpFails
  BY <1>1, OpCompletesStep DEF HandshakeCompletes, HeadersArrive, ReadCompletes, WriteCompletes, OpFails
<1>2. CASE (\E t \in Timer : TimerExpires(t)) \/ ChainCompletes
  BY <1>2, TimerExpiresStep, ChainCompletesStep
<1>3. CASE OnStart
  <2>1. pc = "start" /\ Running("start", {"ok"}) /\ queue' = Tail(queue) /\ UNCHANGED <<tls, served, reads, answer>>
    BY <1>3 DEF OnStart
  <2>2. /\ Fits(Head(queue)) /\ Head(queue).on = "start" /\ Tail(queue) \in Seq(Handler) /\ InOrder(Tail(queue))
        /\ \A h \in Elems(Tail(queue)) : h \in Handler /\ Ordered(Head(queue), h) /\ Fits(h)
    BY <2>1, HandlerRuns
  <2>3. CASE ~tls /\ StartRead(armed)
    <3>1. Running("start", Code) /\ "tls" \notin armed /\ armed \subseteq Timer
      BY <2>1 DEF Running, Code
    <3>2. served' = reads /\ \A i \in 1 .. reads : answer[i] \in Result
      BY <2>1
    <3> HIDE DEF SessionInv
    <3>3. QED
      BY <2>1, <2>3, <3>1, <3>2, StartReadStep
  <2>4. CASE tls /\ pc' = "handshake" /\ op' = "handshake" /\ armed' = armed \cup {"tls"} /\ abort' = abort
    <3>1. \A h \in Elems(Tail(queue)) : Fits(h)'
      BY <2>1, <2>2, <2>4 DEF Fits, Ordered, Awaited
    <3>2. QED
      BY <2>1, <2>2, <2>4, <3>1 DEF Awaited
  <2>5. QED
    BY <1>3, <2>3, <2>4 DEF OnStart
<1>4. CASE OnHandshake
  <2>1. pc = "handshake" /\ Running("handshake", Code) /\ queue' = Tail(queue) /\ UNCHANGED <<tls, served, reads, answer>>
    BY <1>4 DEF OnHandshake
  <2>2. CASE StartRead(OnActivity(armed \ {"tls"}))
    <3> DEFINE timers == OnActivity(armed \ {"tls"})
    <3>1. "tls" \notin timers /\ timers \subseteq Timer
      BY DEF OnActivity
    <3>2. served' = reads /\ \A i \in 1 .. reads : answer[i] \in Result
      BY <2>1
    <3> HIDE DEF SessionInv, timers
    <3>3. QED
      BY <2>1, <2>2, <3>1, <3>2, StartReadStep DEF timers
  <2>3. CASE Leave("gone")
    BY <2>1, <2>3, LeaveStep DEF Running
  <2>4. QED
    BY <1>4, <2>2, <2>3 DEF OnHandshake
<1>5. CASE OnReadMore
  <2>1. /\ Fits(Head(queue)) /\ Head(queue).on = "read" /\ Tail(queue) \in Seq(Handler) /\ InOrder(Tail(queue))
        /\ \A h \in Elems(Tail(queue)) : h \in Handler /\ Ordered(Head(queue), h) /\ Fits(h)
    BY <1>5, HandlerRuns DEF OnReadMore
  <2>2. \A h \in Elems(Tail(queue)) : Fits(h)'
    BY <1>5, <2>1 DEF OnReadMore, Fits, Ordered
  <2>3. QED
    BY <1>5, <2>1, <2>2 DEF OnReadMore, Awaited
<1>6. CASE OnReadFailed
  <2>1. pc = "read" /\ Running("read", {"error", "aborted"}) /\ queue' = Tail(queue) /\ UNCHANGED <<tls, served, reads, answer>>
    BY <1>6 DEF OnReadFailed
  <2>2. CASE Leave("gone")
    BY <2>1, <2>2, LeaveStep DEF Running
  <2>3. CASE /\ abort \in {"HeaderTimeout", "BodyTimeout"}
             /\ pc' = "reply408" /\ op' = "write" /\ abort' = "None" /\ armed' = armed \ {"header"}
    <3>1. /\ Fits(Head(queue)) /\ Head(queue).on = "read" /\ Tail(queue) \in Seq(Handler) /\ InOrder(Tail(queue))
          /\ \A h \in Elems(Tail(queue)) : h \in Handler /\ Ordered(Head(queue), h) /\ Fits(h)
      BY <2>1, HandlerRuns
    <3>2. \A h \in Elems(Tail(queue)) : Fits(h)'
      BY <2>1, <2>3, <3>1 DEF Fits, Ordered
    <3>3. QED
      BY <2>1, <2>3, <3>1, <3>2 DEF Awaited
  <2>4. QED
    BY <1>6, <2>2, <2>3 DEF OnReadFailed
<1>7. CASE OnRequest
  <2>1. pc = "read" /\ Running("read", {"ok"}) /\ reads' = reads + 1 /\ UNCHANGED <<tls, served>>
    BY <1>7 DEF OnRequest
  <2>2. /\ Fits(Head(queue)) /\ Head(queue) = [on |-> "read", ec |-> "ok"]
        /\ Tail(queue) \in Seq(Handler) /\ InOrder(Tail(queue))
        /\ \A h \in Elems(Tail(queue)) : h \in Handler /\ Ordered(Head(queue), h) /\ Fits(h)
    BY <2>1, HandlerRuns DEF Handler
  <2>3. reads' \in 1 .. MaxReads /\ reads' - 1 = reads
    BY <2>1, <2>2 DEF Fits
  <2>4. CASE Leave("upgraded") /\ queue' = Tail(queue) /\ UNCHANGED answer
    BY <2>1, <2>3, <2>4, LeaveStep DEF Running
  <2>5. CASE Chain!Begin(reads') /\ Leave("gone") /\ queue' = Tail(queue)
    <3>1. answer' \in [1 .. MaxReads -> Result \cup {"idle", "running"}]
      BY <2>5 DEF Chain!Begin
    <3>2. QED
      BY <2>1, <2>3, <2>5, <3>1, LeaveStep DEF Running
  <2>6. CASE /\ pc' = "chain" /\ armed' = OnActivity(armed \ {"header"}) /\ UNCHANGED <<op, abort>>
             /\ \/ Chain!Begin(reads') /\ queue' = Tail(queue)
                \/ (\E result \in Result : Chain!Complete(reads', result)) /\ queue' = Completion(Tail(queue))
    <3>1. armed' \subseteq Timer /\ "header" \notin armed' /\ "tls" \notin armed'
      BY <2>1, <2>6 DEF OnActivity
    <3>2. op = "none"
      BY <2>2 DEF Fits
    <3>0. /\ pc' = "chain" /\ op' = "none" /\ reads' \in 0 .. MaxReads
          /\ abort' \in {"None", "HeaderTimeout", "HandshakeTimeout"}
      BY <2>3, <2>6, <3>2
    <3>3. \A h \in Elems(Tail(queue)) : h.on \notin SockOp \cup {"start", "post", "resume", "tls"}
      BY <2>1, <2>2 DEF Fits, Ordered
    <3>4. \A h \in Elems(Tail(queue)) : Fits(h)'
      BY <2>6, <3>1, <3>3 DEF Fits
    <3>5. /\ answer' \in [1 .. MaxReads -> Result \cup {"idle", "running"}]
          /\ \A i \in 1 .. reads : answer'[i] \in Result
      <4>1. PICK x \in Result \cup {"running"} : answer' = [answer EXCEPT ![reads'] = x]
        BY <2>6 DEF Chain!Begin, Chain!Complete
      <4>2. \A i \in 1 .. reads : i # reads' /\ answer[i] \in Result
        BY <2>1, <2>3
      <4>3. QED
        BY <2>3, <4>1, <4>2
    <3>6. CASE queue' = Tail(queue)
      <4>1. SessionShape'
        BY <2>2, <3>0, <3>1, <3>5, <3>6
      <4>2. Alive'
        BY <2>1, <2>3, <2>6, <3>1, <3>2, <3>4, <3>5, <3>6
      <4>3. QED
        BY <4>1, <4>2
    <3>7. CASE (\E result \in Result : Chain!Complete(reads', result)) /\ queue' = Completion(Tail(queue))
      <4> DEFINE h == [on |-> "post", ec |-> "ok"]
      <4>1. h \in Handler /\ \A g \in Elems(Tail(queue)) : Ordered(g, h)
        BY <3>3 DEF Handler, Code, Ordered
      <4>2. queue' \in Seq(Handler) /\ InOrder(queue') /\ Elems(queue') = Elems(Tail(queue)) \cup {h}
        BY <2>2, <3>7, <4>1, Pushed DEF Completion
      <4>3. answer'[reads'] \in Result
        BY <2>3, <3>7 DEF Chain!Complete
      <4>4. Fits(h)'
        BY <2>6, <4>3 DEF Fits
      <4>5. QED
        <5>1. SessionShape'
          BY <3>0, <3>1, <3>5, <4>2
        <5>2. Alive'
          BY <2>1, <2>3, <2>6, <3>1, <3>2, <3>4, <3>5, <4>2, <4>4
        <5>3. QED
          BY <5>1, <5>2
    <3>8. QED
      BY <2>6, <3>6, <3>7
  <2>7. QED
    BY <1>7, <2>4, <2>5, <2>6 DEF OnRequest
<1>8. CASE OnPosted
  <2>1. pc = "chain" /\ Running("post", {"ok"}) /\ UNCHANGED <<tls, pc, op, abort, armed, served, reads, answer>>
    BY <1>8 DEF OnPosted
  <2>2. /\ Fits(Head(queue)) /\ Head(queue).on = "post" /\ Tail(queue) \in Seq(Handler) /\ InOrder(Tail(queue))
        /\ \A h \in Elems(Tail(queue)) : h \in Handler /\ Ordered(Head(queue), h) /\ Fits(h)
    BY <2>1, HandlerRuns
  <2> DEFINE h == [on |-> "resume", ec |-> "aborted"]
  <2>3. \A g \in Elems(Tail(queue)) : Fits(g)'
    BY <2>1, <2>2 DEF Fits
  <2>4. h \in Handler /\ Fits(h)' /\ \A g \in Elems(Tail(queue)) : Ordered(g, h)
    BY <2>1, <2>2 DEF Handler, Code, Fits, Ordered
  <2>5. queue' = Tail(queue) \/ queue' = Append(Tail(queue), h)
    BY <1>8, <2>2, <2>4, Joined DEF OnPosted
  <2>6. CASE queue' = Tail(queue)
    BY <2>1, <2>2, <2>3, <2>6
  <2>7. CASE queue' = Append(Tail(queue), h)
    <3>1. queue' \in Seq(Handler) /\ InOrder(queue') /\ Elems(queue') = Elems(Tail(queue)) \cup {h}
      BY <2>2, <2>4, <2>7, Pushed
    <3>2. QED
      BY <2>1, <2>3, <2>4, <3>1
  <2>8. QED
    BY <2>5, <2>6, <2>7
<1>9. CASE OnResume
  <2>1. /\ pc = "chain" /\ Running("resume", Code) /\ pc' = "write" /\ op' = "write" /\ queue' = Tail(queue)
        /\ UNCHANGED <<tls, abort, armed, served, reads, answer>>
    BY <1>9 DEF OnResume
  <2>2. /\ Fits(Head(queue)) /\ Head(queue).on = "resume" /\ Tail(queue) \in Seq(Handler) /\ InOrder(Tail(queue))
        /\ \A h \in Elems(Tail(queue)) : h \in Handler /\ Ordered(Head(queue), h) /\ Fits(h)
    BY <2>1, HandlerRuns
  <2>3. \A h \in Elems(Tail(queue)) : Fits(h)'
    BY <2>1, <2>2 DEF Fits, Ordered, Awaited
  <2>4. QED
    BY <2>1, <2>2, <2>3 DEF Awaited, Fits
<1>10. CASE OnWritten
  <2>1. pc = "write" /\ Running("write", {"ok"}) /\ queue' = Tail(queue) /\ served' = served + 1 /\ UNCHANGED <<tls, reads, answer>>
    BY <1>10 DEF OnWritten
  <2>2. CASE Leave("gone")
    BY <2>1, <2>2, LeaveStep DEF Running
  <2>3. CASE StartRead(OnActivity(armed))
    <3>1. served' = reads /\ \A i \in 1 .. reads : answer[i] \in Result
      BY <2>1
    <3>2. QED
      BY <2>1, <2>3, <3>1, StartReadStep DEF OnActivity, Running, Code
  <2>4. QED
    BY <1>10, <2>2, <2>3 DEF OnWritten
<1>11. CASE OnWriteFailed \/ OnReplied
  BY <1>11, LeaveStep DEF OnWriteFailed, OnReplied, Running
<1>12. CASE OnTimeoutIdle
  <2>1. /\ Tail(queue) \in Seq(Handler) /\ InOrder(Tail(queue))
        /\ \A h \in Elems(Tail(queue)) : h \in Handler /\ Fits(h)
    BY <1>12, HandlerRuns DEF OnTimeoutIdle
  <2>2. \A h \in Elems(Tail(queue)) : Fits(h)'
    BY <1>12, <2>1 DEF OnTimeoutIdle, Fits
  <2>3. QED
    BY <1>12, <2>1, <2>2 DEF OnTimeoutIdle
<1>13. CASE OnTimeoutHeader \/ OnTimeoutHandshake
  BY <1>13, TimeoutStep DEF OnTimeoutHeader, OnTimeoutHandshake
<1>14. CASE OnDangling
  <2>1. Tail(queue) \in Seq(Handler) /\ InOrder(Tail(queue))
    BY <1>14, Popped DEF OnDangling
  <2>2. QED
    BY <1>14, <2>1 DEF OnDangling
<1>15. CASE UNCHANGED vars
  <2>1. \A h \in Elems(queue) : Fits(h) => Fits(h)'
    BY <1>15 DEF vars, Fits
  <2>2. QED
    BY <1>15, <2>1 DEF vars
<1>16. QED
  BY <1>1, <1>2, <1>3, <1>4, <1>5, <1>6, <1>7, <1>8, <1>9, <1>10, <1>11, <1>12, <1>13, <1>14, <1>15
     DEF Next, Environment, Handlers

\* The session's invariant holds on every connection, upgraded or not.
LEMMA SessionInvCorrect == ConnSpec => []SessionInv
<1>1. ConnInit => SessionInv
  <2> SUFFICES ASSUME Init PROVE SessionInv
    BY DEF ConnInit
  <2> DEFINE h == [on |-> "start", ec |-> "ok"]
  <2>1. queue = <<h>> /\ h \in Handler
    BY DEF Init, Handler, Code
  <2>2. queue \in Seq(Handler) /\ Len(queue) = 1 /\ queue[1] = h
    BY <2>1
  <2>3. Elems(queue) = {h} /\ InOrder(queue)
    BY <2>2 DEF Elems, InOrder
  <2>4. Fits(h)
    BY DEF Init, Fits, SockOp
  <2>5. SessionShape
    BY <2>2, <2>3, SessionAssumption DEF Init, Chain!Init, SessionShape, SockOp, Timer, Ended
  <2>6. Alive
    <3>1. \A g \in Elems(queue) : Fits(g)
      BY <2>3, <2>4
    <3>2. pc = "start" /\ op = "none" /\ armed = {"idle"} /\ abort = "None" /\ reads = 0 /\ served = 0
      BY DEF Init
    <3>3. pc \notin {"chain", "write"}
      BY <3>2
    <3>4. served = reads - (IF pc \in {"chain", "write"} THEN 1 ELSE 0)
      <4>1. (IF pc \in {"chain", "write"} THEN 1 ELSE 0) = 0
        BY <3>3
      <4>2. \A n \in Nat : n = n - 0
        OBVIOUS
      <4>3. served = reads /\ reads \in Nat
        BY <3>2
      <4>4. QED
        BY <4>1, <4>2, <4>3, Zenon
    <3>5. 1 .. (IF pc \in {"chain", "write"} THEN reads - 1 ELSE reads) = {}
      BY <3>2, <3>3
    <3>6. QED
      BY <3>1, <3>2, <3>3, <3>4, <3>5 DEF Alive
  <2>7. QED
    BY <2>5, <2>6 DEF SessionInv
<1>2. SessionInv /\ [ConnNext]_connVars => SessionInv'
  BY SessionInvStep DEF ConnNext, HttpSide, WsSide, connVars
<1>3. QED
  BY <1>1, <1>2, PTL DEF ConnSpec

\* While run() writes, neither the header timer nor the handshake timer can fire,
\* and no handler of theirs is left in the queue.
THEOREM WritesAreSpared == ConnSpec => []TimeoutsSpareTheResponse
<1>1. ASSUME SessionInv PROVE TimeoutsSpareTheResponse
  <2> SUFFICES ASSUME op = "write" PROVE ~Due("header") /\ ~Due("tls")
    BY DEF TimeoutsSpareTheResponse
  <2>1. pc \in {"write", "reply408"} /\ Alive
    BY <1>1 DEF SessionInv, SessionShape, Alive, Awaited, Ended
  <2>2. \A i \in 1 .. Len(queue) : Fits(queue[i])
    BY <2>1 DEF Alive, Elems
  <2>3. QED
    BY <2>1, <2>2 DEF Due, IsQueued, Alive, Fits
<1>2. QED
  BY <1>1, SessionInvCorrect, PTL

\* On a plain connection a read that was aborted was aborted by the header timer,
\* and gets its 408.
THEOREM PlainReadsAnswered == ConnSpec => []PlainAbortedReadAnswered
<1>1. ASSUME SessionInv PROVE PlainAbortedReadAnswered
  <2> SUFFICES ASSUME ~tls, pc = "read", Running("read", {"aborted"}) PROVE abort \in {"HeaderTimeout", "BodyTimeout"}
    BY DEF PlainAbortedReadAnswered, AbortedReadAnswered
  <2>1. Head(queue) \in Handler /\ Head(queue).on = "read" /\ Head(queue).ec \in {"aborted"} /\ Fits(Head(queue))
    BY <1>1, HandlerRuns DEF Ended
  <2>2. Head(queue) = [on |-> "read", ec |-> "aborted"]
    BY <2>1 DEF Handler
  <2>3. QED
    BY <2>1, <2>2 DEF Fits
<1>2. QED
  BY <1>1, SessionInvCorrect, PTL

\* run() writes the answer to the request it read last, one answer per request.
THEOREM AnswersAreWritten == ConnSpec => []WritesTheAnswer
<1>1. SessionInv => WritesTheAnswer
  BY DEF SessionInv, SessionShape, Alive, WritesTheAnswer, Ended
<1>2. QED
  BY <1>1, SessionInvCorrect, PTL

\* The idle timer is armed or its handler is queued until it has run.
THEOREM IdleTimerWatches == ConnSpec => []AlwaysWatched
<1> DEFINE Watched == pc \in Ended \/ shut \/ "idle" \in armed \/ \E h \in Elems(queue) : h.on = "idle"
<1>1. ConnInit => Watched
  BY DEF ConnInit, Init
<1>2. SessionInv /\ Watched /\ [ConnNext]_connVars => Watched'
  <2> SUFFICES ASSUME SessionInv, Watched, [Next]_vars, pc' \notin Ended PROVE Watched'
    BY DEF ConnNext, HttpSide, WsSide, connVars
  <2>1. queue \in Seq(Handler) /\ InOrder(queue)
    BY DEF SessionInv, SessionShape
  <2>2. pc \notin Ended
    BY DEF Next, Environment, Handlers, HandshakeCompletes, HeadersArrive, ReadCompletes, WriteCompletes, OpFails, OpCompletes,
           TimerExpires, ChainCompletes, OnStart, OnHandshake, OnReadMore, OnReadFailed, OnRequest, OnPosted, OnResume,
           OnWritten, OnWriteFailed, OnReplied, OnTimeoutIdle, OnTimeoutHeader, OnTimeoutHandshake, OnDangling, Ended, vars
  <2>3. shut \/ "idle" \in armed \/ \E h \in Elems(queue) : h.on = "idle"
    BY <2>2, Zenon
  <2>4. ASSUME NEW h, queue' = Append(queue, h), shut' = shut, armed' = armed \/ armed' = armed \ {h.on} PROVE Watched'
    <3>1. Elems(queue) \subseteq Elems(queue') /\ h \in Elems(queue')
      BY <2>1, <2>4, Grows
    <3>2. QED
      BY <2>3, <2>4, <3>1
  <2>5. ASSUME NEW on, Running(on, Code), on # "idle", "idle" \in armed => "idle" \in armed', shut' = shut,
               NEW h, queue' = Tail(queue) \/ queue' = Append(Tail(queue), h)
        PROVE  Watched'
    <3>1. Elems(queue) = Elems(Tail(queue)) \cup {Head(queue)} /\ Tail(queue) \in Seq(Handler)
      BY <2>1, <2>5, Popped DEF Running
    <3>2. Elems(Tail(queue)) \subseteq Elems(queue')
      BY <2>5, <3>1, Grows
    <3>3. QED
      BY <2>3, <2>5, <3>1, <3>2 DEF Running
  <2>6. CASE Environment
    <3>1. ASSUME NEW ec, OpCompletes(ec) PROVE Watched'
      BY <2>4, <3>1 DEF OpCompletes, Queued
    <3>2. ASSUME NEW t, TimerExpires(t) PROVE Watched'
      <4>1. [on |-> t, ec |-> "ok"].on = t
        OBVIOUS
      <4>2. QED
        BY <2>4, <3>2, <4>1 DEF TimerExpires, Queued
    <3>3. CASE ChainCompletes
      BY <2>4, <3>3 DEF ChainCompletes, Completion
    <3>4. QED
      BY <2>6, <3>1, <3>2, <3>3 DEF Environment, HandshakeCompletes, HeadersArrive, ReadCompletes, WriteCompletes, OpFails
  <2>7. CASE OnTimeoutIdle
    BY <2>7, Zenon DEF OnTimeoutIdle
  <2>8. CASE OnStart
    BY <2>5, <2>8 DEF OnStart, StartRead, Running, Code
  <2>9. CASE OnHandshake
    BY <2>5, <2>9 DEF OnHandshake, StartRead, OnActivity, Leave, Ended
  <2>10. CASE OnReadMore \/ OnReadFailed
    BY <2>5, <2>10 DEF OnReadMore, OnReadFailed, Leave, Ended, Running, Code
  <2>11. CASE OnRequest
    <3>1. Running("read", Code) /\ "idle" \in armed' /\ shut' = shut
      BY <2>11 DEF OnRequest, OnActivity, Leave, Ended, Running, Code
    <3>2. \E h : queue' = Tail(queue) \/ queue' = Append(Tail(queue), h)
      BY <2>11 DEF OnRequest, Completion
    <3>3. QED
      BY <2>5, <3>1, <3>2
  <2>12. CASE OnPosted
    <3>1. Tail(queue) \in Seq(Handler)
      BY <2>1, <2>12, Popped DEF OnPosted, Running
    <3>2. [on |-> "resume", ec |-> "aborted"] \in Handler
      BY DEF Handler, Code
    <3>3. queue' = Tail(queue) \/ queue' = Append(Tail(queue), [on |-> "resume", ec |-> "aborted"])
      BY <2>12, <3>1, <3>2, Joined DEF OnPosted
    <3>4. QED
      BY <2>5, <2>12, <3>3 DEF OnPosted, Running, Code
  <2>13. CASE OnResume
    BY <2>5, <2>13 DEF OnResume
  <2>14. CASE OnWritten
    BY <2>5, <2>14 DEF OnWritten, StartRead, OnActivity, Leave, Ended, Running, Code
  <2>15. CASE OnWriteFailed \/ OnReplied \/ OnDangling
    BY <2>2, <2>15 DEF OnWriteFailed, OnReplied, OnDangling, Leave, Ended
  <2>16. CASE OnTimeoutHeader \/ OnTimeoutHandshake
    <3>1. CancelSocket /\ (Running("header", {"ok"}) \/ Running("tls", {"ok"})) /\ UNCHANGED <<armed, shut>>
      BY <2>16 DEF OnTimeoutHeader, OnTimeoutHandshake
    <3>2. Tail(queue) \in Seq(Handler)
      BY <2>1, <3>1, Popped DEF Running
    <3>3. queue' = Tail(queue) \/ queue' = Append(Tail(queue), [on |-> op, ec |-> "aborted"])
      <4>1. op # "none" => [on |-> op, ec |-> "aborted"] \in Handler
        BY DEF SessionInv, SessionShape, Handler, Code
      <4>2. QED
        BY <3>1, <3>2, <4>1, Joined DEF CancelSocket
    <3>4. QED
      BY <2>5, <3>1, <3>3 DEF Running, Code
  <2>17. CASE UNCHANGED vars
    <3>1. UNCHANGED <<queue, shut, armed>>
      BY <2>17 DEF vars
    <3>2. QED
      BY <2>3, <3>1
  <2>18. QED
    BY <2>6, <2>7, <2>8, <2>9, <2>10, <2>11, <2>12, <2>13, <2>14, <2>15, <2>16, <2>17 DEF Next, Handlers
<1>3. SessionInv /\ Watched => AlwaysWatched
  <2> SUFFICES ASSUME NEW h \in Elems(queue), h.on = "idle" PROVE IsQueued("idle")
    BY DEF AlwaysWatched, Due
  <2>1. QED
    BY DEF Elems, IsQueued
<1> HIDE DEF Watched
<1>4. QED
  BY <1>1, <1>2, <1>3, SessionInvCorrect, PTL DEF ConnSpec

\* What will resume run() is there as long as run() is suspended: its first handler
\* is queued; or the operation of the socket it waits for is outstanding or its
\* handler queued; or the chain has yet to complete and run() waits on the done
\* timer, or the completion was posted and run() waits still, or its resumption is
\* queued.  A post that came before the wait would leave run() suspended for ever.
WillResume ==
  LET queued(on) == \E h \in Elems(queue) : h.on = on
  IN  /\ pc = "start" => queued("start")
      /\ Awaited(pc) # "none" => op = Awaited(pc) \/ queued(Awaited(pc))
      /\ pc = "chain" => \/ waiting /\ (answer[reads] = "running" \/ queued("post"))
                         \/ queued("resume")

NeverStranded == pc \in Ended \/ WillResume

\* A step that queues a handler and leaves the others is harmless.
LEMMA StrandedByNone ==
  ASSUME SessionInv, WillResume, Elems(queue) \subseteq Elems(queue'), UNCHANGED <<pc, waiting, reads>>,
         op' = op \/ \E h \in Elems(queue') : h.on = op,
         answer' = answer \/ \E h \in Elems(queue') : h.on = "post"
  PROVE  WillResume'
<1>1. pc = "start" => \E h \in Elems(queue') : h.on = "start"
  BY DEF WillResume
<1>2. Awaited(pc) # "none" => op' = Awaited(pc) \/ \E h \in Elems(queue') : h.on = Awaited(pc)
  BY DEF WillResume
<1>3. pc = "chain" => \/ waiting /\ (answer'[reads] = "running" \/ \E h \in Elems(queue') : h.on = "post")
                      \/ \E h \in Elems(queue') : h.on = "resume"
  BY DEF WillResume
<1>4. QED
  BY <1>1, <1>2, <1>3 DEF WillResume

\* Every step of a connection leaves run() something that will resume it.
LEMMA WillResumeStep ==
  ASSUME SessionInv, pc \notin Ended, pc' \notin Ended, WillResume, [Next]_vars
  PROVE  WillResume'
<1> USE DEF Ended
<1>1. /\ queue \in Seq(Handler) /\ InOrder(queue) /\ op \in SockOp \cup {"none"}
      /\ reads \in 0 .. MaxReads /\ answer \in [1 .. MaxReads -> Result \cup {"idle", "running"}]
  BY DEF SessionInv, SessionShape
<1>2. queue # <<>> => Tail(queue) \in Seq(Handler) /\ Elems(queue) = Elems(Tail(queue)) \cup {Head(queue)}
  BY <1>1, Popped
<1>3. ASSUME NEW ec, op # "none", OpCompletes(ec) PROVE WillResume'
  <2>1. queue' = Append(queue, [on |-> op, ec |-> ec]) /\ UNCHANGED <<pc, waiting, reads, answer>>
    BY <1>3 DEF OpCompletes, Queued
  <2>2. Elems(queue) \subseteq Elems(queue') /\ [on |-> op, ec |-> ec] \in Elems(queue') /\ [on |-> op, ec |-> ec].on = op
    BY <1>1, <2>1, Grows
  <2>3. QED
    BY <2>1, <2>2, StrandedByNone
<1>4. CASE HandshakeCompletes \/ HeadersArrive \/ ReadCompletes \/ WriteCompletes \/ OpFails
  BY <1>3, <1>4 DEF HandshakeCompletes, HeadersArrive, ReadCompletes, WriteCompletes, OpFails
<1>5. ASSUME NEW t, TimerExpires(t) PROVE WillResume'
  <2>1. queue' = Append(queue, [on |-> t, ec |-> "ok"]) /\ UNCHANGED <<pc, op, waiting, reads, answer>>
    BY <1>5 DEF TimerExpires, Queued
  <2>2. Elems(queue) \subseteq Elems(queue')
    BY <1>1, <2>1, Grows
  <2>3. QED
    BY <2>1, <2>2, StrandedByNone
<1>6. CASE ChainCompletes
  <2>1. queue' = Append(queue, [on |-> "post", ec |-> "ok"]) /\ UNCHANGED <<pc, op, waiting, reads>>
    BY <1>6 DEF ChainCompletes, Completion
  <2>2. Elems(queue) \subseteq Elems(queue') /\ [on |-> "post", ec |-> "ok"] \in Elems(queue') /\ [on |-> "post", ec |-> "ok"].on = "post"
    BY <1>1, <2>1, Grows
  <2>3. QED
    BY <2>1, <2>2, StrandedByNone
<1>7. CASE OnStart \/ OnHandshake \/ OnReadMore \/ OnReadFailed \/ OnResume \/ OnWritten
  <2>1. (pc' = "handshake" /\ op' = "handshake") \/ (pc' = "read" /\ op' = "read") \/ (pc' \in {"reply408", "write"} /\ op' = "write")
    BY <1>7 DEF OnStart, OnHandshake, OnReadMore, OnReadFailed, OnResume, OnWritten, StartRead, Leave
  <2>2. QED
    BY <2>1 DEF WillResume, Awaited
<1>8. CASE OnRequest
  <2>1. pc = "read" /\ Running("read", {"ok"}) /\ reads' = reads + 1
    BY <1>8 DEF OnRequest
  <2>2. reads' \in 1 .. MaxReads
    <3>1. Fits(Head(queue)) /\ Head(queue) = [on |-> "read", ec |-> "ok"]
      BY <2>1, HandlerRuns DEF Handler
    <3>2. QED
      BY <1>1, <2>1, <3>1, SessionAssumption DEF Fits
  <2>3. /\ pc' = "chain" /\ waiting' = TRUE
        /\ Chain!Begin(reads') \/ queue' = Completion(Tail(queue))
    BY <1>8 DEF OnRequest, Leave
  <2>4. CASE Chain!Begin(reads')
    <3>1. answer'[reads'] = "running"
      BY <1>1, <2>2, <2>4 DEF Chain!Begin
    <3>2. QED
      BY <2>3, <3>1 DEF WillResume, Awaited
  <2>5. CASE queue' = Completion(Tail(queue))
    <3>1. Tail(queue) \in Seq(Handler)
      BY <1>2, <2>1 DEF Running
    <3>2. [on |-> "post", ec |-> "ok"] \in Elems(queue') /\ [on |-> "post", ec |-> "ok"].on = "post"
      BY <2>5, <3>1, Grows DEF Completion
    <3>3. QED
      BY <2>3, <3>2 DEF WillResume, Awaited
  <2>6. QED
    BY <2>3, <2>4, <2>5
\* The one handler that posts is the one run() waits for: behind it nothing resumes,
\* so run() waits and is resumed.
<1>9. CASE OnPosted
  <2>1. pc = "chain" /\ Running("post", {"ok"}) /\ pc' = "chain"
    BY <1>9 DEF OnPosted
  <2>2. /\ Fits(Head(queue)) /\ Head(queue).on = "post"
        /\ \A h \in Elems(Tail(queue)) : h \in Handler /\ Ordered(Head(queue), h)
    BY <2>1, HandlerRuns
  <2>3. \A h \in Elems(queue) : h.on # "resume"
    BY <1>2, <2>1, <2>2 DEF Running, Ordered
  <2>4. waiting
    BY <2>1, <2>3 DEF WillResume
  <2>5. [on |-> "resume", ec |-> "aborted"] \in Handler /\ [on |-> "resume", ec |-> "aborted"].on = "resume"
    BY DEF Handler, Code
  <2>6. queue' = Append(Tail(queue), [on |-> "resume", ec |-> "aborted"])
    BY <1>2, <1>9, <2>1, <2>4, <2>5, Joined DEF OnPosted, Running
  <2>7. [on |-> "resume", ec |-> "aborted"] \in Elems(queue')
    BY <1>2, <2>1, <2>6, Grows DEF Running
  <2>8. QED
    BY <2>1, <2>5, <2>7 DEF WillResume, Awaited
<1>10. CASE OnWriteFailed \/ OnReplied \/ OnDangling
  BY <1>10 DEF OnWriteFailed, OnReplied, OnDangling, Leave
\* A timer's handler takes nothing away but itself, and a cancelled operation
\* completes.
<1>11. ASSUME NEW on \in Timer, Running(on, {"ok"}), NEW h, queue' = Tail(queue) \/ queue' = Append(Tail(queue), h),
              op' = op \/ (queue' = Append(Tail(queue), h) /\ h.on = op), UNCHANGED <<pc, waiting, reads, answer>>
       PROVE  WillResume'
  <2>1. Head(queue).on = on /\ Tail(queue) \in Seq(Handler) /\ Elems(queue) = Elems(Tail(queue)) \cup {Head(queue)}
    BY <1>2, <1>11 DEF Running
  <2>2. Elems(Tail(queue)) \subseteq Elems(queue') /\ (queue' = Append(Tail(queue), h) => h \in Elems(queue'))
    BY <1>11, <2>1, Grows
  <2>3. \A o \in SockOp \cup {"start", "post", "resume"} :
          (\E g \in Elems(queue) : g.on = o) => \E g \in Elems(queue') : g.on = o
    <3>1. \A o \in SockOp \cup {"start", "post", "resume"} : o # on
      BY DEF SockOp, Timer
    <3>2. QED
      BY <2>1, <2>2, <3>1
  <2>4. op' = op \/ \E g \in Elems(queue') : g.on = op
    BY <1>11, <2>2
  <2>5. pc = "start" => \E g \in Elems(queue') : g.on = "start"
    BY <2>3 DEF WillResume
  <2>6. Awaited(pc) # "none" => op' = Awaited(pc) \/ \E g \in Elems(queue') : g.on = Awaited(pc)
    <3>1. Awaited(pc) \in SockOp \cup {"none"}
      BY DEF Awaited, SockOp
    <3>2. QED
      BY <2>3, <2>4, <3>1 DEF WillResume
  <2>7. pc = "chain" => \/ waiting /\ (answer[reads] = "running" \/ \E g \in Elems(queue') : g.on = "post")
                        \/ \E g \in Elems(queue') : g.on = "resume"
    BY <2>3 DEF WillResume
  <2>8. QED
    BY <1>11, <2>5, <2>6, <2>7 DEF WillResume
<1>12. CASE OnTimeoutIdle
  BY <1>11, <1>12 DEF OnTimeoutIdle, Timer
<1>13. CASE OnTimeoutHeader \/ OnTimeoutHandshake
  <2>1. /\ CancelSocket /\ UNCHANGED <<pc, waiting, reads, answer>>
        /\ \E on \in Timer : Running(on, {"ok"})
    BY <1>13 DEF OnTimeoutHeader, OnTimeoutHandshake, Timer
  <2>2. Tail(queue) \in Seq(Handler)
    BY <1>2, <2>1 DEF Running
  <2>3. CASE op = "none"
    <3>1. queue' = Tail(queue) /\ op' = op
      BY <2>1, <2>2, <2>3 DEF CancelSocket
    <3>2. QED
      BY <1>11, <2>1, <3>1
  <2>4. CASE op # "none"
    <3>1. [on |-> op, ec |-> "aborted"] \in Handler /\ [on |-> op, ec |-> "aborted"].on = op
      BY <1>1, <2>4 DEF Handler, Code
    <3>2. queue' = Append(Tail(queue), [on |-> op, ec |-> "aborted"])
      BY <2>1, <2>2, <2>4, <3>1, Joined DEF CancelSocket
    <3>3. QED
      BY <1>11, <2>1, <3>1, <3>2
  <2>5. QED
    BY <2>3, <2>4
<1>14. CASE UNCHANGED vars
  <2>1. UNCHANGED <<pc, op, queue, waiting, reads, answer>>
    BY <1>14 DEF vars
  <2>2. QED
    BY <2>1, StrandedByNone
<1>15. QED
  BY <1>4, <1>5, <1>6, <1>7, <1>8, <1>9, <1>10, <1>12, <1>13, <1>14 DEF Next, Environment, Handlers

\* run() is never left suspended with nothing that will resume it, in whatever order
\* the chain, the timers and the socket complete: the safety half of ConnectionEnds.
THEOREM RunIsNeverStranded == ConnSpec => []NeverStranded
<1>1. ConnInit => NeverStranded
  <2> SUFFICES ASSUME Init PROVE WillResume
    BY DEF ConnInit, NeverStranded
  <2>1. queue = <<[on |-> "start", ec |-> "ok"]>> /\ pc = "start"
    BY DEF Init
  <2>2. Len(queue) = 1 /\ queue[1].on = "start"
    BY <2>1
  <2>3. \E h \in Elems(queue) : h.on = "start"
    BY <2>2 DEF Elems
  <2>4. QED
    BY <2>1, <2>3 DEF WillResume, Awaited
<1>2. SessionInv /\ NeverStranded /\ [ConnNext]_connVars => NeverStranded'
  <2> SUFFICES ASSUME SessionInv, NeverStranded, [Next]_vars, pc' \notin Ended PROVE WillResume'
    BY DEF ConnNext, HttpSide, WsSide, connVars, NeverStranded
  <2>1. pc \notin Ended
    BY DEF Next, Environment, Handlers, HandshakeCompletes, HeadersArrive, ReadCompletes, WriteCompletes, OpFails, OpCompletes,
           TimerExpires, ChainCompletes, OnStart, OnHandshake, OnReadMore, OnReadFailed, OnRequest, OnPosted, OnResume,
           OnWritten, OnWriteFailed, OnReplied, OnTimeoutIdle, OnTimeoutHeader, OnTimeoutHandshake, OnDangling, Ended, vars
  <2>2. QED
    BY <2>1, WillResumeStep DEF NeverStranded
<1>3. QED
  BY <1>1, <1>2, SessionInvCorrect, PTL DEF ConnSpec

-----------------------------------------------------------------------------
(* The WebSocket session. *)

WsCode == {"ok", "error", "idle"}

\* At most one of the queued handlers resumes the coroutine.
Single(q) == \A i, j \in 1 .. Len(q) : i < j => q[i] = "idle" \/ q[j] = "idle"

\* Taking the first handler.
LEMMA WsPopped ==
  ASSUME NEW q \in Seq(WsCode), q # <<>>, Single(q)
  PROVE  /\ Tail(q) \in Seq(WsCode) /\ Single(Tail(q)) /\ Head(q) \in Elems(q) /\ Elems(Tail(q)) \subseteq Elems(q)
         /\ Head(q) # "idle" => Elems(Tail(q)) \subseteq {"idle"}
<1>1. /\ Tail(q) \in Seq(WsCode) /\ Head(q) = q[1] /\ Len(q) \in Nat \ {0} /\ Len(Tail(q)) = Len(q) - 1
  OBVIOUS
<1>2. \A i \in 1 .. Len(Tail(q)) : Tail(q)[i] = q[i + 1] /\ i + 1 \in 1 .. Len(q) /\ 1 < i + 1
  BY <1>1
<1>3. 1 \in 1 .. Len(q) /\ \A i, j \in 1 .. Len(Tail(q)) : i < j => i + 1 < j + 1
  BY <1>1
<1>4. Single(Tail(q))
  BY <1>2, <1>3, Zenon DEF Single
<1>5. ASSUME NEW h \in Elems(Tail(q)) PROVE h \in Elems(q) /\ (Head(q) # "idle" => h = "idle")
  <2>1. PICK i \in 1 .. Len(Tail(q)) : h = Tail(q)[i]
    BY DEF Elems
  <2>2. h = q[i + 1] /\ i + 1 \in 1 .. Len(q) /\ 1 < i + 1
    BY <1>2, <2>1, Zenon
  <2>3. q[1] = "idle" \/ h = "idle"
    BY <1>3, <2>2, Zenon DEF Single
  <2>4. h \in Elems(q)
    BY <2>2, Zenon DEF Elems
  <2>5. QED
    BY <1>1, <2>3, <2>4
<1>6. Head(q) \in Elems(q)
  BY <1>1, <1>3, Zenon DEF Elems
<1>7. QED
  BY <1>1, <1>4, <1>5, <1>6

\* Queueing one.
LEMMA WsPushed ==
  ASSUME NEW q \in Seq(WsCode), NEW h \in WsCode, Single(q), h = "idle" \/ Elems(q) \subseteq {"idle"}
  PROVE  Append(q, h) \in Seq(WsCode) /\ Single(Append(q, h)) /\ Elems(Append(q, h)) = Elems(q) \cup {h}
<1> DEFINE p == Append(q, h)
<1>1. /\ p \in Seq(WsCode) /\ Len(q) \in Nat /\ Len(p) = Len(q) + 1 /\ p[Len(q) + 1] = h
      /\ \A i \in 1 .. Len(q) : p[i] = q[i]
  OBVIOUS
<1> HIDE DEF p
<1>2. 1 .. Len(p) = (1 .. Len(q)) \cup {Len(q) + 1} /\ \A i \in 1 .. Len(p) : ~(Len(q) + 1 < i)
  BY <1>1
<1>3. Single(p)
  <2> SUFFICES ASSUME NEW i \in 1 .. Len(p), NEW j \in 1 .. Len(p), i < j PROVE p[i] = "idle" \/ p[j] = "idle"
    BY DEF Single
  <2>1. i \in 1 .. Len(q) /\ p[i] = q[i] /\ q[i] \in Elems(q)
    BY <1>1, <1>2 DEF Elems
  <2>2. CASE j \in 1 .. Len(q)
    BY <1>1, <2>1, <2>2 DEF Single
  <2>3. CASE j = Len(q) + 1
    BY <1>1, <2>1, <2>3
  <2>4. QED
    BY <1>2, <2>2, <2>3
<1>4. Elems(p) = Elems(q) \cup {h}
  BY <1>1, <1>2 DEF Elems
<1>5. QED
  BY <1>1, <1>3, <1>4 DEF p

\* The message that is being echoed is in the buffer, and everything before it
\* was echoed.
WsShape ==
  /\ wsPc \in {"accept", "read", "write", "gone"} /\ wsQueue \in Seq(WsCode) /\ Single(wsQueue)
  /\ echoed \in Seq(Ws!Message) /\ received \in Seq(Ws!Message) /\ buffer \in Seq(Data)

Pending(t) == received = Append(echoed, [text |-> t, data |-> buffer])

WsInv ==
  /\ WsShape
  /\ wsOp => Elems(wsQueue) \subseteq {"idle"}
  /\ received = echoed \/ \E m \in Ws!Message : received = Append(echoed, m)
  /\ wsPc = "accept" \/ (wsPc = "read" /\ wsOp) => received = echoed /\ buffer = <<>>
  /\ wsPc = "read" /\ "ok" \in Elems(wsQueue) => \E t \in BOOLEAN : Pending(t)
  /\ wsPc = "write" => text \in BOOLEAN /\ Pending(text)

\* Every step keeps it.
LEMMA WsInvStep == WsInv /\ [Ws!Next]_wsVars => WsInv'
<1> SUFFICES ASSUME WsInv, [Ws!Next]_wsVars PROVE WsInv'
  OBVIOUS
<1> USE DEF WsInv, WsShape, Pending
<1>1. ASSUME NEW ec \in WsCode, Ws!OpCompletes(ec)
      PROVE  wsQueue' \in Seq(WsCode) /\ Single(wsQueue') /\ Elems(wsQueue') \subseteq {"idle", ec} /\ ~wsOp'
             /\ wsOp /\ UNCHANGED <<wsPc, text, echoed>>
  <2>1. wsOp /\ wsOp' = FALSE /\ wsQueue' = Append(wsQueue, ec) /\ UNCHANGED <<wsPc, text, echoed>>
    BY <1>1 DEF Ws!OpCompletes
  <2>2. QED
    BY <2>1, WsPushed
<1>2. CASE Ws!AcceptCompletes \/ Ws!WriteCompletes
  <2>1. Ws!OpCompletes("ok") /\ wsPc \in {"accept", "write"} /\ UNCHANGED <<buffer, received>>
    BY <1>2 DEF Ws!AcceptCompletes, Ws!WriteCompletes
  <2>2. QED
    BY <1>1, <2>1 DEF WsCode
<1>3. CASE Ws!OpFails
  <2>1. Ws!OpCompletes("error") /\ UNCHANGED <<buffer, received>>
    BY <1>3 DEF Ws!OpFails
  <2>2. "ok" \notin Elems(wsQueue')
    BY <1>1, <2>1 DEF WsCode
  <2>3. QED
    BY <1>1, <2>1, <2>2 DEF WsCode
<1>4. CASE Ws!ReadCompletes
  <2>1. wsPc = "read" /\ Ws!OpCompletes("ok")
    BY <1>4 DEF Ws!ReadCompletes
  <2>2. PICK t \in BOOLEAN, d \in Data :
          received' = Append(received, [text |-> t, data |-> <<d>>]) /\ buffer' = Append(buffer, d)
    BY <1>4 DEF Ws!ReadCompletes
  <2>3. wsOp /\ received = echoed /\ buffer = <<>> /\ echoed' = echoed /\ wsPc' = "read" /\ ~wsOp'
        /\ wsQueue' \in Seq(WsCode) /\ Single(wsQueue')
    BY <1>1, <2>1 DEF WsCode
  <2>4. buffer' = <<d>> /\ buffer' \in Seq(Data)
    BY <2>2, <2>3
  <2>5. [text |-> t, data |-> <<d>>] \in Ws!Message
    BY DEF Ws!Message
  <2>6. received' = Append(echoed', [text |-> t, data |-> buffer']) /\ received' \in Seq(Ws!Message)
    BY <2>2, <2>3, <2>4, <2>5
  <2>7. QED
    BY <2>3, <2>4, <2>5, <2>6
<1>5. CASE Ws!IdleExpires
  <2>1. wsQueue' = Append(wsQueue, "idle") /\ UNCHANGED <<wsPc, wsOp, text, buffer, received, echoed>>
    BY <1>5 DEF Ws!IdleExpires
  <2>2. wsQueue' \in Seq(WsCode) /\ Single(wsQueue') /\ Elems(wsQueue') = Elems(wsQueue) \cup {"idle"}
    BY <2>1, WsPushed DEF WsCode
  <2>3. QED
    BY <2>1, <2>2
<1>6. ASSUME NEW h, Ws!Running(h)
      PROVE  /\ wsQueue' \in Seq(WsCode) /\ Single(wsQueue') /\ h \in Elems(wsQueue) /\ Elems(wsQueue') \subseteq Elems(wsQueue)
             /\ h # "idle" => Elems(wsQueue') \subseteq {"idle"}
  <2>1. wsQueue # <<>> /\ Head(wsQueue) = h /\ wsQueue' = Tail(wsQueue)
    BY <1>6 DEF Ws!Running
  <2>2. QED
    BY <2>1, WsPopped
<1>7. CASE Ws!OnAccepted
  <2>1. wsPc = "accept" /\ Ws!Running("ok") /\ wsPc' = "read" /\ UNCHANGED <<buffer, received, echoed>>
    BY <1>7 DEF Ws!OnAccepted, Ws!StartRead
  <2>2. QED
    BY <1>6, <2>1
<1>8. CASE Ws!OnRead
  <2>1. /\ wsPc = "read" /\ Ws!Running("ok") /\ wsPc' = "write" /\ UNCHANGED <<buffer, received, echoed>>
        /\ text' = received[Len(received)].text
    BY <1>8 DEF Ws!OnRead, Ws!Last
  <2>2. PICK t \in BOOLEAN : Pending(t)
    BY <1>6, <2>1
  <2>3. [text |-> t, data |-> buffer] \in Ws!Message
    BY DEF Ws!Message
  <2>4. received[Len(received)] = [text |-> t, data |-> buffer]
    BY <2>2, <2>3
  <2>5. text' = t
    BY <2>1, <2>4
  <2>6. Pending(text)'
    BY <2>1, <2>2, <2>5
  <2>7. QED
    BY <1>6, <2>1, <2>5, <2>6
<1>9. CASE Ws!OnWritten
  <2>1. /\ wsPc = "write" /\ Ws!Running("ok") /\ wsPc' = "read" /\ UNCHANGED received
        /\ echoed' = Append(echoed, [text |-> text, data |-> buffer]) /\ buffer' = <<>>
    BY <1>9 DEF Ws!OnWritten, Ws!StartRead
  <2>2. echoed' = received' /\ buffer' \in Seq(Data)
    BY <2>1
  <2>3. QED
    BY <1>6, <2>1, <2>2, SMTT(30)
<1>10. CASE Ws!OnFailed
  <2>1. Ws!Running("error") /\ wsPc' = "gone" /\ wsOp' = FALSE /\ UNCHANGED <<buffer, received, echoed>>
    BY <1>10 DEF Ws!OnFailed
  <2>2. QED
    BY <1>6, <2>1
<1>11. CASE Ws!OnTimeoutIdle
  <2>1. Ws!Running("idle") /\ UNCHANGED <<wsPc, wsOp, text, buffer, received, echoed>>
    BY <1>11 DEF Ws!OnTimeoutIdle
  <2>2. QED
    BY <1>6, <2>1
<1>12. CASE UNCHANGED wsVars
  BY <1>12 DEF wsVars
<1>13. QED
  BY <1>2, <1>3, <1>4, <1>5, <1>7, <1>8, <1>9, <1>10, <1>11, <1>12 DEF Ws!Next, Ws!Handlers

\* A client of WsSession or WssSession gets its messages back, whole, in order and
\* with their kind, whenever the idle timer or an error ends the connection.
THEOREM EchoIsExact == ConnSpec => []EchoesExactly
<1>1. ConnInit => WsInv
  BY DEF ConnInit, Ws!Init, WsInv, WsShape, Single, Elems
<1>2. WsInv /\ [ConnNext]_connVars => WsInv'
  <2>1. [ConnNext]_connVars => [Ws!Next]_wsVars
    BY DEF ConnNext, HttpSide, WsSide, connVars
  <2>2. QED
    BY <2>1, WsInvStep
<1>3. ASSUME WsInv PROVE EchoesExactly
  <2>1. echoed \in Seq(Ws!Message) /\ received \in Seq(Ws!Message)
    BY <1>3 DEF WsInv, WsShape
  <2>2. CASE received = echoed
    BY <2>1, <2>2 DEF EchoesExactly, Ws!EchoesExactly, Ws!IsPrefix
  <2>3. CASE \E m \in Ws!Message : received = Append(echoed, m)
    <3>1. PICK m \in Ws!Message : received = Append(echoed, m)
      BY <2>3
    <3>2. /\ Len(echoed) \in Nat /\ Len(received) = Len(echoed) + 1
          /\ \A i \in 1 .. Len(echoed) : received[i] = echoed[i]
      BY <2>1, <3>1
    <3>3. SubSeq(received, 1, Len(echoed)) = SubSeq(echoed, 1, Len(echoed))
      BY <2>1, <3>2
    <3>4. QED
      BY <3>2, <3>3 DEF EchoesExactly, Ws!EchoesExactly, Ws!IsPrefix
  <2>4. QED
    BY <1>3, <2>2, <2>3 DEF WsInv
<1>4. QED
  BY <1>1, <1>2, <1>3, PTL DEF ConnSpec

\* The echo's coroutine waits for an operation of the stream that is outstanding or
\* whose handler is queued, and its idle timer is armed, or about to shut the socket
\* down, or has done so.
EchoNeverStranded ==
  wsPc = "gone" \/ /\ wsOp \/ \E h \in Elems(wsQueue) : h # "idle"
                   /\ wsShut \/ wsArmed \/ "idle" \in Elems(wsQueue)

\* What is queued stays queued when something is put behind it.
LEMMA WsGrows ==
  ASSUME NEW q \in Seq(WsCode), NEW h
  PROVE  Elems(q) \subseteq Elems(Append(q, h)) /\ h \in Elems(Append(q, h))
<1>1. /\ Len(q) \in Nat /\ Len(Append(q, h)) = Len(q) + 1 /\ Append(q, h)[Len(q) + 1] = h
      /\ \A i \in 1 .. Len(q) : Append(q, h)[i] = q[i]
  OBVIOUS
<1>2. 1 .. Len(Append(q, h)) = (1 .. Len(q)) \cup {Len(q) + 1}
  BY <1>1
<1>3. QED
  BY <1>1, <1>2 DEF Elems

\* Taking the first handler takes no other one.
LEMMA WsShrinks ==
  ASSUME NEW q \in Seq(WsCode), q # <<>>
  PROVE  Elems(q) \subseteq Elems(Tail(q)) \cup {Head(q)}
<1>1. /\ Head(q) = q[1] /\ Len(q) \in Nat \ {0} /\ Len(Tail(q)) = Len(q) - 1
      /\ \A i \in 1 .. Len(q) : i # 1 => i - 1 \in 1 .. Len(Tail(q)) /\ Tail(q)[i - 1] = q[i]
  OBVIOUS
<1> SUFFICES ASSUME NEW h \in Elems(q), h # Head(q) PROVE h \in Elems(Tail(q))
  OBVIOUS
<1>2. PICK i \in 1 .. Len(q) : h = q[i]
  BY DEF Elems
<1>3. i # 1
  BY <1>1, <1>2
<1>4. QED
  BY <1>1, <1>2, <1>3, Zenon DEF Elems

\* So it is on every upgraded connection: the other half of what ConnectionEnds needs.
THEOREM EchoIsNeverStranded == ConnSpec => []EchoNeverStranded
<1>1. ConnInit => WsInv /\ EchoNeverStranded
  BY DEF ConnInit, Ws!Init, WsInv, WsShape, Single, Elems, EchoNeverStranded
<1>2. [ConnNext]_connVars => [Ws!Next]_wsVars
  BY DEF ConnNext, HttpSide, WsSide, connVars
<1>3. ASSUME WsInv, EchoNeverStranded, [Ws!Next]_wsVars PROVE EchoNeverStranded'
  <2>1. wsQueue \in Seq(WsCode)
    BY <1>3 DEF WsInv, WsShape
  <2>2. CASE UNCHANGED wsVars
    BY <1>3, <2>2 DEF wsVars, EchoNeverStranded
  <2>3. ASSUME NEW ec, ec # "idle", Ws!OpCompletes(ec) PROVE EchoNeverStranded'
    <3>1. wsQueue' = Append(wsQueue, ec) /\ UNCHANGED <<wsPc, wsShut, wsArmed>>
      BY <2>3 DEF Ws!OpCompletes
    <3>2. QED
      BY <1>3, <2>1, <2>3, <3>1, WsGrows DEF EchoNeverStranded
  <2>4. CASE Ws!AcceptCompletes \/ Ws!ReadCompletes \/ Ws!WriteCompletes \/ Ws!OpFails
    BY <2>3, <2>4 DEF Ws!AcceptCompletes, Ws!ReadCompletes, Ws!WriteCompletes, Ws!OpFails
  <2>5. CASE Ws!IdleExpires
    <3>1. wsQueue' = Append(wsQueue, "idle") /\ UNCHANGED <<wsPc, wsShut, wsOp>>
      BY <2>5 DEF Ws!IdleExpires
    <3>2. QED
      BY <1>3, <2>1, <3>1, WsGrows DEF EchoNeverStranded
  <2>6. ASSUME NEW h, Ws!Running(h) PROVE Elems(wsQueue) \subseteq Elems(wsQueue') \cup {h} /\ wsPc # "gone"
    BY <2>1, <2>6, WsShrinks DEF Ws!Running
  <2>7. CASE Ws!OnAccepted \/ Ws!OnRead \/ Ws!OnWritten
    <3>1. Ws!Running("ok") /\ wsOp' = TRUE /\ UNCHANGED <<wsShut, wsArmed>>
      BY <2>7 DEF Ws!OnAccepted, Ws!OnRead, Ws!OnWritten, Ws!StartRead
    <3>2. QED
      BY <1>3, <2>6, <3>1 DEF EchoNeverStranded
  <2>8. CASE Ws!OnFailed
    BY <2>8 DEF Ws!OnFailed, EchoNeverStranded
  <2>9. CASE Ws!OnTimeoutIdle
    <3>1. Ws!Running("idle") /\ wsShut' = TRUE /\ UNCHANGED wsOp
      BY <2>9 DEF Ws!OnTimeoutIdle
    <3>2. QED
      BY <1>3, <2>6, <3>1 DEF EchoNeverStranded
  <2>10. QED
    BY <1>3, <2>2, <2>4, <2>5, <2>7, <2>8, <2>9 DEF Ws!Next, Ws!Handlers
<1>4. WsInv /\ EchoNeverStranded /\ [ConnNext]_connVars => (WsInv /\ EchoNeverStranded)'
  BY <1>2, <1>3, WsInvStep
<1>5. QED
  BY <1>1, <1>4, PTL DEF ConnSpec
=============================================================================
