----------------------------- MODULE WsSession -----------------------------
(***************************************************************************)
(* A connection after the upgrade: WsSession, and WssSession which is the  *)
(* same over TLS.  Its coroutine accepts the upgrade and then echoes every *)
(* message; the idle timer of SessionBase is armed once, by start_accept.  *)
(* As in Session, handlers run one at a time on the io thread.             *)
(***************************************************************************)
EXTENDS Naturals, Sequences, SequencesExt

CONSTANTS
  Data,        \* the contents of a message
  MaxMessages  \* bound: the messages the client sends

VARIABLES
  pc,        \* where the coroutine is suspended
  op,        \* an operation of the stream is outstanding
  shut,      \* the socket has been shut down
  armed,     \* the idle timer has a pending wait
  queue,     \* handlers that have not run: the operation's error code, "idle"
  text,      \* ws_.text()
  buffer,    \* buffer_
  received, echoed  \* history: messages read, messages written

vars == <<pc, op, shut, armed, queue, text, buffer, received, echoed>>

Message == [text : BOOLEAN, data : Seq(Data)]

\* The shape of the session's state; the buffer holds one message at a time.
TypeOK ==
  /\ pc \in {"accept", "read", "write", "gone"}
  /\ op \in BOOLEAN /\ shut \in BOOLEAN /\ armed \in BOOLEAN /\ text \in BOOLEAN
  /\ queue \in Seq({"ok", "error", "idle"}) /\ buffer \in Seq(Data) /\ Len(buffer) <= 1
  /\ received \in Seq(Message) /\ echoed \in Seq(Message)

\* start_accept has armed the timer and spawned the coroutine.
Init ==
  /\ pc = "accept" /\ op = TRUE /\ shut = FALSE /\ armed = TRUE /\ queue = <<>>
  /\ text = TRUE /\ buffer = <<>> /\ received = <<>> /\ echoed = <<>>

OpCompletes(ec) ==
  /\ op /\ op' = FALSE /\ queue' = Append(queue, ec)
  /\ UNCHANGED <<pc, shut, armed, text, echoed>>

AcceptCompletes == pc = "accept" /\ OpCompletes("ok") /\ UNCHANGED <<buffer, received>>

\* async_read appends the message to the buffer.
ReadCompletes ==
  /\ pc = "read" /\ Len(received) < MaxMessages /\ OpCompletes("ok")
  /\ \E t \in BOOLEAN, d \in Data :
       /\ received' = Append(received, [text |-> t, data |-> <<d>>])
       /\ buffer' = Append(buffer, d)

WriteCompletes == pc = "write" /\ ~shut /\ OpCompletes("ok") /\ UNCHANGED <<buffer, received>>

OpFails == OpCompletes("error") /\ UNCHANGED <<buffer, received>>

IdleExpires ==
  /\ armed /\ armed' = FALSE /\ queue' = Append(queue, "idle")
  /\ UNCHANGED <<pc, op, shut, text, buffer, received, echoed>>

Running(handler) == pc # "gone" /\ queue # <<>> /\ Head(queue) = handler /\ queue' = Tail(queue)

StartRead == pc' = "read" /\ op' = TRUE

OnAccepted ==
  /\ pc = "accept" /\ Running("ok") /\ StartRead
  /\ UNCHANGED <<shut, armed, text, buffer, received, echoed>>

\* ws_.text(ws_.got_text()), then the buffer is written back.
OnRead ==
  /\ pc = "read" /\ Running("ok")
  /\ text' = Last(received).text /\ pc' = "write" /\ op' = TRUE
  /\ UNCHANGED <<shut, armed, buffer, received, echoed>>

\* An echo whose buffer is not emptied.
OnWrittenKeeps ==
  /\ pc = "write" /\ Running("ok") /\ StartRead
  /\ echoed' = Append(echoed, [text |-> text, data |-> buffer])
  /\ UNCHANGED <<shut, armed, text, buffer, received>>

OnWritten ==
  /\ pc = "write" /\ Running("ok") /\ StartRead
  /\ echoed' = Append(echoed, [text |-> text, data |-> buffer]) /\ buffer' = <<>>
  /\ UNCHANGED <<shut, armed, text, received>>

\* The coroutine returns; the session and its timer are destroyed.
OnFailed ==
  /\ Running("error") /\ pc' = "gone" /\ op' = FALSE /\ armed' = FALSE
  /\ UNCHANGED <<shut, text, buffer, received, echoed>>

OnTimeoutIdle ==
  /\ Running("idle") /\ shut' = TRUE
  /\ UNCHANGED <<pc, op, armed, text, buffer, received, echoed>>

Handlers == OnAccepted \/ OnRead \/ OnWritten \/ OnFailed \/ OnTimeoutIdle

Next == AcceptCompletes \/ ReadCompletes \/ WriteCompletes \/ OpFails \/ IdleExpires \/ Handlers

Spec == Init /\ [][Next]_vars

-----------------------------------------------------------------------------
\* The client gets back exactly what it sent, in order, each message once and
\* with its kind: no message is merged with the one before.
EchoesExactly == IsPrefix(echoed, received) /\ Len(received) <= Len(echoed) + 1
=============================================================================
