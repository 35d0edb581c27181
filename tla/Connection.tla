----------------------------- MODULE Connection -----------------------------
(***************************************************************************)
(* A connection from the accept to its end: a Session or an SslSession     *)
(* that, on an upgrade, hands its socket to a WsSession or a WssSession.   *)
(* The WebSocket session is made inside the handler that has read the      *)
(* upgrade request, so its initial state rests until then.                 *)
(***************************************************************************)
EXTENDS Session

CONSTANTS
  Data,         \* the contents of a WebSocket message
  MaxMessages   \* bound: the messages the client sends

ASSUME ConnectionAssumption == MaxMessages \in Nat

VARIABLES wsPc, wsOp, wsShut, wsArmed, wsQueue, text, buffer, received, echoed

wsVars == <<wsPc, wsOp, wsShut, wsArmed, wsQueue, text, buffer, received, echoed>>
connVars == <<vars, wsVars>>

Ws == INSTANCE WsSession WITH
        pc <- wsPc, op <- wsOp, shut <- wsShut, armed <- wsArmed, queue <- wsQueue

ConnInit == Init /\ Ws!Init

\* While the HTTP session is there the other one is not, and rests.  A handler of
\* the HTTP session that was queued before the handover may still run after it.
HttpSide(A) == A /\ UNCHANGED wsVars
WsSide(A)   == pc = "upgraded" /\ A /\ UNCHANGED vars

ConnNext == HttpSide(Next) \/ WsSide(Ws!Next)

\* The io thread runs what is queued, timers expire, the chain completes, and
\* the kernel ends the operations of a socket that was shut down.
ConnSpec ==
  /\ ConnInit /\ [][ConnNext]_connVars
  /\ WF_connVars(HttpSide(Handlers)) /\ WF_connVars(HttpSide(ChainCompletes))
  /\ \A t \in Timer : WF_connVars(HttpSide(TimerExpires(t)))
  /\ WF_connVars(HttpSide(shut /\ OpFails))
  /\ WF_connVars(WsSide(Ws!Handlers)) /\ WF_connVars(WsSide(Ws!IdleExpires))
  /\ WF_connVars(WsSide(wsShut /\ Ws!OpFails))

-----------------------------------------------------------------------------
(* Properties. *)

\* A WebSocket client gets back exactly what it sent, in order, each message once
\* and with its kind: no message is merged with the one before.
EchoesExactly == Ws!EchoesExactly

\* A client that sends finitely many requests and messages does not hold its
\* connection for ever once run() has started, whether or not it is upgraded.
ConnectionEnds == (pc # "start") ~> (pc = "gone" \/ wsPc = "gone")
=============================================================================
