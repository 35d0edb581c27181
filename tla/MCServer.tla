------------------------------ MODULE MCServer ------------------------------
(***************************************************************************)
(* Instances of Connection and of Shutdown for TLC.  Shutdown has its own  *)
(* picture of a session, so a behaviour moves one of the two modules and   *)
(* the other rests in its initial state.                                   *)
(***************************************************************************)
EXTENDS MCConnection, Shutdown

VARIABLE side

mcVars == <<connVars, shutdownVars, side>>

ConnectionMoves == side = "connection" /\ UNCHANGED <<shutdownVars, side>>
ShutdownMoves == side = "shutdown" /\ UNCHANGED <<connVars, side>>

MCInit ==
  /\ ConnInit /\ ShutdownInit
  /\ side = "connection" \/ (side = "shutdown" /\ ~tls)

MCNext ==
  \/ ConnectionMoves /\ ConnNext
  \/ ShutdownMoves /\ ShutdownNext

\* Each module's own fairness.
MCSpec ==
  /\ MCInit /\ [][MCNext]_mcVars
  /\ WF_mcVars(ConnectionMoves /\ HttpSide(Handlers))
  /\ WF_mcVars(ConnectionMoves /\ HttpSide(ChainCompletes))
  /\ \A t \in Timer : WF_mcVars(ConnectionMoves /\ HttpSide(TimerExpires(t)))
  /\ WF_mcVars(ConnectionMoves /\ HttpSide(shut /\ OpFails))
  /\ WF_mcVars(ConnectionMoves /\ WsSide(Ws!Handlers))
  /\ WF_mcVars(ConnectionMoves /\ WsSide(Ws!IdleExpires))
  /\ WF_mcVars(ConnectionMoves /\ WsSide(wsShut /\ Ws!OpFails))
  /\ WF_mcVars(ShutdownMoves /\ RunBlocking)
  /\ WF_mcVars(ShutdownMoves /\ RunnerStep)
  /\ WF_mcVars(ShutdownMoves /\ LoopStep)
  /\ WF_mcVars(ShutdownMoves /\ SignalStep)
  /\ \A c \in Ctx : WF_mcVars(ShutdownMoves /\ ThreadExits(c))
  /\ \A k \in Client : WF_mcVars(ShutdownMoves /\ SessionStep(k))
  /\ \A s \in Caller : WF_mcVars(ShutdownMoves /\ StopStep(s))
=============================================================================
