----------------------------- MODULE MCLibrary -----------------------------
(***************************************************************************)
(* Instances for TLC of ConfigManager, HttpClient, ConnectionPool and      *)
(* TimerManager.  They share no state (HttpClient opens its own            *)
(* connections), so a behaviour moves one and the others rest in an        *)
(* initial state.                                                          *)
(***************************************************************************)
EXTENDS MCConfigManager, HttpClient, ConnectionPool, TimerManager

CONSTANTS b1, b2, c1, c2
VARIABLE part

\* Both threads of the timer manager start and stop it; a bucket_count that divides
\* by zero, a smaller one and a larger one.
Threads == {"t1", "t2"}
Counts == {0, 1, 3}

mcVars == <<configVars, vars, poolVars, timerVars, part>>

ConfigMoves == part = "config" /\ UNCHANGED <<vars, poolVars, timerVars, part>>
ClientMoves == part = "client" /\ UNCHANGED <<configVars, poolVars, timerVars, part>>
PoolMoves == part = "pool" /\ UNCHANGED <<configVars, vars, timerVars, part>>
TimerMoves == part = "timers" /\ UNCHANGED <<configVars, vars, poolVars, part>>

MCInit ==
  /\ part \in {"config", "client", "pool", "timers"}
  /\ ConfigInit /\ Init /\ PoolInit /\ TimerInit
  /\ part # "config" => file = NotThere
  /\ part # "client" => ~baseHttps /\ ~sslCtx

MCNext ==
  \/ ConfigMoves /\ ConfigNext
  \/ ClientMoves /\ Next
  \/ PoolMoves /\ PoolNext
  \/ TimerMoves /\ TimerNext

\* Each module's own fairness.
MCSpec ==
  /\ MCInit /\ [][MCNext]_mcVars
  /\ WF_mcVars(ConfigMoves /\ ~dead /\ LoadStep("program"))
  /\ WF_mcVars(ConfigMoves /\ ~dead /\ (LoadStep("watcher") \/ Poll \/ WatcherLoads \/ WatcherEnds))
  /\ \A b \in Builder : WF_mcVars(ClientMoves /\ Progress(b))
=============================================================================
