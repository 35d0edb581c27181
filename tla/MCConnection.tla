---------------------------- MODULE MCConnection ----------------------------
(***************************************************************************)
(* Instances of Connection for TLC.                                        *)
(***************************************************************************)
EXTENDS Connection

Plain   == [ver |-> 11, conn |-> "none", upgrade |-> FALSE]
Old     == [ver |-> 10, conn |-> "none", upgrade |-> FALSE]
Closing == [ver |-> 11, conn |-> "close", upgrade |-> FALSE]
Upgrade == [ver |-> 11, conn |-> "none", upgrade |-> TRUE]

\* Requests that keep the connection open, that do not, and a handover to a
\* WebSocket session.
AllRequests == {Plain, Old, Closing, Upgrade}
=============================================================================
