------------------------- MODULE MCMiddlewareChain -------------------------
(***************************************************************************)
(* Instances of MiddlewareChain for TLC.                                   *)
(***************************************************************************)
EXTENDS MiddlewareChain, TLC

CONSTANTS m1, m2, m3, r1

OneRun   == {r1}

TwoMws   == {m1, m2}
ThreeMws == {m1, m2, m3}

Last1    == <<m2>>
Chain2   == <<m1, m2>>
Chain3   == <<m1, m2, m3>>

\* Two priority classes, so that the sort has a tie to break.
Priorities == (m1 :> 0) @@ (m2 :> 0) @@ (m3 :> 100)
Priorities2 == (m1 :> 0) @@ (m2 :> 100)

None   == {}
Second == {m2}
Both   == {m1, m2}
Always == {TRUE}
Never  == {FALSE}
Either == BOOLEAN
=============================================================================
