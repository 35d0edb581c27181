----------------------------- MODULE MCMessages -----------------------------
(***************************************************************************)
(* An instance for TLC of what becomes of a message: of StrandPool, which  *)
(* gives its session a strand, of Requests, which routes it and takes it   *)
(* through the middlewares, and of StreamParser and Parsers, which read    *)
(* it.  A behaviour moves one and the others rest in an initial state.     *)
(***************************************************************************)
EXTENDS MCRequests, MCBodies, StrandPool

\* Up to three strands at a time, four made in all, so that a pool that shrank by
\* stale indices can grow.  Two virtual nodes each; 20 is a node of two strands.
NodesOf3 == [i \in 0 .. 2 |-> CASE i = 0 -> {10, 40} [] i = 1 -> {20, 50} [] i = 2 -> {20, 30}]
TwoBounds == {<<0, 3>>, <<2, 2>>}

MCInit ==
  /\ part \in {"request", "strand", "stream"} \cup DOMAIN Alphabet
  /\ Init /\ BodyInit /\ StrandInit
  /\ part # "request" => chain = Stock /\ mode = "sync"
  /\ part # "strand" => size = 0 /\ bounds = <<0, 3>> /\ strategy = "RoundRobin"

MCNext ==
  \/ part = "request" /\ Next /\ UNCHANGED <<bodyVars, strandVars>>
  \/ part = "strand" /\ StrandNext /\ UNCHANGED <<vars, bodyVars>>
  \/ BodyNext /\ UNCHANGED <<vars, strandVars>>

MCSpec == MCInit /\ [][MCNext]_<<vars, bodyVars, strandVars>>
=============================================================================
