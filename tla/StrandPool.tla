----------------------------- MODULE StrandPool -----------------------------
(***************************************************************************)
(* StrandPool.  Choosing a strand holds strands_mutex_ shared, resizing    *)
(* holds it alone, and each is one step, but for a weighted choice that    *)
(* falls back to round robin: it asks for the lock it holds.               *)
(* update_config assigns config_ before it takes the lock.                 *)
(* completed_requests is never incremented, so a strand's load_factor is 1 *)
(* once it was chosen and 0 before.                                        *)
(***************************************************************************)
EXTENDS Naturals, Sequences, SequencesExt, FiniteSets

CONSTANTS
  Updater,     \* the threads that call update_config
  Size,        \* the sizes that callers ask for
  Bounds,      \* the values of <<min_size, max_size>>
  Strategy,    \* the strategies in use
  Nodes,       \* the hashes of the virtual nodes, by strand index
  Hash,        \* the hashes of sessions
  MaxCreated,  \* bound: strands made
  MaxPicks     \* bound: strands chosen

ASSUME StrandAssumption ==
  /\ Size \subseteq Nat /\ \A b \in Bounds : b[1] \in Nat /\ b[2] \in Nat
  /\ Hash \subseteq Nat /\ \A s \in Size : \A i \in 0 .. s - 1 : Nodes[i] \subseteq Nat /\ Nodes[i] # {}
  /\ MaxCreated \in Nat /\ MaxPicks \in Nat
  /\ Strategy \subseteq {"RoundRobin", "LeastConnections", "ConsistentHash", "Random", "WeightedRoundRobin"}

VARIABLES
  strands,   \* strands_ with strands_stats_; index i of the code is i + 1 here
  size,      \* current_size_
  ring,      \* hash_ring_: pairs <<hash, index>>
  robin,     \* round_robin_index_
  bounds, strategy,  \* config_
  created,   \* strands made so far
  asked,     \* the size a thread's update_config goes on to ask for, if any
  checking,  \* is_running_: the health check's timer is armed
  picks,     \* strands chosen so far
  again,     \* a reader "asks" for the shared lock it holds, or is "stuck" there
  noStrand   \* a choice has used an index behind strands_

strandVars ==
  <<strands, size, ring, robin, bounds, strategy, created, asked, checking, picks, again, noStrand>>

Strand == [id : 1 .. MaxCreated, active : 0 .. MaxPicks, healthy : BOOLEAN]

StrandTypeOK ==
  /\ strands \in Seq(Strand) /\ size \in Size
  /\ ring \subseteq UNION {Nodes[i] \X {i} : i \in 0 .. size - 1} /\ robin \in 0 .. MaxPicks
  /\ bounds \in Bounds /\ strategy \in Strategy /\ created \in 0 .. MaxCreated
  /\ asked \in [Updater -> SUBSET Size] /\ checking \in BOOLEAN /\ picks \in 0 .. MaxPicks
  /\ again \in {"no", "asks", "stuck"} /\ noStrand \in BOOLEAN

\* update_consistent_hash_ring
Ring(n) == UNION {Nodes[i] \X {i} : i \in 0 .. n - 1}

\* create_strand, for n strands
NewStrands(n) == [i \in 1 .. n |-> [id |-> created + i, active |-> 0, healthy |-> TRUE]]

\* initialize does not ask whether initial_size is within the bounds.
StrandInit ==
  /\ created \in Size /\ size = created /\ ring = Ring(size)
  /\ strands = [i \in 1 .. size |-> [id |-> i, active |-> 0, healthy |-> TRUE]]
  /\ robin = 0 /\ picks = 0 /\ checking = FALSE
  /\ bounds \in Bounds /\ strategy \in Strategy /\ asked = [t \in Updater |-> {}]
  /\ again = "no" /\ noStrand = FALSE

-----------------------------------------------------------------------------
(* Resizing. *)

StrandLoad(i) == IF strands[i].active > 0 THEN 1 ELSE 0

\* The orders std::sort may leave the indices in, by load factor.
ByLoad ==
  {p \in Bijection(1 .. size, 1 .. size) :
     \A i, j \in 1 .. size : i < j => StrandLoad(p[i]) <= StrandLoad(p[j])}

\* remove_strand ignores an index that is out of range.
RemoveStrand(list, i) == IF i <= Len(list) THEN RemoveAt(list, i) ELSE list

\* The first m indices of an order, which were taken before the first strand went:
\* the rest have moved.
Removed(order, m) ==
  LET list[i \in 0 .. m] == IF i = 0 THEN strands ELSE RemoveStrand(list[i - 1], order[i])
  IN  list[m]

\* A shrink that removes one strand too many.
ShrunkOver(order, n) == Removed(order, IF n = 0 THEN size ELSE size - n + 1)

Shrunk(order, n) == Removed(order, size - n)

\* The lock: a resize waits for every reader, and a new reader for a resize that
\* a stuck one keeps waiting.
NoReader == again = "no"
MayRead == again # "stuck"

Resize(n) ==
  /\ n >= bounds[1] /\ n <= bounds[2] /\ n # size /\ NoReader
  /\ size' = n /\ ring' = Ring(n)
  /\ \/ /\ n > size /\ created + n - size <= MaxCreated
        /\ strands' = strands \o NewStrands(n - size) /\ created' = created + n - size
     \/ /\ n < size /\ \E order \in ByLoad : strands' = Shrunk(order, n)
        /\ UNCHANGED created
  /\ UNCHANGED <<robin, bounds, strategy, picks, checking, again, noStrand>>

CallResize(n) == Resize(n) /\ UNCHANGED asked

\* update_config assigns the whole of config_; the resize that follows looks at
\* the bounds of that moment and may throw.
UpdateStrandConfig(t, b, s, n) ==
  /\ asked[t] = {} /\ bounds' = b /\ strategy' = s
  /\ asked' = [asked EXCEPT ![t] = {n} \ {size}]
  /\ UNCHANGED <<strands, size, ring, robin, created, picks, checking, again, noStrand>>

FinishUpdate(t) ==
  \E n \in asked[t] :
    /\ asked' = [asked EXCEPT ![t] = {}]
    /\ \/ /\ n < bounds[1] \/ n > bounds[2] \/ (n = size /\ NoReader)
          /\ UNCHANGED <<strands, size, ring, robin, bounds, strategy, created, picks, checking, again, noStrand>>
       \/ Resize(n)

SetLoadBalanceStrategy(s) ==
  /\ s # strategy /\ strategy' = s
  /\ UNCHANGED <<strands, size, ring, robin, bounds, created, asked, picks, checking, again, noStrand>>

-----------------------------------------------------------------------------
(* Choosing a strand. *)

\* Where current_size_ is 0, round robin divides by it, random draws from all
\* numbers and the ring has no node: each is undefined, and MaxCreated, which is
\* behind strands_, stands for what they give.
NoIndex == MaxCreated

RoundRobin == IF size = 0 THEN NoIndex ELSE robin % size

\* A lookup that spreads the hashes evenly instead of along the ring.
LookupModulo(hash) == IF size = 0 THEN NoIndex ELSE hash % size

\* lower_bound on the sorted ring, or its first node; equal hashes are in the
\* order of their indices.
Lookup(hash) ==
  LET above == {n \in ring : n[1] >= hash}
      from == IF above = {} THEN ring ELSE above
      hit == CHOOSE n \in from : \A m \in from : n[1] < m[1] \/ (n[1] = m[1] /\ n[2] <= m[2])
  IN  IF ring = {} THEN NoIndex ELSE hit[2]

\* The indices a strategy may return.
Healthy == {i \in 1 .. size - 1 : strands[i + 1].healthy}
LeastConnections ==
  {CHOOSE i \in Healthy \cup {0} : \A j \in Healthy \cup {0} :
     \/ strands[i + 1].active < strands[j + 1].active
     \/ strands[i + 1].active = strands[j + 1].active /\ i <= j}
Weighted == {i \in 0 .. size - 1 : strands[i + 1].healthy /\ StrandLoad(i + 1) = 0}
FallsBack == strategy = "WeightedRoundRobin" /\ Weighted = {}

Selectable ==
  CASE strategy = "RoundRobin" \/ FallsBack -> {RoundRobin}
    [] strategy = "LeastConnections"        -> LeastConnections
    [] strategy = "ConsistentHash"          -> {Lookup(h) : h \in Hash}
    [] strategy = "Random"                  -> IF size = 0 THEN {NoIndex} ELSE 0 .. size - 1
    [] OTHER                                -> Weighted

\* update_strand_stats, and the strand that is returned.  Without strands the
\* answer is null and nothing changes.
Count(i) ==
  /\ strands # <<>> /\ MayRead /\ picks < MaxPicks /\ picks' = picks + 1
  /\ \/ /\ i + 1 \in DOMAIN strands /\ strands' = [strands EXCEPT ![i + 1].active = @ + 1]
        /\ UNCHANGED noStrand
     \/ i + 1 \notin DOMAIN strands /\ noStrand' = TRUE /\ UNCHANGED strands
  /\ UNCHANGED <<size, ring, bounds, strategy, created, asked, checking>>

NextStrand ==
  /\ strands # <<>> /\ ~FallsBack /\ \E i \in Selectable : Count(i)
  /\ robin' = IF strategy = "RoundRobin" THEN robin + 1 ELSE robin
  /\ UNCHANGED again

\* weightedround_robin_strand finds no weight and calls round_robin_strand.
FallBack ==
  /\ FallsBack /\ strands # <<>> /\ picks < MaxPicks /\ NoReader /\ again' = "asks"
  /\ UNCHANGED <<strands, size, ring, robin, bounds, strategy, created, asked, checking, picks, noStrand>>

RoundRobinAgain ==
  again = "asks" /\ Count(RoundRobin) /\ robin' = robin + 1 /\ again' = "no"

\* A thread that locks a shared_mutex it holds does what is undefined: where a
\* waiting writer goes before new readers, both wait for ever.
WaitBehindWriter ==
  /\ again = "asks" /\ (\E t \in Updater : asked[t] # {}) /\ again' = "stuck"
  /\ UNCHANGED <<strands, size, ring, robin, bounds, strategy, created, asked, checking, picks, noStrand>>

\* strand_for_session and strand_by_hash
StrandForSession(hash) == Count(Lookup(hash)) /\ UNCHANGED <<robin, again>>

-----------------------------------------------------------------------------
(* The health check. *)

StartChecks ==
  ~checking /\ checking' = TRUE
  /\ UNCHANGED <<strands, size, ring, robin, bounds, strategy, created, asked, picks, again, noStrand>>

StopChecks ==
  checking /\ checking' = FALSE
  /\ UNCHANGED <<strands, size, ring, robin, bounds, strategy, created, asked, picks, again, noStrand>>

\* The timer fires and is armed again; the callback decides about each strand.
HealthCheck ==
  /\ checking /\ MayRead
  /\ \E ill \in SUBSET (1 .. size) :
       strands' = [i \in DOMAIN strands |->
                     IF i <= size THEN [strands[i] EXCEPT !.healthy = i \notin ill] ELSE strands[i]]
  /\ UNCHANGED <<size, ring, robin, bounds, strategy, created, asked, picks, checking, again, noStrand>>

StrandStep ==
  \/ \E n \in Size : CallResize(n)
  \/ \E t \in Updater : FinishUpdate(t) \/ \E b \in Bounds, s \in Strategy, n \in Size : UpdateStrandConfig(t, b, s, n)
  \/ \E s \in Strategy : SetLoadBalanceStrategy(s)
  \/ NextStrand \/ FallBack \/ RoundRobinAgain \/ WaitBehindWriter \/ \E hash \in Hash : StrandForSession(hash)
  \/ StartChecks \/ StopChecks \/ HealthCheck

\* After an index without a strand all is open.
StrandNext == ~noStrand /\ StrandStep

StrandSpec == StrandInit /\ [][StrandNext]_strandVars

-----------------------------------------------------------------------------
(* Properties. *)

\* Whatever a strategy returns, strands_[index] exists, unless the pool was resized
\* to 0, which it allows where min_size is 0: shrinking by indices that have gone
\* stale may keep strands, but never leaves fewer than current_size_, and the ring
\* never points behind the end.
InBounds ==
  /\ size <= Len(strands)
  /\ size # 0 => \A i \in Selectable \cup {Lookup(h) : h \in Hash} : i + 1 \in DOMAIN strands
  /\ noStrand => size = 0

\* Growing the pool leaves every session on its strand or moves it to one that this
\* growth made: it never moves a session between two strands that were there.  (A
\* shrink by stale indices leaves strands behind current_size_, which growing
\* brings back into use under new indices: of a pool with such nothing is said.)
GrowthKeepsSessions ==
  [][size' > size /\ Len(strands) = size =>
       \A h \in Hash : \/ strands'[Lookup(h)' + 1].id > created
                       \/ strands'[Lookup(h)' + 1].id = strands[Lookup(h) + 1].id]_strandVars
=============================================================================
