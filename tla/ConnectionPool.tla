--------------------------- MODULE ConnectionPool ---------------------------
(***************************************************************************)
(* The client's ConnectionPool.  Every operation holds mutex_ and is one   *)
(* step.  Users open connections themselves, hand them over with release   *)
(* and keep the shared pointer, so a pooled connection may be closed.      *)
(***************************************************************************)
EXTENDS Naturals, Sequences, SequencesExt

CONSTANTS
  Conn,     \* the connections
  Key,      \* host:port
  MaxSize,  \* max_size_
  SizeT     \* 2^w, where w is the width of std::size_t

\* A host:port is not the empty key of a connection that was never opened.
ASSUME PoolAssumption == "none" \notin Key

VARIABLES
  pools,   \* pools_
  total,   \* total_connections_
  activeCount,  \* active_connections_
  alive,   \* the connections whose socket is open
  stale,   \* the connections idle for longer than idle_timeout_
  users,   \* how many users hold a connection
  home     \* the key a connection was opened for

poolVars == <<pools, total, activeCount, alive, stale, users, home>>

NoKey == "none"

PoolTypeOK ==
  /\ \A k \in DOMAIN pools : k \in Key /\ pools[k] \in Seq(Conn)
  /\ total \in 0 .. SizeT - 1 /\ activeCount \in 0 .. SizeT - 1
  /\ alive \subseteq Conn /\ stale \subseteq Conn
  /\ users \in [Conn -> Nat] /\ home \in [Conn -> Key \cup {NoKey}]

PoolInit ==
  /\ pools = <<>> /\ total = 0 /\ activeCount = 0 /\ alive = {} /\ stale = {}
  /\ users = [c \in Conn |-> 0] /\ home = [c \in Conn |-> NoKey]

\* pools_[key] makes an empty queue where there is none.
PoolAt(k) == IF k \in DOMAIN pools THEN pools[k] ELSE <<>>
SetPool(k, queue) == [j \in DOMAIN pools \cup {k} |-> IF j = k THEN queue ELSE pools[j]]

\* std::size_t wraps around.
Minus(n, d) == (n + SizeT - d) % SizeT

-----------------------------------------------------------------------------
Open(c, k) ==
  /\ home[c] = NoKey /\ home' = [home EXCEPT ![c] = k]
  /\ alive' = alive \cup {c} /\ users' = [users EXCEPT ![c] = 1]
  /\ UNCHANGED <<pools, total, activeCount, stale>>

Close(c) == c \in alive /\ alive' = alive \ {c} /\ UNCHANGED <<pools, total, activeCount, stale, users, home>>

GrowStale(c) ==
  /\ home[c] # NoKey /\ c \notin stale /\ stale' = stale \cup {c}
  /\ UNCHANGED <<pools, total, activeCount, alive, users, home>>

\* An acquire that leaves the connection in the queue.
AcquireKeeps(k) ==
  LET open == {i \in DOMAIN PoolAt(k) : PoolAt(k)[i] \in alive}
  IN  /\ open # {}
      /\ LET c == PoolAt(k)[CHOOSE i \in open : \A j \in open : i <= j]
         IN  users' = [users EXCEPT ![c] = @ + 1] /\ stale' = stale \ {c}
      /\ activeCount' = (activeCount + 1) % SizeT
      /\ UNCHANGED <<pools, total, alive, home>>

\* The queue is popped down to the first connection that is alive, or to nothing.
Acquire(k) ==
  LET queue == PoolAt(k)
      open == {i \in DOMAIN queue : queue[i] \in alive}
      first == IF open = {} THEN Len(queue) + 1 ELSE CHOOSE i \in open : \A j \in open : i <= j
  IN  /\ pools' = SetPool(k, SubSeq(queue, first + 1, Len(queue)))
      /\ total' = Minus(total, first - 1)
      /\ IF open = {} THEN UNCHANGED <<activeCount, stale, users>>
         ELSE /\ activeCount' = (activeCount + 1) % SizeT /\ stale' = stale \ {queue[first]}
              /\ users' = [users EXCEPT ![queue[first]] = @ + 1]
      /\ UNCHANGED <<alive, home>>

\* A connection the pool does not keep is counted out of a total it was never
\* counted into.
Release(c) ==
  LET k == home[c] keep == c \in alive /\ total < MaxSize
  IN  /\ users[c] > 0 /\ users' = [users EXCEPT ![c] = @ - 1]
      /\ stale' = stale \ {c} /\ activeCount' = Minus(activeCount, 1)
      /\ pools' = SetPool(k, IF keep THEN Append(PoolAt(k), c) ELSE PoolAt(k))
      /\ total' = IF keep THEN total ELSE Minus(total, 1)
      /\ UNCHANGED <<alive, home>>

\* What is open and was used lately stays, in its order.
Keep(queue, c) == IF c \in alive \ stale THEN Append(queue, c) ELSE queue

Fresh(queue) ==
  LET kept[i \in 0 .. Len(queue)] == IF i = 0 THEN <<>> ELSE Keep(kept[i - 1], queue[i])
  IN  kept[Len(queue)]

\* The cleanup timer fires: what is dead or stale goes, and empty queues with it.
CleanupExpired ==
  LET Dropped(k) == Len(pools[k]) - Len(Fresh(pools[k]))
  IN  /\ pools' = [k \in {j \in DOMAIN pools : Fresh(pools[j]) # <<>>} |-> Fresh(pools[k])]
      /\ total' = Minus(total, FoldSet(LAMBDA k, n : Dropped(k) + n, 0, DOMAIN pools) % SizeT)
      /\ UNCHANGED <<activeCount, alive, stale, users, home>>

ClearPool ==
  /\ pools' = <<>> /\ total' = 0 /\ activeCount' = 0 /\ UNCHANGED <<alive, stale, users, home>>

PoolNext ==
  \/ \E c \in Conn : Close(c) \/ GrowStale(c) \/ Release(c) \/ \E k \in Key : Open(c, k)
  \/ \E k \in Key : Acquire(k)
  \/ CleanupExpired \/ ClearPool

PoolSpec == PoolInit /\ [][PoolNext]_poolVars

-----------------------------------------------------------------------------
\* A connection has one owner: a user, or one place in the queue of its own host,
\* however dead and stale connections, clean-ups and clear() are mixed.
OneOwner ==
  \A c \in Conn :
    /\ users[c] <= 1
    /\ \A k \in DOMAIN pools : \A i \in DOMAIN pools[k] : pools[k][i] = c =>
         users[c] = 0 /\ home[c] = k /\ \A j \in DOMAIN pools[k] : pools[k][j] = c => j = i
=============================================================================
