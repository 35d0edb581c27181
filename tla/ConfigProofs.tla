---------------------------- MODULE ConfigProofs ----------------------------
(***************************************************************************)
(* Proofs about ConfigManager, for every set of leaves and files, every    *)
(* validator and every conversion, and any number of loads and edits.      *)
(***************************************************************************)
EXTENDS ConfigManager, WellFoundedInduction, TLAPS

\* What the steps need to know of the shape of the state, and the handshake of
\* stop() with the watcher's thread: it is joined before it can be started again.
ConfigShape ==
  /\ doing \in [Loader -> Busy \cup {"idle", "poll", "load", "off", "join"}]
  /\ DOMAIN merged = Loader /\ DOMAIN old = Loader /\ DOMAIN news = Loader
  /\ todo \in [Loader -> SUBSET Leaf] /\ subscribers \subseteq Leaf /\ DOMAIN told = Leaf
  /\ \A t \in Loader : doing[t] = "call" => todo[t] # {}
  /\ watching \/ doing["program"] = "join" \/ doing["watcher"] = "off"
  /\ doing["program"] \notin {"poll", "load", "off"} /\ doing["watcher"] \notin {"idle", "join"}

\* The least path of those that are left, as the loop over the copy takes it.
LEMMA NextPathIsLeft ==
  ASSUME NEW t, todo[t] \subseteq Leaf, todo[t] # {}
  PROVE  NextPath(t) \in todo[t]
<1>1. IsWellFoundedOn({ss \in Nat \X Nat : ss[1] < ss[2]}, Nat)
  BY NatLessThanWellFounded, Zenon DEF OpToRel
<1>2. todo[t] \subseteq Nat
  BY ConfigAssumption
<1>3. PICK x \in todo[t] : \A y \in todo[t] : <<y, x>> \notin {ss \in Nat \X Nat : ss[1] < ss[2]}
  BY <1>1, <1>2, WFMin, Zenon
<1>4. ASSUME NEW y \in todo[t] PROVE x <= y
  <2>1. <<y, x>> \in Nat \X Nat /\ <<y, x>>[1] = y /\ <<y, x>>[2] = x
    BY <1>2
  <2>2. ~(y < x)
    BY <1>3, <2>1, Zenon
  <2>3. QED
    BY <1>2, <2>2
<1>5. QED
  BY <1>4, Zenon DEF NextPath

\* A step of ConfigManager, with ConfigNext's disjuncts named by who takes it.
LEMMA ConfigShapeStep == ConfigShape /\ [ConfigNext]_configVars => ConfigShape'
<1> SUFFICES ASSUME ConfigShape, [ConfigNext]_configVars PROVE ConfigShape'
  OBVIOUS
<1> USE DEF ConfigShape, Loader, Busy
<1>1. ASSUME NEW t \in Loader, Swap(t) PROVE ConfigShape'
  BY <1>1 DEF Swap, Goto, watchVars, fileVars
<1>2. ASSUME NEW t \in Loader, CopySubscribers(t) PROVE ConfigShape'
  BY <1>2 DEF CopySubscribers, Goto, watchVars
<1>3. ASSUME NEW t \in Loader, Notify(t) PROVE ConfigShape'
  BY <1>3 DEF Notify, Goto, watchVars, Home
<1>4. ASSUME NEW t \in Loader, CallSubscriber(t) PROVE ConfigShape'
  BY <1>4 DEF CallSubscriber, Goto, watchVars
<1>5. CASE LoadFile
  BY <1>5 DEF LoadFile, Load, Goto, Home, watchVars
<1>6. ASSUME NEW p \in Leaf, Subscribe(p) PROVE ConfigShape'
  BY <1>6 DEF Subscribe, watchVars, loadVars
<1>7. CASE EditFile
  BY <1>7 DEF EditFile, watchVars, loadVars
<1>8. CASE StartWatching \/ StopWatching \/ Joined \/ WatcherEnds
  BY <1>8 DEF StartWatching, StopWatching, Joined, WatcherEnds, Goto, watchVars, loadVars
<1>9. CASE Poll \/ WatcherLoads
  BY <1>9 DEF Poll, WatcherLoads, Load, Goto, Home, watchVars, loadVars
<1>10. CASE UNCHANGED configVars
  BY <1>10 DEF configVars
<1>11. QED
  BY <1>1, <1>2, <1>3, <1>4, <1>5, <1>6, <1>7, <1>8, <1>9, <1>10 DEF ConfigNext, LoadStep

\* ConfigShape holds throughout.
LEMMA ConfigShapeCorrect == ConfigSpec => []ConfigShape
<1>1. ConfigInit => ConfigShape
  BY DEF ConfigInit, ConfigShape, Loader
<1>2. QED
  BY <1>1, ConfigShapeStep, PTL DEF ConfigSpec

-----------------------------------------------------------------------------
(* The snapshot. *)

\* What waits for the lock was validated: nobody asks the validator again
\* under it.
SnapshotInv ==
  /\ SnapshotIsWhole
  /\ \A t \in Loader : doing[t] = "swap" => Accepts(merged[t])

\* Every step keeps it.
LEMMA SnapshotStep == ConfigShape /\ SnapshotInv /\ [ConfigNext]_configVars => SnapshotInv'
<1> SUFFICES ASSUME ConfigShape, SnapshotInv, [ConfigNext]_configVars PROVE SnapshotInv'
  OBVIOUS
<1> USE DEF ConfigShape, SnapshotInv, Loader, Busy
<1>1. ASSUME UNCHANGED <<snapshot, document, merged>>,
             \A t \in Loader : doing'[t] = "swap" => doing[t] = "swap"
      PROVE  SnapshotInv'
  BY <1>1 DEF SnapshotIsWhole, Converts
<1>2. ASSUME NEW t \in Loader, Swap(t) PROVE SnapshotInv'
  <2>1. Accepts(merged[t]) /\ document' = merged[t]
    BY <1>2 DEF Swap
  <2>2. \A u \in Loader : doing'[u] = "swap" => doing[u] = "swap"
    BY <1>2 DEF Swap, Goto
  <2>3. \A u \in Loader : doing'[u] = "swap" => Accepts(merged'[u])
    BY <1>2, <2>2 DEF Swap
  <2>4. CASE Converts(merged[t])
    <3>1. snapshot'.doc = merged[t]
      BY <1>2, <2>4 DEF Swap, RebuildSnapshot
    <3>2. QED
      BY <2>1, <2>3, <2>4, <3>1, Zenon DEF SnapshotIsWhole, Converts
  <2>5. CASE ~Converts(merged[t])
    <3>1. snapshot' = snapshot
      BY <1>2, <2>5 DEF Swap
    <3>2. QED
      BY <2>1, <2>3, <2>5, <3>1, Zenon DEF SnapshotIsWhole, Converts
  <2>6. QED
    BY <2>4, <2>5
<1>3. ASSUME NEW t \in Loader, CopySubscribers(t) \/ Notify(t) \/ CallSubscriber(t) PROVE SnapshotInv'
  BY <1>1, <1>3 DEF CopySubscribers, Notify, CallSubscriber, Goto, Home
<1>4. ASSUME NEW t \in Loader, Load(t), UNCHANGED <<snapshot, document>> PROVE SnapshotInv'
  <2>1. \A u \in Loader : doing'[u] = "swap" => Accepts(merged'[u])
    BY <1>4 DEF Load, Loadable, Goto, Home
  <2>2. QED
    BY <1>4, <2>1 DEF SnapshotIsWhole, Converts
<1>5. CASE LoadFile \/ WatcherLoads
  BY <1>4, <1>5 DEF LoadFile, WatcherLoads
<1>6. ASSUME NEW p \in Leaf, Subscribe(p) PROVE SnapshotInv'
  BY <1>1, <1>6 DEF Subscribe, loadVars
<1>7. CASE EditFile \/ StartWatching \/ StopWatching \/ Joined \/ Poll \/ WatcherEnds
  BY <1>1, <1>7 DEF EditFile, StartWatching, StopWatching, Joined, Poll, WatcherEnds, Goto, loadVars
<1>8. CASE UNCHANGED configVars
  BY <1>1, <1>8 DEF configVars
<1>9. QED
  BY <1>2, <1>3, <1>5, <1>6, <1>7, <1>8 DEF ConfigNext, LoadStep

\* load_file and the watcher never publish a snapshot of a document that the
\* validator refused, that did not convert, or that another load has replaced.
THEOREM SnapshotCorrect == ConfigSpec => []SnapshotIsWhole
<1>1. ConfigInit => SnapshotInv
  BY DEF ConfigInit, SnapshotInv, SnapshotIsWhole, Loader
<1>2. QED
  BY <1>1, ConfigShapeCorrect, SnapshotStep, PTL DEF ConfigSpec, SnapshotInv

-----------------------------------------------------------------------------
(* The subscribers. *)

\* Once document_ is swapped, a subscriber whose path the loop has still to visit
\* knows the old value or the new one, the others the new one; and what the loop
\* is about to tell is what document_ holds.
Behind(t, p) == told[p] = At(document, p) \/ told[p] = At(old[t], p)

AgreeInv ==
  ~overlapped /\ ~threw =>
    /\ \A t, u \in Loader : Loading(t) /\ Loading(u) => t = u
    /\ (\A t \in Loader : Loading(t) => doing[t] = "swap") => \A p \in subscribers : told[p] = At(document, p)
    /\ \A t \in Loader :
         /\ doing[t] = "copy" => \A p \in subscribers : Behind(t, p)
         /\ doing[t] \in {"notify", "call"} =>
              \A p \in subscribers : IF p \in todo[t] THEN Behind(t, p) ELSE told[p] = At(document, p)
         /\ doing[t] = "call" => news[t] = At(document, NextPath(t))

\* Every step keeps it.
LEMMA AgreeStep == ConfigShape /\ AgreeInv /\ [ConfigNext]_configVars => AgreeInv'
<1> SUFFICES ASSUME ConfigShape, AgreeInv, [ConfigNext]_configVars, ~overlapped', ~threw' PROVE AgreeInv'
  BY DEF AgreeInv
<1> USE DEF ConfigShape, Loader, Busy
<1>1. ~overlapped /\ ~threw
  <2>1. ASSUME NEW t \in Loader, LoadStep(t) PROVE ~overlapped /\ ~threw
    <3>1. CASE Swap(t)
      <4>1. CASE Converts(merged[t])
        <5>1. UNCHANGED <<overlapped, threw>>
          BY <3>1, <4>1, SMT DEF Swap
        <5>2. QED
          BY <5>1, Zenon
      <4>2. CASE ~Converts(merged[t])
        BY <3>1, <4>2, Zenon DEF Swap
      <4>3. QED
        BY <4>1, <4>2
    <3>2. CASE CopySubscribers(t) \/ Notify(t) \/ CallSubscriber(t)
      <4>1. UNCHANGED <<overlapped, threw>>
        BY <3>2, SMT DEF CopySubscribers, Notify, CallSubscriber, history
      <4>2. QED
        BY <4>1, Zenon
    <3>3. QED
      BY <2>1, <3>1, <3>2 DEF LoadStep
  <2>2. ASSUME NEW t \in Loader, Load(t) PROVE ~overlapped /\ ~threw
    BY <2>2, Zenon DEF Load
  <2>3. CASE LoadFile \/ WatcherLoads
    BY <2>2, <2>3 DEF LoadFile, WatcherLoads
  <2>4. ASSUME NEW p \in Leaf, Subscribe(p) PROVE ~overlapped /\ ~threw
    BY <2>4, Zenon DEF Subscribe, history
  <2>5. CASE EditFile \/ StartWatching \/ StopWatching \/ Joined \/ Poll \/ WatcherEnds \/ UNCHANGED configVars
    <3>1. UNCHANGED <<overlapped, threw>>
      BY <2>5, SMT DEF EditFile, StartWatching, StopWatching, Joined, Poll, WatcherEnds, history, configVars
    <3>2. QED
      BY <3>1, Zenon
  <2>6. QED
    BY <2>1, <2>3, <2>4, <2>5, Zenon DEF ConfigNext
<1>2. \A t, u \in Loader : Loading(t) /\ Loading(u) => t = u
  BY <1>1 DEF AgreeInv
<1>3. ASSUME NEW t \in Loader, Swap(t) PROVE AgreeInv'
  <2>1. Converts(merged[t]) /\ Goto(t, "copy") /\ old' = [old EXCEPT ![t] = document]
    BY <1>3, <1>1 DEF Swap
  <2>2. \A p \in subscribers : told[p] = At(document, p)
    BY <1>1, <1>2, <1>3 DEF AgreeInv, Swap, Loading
  <2>3. UNCHANGED <<subscribers, told>>
    BY <1>3 DEF Swap
  <2>4. QED
    BY <1>2, <1>3, <2>1, <2>2, <2>3 DEF AgreeInv, Swap, Goto, Loading, Behind
<1>4. ASSUME NEW t \in Loader, CopySubscribers(t) PROVE AgreeInv'
  BY <1>1, <1>2, <1>4 DEF AgreeInv, CopySubscribers, Goto, Loading, Behind
<1>5. ASSUME NEW t \in Loader, Notify(t) PROVE AgreeInv'
  <2> UNCHANGED <<document, subscribers, old, told>>
    BY <1>5 DEF Notify
  <2>1. CASE todo[t] = {}
    BY <1>1, <1>2, <1>5, <2>1 DEF AgreeInv, Notify, Goto, Home, Loading, Behind
  <2>2. CASE todo[t] # {} /\ At(document, NextPath(t)) = At(old[t], NextPath(t))
    <3>1. todo' = [todo EXCEPT ![t] = @ \ {NextPath(t)}] /\ UNCHANGED <<doing, news>>
      BY <1>5, <2>2 DEF Notify, NewValue, OldValue
    <3>2. QED
      BY <1>1, <1>2, <1>5, <2>2, <3>1 DEF AgreeInv, Notify, Loading, Behind
  <2>3. CASE todo[t] # {} /\ At(document, NextPath(t)) # At(old[t], NextPath(t))
    <3>1. news' = [news EXCEPT ![t] = At(document, NextPath(t))] /\ Goto(t, "call") /\ UNCHANGED todo
      BY <1>5, <2>3 DEF Notify, NewValue, OldValue
    <3>2. NextPath(t)' = NextPath(t)
      BY <3>1 DEF NextPath
    <3>3. QED
      BY <1>1, <1>2, <1>5, <3>1, <3>2 DEF AgreeInv, Notify, Goto, Loading, Behind
  <2>4. QED
    BY <2>1, <2>2, <2>3
<1>6. ASSUME NEW t \in Loader, CallSubscriber(t) PROVE AgreeInv'
  <2>1. NextPath(t) \in todo[t] /\ NextPath(t) \in Leaf
    BY <1>6, NextPathIsLeft DEF CallSubscriber
  <2>2. told' = [told EXCEPT ![NextPath(t)] = At(document, NextPath(t))]
    BY <1>1, <1>6 DEF CallSubscriber, AgreeInv
  <2>3. QED
    BY <1>1, <1>2, <1>6, <2>1, <2>2 DEF AgreeInv, CallSubscriber, Goto, Loading, Behind
<1>7. ASSUME UNCHANGED <<document, old, todo, news>>,
             \A t \in Loader : doing'[t] \in Busy \ {"swap"} => doing'[t] = doing[t],
             \A t \in Loader : Loading(t) => doing'[t] = doing[t],
             \A p \in subscribers' : told'[p] = At(document, p) \/ (p \in subscribers /\ told'[p] = told[p]),
             \A t, u \in Loader : Loading(t)' /\ Loading(u)' => t = u
      PROVE  AgreeInv'
  <2>1. \A t \in Loader : NextPath(t)' = NextPath(t)
    BY <1>7 DEF NextPath
  <2>2. QED
    BY <1>1, <1>7, <2>1 DEF AgreeInv, Loading, Behind
<1>8. ASSUME NEW t \in Loader, Load(t), ~Loading(t), UNCHANGED <<document, subscribers, told>> PROVE AgreeInv'
  <2>1. \A u \in Loader : u # t => doing'[u] = doing[u]
    BY <1>8 DEF Load, Goto
  <2>2. doing'[t] = "swap" \/ doing'[t] \in {"poll", "idle"}
    BY <1>8 DEF Load, Goto, Home
  <2>3. doing'[t] = "swap" => \A u \in Loader \ {t} : ~Loading(u)
    BY <1>8 DEF Load, Goto, Home
  <2>4. \A u, v \in Loader : Loading(u)' /\ Loading(v)' => u = v
    BY <1>2, <2>1, <2>2, <2>3 DEF Loading
  <2>5. QED
    BY <1>7, <1>8, <2>1, <2>2, <2>4 DEF Load, Loading
<1>9. CASE LoadFile \/ WatcherLoads
  BY <1>8, <1>9 DEF LoadFile, WatcherLoads, Loading
<1>10. ASSUME NEW p \in Leaf, Subscribe(p) PROVE AgreeInv'
  <2>1. UNCHANGED <<document, old, todo, news, doing>>
    BY <1>10 DEF Subscribe, loadVars
  <2>2. \A q \in subscribers' : told'[q] = At(document, q) \/ (q \in subscribers /\ told'[q] = told[q])
    BY <1>10 DEF Subscribe
  <2>3. QED
    BY <1>2, <1>7, <2>1, <2>2 DEF Loading
<1>11. CASE EditFile \/ StartWatching \/ StopWatching \/ Joined \/ Poll \/ WatcherEnds
  BY <1>2, <1>7, <1>11 DEF EditFile, StartWatching, StopWatching, Joined, Poll, WatcherEnds, Goto, loadVars, Loading
<1>12. CASE UNCHANGED configVars
  BY <1>2, <1>7, <1>12 DEF configVars, Loading
<1>13. QED
  BY <1>3, <1>4, <1>5, <1>6, <1>9, <1>10, <1>11, <1>12 DEF ConfigNext, LoadStep

\* Loads that do not overlap and do not throw leave no subscriber behind, though
\* the comparison reads document_ again without the lock and subscriptions may
\* be added while the loop runs over its copy.
THEOREM SubscribersKeepUp == ConfigSpec => []SubscribersAgree
<1>1. ConfigInit => AgreeInv
  BY DEF ConfigInit, AgreeInv, Loader, Loading, Busy
<1>2. AgreeInv => SubscribersAgree
  BY DEF AgreeInv, SubscribersAgree
<1>3. QED
  BY <1>1, <1>2, ConfigShapeCorrect, AgreeStep, PTL DEF ConfigSpec
=============================================================================
