--------------------------- MODULE ConfigManager ---------------------------
(***************************************************************************)
(* ConfigManager and its ConfigWatcher.  A document is abstracted to the   *)
(* sections it has, which are "parsers" and "core" in the code, and to a   *)
(* map from the leaves that somebody reads to values; a file may leave out *)
(* leaves and whole sections.  A load reads the file, merges and validates *)
(* outside the lock, swaps document_ under it, and tells the subscribers   *)
(* outside it, reading document_ again for every path.  The program's      *)
(* thread and the watcher's may be at it at the same time.                 *)
(***************************************************************************)
EXTENDS Naturals, FiniteSets

CONSTANTS
  Leaf,      \* the leaves, numbered in the order of subscribers_
  Section,   \* the objects that every *_from_doc looks into
  File,      \* what the file may hold: a document, or Unreadable
  Unreadable,
  Null,      \* the JSON null
  Accepts(_),   \* validator_
  HasType(_, _), \* what *_from_doc asks of the value of a leaf, if there is one
  MaxFileEdits,  \* bound: changes of the file
  MaxLoads   \* bound: loads by the program

ASSUME ConfigAssumption ==
  Leaf \subseteq Nat /\ Unreadable \in File /\ MaxFileEdits \in Nat /\ MaxLoads \in Nat

VARIABLES
  file, time,     \* the file and its last_write_time
  document,       \* document_
  snapshot,       \* snapshot_: its version, and the document it was built from
  version,        \* version_counter
  subscribers,    \* the subscribed paths
  watching,       \* ConfigWatcher::running_
  lastTime,       \* last_write_time_
  doing,             \* what each thread does
  merged, old, todo, news,  \* a load: merged, old_doc, paths to go, what to tell
  loads,          \* loads by the program
  dead,           \* an exception left the watcher's thread
  told,           \* history: the value a subscriber knows
  overlapped,     \* history: two loads were under way at the same time
  threw           \* history: a load threw after it had swapped document_

configVars == <<file, time, document, snapshot, version, subscribers, watching, lastTime, doing, merged, old,
          todo, news, loads, dead, told, overlapped, threw>>

Loader == {"program", "watcher"}
Busy == {"swap", "copy", "notify", "call"}

\* deep_merge of a file's document into default_document_.  The braces of the
\* defaults put "core" beside the list of parsers and not beside "parsers", so
\* default_document_ is an array, no object, and what is merged into it replaces it.
Merge(doc) == doc

\* document_ before the first load is the JSON null; whoever reads an object
\* without sections finds the same.
NullDocument == [sections |-> {}, leaves |-> [l \in {} |-> Null]]

\* json_pointer_at: null for a path that leads nowhere.
At(doc, l) == IF l \in DOMAIN doc.leaves THEN doc.leaves[l] ELSE Null

Document == {Merge(f) : f \in File \ {Unreadable}} \cup {NullDocument}
NoSnapshot == [version |-> 0, doc |-> NullDocument]

ConfigTypeOK ==
  /\ file \in File /\ time \in 0 .. MaxFileEdits /\ document \in Document
  /\ version \in 0 .. MaxLoads + MaxFileEdits + 1
  /\ snapshot \in [version : 0 .. version, doc : Document]
  /\ subscribers \subseteq Leaf /\ watching \in BOOLEAN /\ lastTime \in 0 .. MaxFileEdits
  /\ doing \in [Loader -> Busy \cup {"idle", "poll", "load", "off", "join"}]
  /\ merged \in [Loader -> Document] /\ old \in [Loader -> Document] /\ todo \in [Loader -> SUBSET Leaf]
  /\ loads \in 0 .. MaxLoads /\ dead \in BOOLEAN /\ overlapped \in BOOLEAN /\ threw \in BOOLEAN
  /\ DOMAIN told = Leaf

ConfigInit ==
  /\ file \in File /\ time = 0 /\ document = NullDocument /\ snapshot = NoSnapshot /\ version = 0
  /\ subscribers = {} /\ watching = FALSE /\ lastTime = 0
  /\ doing = [t \in Loader |-> IF t = "watcher" THEN "off" ELSE "idle"]
  /\ merged = [t \in Loader |-> NullDocument] /\ old = [t \in Loader |-> NullDocument]
  /\ todo = [t \in Loader |-> {}] /\ news = [t \in Loader |-> Null]
  /\ loads = 0 /\ dead = FALSE /\ told = [l \in Leaf |-> Null] /\ overlapped = FALSE /\ threw = FALSE

fileVars == <<file, time>>
watchVars == <<watching, lastTime>>
loadVars == <<merged, old, todo, news>>
history == <<overlapped, threw>>

-----------------------------------------------------------------------------
(* Loading. *)

Home(t) == IF t = "watcher" THEN "poll" ELSE "idle"
Loading(t) == doing[t] \in Busy
Goto(t, step) == doing' = [doing EXCEPT ![t] = step]

\* A load that asks no validator.
LoadableUnchecked(f) == f # Unreadable

Loadable(f) == f # Unreadable /\ Accepts(Merge(f))

\* load_file up to the lock: a file that cannot be read, or that the validator
\* refuses, changes nothing.
Load(t) ==
  /\ merged' = [merged EXCEPT ![t] = IF Loadable(file) THEN Merge(file) ELSE @]
  /\ Goto(t, IF Loadable(file) THEN "swap" ELSE Home(t))
  /\ overlapped' = (overlapped \/ (Loadable(file) /\ \E u \in Loader \ {t} : Loading(u)))
  /\ UNCHANGED <<old, todo, news, threw>>

\* load_file and reload, called by the program.
LoadFile ==
  /\ doing["program"] = "idle" /\ loads < MaxLoads /\ loads' = loads + 1 /\ Load("program")
  /\ UNCHANGED <<fileVars, document, snapshot, version, subscribers, watchVars, dead, told>>

\* document_.value("core", {}).value(...) throws if the document has no such
\* section; a leaf that a section leaves out has the default of the struct.
Converts(doc) == Section \subseteq doc.sections /\ \A l \in DOMAIN doc.leaves : HasType(l, doc.leaves[l])

RebuildSnapshot(doc) == [version |-> version + 1, doc |-> doc]

\* Under the lock.  If a section does not convert, document_ is the new one, the
\* snapshot is not, and the exception reaches the caller or ends the process.
Swap(t) ==
  /\ doing[t] = "swap" /\ old' = [old EXCEPT ![t] = document] /\ document' = merged[t]
  /\ version' = version + 1
  /\ IF Converts(merged[t])
     THEN /\ snapshot' = RebuildSnapshot(merged[t]) /\ Goto(t, "copy")
          /\ UNCHANGED <<dead, threw>>
     ELSE /\ threw' = TRUE /\ dead' = (t = "watcher") /\ Goto(t, IF t = "watcher" THEN "off" ELSE "idle")
          /\ UNCHANGED snapshot
  /\ UNCHANGED <<fileVars, subscribers, watchVars, merged, todo, news, loads, told, overlapped>>

\* notify_subscribers_unlocked copies the subscriptions ...
CopySubscribers(t) ==
  /\ doing[t] = "copy" /\ todo' = [todo EXCEPT ![t] = subscribers] /\ Goto(t, "notify")
  /\ UNCHANGED <<fileVars, document, snapshot, version, subscribers, watchVars, merged, old, news,
                 loads, dead, told, history>>

NextPath(t) == CHOOSE p \in todo[t] : \A q \in todo[t] : p <= q

\* A comparison with what document_ holds once it was swapped.
OldValueSwapped(t, p) == At(document, p)

OldValue(t, p) == At(old[t], p)

\* The reference to document_ is read without the lock.
NewValue(t, p) == At(document, p)

\* ... and for each path compares what is in document_ now with the old value.
Notify(t) ==
  /\ doing[t] = "notify"
  /\ IF todo[t] = {} THEN Goto(t, Home(t)) /\ UNCHANGED <<todo, news>>
     ELSE LET p == NextPath(t) v == NewValue(t, p) IN
          IF v = OldValue(t, p) THEN todo' = [todo EXCEPT ![t] = @ \ {p}] /\ UNCHANGED <<doing, news>>
          ELSE news' = [news EXCEPT ![t] = v] /\ Goto(t, "call") /\ UNCHANGED todo
  /\ UNCHANGED <<fileVars, document, snapshot, version, subscribers, watchVars, merged, old, loads,
                 dead, told, history>>

CallSubscriber(t) ==
  /\ doing[t] = "call" /\ told' = [told EXCEPT ![NextPath(t)] = news[t]]
  /\ todo' = [todo EXCEPT ![t] = @ \ {NextPath(t)}] /\ Goto(t, "notify")
  /\ UNCHANGED <<fileVars, document, snapshot, version, subscribers, watchVars, merged, old, news,
                 loads, dead, history>>

\* The subscriber knows the document of the time when it subscribes.
Subscribe(p) ==
  /\ doing["program"] = "idle" /\ p \notin subscribers /\ subscribers' = subscribers \cup {p}
  /\ told' = [told EXCEPT ![p] = At(document, p)]
  /\ UNCHANGED <<fileVars, document, snapshot, version, watchVars, doing, loadVars, loads, dead, history>>

-----------------------------------------------------------------------------
(* Watching. *)

EditFile ==
  /\ time < MaxFileEdits /\ file' \in File /\ time' = time + 1
  /\ UNCHANGED <<document, snapshot, version, subscribers, watchVars, doing, loadVars, loads, dead, told, history>>

\* The file as it is now counts as seen.
StartWatching ==
  /\ doing["program"] = "idle" /\ ~watching /\ watching' = TRUE /\ lastTime' = time /\ Goto("watcher", "poll")
  /\ UNCHANGED <<fileVars, document, snapshot, version, subscribers, loadVars, loads, dead, told, history>>

\* stop clears the flag and joins the thread.
StopWatching ==
  /\ doing["program"] = "idle" /\ watching /\ watching' = FALSE /\ Goto("program", "join")
  /\ UNCHANGED <<fileVars, document, snapshot, version, subscribers, lastTime, loadVars, loads, dead, told, history>>

Joined ==
  /\ doing["program"] = "join" /\ doing["watcher"] = "off" /\ Goto("program", "idle")
  /\ UNCHANGED <<fileVars, document, snapshot, version, subscribers, watchVars, loadVars, loads, dead, told, history>>

\* A poll that drops a change because the program is loading.
PollSkips ==
  /\ doing["watcher"] = "poll" /\ watching /\ time # lastTime /\ lastTime' = time
  /\ IF Loading("program") THEN UNCHANGED doing ELSE Goto("watcher", "load")
  /\ UNCHANGED <<fileVars, document, snapshot, version, subscribers, watching, loadVars, loads, dead, told, history>>

\* One round of run_loop: the time is recorded before the file is read, whether
\* the load then succeeds or not; the debounce only delays the next round.
Poll ==
  /\ doing["watcher"] = "poll" /\ watching /\ time # lastTime
  /\ lastTime' = time /\ Goto("watcher", "load")
  /\ UNCHANGED <<fileVars, document, snapshot, version, subscribers, watching, loadVars, loads, dead, told, history>>

\* The file is read as it is by then.
WatcherLoads ==
  /\ doing["watcher"] = "load" /\ Load("watcher")
  /\ UNCHANGED <<fileVars, document, snapshot, version, subscribers, watchVars, loads, dead, told>>

WatcherEnds ==
  /\ doing["watcher"] = "poll" /\ ~watching /\ Goto("watcher", "off")
  /\ UNCHANGED <<fileVars, document, snapshot, version, subscribers, watchVars, loadVars, loads, dead, told, history>>

-----------------------------------------------------------------------------
LoadStep(t) == Swap(t) \/ CopySubscribers(t) \/ Notify(t) \/ CallSubscriber(t)

ConfigNext ==
  /\ ~dead
  /\ \/ \E t \in Loader : LoadStep(t)
     \/ LoadFile \/ EditFile \/ \E p \in Leaf : Subscribe(p)
     \/ StartWatching \/ StopWatching \/ Joined \/ Poll \/ WatcherLoads \/ WatcherEnds

\* Both threads are scheduled, and the watcher polls as long as it runs.
ConfigSpec ==
  /\ ConfigInit /\ [][ConfigNext]_configVars
  /\ WF_configVars(~dead /\ LoadStep("program"))
  /\ WF_configVars(~dead /\ (LoadStep("watcher") \/ Poll \/ WatcherLoads \/ WatcherEnds))

-----------------------------------------------------------------------------
(* Properties. *)

\* A snapshot is built from one document that was validated and converted, and it
\* is the current one unless the current one did not convert.
SnapshotIsWhole ==
  snapshot # NoSnapshot =>
    /\ Accepts(snapshot.doc) /\ Converts(snapshot.doc)
    /\ snapshot.doc = document \/ ~Converts(document)

\* When no load is under way, a subscriber knows the value that document_ has,
\* if loads did not overlap and none threw.
SubscribersAgree ==
  (\A t \in Loader : ~Loading(t)) /\ ~overlapped /\ ~threw =>
    \A p \in subscribers : told[p] = At(document, p)

\* A file that changes while it is watched gets loaded, whatever came before it
\* and in between: unreadable files, refused files, a change between the look at
\* its time and the load, and one during the load.  What a load makes of a file
\* that it cannot use is left out.
ChangeIsLoaded ==
  (watching /\ time # lastTime) ~>
    (document = file \/ ~Loadable(file) \/ ~watching \/ overlapped \/ dead)

\* config_manager.hpp:96 speaks of "defaults used for safe merging": a document
\* that was loaded fails to convert only for a value it has, never for a section
\* that the file leaves out.
LeftOutIsSafe ==
  document # NullDocument /\ ~Converts(document) =>
    \E l \in DOMAIN document.leaves : ~HasType(l, document.leaves[l])
=============================================================================
