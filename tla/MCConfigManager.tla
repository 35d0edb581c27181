--------------------------- MODULE MCConfigManager ---------------------------
(***************************************************************************)
(* Instance of ConfigManager for TLC.                                      *)
(***************************************************************************)
EXTENDS ConfigManager, TLC

Holds(sections, leaves) == [sections |-> sections, leaves |-> leaves]
NotThere == Holds({}, 0 :> "unreadable")

\* Leaf 1 is a number in "core", leaf 2 a name in "parsers" that nobody converts.
Files ==
  {NotThere, Holds({"parsers"}, 2 :> "b")}
    \cup {Holds(Section, l) : l \in {1 :> "n1", 2 :> "b", (1 :> "text") @@ (2 :> "b"), (1 :> "n2") @@ (2 :> "a"), 1 :> "refused"}}
Accepted(doc) == At(doc, 1) # "refused"
Typed(l, v) == l = 1 => v # "text"
=============================================================================
