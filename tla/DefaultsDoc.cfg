SPECIFICATION ConfigSpec
CONSTANTS
  Leaf = {1, 2}
  Section = {"parsers", "core"}
  File <- Files
  Unreadable <- NotThere
  Null = "null"
  Accepts <- Accepted
  HasType <- Typed
  MaxFileEdits = 2
  MaxLoads = 1
INVARIANTS
  LeftOutIsSafe
CHECK_DEADLOCK FALSE
