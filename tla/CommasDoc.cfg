SPECIFICATION BodySpec
CONSTANTS
  FieldName = {"f", "g"}
  FileName = {"g"}
  Content <- MCContents
  MaxParts = 2
  Slack = 5
  Margin = 2
  MaxField = 4
  MaxFile = 3
  MaxResets = 1
  MaxFieldSize = 4
  MaxTotalSize = 5
  SupportArrays = TRUE
  ValBits = 30
  Alphabet <- Alphabets
  MaxText = 5
INVARIANTS
  TrailingCommasGone
CHECK_DEADLOCK FALSE
