SPECIFICATION MCSpec
CONSTANTS
  Inputs <- OddInputs
  Subscriptions <- NoSubscriptions
  Overrides <- NoOverrides
  EditValues <- NoEdits
  LargeAt = 2
  Terminals <- MatchRules
  Keys <- AllKeys
  Texts <- AllTexts
  Depth = 4
CHECK_DEADLOCK FALSE
INVARIANTS
  RepeatedItemsAreRejected
