SPECIFICATION MCSpec
CONSTANTS
  Inputs <- AllInputs
  Subscriptions <- PlainSubscriptions
  Overrides <- PlainOverrides
  EditValues <- PlainEdits
  LargeAt = 2
  Terminals <- MatchRules
  Keys <- AllKeys
  Texts <- AllTexts
  Depth = 4
CHECK_DEADLOCK FALSE
INVARIANTS
  FieldsComeFromTheRightSide
  ItemsAreMergedByName
  RulesPrecedeTheFallback
  MistakesAreRejected
  NoDirectiveLeaks
  AdoptedValuesSurvive
PROPERTIES
  AdoptionSettles
  AdoptsNothingElse
