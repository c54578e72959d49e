SPECIFICATION MCSpec
CONSTANTS
  Inputs <- NoInputs
  Subscriptions <- ProviderSubscriptions
  Overrides <- NoOverride
  EditValues <- ProviderEdits
  LargeAt = 2
  Terminals <- MatchRules
  Keys <- AllKeys
  Texts <- AllTexts
  Depth = 4
CHECK_DEADLOCK FALSE
PROPERTIES
  AdoptionSettles
