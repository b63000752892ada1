SPECIFICATION Spec
CONSTANTS
  Stale = FALSE
  MaxRules = 2
  MaxConditions = 4
  MaxActions = 2
  MaxChildren = 2
INVARIANTS TypeOK RulesIntact SavedAsSent RefusedOnlyIfMixed
PROPERTIES OthersUntouched
