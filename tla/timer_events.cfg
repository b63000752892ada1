SPECIFICATION FairSpec
CONSTANTS
  Day = 3
  Configurations <- Mixed
  Changed <- EditedAndOnce
  ChangeFields = {"ADD", "REMOVE", "CONDITION", "ALL"}
  MaxEvents = 2
  MaxTime = 7
  MaxTimeSlow = 4
  Prompts = {TRUE, FALSE}
  SpuriousWakeups = TRUE
  EffectsThrow = TRUE
  Destroyed = TRUE
INVARIANTS SleepExplained  RulesInTimer WaitsForLowest
PROPERTIES DestructorReturns
