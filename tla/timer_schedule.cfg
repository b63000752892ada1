SPECIFICATION FairSpec
CONSTANTS
  Day = 4
  Configurations <- ScheduleConfigurations
  Changed = {}
  ChangeFields = {}
  MaxEvents = 0
  MaxTime = 10
  MaxTimeSlow = 10
  Prompts = {TRUE}
  SpuriousWakeups = FALSE
  EffectsThrow = FALSE
  Destroyed = FALSE
PROPERTIES ScheduleKept
