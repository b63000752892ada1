SPECIFICATION Spec
CONSTANTS
  SecondsPerMinute = 2
  MinutesPerHour = 3
  HoursPerDay = 3
  DaysPerWeek = 3
  MonthLengths <- Lengths
  EpochYear = 1
  Conditions <- WellFormed
  Horizon = 130
INVARIANTS NextIsStart
PROPERTIES NextIsStable
