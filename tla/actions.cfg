SPECIFICATION FairSpec
CONSTANTS
  Devices = {1}
  Ids = {1, 2}
  Programs <- AllPrograms
  s_maxRecursion = 1
  Detached = {"d1"}
  MaxRequests = 2
INVARIANTS ExecutesInOrder LostOnlyByRace EndExplained
PROPERTIES EverythingEnds
