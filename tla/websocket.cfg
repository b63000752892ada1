SPECIFICATION FairSpec
CONSTANTS
  Clients = {1, 2}
  Channels = {"stats", "devices"}
  Usages = {{"stats"}, {"devices"}}
  LoadDuration = 1
  TempDuration = 1
  MaxTempData = 1
INVARIANTS ClientsKnown HistoryComplete
PROPERTIES MissedBehindClosing StopReturns
