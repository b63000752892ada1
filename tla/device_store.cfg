SPECIFICATION Spec
CONSTANTS
  Threads = {websocket, mqtt}
  Names = {n1}
  Keys = {online}
  Values = {v1, v2}
  MaxDevices = 2
  MaxGroups = 2
  MaxRestarts = 1
SYMMETRY Symmetric
INVARIANTS SharedData MemoryMatchesRow
PROPERTIES NoPropertyLost
