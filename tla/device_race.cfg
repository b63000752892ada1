SPECIFICATION Spec
CONSTANTS
  Threads = {websocket, mqtt}
  Names = {n1}
  Keys = {online}
  Values = {v1}
  MaxDevices = 1
  MaxGroups = 0
  MaxRestarts = 0
INVARIANTS SharedByAll
