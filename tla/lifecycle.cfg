SPECIFICATION StartUpSpec
CONSTANTS
  Apis <- PluginApis
  Order <- PluginOrder
  Work <- PluginWork
  StartThrows <- PluginStartThrows
  Members <- MainMembers
  Users <- PluginUsers
  Uses <- PluginUses
  Lights = {1, 2, 3}
INVARIANTS PhasesInOrder ReachExplained SynchronizedIfAllThere
PROPERTIES StopEndsProgram
