SPECIFICATION Spec
CONSTANTS
  Topics = {"lamp"}
  Names = {"lamp", "kitchen"}
  MaxDevices = 3
  MaxQueue = 8
  MaxEvents = 4
INVARIANTS OneDevicePerTopic
PROPERTIES Settles WishGranted
CHECK_DEADLOCK FALSE
