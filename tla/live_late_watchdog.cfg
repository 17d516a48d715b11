SPECIFICATION LiveSpec
CONSTANTS
  MaxStarts = 2
  MaxPackets = 1
PROPERTY WatchdogEndsItsOwn
CHECK_DEADLOCK FALSE
