SPECIFICATION LiveSpec
CONSTANTS
  MaxStarts = 2
  MaxPackets = 1
PROPERTY RecordedIsKept
CHECK_DEADLOCK FALSE
