SPECIFICATION FairLiveSpec
CONSTANTS
  MaxStarts = 3
  MaxPackets = 1
INVARIANT LiveTypeOK
INVARIANT Controlled
INVARIANT RecordingsKept
PROPERTY ReportedCountStays
PROPERTY RecordingEnds
CHECK_DEADLOCK FALSE
