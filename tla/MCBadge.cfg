SPECIFICATION Spec
CONSTANTS
  MaxRecordings = 3
  MaxMessages = 2
  MaxFrames = 1
  MaxSteps = 2
  MaxCalls = 1
  MaxFaults = 0
INVARIANT
  BadgeIsSeeded
CHECK_DEADLOCK FALSE
