SPECIFICATION MCSpec
CONSTANTS
  DigitsRequired = 1
  MaxHooks = 3
  MaxIn = 1
  MaxUart = 1
  Requester = r
  Others = {t, x}
  NoNumber = none
  MaxMoves = 4
  MaxTurns = 1
  MaxRecordings = 4
  MaxMessages = 2
  MaxFrames = 2
  MaxSteps = 4
  MaxCalls = 2
  MaxFaults = 1
SYMMETRY Symmetry
CHECK_DEADLOCK FALSE
INVARIANTS
  ControllerFollowsHook
  NobodyOnACradledPhone
  FreeRetryFires
  OneRecorder
  BadgeIsNotStale
PROPERTIES
  StoreIsAMailbox
