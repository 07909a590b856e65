SPECIFICATION MCSpec
CONSTANTS
  Phones = {1, 2, 3}
  Callers = {1, 2}
  ConfIds = {c1}
  Threads = {t1, t2}
  MaxCalls = 4
  MaxFailures = 1
  MaxRestarts = 1
  NoConf = NoConf
SYMMETRY ThreadSymmetry
INVARIANTS
  MemorySound
  ContinuationOnce
  MergedCallsRetired
  SerialTablesAgree
CHECK_DEADLOCK FALSE
