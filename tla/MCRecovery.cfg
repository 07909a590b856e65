SPECIFICATION Spec
CONSTANTS
  MaxCuts = 2
  MaxFaults = 2
  MaxActs = 4
INVARIANTS
  BadBootsAreBounded
  ConfigSurvives
PROPERTIES
  NeverWedged
CHECK_DEADLOCK FALSE
