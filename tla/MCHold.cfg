CONSTANTS
  Phones <- MCPhones
  Flashers <- MCFlashers
  Budgets <- MCThreeFlashes
  Host = 2
  Peer = 3
SPECIFICATION MCSpec
INVARIANTS
  HoldIsSilent
CHECK_DEADLOCK FALSE
