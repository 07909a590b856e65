CONSTANTS
  Phones <- MCPhones
  Flashers <- MCFlashers
  Budgets <- MCBudgets
  Host = 2
  Peer = 3
SPECIFICATION MCSpec
INVARIANTS
  MutesMatchHold
  RecoveryIsTimed
  MeshIsComplete
  DeadPeersAreDropped
CHECK_DEADLOCK FALSE
