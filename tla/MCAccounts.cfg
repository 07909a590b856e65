SPECIFICATION MCSpec
CONSTANTS
  a1 = a1
  a2 = a2
  a3 = a3
  a4 = a4
  Addresses = {a1, a2, a3, a4}
  Allowed = {a4}
  Tasks = {t1, t2}
  MaxUsers = 4
  MaxHomes = 3
  MaxLinks = 3
  MaxInvites = 2
  MaxRequests = 3
  MaxFaults = 1
  FirstAddr <- MCAddr
  FirstMembers <- MCMembers
  FirstLinks <- MCLinks
  FirstInvites <- MCInvites
  None = None
  MinutesPerDay = 3
  DaysPerWeek = 2
  Forms <- MCForms
  Requests = {t1, t2}
  QueueCap = 1
  MaxChanges = 2
  MaxLosses = 1
SYMMETRY Symmetry
CHECK_DEADLOCK FALSE
INVARIANTS
  HouseholdsHaveMembers
  LinkedOnce
  WindowsSilenceTheirMinutes
  SilentStateConverges
