SPECIFICATION Spec
CONSTANTS
  Pods = {p1, p2}
  Sessions = {call, conf}
  Conferences = {conf}
  Watchers = {w1}
  Phones = {a}
  Conns = {c1, c2}
  MaxMail = 1
  Budgets <- MCBudgets
INVARIANTS
  PresenceIsLive
  EveryHandsetOnce
  EndedConferenceHasNoDeck
PROPERTIES
  CallSurvivesMove
  DecksClose
CHECK_DEADLOCK FALSE
