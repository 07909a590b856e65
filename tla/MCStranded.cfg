SPECIFICATION Spec
CONSTANTS
  Pods = {p1, p2}
  Sessions = {call}
  Conferences = {}
  Watchers = {w1}
  Phones = {a}
  Conns = {c1}
  MaxMail = 1
  Budgets <- MCDeckOnly
PROPERTY
  EveryDeckCloses
CHECK_DEADLOCK FALSE
