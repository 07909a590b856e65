SPECIFICATION LinesSpec
CONSTANTS
  d1 = d1  d2 = d2  l1 = l1  l2 = l2  t1 = t1  t2 = t2
  n1 = n1  n2 = n2  n3 = n3  n4 = n4
  Devices = {d1, d2}
  Lines = {l1, l2}
  Numbers = {n1, n2, n3, n4}
  Homes = {h1}
  Tasks = {t1, t2}
  FirstLine <- OwnLine
  FirstNumber <- OwnNumber
  FirstHome = h1
  FirstPaired <- OneOrBoth
  MaxRequests = 3
  MaxFaults = 1
  Null = Null
SYMMETRY Symmetry
CHECK_DEADLOCK FALSE
INVARIANTS RegisteredWhereBound TokenReachesDevice RowsFollowRename
