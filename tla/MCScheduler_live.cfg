SPECIFICATION FairSpec
CONSTANTS
  u1 = u1
  n1 = n1
  n2 = n2
  a1 = a1
  a2 = a2
  Users = {u1}
  Items = {n1, n2}
  Angels = {a1, a2}
  RowIds = {id1, id2}
  Instances = {i1}
  Handlers = {h1}
  Requests <- Tied
  Day = 2
  Horizon = 1
  KeepSent = 1
  Limit = 1
  DbFaults = FALSE
  MaxTime = 2
  MaxRequests = 2
  MaxCrashes = 1
PROPERTY DueIsServed
