SPECIFICATION Spec
CONSTANTS
  u1 = u1
  n1 = n1
  n2 = n2
  a1 = a1
  a2 = a2
  Users = {u1}
  Items = {n1, n2}
  Angels = {a1}
  RowIds = {id1, id2}
  Instances = {i1}
  Handlers = {h1}
  Requests <- TwoItems
  Day = 2
  Horizon = 1
  KeepSent = 1
  Limit = 2
  DbFaults = TRUE
  MaxTime = 3
  MaxRequests = 2
  MaxCrashes = 1
SYMMETRY RowSymmetry
INVARIANTS TypeOK UniqueRows SentWasDelivered SendingIsOwned NoSecondDelivery
PROPERTIES AtMostOnce CancelSticks NeverEarly
