SPECIFICATION Spec
CONSTANTS
  d1 = d1
  h1 = h1
  h2 = h2
  u1 = u1
  x1 = x1
  l1 = l1
  w1 = w1
  t1 = t1
  Docs = {d1}
  Hashes = {h1, h2}
  Readable = {h1}
  Uploaders = {u1}
  Deleters = {x1}
  Listers = {l1}
  Workers = {w1}
  Threads = {t1}
  DbFaults = FALSE
  MaxLosses = 0
CHECK_DEADLOCK FALSE
INVARIANTS FailedIsListed
