SPECIFICATION FairSpec
CONSTANTS
  d1 = d1
  h1 = h1
  u1 = u1
  x1 = x1
  w1 = w1
  t1 = t1
  Docs = {d1}
  Hashes = {h1}
  Readable = {h1}
  Uploaders = {u1}
  Deleters = {x1}
  Listers = {}
  Workers = {w1}
  Threads = {t1}
  DbFaults = TRUE
  MaxLosses = 2
CHECK_DEADLOCK FALSE
PROPERTIES JobSettles
