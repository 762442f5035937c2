SPECIFICATION Spec
CONSTANTS
  d1 = d1
  d2 = d2
  h1 = h1
  u1 = u1
  u2 = u2
  x1 = x1
  Docs = {d1, d2}
  Hashes = {h1}
  Readable = {h1}
  Uploaders = {u1, u2}
  Deleters = {x1}
  Listers = {}
  Workers = {}
  Threads = {}
  DbFaults = FALSE
  MaxLosses = 0
CHECK_DEADLOCK FALSE
SYMMETRY Symmetry
INVARIANTS FileIsStored
