SPECIFICATION Spec
CONSTANTS
  d1 = d1
  h1 = h1
  u1 = u1
  x1 = x1
  w1 = w1
  w2 = w2
  t1 = t1
  t2 = t2
  Docs = {d1}
  Hashes = {h1}
  Readable = {h1}
  Uploaders = {u1}
  Deleters = {x1}
  Listers = {}
  Workers = {w1, w2}
  Threads = {t1, t2}
  DbFaults = TRUE
  MaxLosses = 1
CHECK_DEADLOCK FALSE
SYMMETRY Symmetry
INVARIANTS TypeOK DoneIsSearchable OrphansAreOvertaken OpenIsCarried
PROPERTIES KeepsLibrary
