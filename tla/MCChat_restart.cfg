SPECIFICATION Spec
CONSTANTS
  c1 = c1
  w1 = w1
  w2 = w2
  Chats = {c1}
  Workers = {w1, w2}
  Capacity = 1
  MaxUpdates = 2
  Reminders = 0
  MaxInflight = 1
  Keep = 2
  MaxBefore = 4
  MaxParts = 2
  MaxFaults = 0
PROPERTIES RestartForgets
CHECK_DEADLOCK FALSE
