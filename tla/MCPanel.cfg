SPECIFICATION Spec
CONSTANTS
  None = None
  Tabs = {t1, t2}
  MaxTokens = 2
  OldKc = {1}
  Sessions = {a, b}
  Fetches = {f1}
  MaxActs = 2
  MaxFaults = 1
CHECK_DEADLOCK FALSE
INVARIANT TypeOK
PROPERTIES SessionSticks DeadSessionLeaves MessagesSettle
