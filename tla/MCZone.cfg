SPECIFICATION Spec
CONSTANTS
  None = None
  llm = llm
  m1 = m1
  m2 = m2
  Zones = {ai, db}
  AiZone = ai
  Keys = {llm}
  Catalog <- OneService
  First <- FirstOfAll
  Gets = {g1, g2}
  Puts = {p1}
  Builds = {b1}
  Swaps = {s1, s2}
  MaxActs = 4
  MaxFaults = 1
CHECK_DEADLOCK FALSE
SYMMETRY Symmetry
INVARIANTS TypeOK FileStaysItsOwn SwapHolds
