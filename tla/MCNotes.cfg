SPECIFICATION Spec
CONSTANTS
  None = None
  ann = ann
  Ann = Ann
  bob = bob
  Notes = {n1, n2}
  Slots = {s1, s2}
  Users = {ann, bob}
  Typed = {ann, Ann, bob}
  Lower <- Spelling
  Registered = {ann}
  Requests = {r1, r2}
  MaxActs = 4
  MaxFaults = 1
CHECK_DEADLOCK FALSE
SYMMETRY Symmetry
INVARIANTS TypeOK ScheduledIsSeen  BusyIsWaiting
