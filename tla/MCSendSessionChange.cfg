SPECIFICATION Spec
CONSTANTS
  Refs = {r1, r2}
  None = None
  PENDING_TTL_S = 0
  MaxClock = 1
  MaxChange = 2
  SharedKeys = FALSE
  FileSignerDefault = FALSE
INVARIANTS
  ApprovedStaysSignable
