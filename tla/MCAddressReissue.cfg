SPECIFICATION Spec
CONSTANTS
  None = None
  Gaps = {1, 2}
  MaxWindow = 3
  MempoolForgets = TRUE
INVARIANTS
  NeverReissued
