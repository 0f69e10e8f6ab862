SPECIFICATION Spec
CONSTANTS
  None = None
  Gaps = {1, 2}
  MaxWindow = 4
  MempoolForgets = FALSE
INVARIANTS
  TypeOK
  NeverReissued
  ShownIsShowable
PROPERTIES
  AllocatedStays
