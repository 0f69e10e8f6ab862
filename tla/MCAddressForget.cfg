SPECIFICATION Spec
CONSTANTS
  None = None
  Gaps = {2}
  MaxWindow = 3
  MempoolForgets = TRUE
PROPERTIES
  LoweredOnlyByRebuild
  CursorOnFreshAddress
