SPECIFICATION Spec
CONSTANTS
  None = None
  Backends = {own, hosted}
  GapLimits = {20, 50}
  BootGap = 20
  MaxTip = 1
  MaxSwaps = 2
INVARIANTS
  TypeOK
  RunningHasOneOwner
  WaitsForItsOwn
PROPERTIES
  NeverBackwards
  SwapSticks
  GateOpens
  EngineReturns
