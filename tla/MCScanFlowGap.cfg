SPECIFICATION Spec
CONSTANTS
  None = None
  Backends = {own}
  GapLimits = {20, 50}
  BootGap = 20
  MaxTip = 0
  MaxSwaps = 1
INVARIANTS
  PlansUseLiveGap
