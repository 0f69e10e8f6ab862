SPECIFICATION Spec
CONSTANTS
  Refs = {r1, r2, r3}
  None = None
  PENDING_TTL_S = 0
  MaxClock = 1
  MaxChange = 3
  SharedKeys = TRUE
  FileSignerDefault = TRUE
SYMMETRY RefSymmetry
INVARIANTS
  TypeOK
  MarkersMatchRecord
  PublicOnceAfterOwnRefusal
  LineageIsTrue
  BumpReplacesWhatWasSent
  DeviceWishIsForThisSend
PROPERTIES
  ApprovedWasOnTheCard
  KeepsStrictPromise
