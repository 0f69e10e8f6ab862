SPECIFICATION Spec
CONSTANTS
  Refs = {r1, r2, r3}
  Body = {pay, move}
  TxIds = {t1}
  None = None
  PENDING_TTL_S = 1
  MaxClock = 4
INVARIANTS
  TypeOK
  RecordsMatchState
  OneTransaction
PROPERTIES
  InertForGood
  ConfirmedInTime
  KeepsPromise
