SPECIFICATION Spec
CONSTANTS
  Dots = Dots
  MaxWords = 4
INVARIANTS
  NegationNeverConfirms
  OrderNeverContradicts
  FailsClosed
