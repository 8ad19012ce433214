\* read() without a size.
SPECIFICATION Spec
CONSTANTS
  IntMax = 3
  MaxBody = 4
  MaxRead = 3
INVARIANTS
  ReadAllReturns
