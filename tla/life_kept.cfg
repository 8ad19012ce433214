\* An application that keeps its objects, and a time limit.
SPECIFICATION Spec
CONSTANTS
  MaxReqs = 2
  Versions = {1, 2}
  Times = {1, 2}
  TimeLimit = TRUE
  Keeps = TRUE
  MaxEdits = 2
  MaxPieces = 2
INVARIANTS
  OwnOutput
