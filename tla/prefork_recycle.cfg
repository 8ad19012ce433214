\* Workers recycled after each request; none crashes.
SPECIFICATION Spec
CONSTANTS
  Pids = {1, 2}
  Conns = {c1, c2}
  NoConn = NoConn
  MinSpare = 1
  MaxSpare = 1
  MaxChildren = 2
  MaxRequests = 1
  AbnormalLimit = 1
  MaxCrashes = 0
  MaxForkFails = 0
  SelectMayFail = FALSE
  WaitRestarts = TRUE
  MasterMayDie = FALSE
SYMMETRY ConnSymmetry
INVARIANTS
  SelfStopJustified
