\* Scripts that never end, on a system where signal() sets SA_RESTART.
SPECIFICATION UntimedSpec
CONSTANTS
  Pids = {1, 2}
  Conns = {c1}
  NoConn = NoConn
  MinSpare = 1
  MaxSpare = 1
  MaxChildren = 2
  MaxRequests = 0
  AbnormalLimit = 1
  MaxCrashes = 0
  MaxForkFails = 0
  SelectMayFail = FALSE
  WaitRestarts = TRUE
  MasterMayDie = FALSE
PROPERTIES
  HungWorkersKilled
