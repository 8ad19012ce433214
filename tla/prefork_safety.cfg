\* Workers that are not recycled: two crashes, a failed fork, a failing select, signals,
\* a master that may be killed.
SPECIFICATION Spec
CONSTANTS
  Pids = {1, 2, 3}
  Conns = {c1, c2}
  NoConn = NoConn
  MinSpare = 1
  MaxSpare = 1
  MaxChildren = 2
  MaxRequests = 0
  AbnormalLimit = 1
  MaxCrashes = 2
  MaxForkFails = 1
  SelectMayFail = TRUE
  WaitRestarts = FALSE
  MasterMayDie = TRUE
SYMMETRY ConnSymmetry
INVARIANTS
  TypeOK
  TableExact
  PoolBound
  BeliefTracks
  BytesAlternate
  FdsAccounted
  ConnsOwned
  NoOrphans
  SelfStopJustified
PROPERTIES
  
  ImplementsService
