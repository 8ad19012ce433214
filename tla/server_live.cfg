\* The program from main() on: recycled workers, scripts ended by the alarm, a crash, signals,
\* and a master that may be killed.
SPECIFICATION ServerSpec
CONSTANTS
  Pids = {1, 2}
  Conns = {c1, c2}
  NoConn = NoConn
  MinSpare = 1
  MaxSpare = 1
  MaxChildren = 2
  MaxRequests = 2
  AbnormalLimit = 1
  MaxCrashes = 1
  MaxForkFails = 0
  SelectMayFail = FALSE
  WaitRestarts = TRUE
  MasterMayDie = TRUE
  MaxExecTime = 10
  Ports = {1024, 1025}
  ConfigFiles <- MCConfigFiles
  Unreadable = Unreadable
PROPERTIES
  LetGoLeaves
  PortFreed
  ClientsServed
  PoolSettles
  RunsPrefork
  WorkersTakeTurns
