\* The alarm may cut any step short, the script may change at any moment.
SPECIFICATION FairSpec
CONSTANTS
  MaxReqs = 2
  Versions = {1, 2}
  Times = {1, 2}
  TimeLimit = TRUE
  Keeps = TRUE
  MaxEdits = 2
  MaxPieces = 2
INVARIANTS
  TypeOK
  ExpiredAfterUse
  RunsWhole
  StaleOnlyIfMisled
  PagesLast
  StrayFromTimedOut
  AlarmFits
PROPERTIES
  RequestsEnd
  TakesTurns
