\* A rejected status.
SPECIFICATION Spec
CONSTANTS
  Lengths = {0, 1, 3}
  MaxHeaders = 2
  MaxChunk = 2
  MaxOut = 5
  Statuses <- AllStatuses
INVARIANTS
  AlreadySent
