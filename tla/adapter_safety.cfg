\* Any calls of the application, malformed statuses and bad headers included.
SPECIFICATION Spec
CONSTANTS
  Lengths = {0, 1, 3}
  MaxHeaders = 2
  MaxChunk = 2
  MaxOut = 5
  Statuses <- AllStatuses
INVARIANTS
  TypeOK
  HeadFirst
  ResultTells
PROPERTIES
  HeadOnce
  ImplementsResponse
