\* Ints of three bits: bodies of up to six bytes, delivered in any pieces or cut short, and sizes
\* up to past the second wrap-around.
SPECIFICATION FairSpec
CONSTANTS
  IntMax = 3
  MaxBody = 6
  MaxRead = 12
INVARIANTS
  TypeOK
  NothingLost
  ShortOnlyAtEnd
  LengthFits
PROPERTIES
  ReadsReturn
