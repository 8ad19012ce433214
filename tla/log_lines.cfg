\* All texts of up to five characters, cut in every way.
SPECIFICATION Spec
CONSTANTS
  Chars = {x, y, nl}
  Newline = nl
  MaxText = 5
INVARIANTS
  TypeOK
  LinesWhole
  CloseFlushes
PROPERTIES
  NothingLate
