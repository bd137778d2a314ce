SPECIFICATION FairSpec
CONSTANTS
  stream = stream
  other = other
  Sessions <- MCSessions
  Handlers = {x, y}
  None = None
  MaxReaders = 2
  MaxHistory = 2
  MinBuffer = 1
  MaxClosed = 1
  MaxTurns <- MCMaxTurns
  MaxEvents <- MCMaxEvents
CHECK_DEADLOCK FALSE
INVARIANTS
  ListedIsOpen
  NoGaps
  EndIsTold
PROPERTIES
  ReadersEnd
