SPECIFICATION StreamsSpec
CONSTANTS
  Tools = 2
  Tokens = 2
  Paths = {p}
  p = p
  text = text
  unseen = unseen
  Contents = {text, other, unseen}
  LeftOut <- NotCaptured
  Buffer = 1
  MaxWire = 1
  MaxNotes = 1
CHECK_DEADLOCK FALSE
INVARIANTS
  ToolCallsReachTheClient
  RecordTellsTheCalls
  CompletedIsWhole
  NoSendOnClosed
PROPERTIES
  TranslatorEnds
  RuntimeEnds
