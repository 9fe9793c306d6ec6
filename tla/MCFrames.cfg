SPECIFICATION MCSpec
CONSTANTS
  Header = 2
  Sizes <- MCSizes
  Caps <- MCCaps
  MaxFrames = 2
  OutCap = 1
  InCap = 1
  LinkCap = 1
  MaxTotal = 3
  MaxMsgs <- MCMaxMsgs
INVARIANTS
  FramesTypeOK
  ReaderIsRight
  CleanEndLosesNothing
PROPERTIES
  FramesSpec
  WholeFramesArrive
  InOrder
  CloseIsNoticed
  AcceptedIsWritten
CHECK_DEADLOCK FALSE
