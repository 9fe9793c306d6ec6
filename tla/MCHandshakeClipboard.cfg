SPECIFICATION MCSpec
CONSTANTS
  Versions <- MCVersions
  MaxFrames = 2
  t1 = t1
  t2 = t2
  none = none
  Texts <- MCTexts
  NoText = none
  OutCap = 1
  MaxCopies = 2
  MaxApplies = 2
INVARIANTS
  TypeOK
  ReadyMeansAccepted
  HelloComesFirst
  ClipTypeOK
  NoEchoUndisturbed
PROPERTIES
  EveryEndDecides
  ClosedEndsBoth
  ClipboardSettles
CHECK_DEADLOCK FALSE
