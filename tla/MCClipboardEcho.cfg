SPECIFICATION ClipSafeSpec
CONSTANTS
  t1 = t1
  t2 = t2
  none = none
  Texts <- MCTexts
  NoText = none
  OutCap = 1
  MaxCopies = 2
  MaxApplies = 2
INVARIANTS
  NoEcho
CHECK_DEADLOCK FALSE
