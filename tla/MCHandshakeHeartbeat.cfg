SPECIFICATION Spec
CONSTANTS
  Versions <- MCVersions
  MaxFrames = 2
PROPERTIES
  LossIsNoticed
CHECK_DEADLOCK FALSE
