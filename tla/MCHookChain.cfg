SPECIFICATION ChainSpec
CONSTANTS
  s1 = s1
  s2 = s2
  m = m
  g = g
  v = v
  Sessions <- MCSessions
  Workers = 2
  Keys <- MCKeys
  Motions <- MCMotions
  Mods <- MCMods
  HotKey = g
  ChanCap = 1
  MaxEvents = 4
INVARIANTS
  ChainTypeOK
  HooksMatchThread
  NoHookAfterDrop
  AnyGrabKeepsChordDown
PROPERTIES
  OneMachinePerEvent
  FailedHooksEndSession
  DropEndsOnceQueued
CHECK_DEADLOCK FALSE
