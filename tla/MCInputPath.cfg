SPECIFICATION Spec
CONSTANTS
  m = m
  g = g
  a = a
  x = x
  v = v
  Keys <- MCKeys
  Buttons <- MCButtons
  Motions <- MCMotions
  Mods <- MCMods
  HotKey = g
  Mapped <- MCMapped
  ChanCap = 2
  LinkCap = 1
  MaxEvents = 5
INVARIANTS
  TypeOK
  GrabKeepsChordDown
  NoStuckInputs
PROPERTIES
  ExactlyOneMachine
  RelaySpec
  ClientGoneEndsSession
  SessionEndReleases
  EveryEventSettles
CHECK_DEADLOCK FALSE
