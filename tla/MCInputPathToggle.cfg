SPECIFICATION SafeSpec
CONSTANTS
  m = m
  g = g
  a = a
  x = x
  v = v
  Keys <- MCKeys
  Buttons <- MCButtons
  Motions <- MCMotions
  Mods <- MCMods
  HotKey = g
  Mapped <- MCMapped
  ChanCap = 2
  LinkCap = 1
  MaxEvents = 5
PROPERTIES
  ToggleByChordPress
CHECK_DEADLOCK FALSE
