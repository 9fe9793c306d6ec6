SPECIFICATION MCSpec
CONSTANTS
  g1 = g1
  g2 = g2
  a1 = a1
  a2 = a2
  None = None
  Spliced = Spliced
  Nowhere = Nowhere
  Absent = Absent
  Empty = Empty
  Garbled = Garbled
  Guis <- MCGuis
  Addrs <- MCAddrs
  Envs <- MCEnvs
  MaxPeers = 1
  MaxSaves = 2
  MaxHeld = 2
  LinkCap = 1
  Moves <- MCMoves
  Wheels <- MCWheels
  Width = 3
  WordSize = 8
  Notch = 2
  ChanCap = 2
  MaxEvents = 4
  Rounds = 2
  Step = 2
PROPERTIES
  MotionIsRelative
CHECK_DEADLOCK FALSE
