SPECIFICATION Spec
CONSTANTS
  Half = 4
  Screens <- MCScreens
  Offsets <- MCOffsets
  MaxPeers = 2
INVARIANTS
  TypeOK
  EntryOnPeer
  OnlyUnrealScreensPanic
PROPERTY
  EntryFollowsCursor
