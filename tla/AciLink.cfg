SPECIFICATION FairSpec
CONSTANTS
  None = None
  Cut = Cut
  NoBond = 255
  QueueSize = 2
  MaxLen = 31
  Command <- LinkCommand
  Event <- LinkEvent
  Length <- LinkLength
  MaxOutbox = 2
  Chunks = 2
  BondCounts = {0, 2}
  CountWrap = 4
  CreditWrap = 8
  Credit = 1
  MaxSessions = 2
  MaxData = 1
INVARIANTS TypeOK ReadsWithinBuffer RoomForCommands NoCreditLost BondedMeansRestored
PROPERTIES IsChannel RestoreNotCutShort AdvertisesAgain CommandsReach
