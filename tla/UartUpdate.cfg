SPECIFICATION FairSpec
CONSTANTS
  PageSize = 4
  FlashSize = 8
  NRWWSTART = 4
  Byte <- UartByte
  Blank = 255
  Content <- UartContent
  Lengths = {0, 2}
  ByteWrap = 6
  Old = 0
  StackBytes = {6}
  MaxPages = 2
INVARIANTS TypeOK ReadableBetweenCommands TornRunsOnlyIfDeclared OneLink
PROPERTIES AcknowledgedPageHolds LeaveRunsApplication
