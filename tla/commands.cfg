SPECIFICATION FairSpec
CONSTANTS
  MAX_CLIENTS = 1
  MaxConn = 2
  Endings <- AllEnd
  Commands <- EveryCommand
  RandValues = {0, 7, 8}
  RoomArgs = {0}
  Creds <- OneCred
  Like <- CaseLike
CHECK_DEADLOCK FALSE
PROPERTIES MutexReleased ResetEndsSession
