SPECIFICATION FairSpec
CONSTANTS
  MAX_CLIENTS = 2
  MaxConn = 2
  Endings <- NoneEnds
  Commands <- OneInRoom
  RandValues = {7, 8, 9}
  RoomArgs = {0}
  Creds <- OneCred
  Like <- CaseLike
CHECK_DEADLOCK FALSE
PROPERTIES MutexReleased AcceptReturns
