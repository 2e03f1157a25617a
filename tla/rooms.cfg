SPECIFICATION Spec
CONSTANTS
  MAX_CLIENTS = 2
  MaxConn = 3
  Endings <- NoneEnds
  Commands <- TalkCommands
  RandValues = {7, 8}
  RoomArgs = {0, 1}
  Creds <- OneCred
  Like <- CaseLike
CHECK_DEADLOCK FALSE
INVARIANTS TypeOK FreeFrameFound BufferOwned StreamsParse
