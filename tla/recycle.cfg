SPECIFICATION Spec
CONSTANTS
  MAX_CLIENTS = 2
  MaxConn = 3
  Endings <- FirstReset
  Commands <- RoomCommands
  RandValues = {7, 8}
  RoomArgs = {0}
  Creds <- OneCred
  Like <- CaseLike
CHECK_DEADLOCK FALSE
INVARIANTS UidsUnique SessionCoherent RecycledFrameEmpty WorkClosedOnce
PROPERTIES TextsStayInRoom
