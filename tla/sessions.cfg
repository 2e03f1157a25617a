SPECIFICATION Spec
CONSTANTS
  MAX_CLIENTS = 2
  MaxConn = 2
  Endings <- NoneEnds
  Commands <- AccountCommands
  RandValues = {0, 7, 8}
  RoomArgs = {0}
  Creds <- TwoCreds
  Like <- CaseLike
CHECK_DEADLOCK FALSE
INVARIANTS SessionCoherent NamesUnique
PROPERTIES RegistryImplemented
