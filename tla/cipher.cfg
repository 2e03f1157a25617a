SPECIFICATION Spec
CONSTANTS
  Blocks = 3
  Values = 3
  Requests = 2
CHECK_DEADLOCK FALSE
INVARIANTS CredentialsArrive
