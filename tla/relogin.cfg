CONSTANTS
  Names = {"ann", "bob"}
  Rooms = {0, 1, 2}
  Uids = {7, 8}
  MaxLogins = 2
  Habits = {"waits"}
SPECIFICATION Spec
INVARIANT DenyIsDeny
CHECK_DEADLOCK FALSE
