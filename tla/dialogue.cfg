CONSTANTS
  Names = {"ann", "bob"}
  Rooms = {0, 1}
  Uids = {7, 8}
  MaxLogins = 2
  Habits = {"waits", "heeds"}
SPECIFICATION Spec
INVARIANT DialogueTypeOK AnswersFit Agreement SessionHeard
PROPERTY RequestsAnswered
CHECK_DEADLOCK FALSE
