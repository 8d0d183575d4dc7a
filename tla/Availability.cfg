SPECIFICATION Spec
CONSTANTS
  Asks <- Questions
  Times <- Instants
  Weekdays = {0, 3}
  Entries <- Calendar
INVARIANTS
  AnswersAreRight
CHECK_DEADLOCK FALSE
