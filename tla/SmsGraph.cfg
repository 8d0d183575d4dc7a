SPECIFICATION Spec
CONSTANTS
  t1 = t1
  t2 = t2
  Tasks = {t1, t2}
  Goal <- Goals
  NoGoal = NoGoal
  TaskMaxAttempts = 2
  MAX_GUARDRAIL_ATTEMPTS = 2
  MaxFaults = 1
INVARIANTS
  SubagentTypeOK
  RepliesAreChecked
  DraftsAreBounded
  UndisturbedSeesPriorTurns
CHECK_DEADLOCK FALSE
