SPECIFICATION Spec
CONSTANTS
  t1 = t1
  t2 = t2
  Tasks = {t1, t2}
  Goal <- Goals
  NoGoal = NoGoal
  TaskMaxAttempts = 1
  MAX_GUARDRAIL_ATTEMPTS = 2
  MaxFaults = 1
INVARIANTS
  DraftFollowsTaskGoal
CHECK_DEADLOCK FALSE
