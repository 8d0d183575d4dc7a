SPECIFICATION Spec
CONSTANTS
  m1 = m1
  m2 = m2
  m3 = m3
  FREQUENCY_CAP_MAX_ATTEMPTS = 1
  FREQUENCY_CAP_WINDOW = 24
  FOLLOW_UP_DELAY = 72
  DAY = 24
  QUIET_HOURS_START = 21
  QUIET_HOURS_END = 8
  TimezoneOffset = 0
  Times = {12, 40}
  Messages = {m1, m2}
  NoMessage = NoMessage
  Budget <- NoBudget
  DefaultAttempts = 2
  SendAttempts = 2
  MAX_SIGNALS_PER_RUN = 1
  Drafts <- Handoffs
  Text <- AllTexts
  VoiceOutcomes = {"progressed"}
  MeetingEnds = {36}
  MaxTasks = 4
INVARIANTS
  CapHoldsInEveryWindow
SYMMETRY Texts
CHECK_DEADLOCK FALSE
