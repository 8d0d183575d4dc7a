SPECIFICATION Spec
CONSTANTS
  m1 = m1
  m2 = m2
  m3 = m3
  FREQUENCY_CAP_MAX_ATTEMPTS = 3
  FREQUENCY_CAP_WINDOW = 24
  FOLLOW_UP_DELAY = 72
  DAY = 24
  QUIET_HOURS_START = 21
  QUIET_HOURS_END = 8
  TimezoneOffset = 0
  Times = {12}
  Messages = {m1, m2}
  NoMessage = NoMessage
  Budget <- OneCallOneMeeting
  DefaultAttempts = 2
  SendAttempts = 2
  MAX_SIGNALS_PER_RUN = 4
  Drafts <- Replies
  Text <- Keywords
  VoiceOutcomes = {"progressed"}
  MeetingEnds = {36}
  MaxTasks = 4
INVARIANTS
  BarredNeverSent
  MeetingOwnsNextTouch
CHECK_DEADLOCK FALSE
