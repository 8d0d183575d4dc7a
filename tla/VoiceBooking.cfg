SPECIFICATION Spec
CONSTANTS
  c1 = c1
  c2 = c2
  a1 = a1
  a2 = a2
  ann = ann
  bob = bob
  Calls = {c1, c2}
  MaxRequests = 2
  Accounts = {a1, a2}
  NoAccount = NoAccount
  Flows = {1}
  GoogleAttempts = 2
  NOW = 480
  OwnerSlots <- Owners
  Disturbances = 1
  TODAY = 0
  Addresses = {ann, bob}
  NoAddress = NoAddress
  EmailOnFile <- OnFile
  Asks <- Questions
  Spelled = {ann}
  MaxLookups = 1
SYMMETRY Alike
INVARIANTS
  TypeOK
  ToldMeansBooked
  ConfirmationsMatchBookings
  DuplicatesAreLostAnswers
PROPERTIES
  DoubleBookingNeedsStaleOffer
CHECK_DEADLOCK FALSE
