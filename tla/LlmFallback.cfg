SPECIFICATION FairSpec
CONSTANTS
  sms1 = sms1
  sms2 = sms2
  voice = voice
  Calls = {sms1, sms2, voice}
  OneOff = {voice}
  TotalModels = 3
  MAX_LLM_CALL_RETRIES = 2
INVARIANTS
  LlmTypeOK
  UndisturbedTriesEveryModel
PROPERTIES
  CallsEnd
