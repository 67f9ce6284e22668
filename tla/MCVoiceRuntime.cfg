SPECIFICATION FairVoiceSpec
CONSTANTS
  Streams = {s1}
  Texts = {t1, t2}
  Syntheses = {y1, y2}
  MaxConcurrentRequests = 1
  MaxAssets = 1
  MaxFrames = 1
  MaxDisturbances = 3
  None = None
CHECK_DEADLOCK FALSE
INVARIANTS SpeechIsBacked
PROPERTIES UtteranceIsDecided VoiceStops
