SPECIFICATION UnhurriedSpec
CONSTANTS
  Jobs = {j1, j2}
  Decoders = {t1, t2}
  Second = 2
  None = None
INVARIANT TypeOK
INVARIANT RecordingHonest
INVARIANT OneTranscription
INVARIANT RunningIsShown
PROPERTY CancelledJobsEnd
