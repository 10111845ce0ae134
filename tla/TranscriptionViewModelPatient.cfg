SPECIFICATION PatientSpec
CONSTANTS
  Calls = {c1, c2, file0}
  Coroutines = {c1, c2}
  File = file0
  Models = {A, B}
  Threads = {4, 8}
  Avail = 8
  NoContext = NoContext
  None = None
SYMMETRY Symmetry
INVARIANT TypeOK
INVARIANT ReadyHonest
INVARIANT DownloadingHonest
INVARIANT PreferencesAgree
