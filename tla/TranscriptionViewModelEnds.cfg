SPECIFICATION FairSpec
CONSTANTS
  Calls = {c1, c2, file0}
  Coroutines = {c1, c2}
  File = file0
  Models = {A}
  Threads = {4}
  Avail = 4
  NoContext = NoContext
  None = None
INVARIANT JobOwned
PROPERTY CoroutinesEnd
