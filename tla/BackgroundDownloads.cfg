SPECIFICATION PatientSpec
CONSTANTS
  N = 2
  Jobs = {j1, j2}
  Workers = {w1, w2}
  Literal = Literal
  None = None
SYMMETRY Symmetry
CONSTRAINT AtMostTwoDownloads
INVARIANT TypeOK
INVARIANT JobOwned
INVARIANT OneWorkerPerName
INVARIANT QuietRows
