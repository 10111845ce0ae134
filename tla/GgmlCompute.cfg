SPECIFICATION FairComputeSpec
CONSTANTS
  MaxThreads = 3
  Graphs <- MCGraphs
  Schedulers <- MCSchedulers
INVARIANT TypeOK
INVARIANT BarrierSafe
INVARIANT OperandsIntact
INVARIANT OutputsKept
PROPERTY GraphComputed
PROPERTY Returns
