SPECIFICATION FairSpec
CONSTANTS
  TextCtx = 14
  PaddedCtx = 14
  Text <- MCText
  Stamps <- MCStamps
  MaxInitialStamp = 50
  EntropyTail = 2
  Temperatures <- MCTemperatures
  BestOf = 2
  BeamSize = 2
  MaxDecoders = 2
  Lengths <- MCLengths
  Params <- MCParams
INVARIANTS
  TypeOK
  CacheCoherent
  PositionInContext
  SlotFound
  BestOfThisWindow
PROPERTY
  CallEnds
