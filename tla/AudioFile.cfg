SPECIFICATION FairSpec
CONSTANTS
  HalfRange = 128
  Garbage <- SomeSizes
  MaxFrames = 3
  Rates = {1, 2, 3}
  TargetRate = 2
INVARIANT TypeOK
INVARIANT PlainWavLoaded
INVARIANT DurationKept
PROPERTY LoadEnds
