SPECIFICATION LoadSpec
CONSTANTS
  Downloaders = {d1, d2}
  Inodes = {i1, i2, i3}
  Size = 6
  None = None
SYMMETRY Symmetry
INVARIANT WeightsWhole
