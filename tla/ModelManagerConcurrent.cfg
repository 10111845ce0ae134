SPECIFICATION FairSpec
CONSTANTS
  Downloaders = {d1, d2}
  Inodes = {i1, i2, i3}
  Size = 1
  None = None
INVARIANT NoAlias
PROPERTY PublishedNeverTruncated
PROPERTY CallsReturn
