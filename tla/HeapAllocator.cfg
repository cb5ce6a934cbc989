\* One exact bin and two ranges; two regions of 14 heap words, the second at its full size
\* or at the least one that serves the request; a product that wraps at 64.
CONSTANTS
  NSMALL = 1
  NLARGE = 2
  LargeShift = 2
  CtlWords = 4
  RegionWords = 20
  MaxRegion = 16
  Limit = 50
  Modulus = 64
  MemWords = 38
  Handles = {1, 2, 3}
  Sizes = {3, 9, 63}
  Products <- MCProducts
SPECIFICATION Spec
INVARIANTS TagsTrue ListsExact ContentsKept FindSound
