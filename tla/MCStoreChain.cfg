\* Two stores and bounded builds: stale, conflicting and chained builds,
\* melts, and reorgs that undo up to two blocks.
CONSTANTS
  s1 = s1
  s2 = s2
  r1 = r1
  r2 = r2
  k1 = k1
  k2 = k2
  Stores = {s1, s2}
  Roots = {r1, r2}
  Sizes = {k1, k2}
  MaxHeight = 4
  MaxBuilt = 4
  MaxReorgDepth = 2
SPECIFICATION ChainSpec
SYMMETRY MCSymmetry
INVARIANT ChainTypeOK
INVARIANT MetadataIsMintTime
CHECK_DEADLOCK FALSE
