\* Two stores, with modules in two neighbouring buckets, and others of every
\* bucket and over the ceiling on the network.
CONSTANTS
  s1 = s1
  s2 = s2
  r1 = r1
  r2 = r2
  Stores = {s1, s2}
  Roots = {r1, r2}
  Sizes = {0, 1, 2}
  MaxGenerations = 2
  MaxPublished = 3
  MaxExponent = 2
  ByteLen <- MCByteLen
  Compiled <- MCCompiled
  Lengths = {2, 4, 5, 9}
SPECIFICATION Spec
INVARIANTS ClientTypeOK KeptIsCommitted ServedIsCurrent ErrorIsTelling DiscardedIsOutgrown
SYMMETRY MCSymmetry
