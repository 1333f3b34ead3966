\* Every fault but fabrication, two stores whose spends can be
\* swapped, no reorg.
CONSTANTS
  s1 = s1
  s2 = s2
  r1 = r1
  r2 = r2
  k1 = k1
  Stores = {s1, s2}
  Roots = {r1, r2}
  Sizes = {k1}
  MaxHeight = 4
  MaxBuilt = 3
  MaxReorgDepth = 0
  MaxGenerations = 3
  ConfirmationTarget = 1
  Faults = {"error", "missing", "wrong_coin", "no_record", "no_height", "no_peak", "stale_peak"}
SPECIFICATION WalkSpec
SYMMETRY MCSymmetry
INVARIANT WalkTypeOK
INVARIANT StaleNeverWrong
INVARIANT NeverOverstated
CHECK_DEADLOCK FALSE
