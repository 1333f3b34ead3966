\* None for a spent coin at a hop after the launcher.
CONSTANTS
  s1 = s1
  s2 = s2
  r1 = r1
  r2 = r2
  k1 = k1
  Stores = {s1}
  Roots = {r1, r2}
  Sizes = {k1}
  MaxHeight = 3
  MaxBuilt = 3
  MaxReorgDepth = 0
  MaxGenerations = 3
  ConfirmationTarget = 1
  Faults = {"missing"}
SPECIFICATION WalkSpec
INVARIANT MissingHopFailsClosed
CHECK_DEADLOCK FALSE
