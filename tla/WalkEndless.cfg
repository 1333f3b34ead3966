\* A source that may make up recreations forever, fail, or hide
\* the peak: every call still returns.
CONSTANTS
  s1 = s1
  s2 = s2
  r1 = r1
  r2 = r2
  k1 = k1
  Stores = {s1}
  Roots = {r1}
  Sizes = {k1}
  MaxHeight = 3
  MaxBuilt = 2
  MaxReorgDepth = 1
  MaxGenerations = 3
  ConfirmationTarget = 1
  Faults = {"error", "fabricated", "no_peak"}
SPECIFICATION FairWalkSpec
PROPERTY WalkTerminates
CHECK_DEADLOCK FALSE
