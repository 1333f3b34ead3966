\* Reorgs between any two reads, and coin_spend answers that are
\* missing, swapped or made up; records and peaks are the chain's own.
CONSTANTS
  s1 = s1
  s2 = s2
  r1 = r1
  r2 = r2
  k1 = k1
  Stores = {s1}
  Roots = {r1, r2}
  Sizes = {k1}
  MaxHeight = 4
  MaxBuilt = 3
  MaxReorgDepth = 1
  MaxGenerations = 3
  ConfirmationTarget = 1
  Faults = {"missing", "wrong_coin", "fabricated"}
SPECIFICATION WalkSpec
SYMMETRY MCSymmetry
INVARIANT VerifiedIsReal
INVARIANT SettledIsFinal
CHECK_DEADLOCK FALSE
