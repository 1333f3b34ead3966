\* A source that answers from a chain without reorgs; melts, new
\* generations and conflicting builds land between any two reads, and
\* lineages grow one generation past the cap.
CONSTANTS
  Stores = {s1}
  Roots = {r1, r2}
  Sizes = {k1}
  MaxHeight = 4
  MaxBuilt = 4
  MaxReorgDepth = 0
  MaxGenerations = 2
  ConfirmationTarget = 1
  Faults = {}
SPECIFICATION FairWalkSpec
PROPERTY ImplementsAtomic
INVARIANTS Linearizable ErrorsAreJustified
CHECK_DEADLOCK FALSE
