\* Nothing fails; merges come at any time.
CONSTANTS
  MaxVersion = 4
  MaxFailures = 0
  MaxReruns = 0
  MaxDispatches = 0
SPECIFICATION FairSpec
PROPERTY NewestGetsReleased
CHECK_DEADLOCK FALSE
