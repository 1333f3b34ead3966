\* Nothing fails; merges come at any time.
CONSTANTS
  MaxVersion = 3
  MaxFailures = 0
  MaxReruns = 0
  MaxDispatches = 0
SPECIFICATION FairSpec
PROPERTY EveryMergeIsTagged
CHECK_DEADLOCK FALSE
