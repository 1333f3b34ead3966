\* One failure and one run again.
CONSTANTS
  MaxVersion = 2
  MaxFailures = 1
  MaxReruns = 1
  MaxDispatches = 0
SPECIFICATION Spec
INVARIANT RerunGetsThrough
CHECK_DEADLOCK FALSE
