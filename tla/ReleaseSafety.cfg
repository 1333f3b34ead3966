\* Failing steps, runs run again, and a publish by hand that races those of
\* tags.
CONSTANTS
  MaxVersion = 2
  MaxFailures = 2
  MaxReruns = 2
  MaxDispatches = 1
SPECIFICATION Spec
INVARIANTS ReleaseTypeOK TagsOnMain TaggedIsInSync LoopSafe ReleasedIsPublished
CHECK_DEADLOCK FALSE
