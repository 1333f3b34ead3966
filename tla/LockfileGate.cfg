\* Two members and a stray copy, with two names and two versions, one of
\* them the version cargo gives a member without one.
CONSTANTS
  Members = {"core", "cli"}
  Strays = {"fixture"}
  Names = {"a", "b"}
  Versions = {"0.0.0", "1"}
SPECIFICATION Spec
INVARIANT GreenMeansInSync
PROPERTY FixWorks
