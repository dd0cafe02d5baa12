\* Eight settings: deferred samples polled from 0 or 1, three changes to overrides under clocks
\* that differ or under an envelope the SDK does not read; one answer or run is lost.
CONSTANTS
  Settings <- MCSettings
  Overrides = {"fault", "window"}
  Second = 2
  Clean <- MCClean
  SchemaV1 = "v1"
  MaxAttempts = 2
  MaxTime = 3
  MaxLosses = 1
SPECIFICATION Spec
INVARIANTS
  TypeOK
  OneTaskPerJob
  NeverAppliedLongerThanAsked
PROPERTIES
  DroppedForCause
  JobsFinish
  OverridesLeave
