SPECIFICATION Spec
CONSTANTS
  Images = {"v1", "v2"}
  Configs = {"c1"}
  Limit <- FaultLimit
  MaxEvents = 3
  MaxCount = 4
  MaxLag = 3
INVARIANT FailedApplyCountedOnRetry
CHECK_DEADLOCK FALSE
