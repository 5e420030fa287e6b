SPECIFICATION Spec
CONSTANTS
  Images = {"v1", "v2"}
  Configs = {"c1"}
  Limit <- DeleteLimit
  MaxEvents = 3
  MaxCount = 4
  MaxLag = 3
INVARIANT GaugeNotStuck
CHECK_DEADLOCK FALSE
