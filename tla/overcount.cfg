SPECIFICATION Spec
CONSTANTS
  Images = {"v1", "v2"}
  Configs = {"c1"}
  Limit <- CreateLimit
  MaxEvents = 3
  MaxCount = 4
  MaxLag = 3
INVARIANT NeverOvercounted
CHECK_DEADLOCK FALSE
