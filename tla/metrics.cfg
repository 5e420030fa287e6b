SPECIFICATION Spec
CONSTANTS
  Images = {"v1", "v2"}
  Configs = {"c1", "c2"}
  Limit <- AllLimit
  MaxEvents = 3
  MaxCount = 4
  MaxLag = 3
INVARIANT TypeOK
INVARIANT GaugeTrueWhenQuiet
INVARIANT CountsExactWhenCoherent
CHECK_DEADLOCK FALSE
