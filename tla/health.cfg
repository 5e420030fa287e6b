SPECIFICATION Spec
CONSTANTS
  Entities <- MCNoSentinel
  SecretNames = {"db", "broker"}
  BrokerSecret = "broker"
  NoSecret = "none"
  Issuers = {"issuer"}
  URIs = {}
  NoURI = "nouri"
  Audiences = {"aud"}
  Profiles = {"small"}
  Images = {"v1"}
  Specs <- PlainSpec
  Releases <- OneRelease
  Seeded = {"db"}
  DepStatuses <- MCDepStatuses
  Limit <- HealthLimit
INVARIANT ConvergedWhenQuiet
INVARIANT StatusTrueWhenQuiet
PROPERTY ConfigBeforeWorkload
CHECK_DEADLOCK FALSE
