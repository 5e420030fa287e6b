SPECIFICATION FairSpec
CONSTANTS
  Entities <- MCNoSentinel
  SecretNames = {"db", "broker"}
  BrokerSecret = "broker"
  NoSecret = "none"
  Issuers = {"issuer"}
  URIs = {}
  NoURI = "nouri"
  Audiences = {"aud"}
  Profiles = {"small"}
  Images = {"v1", "v2"}
  Specs <- LifecycleSpecs
  Releases <- OneRelease
  Seeded = {"db", "broker"}
  DepStatuses = {}
  Limit <- LifecycleLimit
INVARIANT ConvergedWhenQuiet
PROPERTY Settles
PROPERTY ImplementsConvergence
CHECK_DEADLOCK FALSE
