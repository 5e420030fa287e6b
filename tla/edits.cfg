SPECIFICATION Spec
CONSTANTS
  Entities <- MCOneSentinel
  SecretNames = {"db", "tls", "broker"}
  BrokerSecret = "broker"
  NoSecret = "none"
  Issuers = {"issuer"}
  URIs = {}
  NoURI = "nouri"
  Audiences = {"aud"}
  Profiles = {"small"}
  Images = {"v1"}
  Specs <- EditSpecs
  Releases <- OneRelease
  Seeded = {"db", "broker"}
  DepStatuses = {}
  Limit <- EditLimit
INVARIANT TypeOK
INVARIANT ConvergedWhenQuiet
INVARIANT ObservedGenerationIsApplied
INVARIANT StatusGenerationsOrdered
PROPERTY ObservedGenerationMonotone
PROPERTY ConfigBeforeWorkload
PROPERTY ImplementsConvergence
CHECK_DEADLOCK FALSE
