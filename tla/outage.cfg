SPECIFICATION FairSpec
CONSTANTS
  Entities <- MCNoSentinel
  SecretNames = {"db", "broker"}
  BrokerSecret = "broker"
  NoSecret = "none"
  Issuers = {"issuer"}
  URIs = {"uri1", "uri2"}
  NoURI = "nouri"
  Audiences = {"aud"}
  Profiles = {"small"}
  Images = {"v1", "v2"}
  Specs <- OutageSpecs
  Releases <- TwoReleases
  Seeded = {"db", "broker"}
  DepStatuses = {}
  Limit <- OutageLimit
PROPERTY Settles
PROPERTY ImplementsConvergence
CHECK_DEADLOCK FALSE
