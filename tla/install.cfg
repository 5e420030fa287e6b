SPECIFICATION Spec
CONSTANTS
  Images = {"one", "two", "tagged"}
  DigestPinned = {"one", "two"}
  RelatedImageEnv = {"RELATED_IMAGE_HYPERFLEET_API", "RELATED_IMAGE_HYPERFLEET_SENTINEL"}
  OtherEnv = {"OTHER_VARIABLE"}
  Drafts <- MCDrafts
  Upgrades <- MCUpgrades
  Limit <- MCLimit
INVARIANT VerdictAsDocumented
INVARIANT ConfiguredImagesListed
INVARIANT ServedEndpointVerifiable
INVARIANT MonitorCurrentAfterRestart
PROPERTY NothingBlocksReconciliation
PROPERTY NoOrphanMonitor
CHECK_DEADLOCK FALSE
