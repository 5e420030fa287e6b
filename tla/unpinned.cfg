SPECIFICATION Spec
CONSTANTS
  Images = {"one", "two", "tagged"}
  DigestPinned = {"one", "two"}
  RelatedImageEnv = {"RELATED_IMAGE_HYPERFLEET_API", "RELATED_IMAGE_HYPERFLEET_SENTINEL"}
  OtherEnv = {"OTHER_VARIABLE"}
  Drafts <- UnpinnedDrafts
  Upgrades <- NoUpgrades
  Limit <- NoLimit
INVARIANT EveryOperandImageListed
CHECK_DEADLOCK FALSE
