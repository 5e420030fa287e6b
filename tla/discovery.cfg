SPECIFICATION Spec
CONSTANTS
  Hosts = {"idp", "other"}
  Issuers <- MCIssuers
  HttpsURIs = {"k1", "k2"}
  BadURIs = {"bad"}
  Answers <- MCAnswers
INVARIANT TypeOK
INVARIANT OnlyPublicConnections
INVARIANT OnlyPrivateRefused
INVARIANT KeysOfTheIssuer
INVARIANT OnlyFirstDiscoveryFails
