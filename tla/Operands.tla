------------------------------ MODULE Operands ------------------------------
(***************************************************************************)
(* The pure part of the operator: the HyperFleetConfig spec, the bundle's  *)
(* component set, the Secrets each component references, and what          *)
(* Component.Render plus stampConfigHash produce for every operand.        *)
(*                                                                         *)
(* Rendered text is abstracted to the fields that decide it.  A digest is  *)
(* represented by the tuple of the values it covers, so SHA-256 is taken   *)
(* to be injective.                                                        *)
(***************************************************************************)
EXTENDS Integers, Sequences

CONSTANTS
  Entities,      \* the bundle's entity set: a sequence of [plural, parent]
  SecretNames,   \* names of Secrets in the operator's namespace
  BrokerSecret,  \* the fixed name of the RabbitMQ credential Secret
  NoSecret,      \* an optional Secret reference left unset
  Issuers,       \* OIDC issuers
  URIs,          \* jwks_uri values an issuer may publish
  NoURI,         \* the empty jwks_uri
  Audiences,     \* token audiences
  Profiles,      \* sizing profiles
  Images         \* operand images

(***************************************************************************)
(* The entity plurals for which the Sentinel has a message decision.       *)
(***************************************************************************)
ReconciledKinds == {"clusters", "nodepools"}
RecencyKinds    == {"channels", "versions", "wifconfigs"}

ASSUME EntitiesAssumption ==
  /\ Entities \in Seq([plural : ReconciledKinds \cup RecencyKinds,
                       parent : BOOLEAN])
  /\ \A i, j \in 1..Len(Entities) :
       Entities[i].plural = Entities[j].plural => i = j

ASSUME NamesAssumption ==
  /\ BrokerSecret \in SecretNames
  /\ NoSecret \notin SecretNames
  /\ NoURI \notin URIs

-----------------------------------------------------------------------------
(***************************************************************************)
(* The spec of a HyperFleetConfig, as admission lets it through.           *)
(***************************************************************************)
Bundles == {"cloud-capi", "onprem-agent"}

ConfigSpec ==
  [bundle   : Bundles,
   db       : SecretNames,
   tls      : SecretNames \cup {NoSecret},
   enabled  : {"unset", "true", "false"},
   jwks     : SecretNames \cup {NoSecret},
   issuer   : Issuers,
   audience : Audiences,
   profile  : Profiles]

\* What the operator's own environment fixes for the life of the process.
BrokerTypes == {"rabbitmq", "googlepubsub"}
Release == [apiImage : Images, sentinelImage : Images, broker : BrokerTypes]

AuthEnabled(spec) == spec.enabled # "false"

TLSEnabled(spec) == spec.tls # NoSecret

apiScheme(spec) == IF TLSEnabled(spec) THEN "https" ELSE "http"

\* OIDC discovery is needed: auth is on and no JWKS Secret is pinned.
NeedsDiscovery(spec) == AuthEnabled(spec) /\ spec.jwks = NoSecret

-----------------------------------------------------------------------------
(***************************************************************************)
(* bundle.Resolve: the API, then one Sentinel per entity.  The on-prem     *)
(* bundle has no entity set, so it cannot be resolved.                     *)
(***************************************************************************)
Resolvable(spec) == spec.bundle = "cloud-capi"

Components ==
  [i \in 1..(Len(Entities) + 1) |->
     IF i = 1 THEN "api" ELSE Entities[i - 1].plural]

ComponentSet == {Components[i] : i \in DOMAIN Components}

EntityOf(c) == CHOOSE e \in {Entities[i] : i \in DOMAIN Entities} : e.plural = c

-----------------------------------------------------------------------------
(***************************************************************************)
(* ReferencedSecrets, for every component in bundle order.  Each element   *)
(* names the component, the role under which it consumes the Secret and    *)
(* the Secret.                                                             *)
(***************************************************************************)
Roles == {"database", "tls", "jwks", "broker"}

SecretRef == [comp : ComponentSet, role : Roles, name : SecretNames]

ApiSecretRefs(spec) ==
  <<[comp |-> "api", role |-> "database", name |-> spec.db]>>
  \o (IF TLSEnabled(spec)
        THEN <<[comp |-> "api", role |-> "tls", name |-> spec.tls]>>
        ELSE <<>>)
  \o (IF AuthEnabled(spec) /\ spec.jwks # NoSecret
        THEN <<[comp |-> "api", role |-> "jwks", name |-> spec.jwks]>>
        ELSE <<>>)

SentinelSecretRefs(rel) ==
  IF rel.broker = "rabbitmq"
    THEN [i \in 1..Len(Entities) |->
            [comp |-> Entities[i].plural, role |-> "broker",
             name |-> BrokerSecret]]
    ELSE <<>>

ReferencedSecrets(spec, rel) == ApiSecretRefs(spec) \o SentinelSecretRefs(rel)

\* One component's hash entries: the version read for every role it references
\* (0 for an absent Secret), NotRead for the roles it does not reference.
NotRead == -1
Entry == Nat \cup {NotRead}
Entries == [Roles -> Entry]
NoEntries == [r \in Roles |-> NotRead]

-----------------------------------------------------------------------------
(***************************************************************************)
(* Render.  An operand is a component together with a kind.  "access"      *)
(* stands for the objects whose content is the same for every spec: the    *)
(* ServiceAccount, the API's Role and RoleBinding, the Sentinel's          *)
(* NetworkPolicy.  A Sentinel's "configmap" stands for its config and its  *)
(* broker ConfigMap.                                                       *)
(***************************************************************************)
Kinds == {"access", "configmap", "service", "deployment"}

\* Mutant: the workload is rendered before its configuration.
ApiKindsWorkloadFirst == <<"access", "deployment", "configmap", "service">>

ApiKinds      == <<"access", "configmap", "service", "deployment">>
SentinelKinds == <<"access", "configmap", "deployment">>

\* The order in which one pass applies the operands: component by component,
\* each in its Render order, the workload last.
ApplyOrder ==
  [i \in 1..(4 + 3 * Len(Entities)) |->
     IF i <= 4
       THEN [comp |-> "api", kind |-> ApiKinds[i]]
       ELSE [comp |-> Components[((i - 5) \div 3) + 2],
             kind |-> SentinelKinds[((i - 5) % 3) + 1]]]

Operand == [comp : ComponentSet, kind : Kinds]

\* The operands that some component renders.
Operands == {ApplyOrder[i] : i \in DOMAIN ApplyOrder}

(***************************************************************************)
(* Object contents.  Every content is a record whose "of" field names its  *)
(* shape.                                                                  *)
(***************************************************************************)
Access == [of |-> "access"]

\* renderConfig of the API: a JWKS source only when auth is on.
ApiConfig(spec, url) ==
  [of       |-> "configmap",
   tls      |-> TLSEnabled(spec),
   jwt      |-> AuthEnabled(spec),
   issuer   |-> IF AuthEnabled(spec) THEN {spec.issuer} ELSE {},
   audience |-> IF AuthEnabled(spec) THEN {spec.audience} ELSE {},
   file     |-> AuthEnabled(spec) /\ spec.jwks # NoSecret,
   url      |-> IF NeedsDiscovery(spec) THEN url ELSE NoURI]

MessageDecision(c) == IF c \in ReconciledKinds THEN "reconciled" ELSE "recency"

\* renderConfig and renderBrokerConfig of a Sentinel.
SentinelConfig(c, spec, rel) ==
  [of       |-> "configmap",
   resource |-> c,
   owner    |-> EntityOf(c).parent,
   decision |-> MessageDecision(c),
   api      |-> apiScheme(spec),
   auth     |-> AuthEnabled(spec),
   broker   |-> rel.broker]

Config(c, spec, url, rel) ==
  IF c = "api" THEN ApiConfig(spec, url) ELSE SentinelConfig(c, spec, rel)

Service(spec) == [of |-> "service", port |-> apiScheme(spec)]

\* What the pod template mounts or reads from the environment.
ApiMounts(spec) ==
  [db   |-> spec.db,
   tls  |-> spec.tls,
   jwks |-> IF AuthEnabled(spec) THEN spec.jwks ELSE NoSecret]

SentinelMounts(spec, rel) ==
  [token  |-> IF AuthEnabled(spec) THEN {spec.audience} ELSE {},
   secret |-> IF rel.broker = "rabbitmq" THEN BrokerSecret ELSE NoSecret]

\* computeConfigHash: the digest of the rendered config and the entries.
configHash(config, entries) == [config |-> config, secrets |-> entries]

\* A Deployment with the config hash stamped into its pod template.
Deployment(c, spec, url, rel, entries) ==
  [of       |-> "deployment",
   replicas |-> 1,
   image    |-> IF c = "api" THEN rel.apiImage ELSE rel.sentinelImage,
   mounts   |-> IF c = "api" THEN ApiMounts(spec) ELSE SentinelMounts(spec, rel),
   hash     |-> configHash(Config(c, spec, url, rel), entries)]

\* Render followed by stampConfigHash, for one operand.
Render(o, spec, url, rel, entries) ==
  CASE o.kind = "access"     -> Access
    [] o.kind = "configmap"  -> Config(o.comp, spec, url, rel)
    [] o.kind = "service"    -> Service(spec)
    [] o.kind = "deployment" -> Deployment(o.comp, spec, url, rel, entries)

(***************************************************************************)
(* The types of contents.                                                  *)
(***************************************************************************)
ConfigData ==
  [of : {"configmap"}, tls : BOOLEAN, jwt : BOOLEAN, issuer : SUBSET Issuers,
   audience : SUBSET Audiences, file : BOOLEAN, url : URIs \cup {NoURI}]
  \cup
  [of : {"configmap"}, resource : ComponentSet, owner : BOOLEAN,
   decision : {"reconciled", "recency"}, api : {"http", "https"},
   auth : BOOLEAN, broker : BrokerTypes]

MountData ==
  [db : SecretNames, tls : SecretNames \cup {NoSecret},
   jwks : SecretNames \cup {NoSecret}]
  \cup
  [token : SUBSET Audiences, secret : SecretNames \cup {NoSecret}]

DeploymentData ==
  [of : {"deployment"}, replicas : {1}, image : Images, mounts : MountData,
   hash : [config : ConfigData, secrets : Entries]]

\* An out-of-band edit: content no Render produces.
Drifted(n) == [of |-> "drifted", replicas |-> n]
DriftData == [of : {"drifted"}, replicas : {0, 1, 2}]

Data ==
  {Access} \cup ConfigData \cup [of : {"service"}, port : {"http", "https"}]
  \cup DeploymentData \cup DriftData
=============================================================================
