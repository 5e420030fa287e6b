------------------------ MODULE OperatorInstallProofs ------------------------
(***************************************************************************)
(* Theorems about the validator and about OperatorInstall, for every set   *)
(* of images, CSVs and flags and every bound on the disturbances.          *)
(***************************************************************************)
EXTENDS OperatorInstall, TLAPS

-----------------------------------------------------------------------------
(***************************************************************************)
(* The validator.                                                          *)
(***************************************************************************)

\* Images that raise no error are pinned (isSHA256DigestPullspec).
LEMMA PinnedImages ==
  ASSUME NEW S
  PROVE  Unpinned(S) = {} <=> S \subseteq DigestPinned
BY DEF Unpinned, isSHA256DigestPullspec

\* The list raises no error exactly when its images are pinned and named once,
\* whichever of two equal entries the loop meets first (validateRelatedImages).
LEMMA ListVerdict ==
  ASSUME NEW csv \in CSV
  PROVE  /\ validateRelatedImages(csv).seen = Range(csv.relatedImages)
         /\ validateRelatedImages(csv).errors = {} <=>
              /\ Range(csv.relatedImages) \subseteq DigestPinned
              /\ IsInjective(csv.relatedImages)
<1> DEFINE list == csv.relatedImages
<1> DEFINE again == {i \in DOMAIN list : \E j \in 1..(i - 1) : list[j] = list[i]}
<1>1. list \in Seq(Images) /\ DOMAIN list = 1..Len(list) /\ Len(list) \in Nat
  BY DEF CSV
<1>2. /\ validateRelatedImages(csv).seen = Range(list)
      /\ validateRelatedImages(csv).errors =
           Unpinned(Range(list)) \cup {<<"duplicate image", list[i]>> : i \in again}
  BY DEF validateRelatedImages
<1>3. validateRelatedImages(csv).errors = {} <=>
        Range(list) \subseteq DigestPinned /\ again = {}
  <2> HIDE DEF list, again
  <2>1. {<<"duplicate image", list[i]>> : i \in again} = {} <=> again = {}
    OBVIOUS
  <2>2. Unpinned(Range(list)) = {} <=> Range(list) \subseteq DigestPinned
    BY PinnedImages
  <2> QED BY <1>2, <2>1, <2>2
<1> HIDE DEF list
<1>4. again = {} <=> IsInjective(list)
  <2>1. ASSUME again = {}, NEW a \in DOMAIN list, NEW b \in DOMAIN list,
               list[a] = list[b]
        PROVE  a = b
    <3>1. ~(a < b) /\ ~(b < a)
      BY <1>1, <2>1
    <3> QED BY <1>1, <3>1
  <2>2. ASSUME IsInjective(list), NEW i \in again
        PROVE  FALSE
    <3>1. PICK j \in 1..(i - 1) : list[j] = list[i]
      OBVIOUS
    <3>2. i \in DOMAIN list /\ j \in DOMAIN list /\ i # j
      BY <1>1
    <3> QED BY <2>2, <3>1, <3>2 DEF IsInjective
  <2> QED BY <2>1, <2>2 DEF IsInjective
<1> QED BY <1>2, <1>3, <1>4 DEF list

\* What is asked of one container's variables.
EnvConsistent(c, listed) ==
  \A i \in RelatedEnvs(c) :
    /\ c.env[i].value \in listed
    /\ \A j \in RelatedEnvs(c) : c.env[i].name = c.env[j].name => i = j

\* A container's variables raise no error exactly when each is set once, to an
\* image on the list: a repeated variable is not looked up, but is an error
\* itself (validateEnvVars).
LEMMA EnvVerdict ==
  ASSUME NEW c \in Container, NEW listed, listed \subseteq DigestPinned
  PROVE  validateEnvVars(c, listed) = {} <=> EnvConsistent(c, listed)
<1> DEFINE set == RelatedEnvs(c)
<1> DEFINE again == {i \in set : \E j \in set : j < i /\ c.env[j].name = c.env[i].name}
<1> DEFINE values == {c.env[i].value : i \in set}
<1>1. set \subseteq Nat
  <2>1. c.env \in Seq(Env)
    BY DEF Container
  <2>2. DOMAIN c.env = 1..Len(c.env)
    BY <2>1
  <2> QED BY <2>2 DEF RelatedEnvs
<1>2. validateEnvVars(c, listed) = {} <=>
        /\ values \subseteq DigestPinned
        /\ again = {}
        /\ \A i \in set \ again : c.env[i].value \in listed
  <2>1. validateEnvVars(c, listed) =
          (Unpinned(values)
           \cup {<<"duplicate env var", c.env[i].name>> : i \in again})
          \cup {<<"env var not listed", c.env[i].name>> :
                  i \in {j \in set \ again : c.env[j].value \notin listed}}
    BY DEF validateEnvVars
  <2> HIDE DEF set, again, values
  <2> QED BY <2>1, PinnedImages
<1> HIDE DEF set
<1>3. again = {} <=>
        \A i, j \in set : c.env[i].name = c.env[j].name => i = j
  <2>1. ASSUME again = {}, NEW i \in set, NEW j \in set,
               c.env[i].name = c.env[j].name
        PROVE  i = j
    <3>1. ~(i < j) /\ ~(j < i)
      BY <2>1
    <3> QED BY <1>1, <3>1
  <2>2. ASSUME \A i, j \in set : c.env[i].name = c.env[j].name => i = j,
               NEW i \in again
        PROVE  FALSE
    <3>1. PICK j \in set : j < i /\ c.env[j].name = c.env[i].name
      OBVIOUS
    <3>2. i = j
      BY <2>2, <3>1
    <3> QED BY <1>1, <3>1, <3>2
  <2> QED BY <2>1, <2>2
<1> HIDE DEF again
<1>4. validateEnvVars(c, listed) = {} <=>
        /\ \A i \in set : c.env[i].value \in listed
        /\ again = {}
  BY <1>2
<1> QED BY <1>3, <1>4 DEF EnvConsistent, set

(***************************************************************************)
(* The validator accepts exactly the CSVs that are consistent in the       *)
(* documented sense, for CSVs of any size: its passes over lists and maps, *)
(* the early continue on a repeated variable included, neither let a CSV   *)
(* through that is not nor refuse one that is (validateCSVData).           *)
(***************************************************************************)
THEOREM ValidatorExact ==
  ASSUME NEW csv \in CSV
  PROVE  validateCSVData(csv) = {} <=> Consistent(csv)
<1> DEFINE listed == Range(csv.relatedImages)
<1> DEFINE cs == Range(csv.containers)
<1> DEFINE related == validateRelatedImages(csv)
<1>1. \A c \in cs : c \in Container
  <2>1. csv.containers \in Seq(Container)
    BY DEF CSV
  <2> QED BY <2>1 DEF Range
<1>2. related.seen = listed
  BY ListVerdict
<1>3. related.errors = {} <=> listed \subseteq DigestPinned /\ IsInjective(csv.relatedImages)
  BY ListVerdict
<1>4. containerImages(csv) = {c.image : c \in cs}
  BY DEF containerImages
<1>5. validateCSVData(csv) =
        ((Unpinned(containerImages(csv)) \cup related.errors)
          \cup (UNION {validateEnvVars(c, related.seen) : c \in cs}))
          \cup {<<"container image not listed", i>> :
                  i \in containerImages(csv) \ related.seen}
  BY DEF validateCSVData
<1> HIDE DEF cs, listed, related
<1>6. validateCSVData(csv) = {} <=>
        /\ containerImages(csv) \subseteq DigestPinned
        /\ related.errors = {}
        /\ \A c \in cs : validateEnvVars(c, listed) = {}
        /\ containerImages(csv) \subseteq listed
  <2>1. Unpinned(containerImages(csv)) = {} <=> containerImages(csv) \subseteq DigestPinned
    BY PinnedImages
  <2>2. UNION {validateEnvVars(c, listed) : c \in cs} = {} <=>
          \A c \in cs : validateEnvVars(c, listed) = {}
    OBVIOUS
  <2>3. {<<"container image not listed", i>> : i \in containerImages(csv) \ listed} = {} <=>
          containerImages(csv) \subseteq listed
    OBVIOUS
  <2> DEFINE A == Unpinned(containerImages(csv))
  <2> DEFINE B == UNION {validateEnvVars(c, listed) : c \in cs}
  <2> DEFINE C == {<<"container image not listed", i>> : i \in containerImages(csv) \ listed}
  <2>4. validateCSVData(csv) = ((A \cup related.errors) \cup B) \cup C
    BY <1>2, <1>5
  <2> HIDE DEF A, B, C
  <2>5. validateCSVData(csv) = {} <=> A = {} /\ related.errors = {} /\ B = {} /\ C = {}
    BY <2>4
  <2> QED BY <2>1, <2>2, <2>3, <2>5 DEF A, B, C
<1>7. Consistent(csv) <=>
        /\ listed \subseteq DigestPinned
        /\ IsInjective(csv.relatedImages)
        /\ \A c \in cs : c.image \in listed /\ EnvConsistent(c, listed)
  BY DEF Consistent, EnvConsistent, listed, cs
<1>8. containerImages(csv) \subseteq listed <=> \A c \in cs : c.image \in listed
  BY <1>4
<1>9. listed \subseteq DigestPinned =>
        \A c \in cs : validateEnvVars(c, listed) = {} <=> EnvConsistent(c, listed)
  BY <1>1, EnvVerdict
<1> QED BY <1>3, <1>6, <1>7, <1>8, <1>9

-----------------------------------------------------------------------------
(***************************************************************************)
(* The inductive invariant of the installation.                            *)
(***************************************************************************)

\* The CSV at hand is a draft, and the verdict on it is the validator's.
VerdictIsValidators ==
  /\ build # NoBuild => build \in Drafts
  /\ verdict = "pending" => build # NoBuild
  /\ build # NoBuild /\ verdict = "accepted" => validateCSVData(build) = {}
  /\ build # NoBuild /\ verdict = "refused" => validateCSVData(build) # {}

\* What the validator vouches for in a deployment.
Vouched(i) ==
  /\ i.flags \in Flags
  /\ i.api = Unset \/ i.api \in i.listed \cap DigestPinned
  /\ i.sentinel = Unset \/ i.sentinel \in i.listed \cap DigestPinned

\* What is deployed went through the validator, and what runs is such a
\* deployment that passed the start-up checks, an earlier one perhaps.
DeployedVouched ==
  /\ Installed => Vouched(install)
  /\ up => Vouched(cfg) /\ Starts(cfg)

\* Where the bootstrap stands.
BootKnown == boot \in {"probe", "service", "apply", "done"}

\* The bootstrap runs only in a leading process whose flags ask for it.
BootstrapAsked ==
  boot \in {"probe", "service", "apply"} => up /\ Bootstraps(cfg.flags)

\* Without the API there are no ServiceMonitors.
NoneWithoutAPI == ~crd => sm = NoMonitor

\* A UID that a Service has or had.
Known(uid) == uid \in 0..spent["service"] \/ (service # 0 /\ uid = service)

\* No Service ever gets the UID that a ServiceMonitor, a delayed one or the
\* bootstrap still refers to from an earlier one.
UidsNeverReused ==
  /\ spent \in [Budgets -> Nat]
  /\ service = 0 \/ service = spent["service"] + 1
  /\ Known(owner) /\ Known(sm.owner) /\ Known(late.owner)

\* What an undisturbed bootstrap has read is still so.
BootstrapFresh ==
  up /\ calm =>
    /\ boot = "service" => crd
    /\ boot = "apply" => crd /\ service # 0 /\ owner = service

InstallInv ==
  /\ VerdictIsValidators
  /\ DeployedVouched
  /\ BootstrapAsked
  /\ NoneWithoutAPI
  /\ UidsNeverReused
  /\ ServedEndpointVerifiable
  /\ BootKnown
  /\ BootstrapFresh
  /\ MonitorCurrentAfterRestart

-----------------------------------------------------------------------------
(***************************************************************************)
(* What the validator's yes says about a deployment.                       *)
(***************************************************************************)

\* A RELATED_IMAGE_ variable the manager reads from a consistent CSV is set at
\* most once, so the last setting is the one that was validated (os.Getenv).
LEMMA GetenvListed ==
  ASSUME NEW csv \in CSV, Consistent(csv), NEW name \in RelatedImageEnv
  PROVE  \/ Getenv(csv, name) = Unset
         \/ Getenv(csv, name) \in Range(csv.relatedImages) \cap DigestPinned
<1> DEFINE c == csv.containers[1]
<1> DEFINE set == {i \in DOMAIN c.env : c.env[i].name = name}
<1> DEFINE last == CHOOSE i \in set : \A j \in set : j <= i
<1>1. c \in Range(csv.containers) /\ c \in Container
  <2>1. csv.containers \in Seq(Container) /\ csv.containers # <<>>
    BY DEF CSV
  <2>2. 1 \in DOMAIN csv.containers
    BY <2>1
  <2> QED BY <2>1, <2>2 DEF Range
<1>2. set \subseteq RelatedEnvs(c)
  BY DEF RelatedEnvs
<1>3. set \subseteq Nat
  <2>1. c.env \in Seq(Env)
    BY <1>1 DEF Container
  <2>2. DOMAIN c.env = 1..Len(c.env)
    BY <2>1
  <2> QED BY <2>2
<1>4. Getenv(csv, name) = IF set = {} THEN Unset ELSE c.env[last].value
  BY DEF Getenv
<1>5. /\ Range(csv.relatedImages) \subseteq DigestPinned
      /\ \A i \in RelatedEnvs(c) :
           /\ c.env[i].value \in Range(csv.relatedImages)
           /\ \A j \in RelatedEnvs(c) : c.env[i].name = c.env[j].name => i = j
  BY <1>1 DEF Consistent
<1>6. \A i \in set : c.env[i].name = name
  OBVIOUS
<1> HIDE DEF c, set
<1>7. ASSUME set # {}
      PROVE  last \in set
  <2>1. PICK i \in set : TRUE
    BY <1>7
  <2>2. \A j \in set : j = i
    BY <1>2, <1>5, <1>6
  <2>3. i \in Nat
    BY <1>3
  <2>4. \A j \in set : j <= i
    BY <2>2, <2>3
  <2> QED BY <2>1, <2>4
<1> HIDE DEF last
<1> QED BY <1>2, <1>4, <1>5, <1>7

\* What the validator lets through is vouched for once deployed.
LEMMA DeployedIsVouched ==
  ASSUME NEW csv \in CSV, validateCSVData(csv) = {}
  PROVE  Vouched(Deployed(csv))
<1>1. Consistent(csv)
  BY ValidatorExact
<1>2. csv.flags \in Flags
  BY DEF CSV
<1>3. /\ Deployed(csv).flags = csv.flags
      /\ Deployed(csv).api = Getenv(csv, ApiEnv)
      /\ Deployed(csv).sentinel = Getenv(csv, SentinelEnv)
      /\ Deployed(csv).listed =
           Range(csv.relatedImages) \cap {Getenv(csv, ApiEnv), Getenv(csv, SentinelEnv)}
  BY DEF Deployed
<1>4. ApiEnv \in RelatedImageEnv /\ SentinelEnv \in RelatedImageEnv
  BY InstallAssumption
<1>5. \/ Getenv(csv, ApiEnv) = Unset
      \/ Getenv(csv, ApiEnv) \in Range(csv.relatedImages) \cap DigestPinned
  BY <1>1, <1>4, GetenvListed
<1>6. \/ Getenv(csv, SentinelEnv) = Unset
      \/ Getenv(csv, SentinelEnv) \in Range(csv.relatedImages) \cap DigestPinned
  BY <1>1, <1>4, GetenvListed
<1> HIDE DEF ApiEnv, SentinelEnv, Unset
<1> QED BY <1>2, <1>3, <1>5, <1>6 DEF Vouched

\* The ServiceMonitor of a process that passed the start-up checks fits what the
\* process serves (ScrapeConfig.Validate, the certificate watcher).
LEMMA BuiltScrapes ==
  ASSUME NEW i, Vouched(i), Starts(i), Bootstraps(i.flags), NEW uid
  PROVE  Scrapes(buildServiceMonitor(uid, i.flags), i.flags)
BY DEF Vouched, Flags, Starts, metricsCertLoads, ScrapeConfigValid, Scrapes,
       buildServiceMonitor

\* The empty NoBuild is no CSV.
LEMMA NoBuildIsNone == NoBuild \notin CSV
BY DEF NoBuild, CSV

-----------------------------------------------------------------------------
(***************************************************************************)
(* One lemma per part of the invariant.                                    *)
(***************************************************************************)

\* The invariant holds at first.
LEMMA InstallInit == Init => InstallInv
<1> SUFFICES ASSUME Init PROVE InstallInv
  OBVIOUS
<1>1. build \in CSV
  BY DraftsAssumption DEF Init
<1>2. build # NoBuild
  BY <1>1, NoBuildIsNone
<1>3. VerdictIsValidators
  BY <1>2 DEF Init, VerdictIsValidators
<1> QED
  BY <1>3, InstallAssumption
     DEF Init, InstallInv, DeployedVouched, Installed, BootKnown, BootstrapAsked,
         NoneWithoutAPI, UidsNeverReused, Known, NoMonitor, Budgets,
         ServedEndpointVerifiable, BootstrapFresh, MonitorCurrentAfterRestart

\* Only Validate gives a verdict on the CSV at hand, and only Ship takes it away.
LEMMA VerdictStep == VerdictIsValidators /\ [Next]_vars => VerdictIsValidators'
<1> SUFFICES ASSUME VerdictIsValidators, [Next]_vars
             PROVE  VerdictIsValidators'
  OBVIOUS
<1>1. CASE Validate
  BY <1>1 DEF VerdictIsValidators, Validate
<1>2. CASE Unreadable
  BY <1>2 DEF VerdictIsValidators, Unreadable
<1>3. CASE Ship
  BY <1>3 DEF VerdictIsValidators, Ship
<1>4. CASE UNCHANGED <<build, verdict>>
  BY <1>4 DEF VerdictIsValidators
<1>5. \/ Validate \/ Unreadable \/ Ship \/ UNCHANGED <<build, verdict>>
  BY DEF Next, vars, release, Upgrade, Start, Replaced, Crash, Stop, Bootstrap, Probe,
         GetService, Apply, BootstrapFails, Deposed, LateApplyLands, LateApplyDropped,
         ToggleCRD, DeleteService, RecreateService, DeleteMonitor, CollectGarbage
<1> QED BY <1>1, <1>2, <1>3, <1>4, <1>5

\* Every release goes through the validator, and a process starts from the
\* release that is deployed.
LEMMA DeployedStep ==
  VerdictIsValidators /\ DeployedVouched /\ [Next]_vars => DeployedVouched'
<1> SUFFICES ASSUME VerdictIsValidators, DeployedVouched, [Next]_vars
             PROVE  DeployedVouched'
  OBVIOUS
<1>1. CASE Ship
  <2>1. build \in CSV /\ validateCSVData(build) = {}
    BY <1>1, DraftsAssumption DEF Ship, VerdictIsValidators
  <2>2. Vouched(install')
    BY <1>1, <2>1, DeployedIsVouched DEF Ship
  <2>3. UNCHANGED <<up, cfg>>
    BY <1>1 DEF Ship, process
  <2> QED BY <2>2, <2>3 DEF DeployedVouched
<1>2. ASSUME NEW csv \in Upgrades, Upgrade(csv)
      PROVE  DeployedVouched'
  <2>1. csv \in CSV /\ validateCSVData(csv) = {}
    BY <1>2, DraftsAssumption, InstallAssumption DEF Upgrade
  <2>2. Vouched(install')
    BY <1>2, <2>1, DeployedIsVouched DEF Upgrade
  <2>3. UNCHANGED <<up, cfg>>
    BY <1>2 DEF Upgrade, process
  <2> QED BY <2>2, <2>3 DEF DeployedVouched
<1>3. CASE Start
  BY <1>3 DEF DeployedVouched, Start, release, Installed
<1>4. CASE Stop
  BY <1>4 DEF DeployedVouched, Stop, release, Installed
<1>5. CASE UNCHANGED <<install, up, cfg>>
  BY <1>5 DEF DeployedVouched, Installed
<1>6. \/ Ship \/ (\E csv \in Upgrades : Upgrade(csv)) \/ Start \/ Stop
      \/ UNCHANGED <<install, up, cfg>>
  BY DEF Next, vars, release, process, Validate, Unreadable, Replaced, Crash, Bootstrap,
         Probe, GetService, Apply, GiveUp, BootstrapFails, Deposed, LateApplyLands,
         LateApplyDropped, ToggleCRD, DeleteService, RecreateService, DeleteMonitor,
         CollectGarbage
<1> QED BY <1>1, <1>2, <1>3, <1>4, <1>5, <1>6

\* Only Start begins a bootstrap, and it ends with the process.
LEMMA AskedStep ==
  BootKnown /\ BootstrapAsked /\ [Next]_vars => BootKnown' /\ BootstrapAsked'
<1> SUFFICES ASSUME BootKnown, BootstrapAsked, [Next]_vars
             PROVE  BootKnown' /\ BootstrapAsked'
  OBVIOUS
<1>1. CASE Start
  BY <1>1 DEF BootKnown, BootstrapAsked, Start
<1>2. CASE Stop
  BY <1>2 DEF BootKnown, BootstrapAsked, Stop
<1>3. CASE Bootstrap
  BY <1>3 DEF BootKnown, BootstrapAsked, Bootstrap, Probe, GetService, Apply, GiveUp
<1>4. CASE BootstrapFails
  BY <1>4 DEF BootKnown, BootstrapAsked, BootstrapFails, GiveUp
<1>5. CASE UNCHANGED <<up, cfg, boot>>
  BY <1>5 DEF BootKnown, BootstrapAsked
<1>6. \/ Start \/ Stop \/ Bootstrap \/ BootstrapFails \/ UNCHANGED <<up, cfg, boot>>
  BY DEF Next, vars, process, Validate, Unreadable, Ship, Upgrade, Replaced, Crash,
         Deposed, LateApplyLands, LateApplyDropped, ToggleCRD, DeleteService,
         RecreateService, DeleteMonitor, CollectGarbage
<1> QED BY <1>1, <1>2, <1>3, <1>4, <1>5, <1>6

\* The API takes its objects with it, and nothing is written without it.
LEMMA NoneWithoutAPIStep == NoneWithoutAPI /\ [Next]_vars => NoneWithoutAPI'
BY DEF NoneWithoutAPI, Next, vars, cluster, Validate, Unreadable, Ship, Upgrade, Start,
       Replaced, Crash, Stop, Bootstrap, Probe, GetService, Apply, BootstrapFails, Deposed,
       LateApplyLands, LateApplyDropped, ToggleCRD, DeleteService, RecreateService,
       DeleteMonitor, CollectGarbage

\* What refers to a Service refers to one there is or was.
LEMMA UidsStep == UidsNeverReused /\ [Next]_vars => UidsNeverReused'
<1> SUFFICES ASSUME UidsNeverReused, [Next]_vars PROVE UidsNeverReused'
  OBVIOUS
<1> USE DEF UidsNeverReused
<1>1. Known(0) /\ spent["service"] \in Nat
  BY DEF Known, Budgets
<1>2. ASSUME NEW b \in Budgets, Spend(b), b # "service"
      PROVE  spent' \in [Budgets -> Nat] /\ spent'["service"] = spent["service"]
  BY <1>2 DEF Spend, Budgets
<1>3. CASE DeleteService
  <2>1. /\ spent' \in [Budgets -> Nat] /\ spent'["service"] = spent["service"] + 1
        /\ service' = 0 /\ service # 0
        /\ owner' = owner /\ sm' = sm /\ late' = late
    BY <1>3 DEF DeleteService, Disturb, Spend, Budgets, process
  <2> QED BY <1>1, <2>1 DEF Known
<1>4. CASE RecreateService
  <2>1. /\ service = 0 /\ service' = spent["service"] + 1 /\ spent' = spent
        /\ owner' = owner /\ sm' = sm /\ late' = late
    BY <1>4 DEF RecreateService, process
  <2> QED BY <1>1, <2>1 DEF Known
<1>5. ASSUME service' = service, spent' \in [Budgets -> Nat],
             spent'["service"] = spent["service"],
             owner' \in {owner, service, 0}, sm'.owner \in {sm.owner, late.owner, owner, 0},
             late'.owner \in {late.owner, owner, 0}
      PROVE  UidsNeverReused'
  <2>1. Known(service)
    BY <1>1 DEF Known
  <2>2. \A u : Known(u)' = Known(u)
    BY <1>5 DEF Known
  <2> QED BY <1>1, <1>5, <2>1, <2>2
<1>6. NoMonitor.owner = 0 /\ \A u, f : buildServiceMonitor(u, f).owner = u
  BY DEF NoMonitor, buildServiceMonitor
<1>7. CASE Validate \/ Unreadable \/ Ship \/ UNCHANGED vars
  BY <1>5, <1>7 DEF Validate, Unreadable, Ship, vars, process, cluster
<1>8. ASSUME NEW csv \in Upgrades, Upgrade(csv)
      PROVE  UidsNeverReused'
  BY <1>2, <1>5, <1>8 DEF Upgrade, process, cluster, Budgets
<1>9. CASE Start \/ Replaced
  BY <1>5, <1>9 DEF Start, Replaced, Stop, cluster
<1>10. CASE Crash
  BY <1>2, <1>5, <1>10 DEF Crash, Stop, Budgets
<1>11. CASE Bootstrap
  BY <1>5, <1>6, <1>11 DEF Bootstrap, Probe, GetService, Apply, cluster
<1>12. CASE BootstrapFails
  BY <1>2, <1>5, <1>12 DEF BootstrapFails, Disturb, cluster, Budgets
<1>13. CASE Deposed
  BY <1>2, <1>5, <1>6, <1>13 DEF Deposed, Stop, Budgets
<1>14. CASE LateApplyLands \/ LateApplyDropped \/ CollectGarbage
  BY <1>5, <1>6, <1>14 DEF LateApplyLands, LateApplyDropped, CollectGarbage, process
<1>15. CASE ToggleCRD \/ DeleteMonitor
  BY <1>2, <1>5, <1>6, <1>15 DEF ToggleCRD, DeleteMonitor, Disturb, process, Budgets
<1> QED BY <1>3, <1>4, <1>7, <1>8, <1>9, <1>10, <1>11, <1>12, <1>13, <1>14, <1>15
        DEF Next

\* A bootstrap ends with the ServiceMonitor that fits, without the API, without
\* a Service that an older ServiceMonitor could stand for, or astray; and what
\* comes after that puts no other one in its place.
LEMMA ServedStep ==
  DeployedVouched /\ BootKnown /\ BootstrapAsked /\ NoneWithoutAPI /\ UidsNeverReused
    /\ ServedEndpointVerifiable /\ [Next]_vars
    => ServedEndpointVerifiable'
<1> SUFFICES ASSUME DeployedVouched, BootKnown, BootstrapAsked, NoneWithoutAPI,
                    UidsNeverReused, ServedEndpointVerifiable, [Next]_vars,
                    up', boot' = "done", Bootstraps(cfg'.flags), ~astray', sm' # NoMonitor,
                    service' # 0, sm'.owner = service'
             PROVE  Scrapes(sm', cfg'.flags)
  BY DEF ServedEndpointVerifiable
<1>1. CASE Apply
  <2>1. up /\ Bootstraps(cfg.flags) /\ cfg' = cfg
    BY <1>1 DEF Apply, BootstrapAsked
  <2>2. Vouched(cfg) /\ Starts(cfg)
    BY <2>1 DEF DeployedVouched
  <2>3. sm' = buildServiceMonitor(owner, cfg.flags)
    BY <1>1 DEF Apply, NoneWithoutAPI
  <2> QED BY <2>1, <2>2, <2>3, BuiltScrapes
<1>2. ~Start
  BY DEF Start
<1>3. ~Probe
  <2> SUFFICES ASSUME Probe PROVE FALSE
    OBVIOUS
  <2>1. ~crd /\ sm' = sm
    BY DEF Probe, cluster
  <2> QED BY <2>1 DEF NoneWithoutAPI
<1>4. ~GetService
  BY DEF GetService, cluster
<1>5. ~RecreateService
  <2> SUFFICES ASSUME RecreateService PROVE FALSE
    OBVIOUS
  <2>1. service = 0 /\ service' = spent["service"] + 1 /\ sm' = sm
    BY DEF RecreateService
  <2>2. sm.owner \in 0..spent["service"] /\ spent["service"] \in Nat
    BY <2>1 DEF UidsNeverReused, Known, Budgets
  <2> QED BY <2>1, <2>2
<1>6. ~DeleteService /\ ~ToggleCRD /\ ~DeleteMonitor /\ ~CollectGarbage
  BY DEF DeleteService, ToggleCRD, DeleteMonitor, CollectGarbage
<1>7. ~BootstrapFails /\ ~LateApplyLands
  BY DEF BootstrapFails, LateApplyLands, process
<1>8. ~Replaced /\ ~Crash /\ ~Deposed
  BY DEF Replaced, Crash, Deposed, Stop
<1>9. CASE UNCHANGED <<process, service, sm, astray>>
  BY <1>9 DEF ServedEndpointVerifiable, process
<1>10. Apply \/ UNCHANGED <<process, service, sm, astray>>
  BY <1>2, <1>3, <1>4, <1>5, <1>6, <1>7, <1>8
     DEF Next, vars, history, cluster, Validate, Unreadable, Ship, Upgrade, Bootstrap,
         LateApplyDropped
<1> QED BY <1>1, <1>9, <1>10

\* Whatever another actor does to the ServiceMonitor API, the Service or the
\* ServiceMonitor ends the calm, except the garbage collector.
LEMMA CalmStep ==
  ASSUME [Next]_vars, calm' = TRUE
  PROVE  \/ Start
         \/ up' = FALSE
         \/ Bootstrap
         \/ UNCHANGED <<process, crd, service, sm, calm>>
         \/ CollectGarbage
<1>1. CASE Replaced \/ Crash \/ Deposed
  BY <1>1 DEF Replaced, Crash, Deposed, Stop
<1>2. CASE BootstrapFails \/ LateApplyLands \/ ToggleCRD \/ DeleteService
             \/ RecreateService \/ DeleteMonitor
  BY <1>2 DEF BootstrapFails, LateApplyLands, ToggleCRD, DeleteService, RecreateService,
              DeleteMonitor, Disturb
<1>3. CASE Validate \/ Unreadable \/ Ship \/ (\E csv \in Upgrades : Upgrade(csv))
             \/ LateApplyDropped \/ UNCHANGED vars
  BY <1>3 DEF Validate, Unreadable, Ship, Upgrade, LateApplyDropped, vars, cluster, history
<1> QED BY <1>1, <1>2, <1>3 DEF Next

\* What an undisturbed bootstrap has read is still so at its next step.
LEMMA FreshStep == BootstrapFresh /\ [Next]_vars => BootstrapFresh'
<1> SUFFICES ASSUME BootstrapFresh, [Next]_vars, up', calm' = TRUE
             PROVE  BootstrapFresh'
  BY DEF BootstrapFresh
<1>1. CASE Start
  BY <1>1 DEF BootstrapFresh, Start
<1>2. CASE Probe
  BY <1>2 DEF BootstrapFresh, Probe, GiveUp, cluster
<1>3. CASE GetService
  BY <1>3 DEF BootstrapFresh, GetService, GiveUp, cluster, history
<1>4. CASE Apply
  BY <1>4 DEF BootstrapFresh, Apply, GiveUp
<1>5. CASE UNCHANGED <<process, crd, service, sm, calm>>
  BY <1>5 DEF BootstrapFresh, process
<1>6. CASE CollectGarbage
  BY <1>6 DEF BootstrapFresh, CollectGarbage, process, history
<1> QED BY <1>1, <1>2, <1>3, <1>4, <1>5, <1>6, CalmStep DEF Bootstrap

\* A bootstrap that ends undisturbed has written the current ServiceMonitor, or
\* found no API or no Service; the collector leaves an owned one alone.
LEMMA CurrentMonitorStep ==
  BootKnown /\ BootstrapFresh /\ MonitorCurrentAfterRestart /\ [Next]_vars
    => MonitorCurrentAfterRestart'
<1> SUFFICES ASSUME BootKnown, BootstrapFresh, MonitorCurrentAfterRestart, [Next]_vars,
                    up', calm' = TRUE
             PROVE  MonitorCurrentAfterRestart'
  BY DEF MonitorCurrentAfterRestart
<1>1. CASE Start
  BY <1>1 DEF MonitorCurrentAfterRestart, Start
<1>2. CASE Probe
  BY <1>2 DEF MonitorCurrentAfterRestart, Probe, GiveUp, cluster
<1>3. CASE GetService
  BY <1>3 DEF MonitorCurrentAfterRestart, GetService, GiveUp, cluster
<1>4. CASE Apply
  BY <1>4 DEF BootstrapFresh, MonitorCurrentAfterRestart, Apply, GiveUp, history
<1>5. CASE UNCHANGED <<process, crd, service, sm, calm>>
  BY <1>5 DEF MonitorCurrentAfterRestart, process
<1>6. CASE CollectGarbage
  BY <1>6 DEF MonitorCurrentAfterRestart, CollectGarbage, process, history, buildServiceMonitor
<1> QED BY <1>1, <1>2, <1>3, <1>4, <1>5, <1>6, CalmStep DEF Bootstrap

\* The invariant is inductive.
LEMMA InstallStep == InstallInv /\ [Next]_vars => InstallInv'
BY VerdictStep, DeployedStep, AskedStep, NoneWithoutAPIStep, UidsStep, ServedStep,
   FreshStep, CurrentMonitorStep
   DEF InstallInv

\* Hence it always holds.
LEMMA InstallAlways == Spec => []InstallInv
BY InstallInit, InstallStep, PTL DEF Spec

-----------------------------------------------------------------------------
(***************************************************************************)
(* The theorems.                                                           *)
(***************************************************************************)

(***************************************************************************)
(* The verdict on every CSV, of any size, is the documented one            *)
(* (validateCSVData; docs/component-pattern.md).                           *)
(***************************************************************************)
THEOREM VerdictsDocumented == Spec => []VerdictAsDocumented
<1>1. InstallInv => VerdictAsDocumented
  <2> SUFFICES ASSUME InstallInv, build # NoBuild, verdict \in {"accepted", "refused"}
               PROVE  verdict = "accepted" <=> Consistent(build)
    BY DEF VerdictAsDocumented
  <2>1. build \in CSV
    BY DraftsAssumption DEF InstallInv, VerdictIsValidators
  <2>2. validateCSVData(build) = {} <=> Consistent(build)
    BY <2>1, ValidatorExact
  <2> QED BY <2>2 DEF InstallInv, VerdictIsValidators
<1> QED BY <1>1, InstallAlways, PTL

(***************************************************************************)
(* The images a running operator is configured with are listed digests,    *)
(* through any sequence of releases, crashes and start-ups (main,          *)
(* validateEnvVars).                                                       *)
(***************************************************************************)
THEOREM ConfiguredListed == Spec => []ConfiguredImagesListed
<1>1. InstallInv => ConfiguredImagesListed
  BY DEF InstallInv, DeployedVouched, Vouched, Starts, ConfiguredImagesListed
<1> QED BY <1>1, InstallAlways, PTL

(***************************************************************************)
(* Once a process is through its bootstrap, the ServiceMonitor of the      *)
(* Service there is fits the endpoint that process serves, with trust      *)
(* material and the mounted certificate when it is HTTPS, through any      *)
(* sequence of releases, crashes and changes of the cluster, unless a call *)
(* of that bootstrap failed or a deposed leader's apply came after it      *)
(* (Bootstrapper.Start, ScrapeConfig.Validate).                            *)
(***************************************************************************)
THEOREM ServedVerifiable == Spec => []ServedEndpointVerifiable
<1>1. InstallInv => ServedEndpointVerifiable
  BY DEF InstallInv
<1> QED BY <1>1, InstallAlways, PTL

(***************************************************************************)
(* A bootstrap that ran undisturbed leaves this release's ServiceMonitor,  *)
(* owned by the Service of now, whatever was there before                  *)
(* (Bootstrapper.Start).                                                   *)
(***************************************************************************)
THEOREM MonitorCurrent == Spec => []MonitorCurrentAfterRestart
<1>1. InstallInv => MonitorCurrentAfterRestart
  BY DEF InstallInv
<1> QED BY <1>1, InstallAlways, PTL
=============================================================================
