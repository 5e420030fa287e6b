--------------------------- MODULE OperatorInstall ---------------------------
(***************************************************************************)
(* The life of an operator installation, from the CSV to the running       *)
(* process: the related-images validator lets a CSV through, OLM deploys   *)
(* it, the process checks its environment and flags (cmd/main.go) and,     *)
(* once it leads, bootstraps its ServiceMonitor a single time              *)
(* (internal/servicemonitor) beside the reconciler.                        *)
(*                                                                         *)
(* One process leads at a time; what a deposed leader may still do is the  *)
(* delayed apply in "late".  A standby that takes over is a restart.       *)
(***************************************************************************)
EXTENDS RelatedImages

CONSTANTS
  Drafts,    \* the CSVs that may be submitted first, with their flags
  Upgrades,  \* the CSVs a later release may bring
  Limit      \* how often each disturbance may happen

Budgets == {"upgrade", "crash", "fault", "late", "crd", "service", "monitor"}

ApiEnv      == "RELATED_IMAGE_HYPERFLEET_API"
SentinelEnv == "RELATED_IMAGE_HYPERFLEET_SENTINEL"
Unset == "unset"
DefaultImage == "hyperfleet-api:0.4.0"

ASSUME InstallAssumption ==
  /\ {ApiEnv, SentinelEnv} \subseteq RelatedImageEnv
  /\ Unset \notin Images /\ DefaultImage \notin DigestPinned
  /\ Upgrades \subseteq Drafts
  /\ Limit \in [Budgets -> Nat]

\* The flags and broker variables of the manager.
Flags ==
  [metrics : BOOLEAN,  \* metrics-bind-address is not 0
   monitor : BOOLEAN,  \* metrics-service-monitor-enabled
   secure  : BOOLEAN,  \* metrics-secure
   trust   : BOOLEAN,  \* the five CA, server name and authorization flags are set
   cert    : {"unset", "good", "unreadable"},  \* metrics-cert-path
   broker  : {Unset, "rabbitmq", "googlepubsub", "other"},
   project : {Unset, "valid", "invalid"}]

\* A CSV: the manager comes first among its containers.
CSV == [containers : Seq(Container) \ {<<>>}, relatedImages : Seq(Images),
        flags : Flags]

ASSUME DraftsAssumption == Drafts \subseteq CSV

VARIABLES
  build,    \* the CSV under validation, or NoBuild
  verdict,  \* what the validator said of it
  install,  \* what is deployed: images, the listed ones among them, flags
  up,       \* a process of the operator runs and leads
  cfg,      \* the installation that process was started from
  boot,     \* how far its ServiceMonitor bootstrap has come
  owner,    \* the UID of the Service it read
  crd,      \* the cluster serves the ServiceMonitor API
  service,  \* the UID of the metrics Service, 0 when it is absent
  sm,       \* the ServiceMonitor, or NoMonitor
  late,     \* an apply of a deposed leader that may still arrive
  calm,     \* history: nothing was disturbed since the process started
  astray,   \* history: this process's bootstrap failed, or a delayed apply of
            \* another process arrived after it
  spent     \* how often each disturbance has happened

cluster == <<crd, service, sm, late>>
process == <<up, cfg, boot, owner>>
release == <<build, verdict, install>>
history == <<calm, astray>>
vars == <<release, process, cluster, history, spent>>

NoBuild == [containers |-> <<>>]
NoInstall == [api |-> Unset, sentinel |-> Unset, listed |-> {}]
NoMonitor == [owner |-> 0]
Unowned == -1

-----------------------------------------------------------------------------
(***************************************************************************)
(* From the CSV to the deployment.                                         *)
(***************************************************************************)

\* os.Getenv in the manager, the CSV's first container: the last setting wins.
Getenv(csv, name) ==
  LET env == csv.containers[1].env
      set == {i \in DOMAIN env : env[i].name = name}
  IN  IF set = {} THEN Unset
      ELSE env[CHOOSE i \in set : \A j \in set : j <= i].value

Deployed(csv) ==
  LET api == Getenv(csv, ApiEnv)
      sentinel == Getenv(csv, SentinelEnv)
  IN  [api |-> api, sentinel |-> sentinel, flags |-> csv.flags,
       listed |-> Range(csv.relatedImages) \cap {api, sentinel}]

\* The validator's main: no errors, or the CSV goes no further.
Validate ==
  /\ verdict = "pending"
  /\ verdict' = IF validateCSVData(build) = {} THEN "accepted" ELSE "refused"
  /\ UNCHANGED <<build, install, process, cluster, history, spent>>

\* findCSV, the read of the file or its parsing fails.
Unreadable ==
  /\ verdict = "pending"
  /\ verdict' = "unreadable"
  /\ UNCHANGED <<build, install, process, cluster, history, spent>>

\* OLM deploys the first release.
Ship ==
  /\ verdict = "accepted" /\ build # NoBuild
  /\ install' = Deployed(build)
  /\ build' = NoBuild
  /\ UNCHANGED <<verdict, process, cluster, history, spent>>

Spend(b) == spent[b] < Limit[b] /\ spent' = [spent EXCEPT ![b] = @ + 1]
Disturb(b) == Spend(b) /\ calm' = FALSE

Installed == install # NoInstall

\* A later release passes the same check and replaces the deployment.
Upgrade(csv) ==
  /\ Installed /\ validateCSVData(csv) = {}
  /\ install' = Deployed(csv)
  /\ Spend("upgrade")
  /\ UNCHANGED <<build, verdict, process, cluster, history>>

-----------------------------------------------------------------------------
(***************************************************************************)
(* cmd/main.go.                                                            *)
(***************************************************************************)

\* envToBrokerInfo returns no error; an unset type is the default, RabbitMQ.
envToBrokerInfo(f) ==
  \/ f.broker \in {Unset, "rabbitmq"}
  \/ f.broker = "googlepubsub" /\ f.project = "valid"

\* Mutant: a self-signed serving certificate will do.
ScrapeConfigTrusts(f) == f.secure => f.trust

\* ScrapeConfig.Validate.
ScrapeConfigValid(f) == f.secure => f.trust /\ f.cert # "unset"

\* The bootstrapper is added to the manager.
Bootstraps(f) == f.metrics /\ f.monitor

\* The certificate watcher can be created.
metricsCertLoads(f) == f.cert # "unreadable"

\* main reaches mgr.Start; every other way ends in os.Exit(1).
Starts(i) ==
  /\ metricsCertLoads(i.flags)
  /\ i.sentinel # Unset
  /\ envToBrokerInfo(i.flags)
  /\ Bootstraps(i.flags) => ScrapeConfigValid(i.flags)

\* A process starts and wins the election; the reconciler runs from here on.
Start ==
  /\ Installed /\ ~up /\ Starts(install)
  /\ up' = TRUE /\ cfg' = install
  /\ boot' = IF Bootstraps(install.flags) THEN "probe" ELSE "done"
  /\ owner' = 0 /\ calm' = TRUE /\ astray' = FALSE
  /\ UNCHANGED <<release, cluster, spent>>

Stop ==
  /\ up
  /\ up' = FALSE
  /\ boot' = "done" /\ owner' = 0 /\ cfg' = NoInstall
  /\ UNCHANGED <<release, crd, service, sm>>

\* The Deployment of the operator rolls to the new release.
Replaced == Stop /\ cfg # install /\ UNCHANGED <<late, history, spent>>

Crash == Stop /\ Spend("crash") /\ UNCHANGED <<late, history>>

-----------------------------------------------------------------------------
(***************************************************************************)
(* Bootstrapper.Start.  No failure leaves the bootstrap: it is logged and  *)
(* the bootstrap is over.                                                  *)
(***************************************************************************)

\* Mutant: the error is returned, which ends the manager.
GiveUpWithError == up' = FALSE /\ boot' = "done"

\* log.Error or log.Info, and return nil.
GiveUp == up' = up /\ boot' = "done"

\* serviceMonitorAvailable.
Probe ==
  /\ up /\ boot = "probe"
  /\ IF crd THEN boot' = "service" /\ up' = up ELSE GiveUp
  /\ UNCHANGED <<release, cfg, owner, cluster, history, spent>>

\* The metrics Service, to own the ServiceMonitor.
GetService ==
  /\ up /\ boot = "service"
  /\ IF service # 0 THEN boot' = "apply" /\ owner' = service /\ up' = up
                    ELSE GiveUp /\ owner' = owner
  /\ UNCHANGED <<release, cfg, cluster, history, spent>>

\* Mutant: no owner reference.
buildUnowned(uid, f) ==
  [owner |-> Unowned, secure |-> f.secure, trust |-> f.secure /\ f.trust]

\* The owner, the scheme, and whether the endpoint names a CA, a server name and
\* bearer credentials, which it does only with HTTPS.
buildServiceMonitor(uid, f) ==
  [owner |-> uid, secure |-> f.secure, trust |-> f.secure /\ f.trust]

\* Mutant: a ServiceMonitor that exists is left as it is.
ApplyIfAbsent ==
  /\ up /\ boot = "apply"
  /\ sm' = IF crd /\ sm = NoMonitor THEN buildServiceMonitor(owner, cfg.flags) ELSE sm
  /\ GiveUp
  /\ UNCHANGED <<release, cfg, owner, crd, service, late, history, spent>>

\* The server-side apply with forced ownership replaces what is there.
Apply ==
  /\ up /\ boot = "apply"
  /\ sm' = IF crd THEN buildServiceMonitor(owner, cfg.flags) ELSE sm
  /\ GiveUp
  /\ UNCHANGED <<release, cfg, owner, crd, service, late, history, spent>>

\* A call of the bootstrap fails.
BootstrapFails ==
  /\ up /\ boot \in {"probe", "service", "apply"}
  /\ GiveUp /\ Disturb("fault") /\ astray' = TRUE
  /\ UNCHANGED <<release, cfg, owner, cluster>>

\* The process loses its lease while its apply is on the way.
Deposed ==
  /\ boot = "apply" /\ late = NoMonitor
  /\ Stop
  /\ late' = buildServiceMonitor(owner, cfg.flags)
  /\ Spend("late")
  /\ UNCHANGED history

\* The delayed apply arrives, or is dropped with the connection.
LateApplyLands ==
  /\ late # NoMonitor
  /\ sm' = IF crd THEN late ELSE sm
  /\ late' = NoMonitor /\ calm' = FALSE /\ astray' = (astray \/ boot = "done")
  /\ UNCHANGED <<release, process, crd, service, spent>>

LateApplyDropped ==
  /\ late # NoMonitor
  /\ late' = NoMonitor
  /\ UNCHANGED <<release, process, crd, service, sm, history, spent>>

-----------------------------------------------------------------------------
(***************************************************************************)
(* The cluster.                                                            *)
(***************************************************************************)

\* The Prometheus Operator is installed or removed, its objects with it.
ToggleCRD ==
  /\ Installed /\ Disturb("crd")
  /\ crd' = ~crd
  /\ sm' = NoMonitor
  /\ UNCHANGED <<release, process, service, late, astray>>

DeleteService ==
  /\ Installed /\ service # 0 /\ Disturb("service")
  /\ service' = 0
  /\ UNCHANGED <<release, process, crd, sm, late, astray>>

\* OLM creates it again, under a new UID.
RecreateService ==
  /\ service = 0
  /\ service' = spent["service"] + 1 /\ calm' = FALSE
  /\ UNCHANGED <<release, process, crd, sm, late, astray, spent>>

DeleteMonitor ==
  /\ sm # NoMonitor /\ Disturb("monitor")
  /\ sm' = NoMonitor
  /\ UNCHANGED <<release, process, crd, service, late, astray>>

\* The garbage collector removes a ServiceMonitor whose owner is gone.
CollectGarbage ==
  /\ sm # NoMonitor /\ sm.owner \notin {service, Unowned}
  /\ sm' = NoMonitor
  /\ UNCHANGED <<release, process, crd, service, late, history, spent>>

-----------------------------------------------------------------------------
Init ==
  /\ build \in Drafts /\ verdict = "pending" /\ install = NoInstall
  /\ up = FALSE /\ cfg = NoInstall /\ boot = "done" /\ owner = 0
  /\ crd \in BOOLEAN /\ service = 1 /\ sm = NoMonitor /\ late = NoMonitor
  /\ calm = FALSE /\ astray = FALSE
  /\ spent = [b \in Budgets |-> 0]

Bootstrap == Probe \/ GetService \/ Apply

Next ==
  \/ Validate
  \/ Unreadable
  \/ Ship
  \/ \E csv \in Upgrades : Upgrade(csv)
  \/ Start
  \/ Replaced
  \/ Crash
  \/ Bootstrap
  \/ BootstrapFails
  \/ Deposed
  \/ LateApplyLands
  \/ LateApplyDropped
  \/ ToggleCRD
  \/ DeleteService
  \/ RecreateService
  \/ DeleteMonitor
  \/ CollectGarbage

\* The kubelet restarts and replaces the process, the process goes through its
\* bootstrap, OLM restores the Service, and garbage is collected.
Fairness ==
  /\ WF_vars(Ship) /\ WF_vars(Start) /\ WF_vars(Replaced) /\ WF_vars(Bootstrap)
  /\ WF_vars(RecreateService) /\ WF_vars(CollectGarbage)
  /\ WF_vars(LateApplyLands \/ LateApplyDropped)

Spec == Init /\ [][Next]_vars /\ Fairness

-----------------------------------------------------------------------------
\* The validator's passes over lists and maps refuse exactly the CSVs that are
\* not consistent in the documented sense, as far as that speaks of the images
\* a CSV names (validateCSVData; docs/component-pattern.md).
VerdictAsDocumented ==
  build # NoBuild /\ verdict \in {"accepted", "refused"}
    => (verdict = "accepted" <=> Consistent(build))

\* The Sentinel image a running operator deploys, and the API image when its
\* variable is set, is a digest that the release's related images list: the
\* validator at build time and the checks of main at start-up together leave
\* no way around (validateEnvVars, main).
ConfiguredImagesListed ==
  up => /\ cfg.sentinel \in cfg.listed \cap DigestPinned
        /\ cfg.api = Unset \/ cfg.api \in cfg.listed \cap DigestPinned

\* Prometheus, told by m, can scrape a process that serves with flags f: the
\* schemes agree, and over HTTPS it has what it must present and the certificate
\* served is the mounted one, not a self-signed one its CA does not vouch for.
Scrapes(m, f) ==
  /\ m.secure = f.secure
  /\ f.secure => m.trust /\ f.cert = "good"

\* Prometheus can verify what is served: once the running process is through its
\* bootstrap, a ServiceMonitor that stands for the Service there is fits the
\* endpoint that this process serves, whatever an older release with another
\* endpoint left behind, and although the ServiceMonitor, the Service or the
\* API may have come and gone since.  The exceptions are a bootstrap call that
\* failed and a deposed leader's apply that arrives later, which only the next
\* start repairs (ScrapeConfig.Validate, Bootstrapper.Start).
ServedEndpointVerifiable ==
  /\ up /\ boot = "done" /\ Bootstraps(cfg.flags) /\ ~astray
  /\ sm # NoMonitor /\ service # 0 /\ sm.owner = service
  => Scrapes(sm, cfg.flags)

\* "Picks the ServiceMonitor up on the operator's next restart": whatever
\* happened before, a bootstrap that ran undisturbed since the last start leaves
\* the ServiceMonitor of this release, owned by the Service that exists now
\* (Bootstrapper.Start).
MonitorCurrentAfterRestart ==
  up /\ boot = "done" /\ calm /\ Bootstraps(cfg.flags) /\ crd /\ service # 0
    => sm = buildServiceMonitor(service, cfg.flags)

\* Bootstrap failures "never crash the manager or block reconciliation": once
\* a release that passes the start-up checks is deployed for good, an operator
\* process of that release eventually runs for good, with or without the
\* Prometheus Operator (Bootstrapper.Start).
NothingBlocksReconciliation ==
  <>[](Installed => (Starts(install) => up /\ cfg = install))

\* The ServiceMonitor is never left behind: in the long run there is none, or
\* the Service that exists owns it, although the bootstrap reads the Service
\* and applies in two calls and a deposed leader may apply after that
\* (buildServiceMonitor).
NoOrphanMonitor == <>[](sm = NoMonitor \/ sm.owner = service)

\* The documented relationship, the compiled-in default of the API included:
\* related images "must match every operand image".
EveryOperandImageListed ==
  up => {cfg.sentinel, IF cfg.api = Unset THEN DefaultImage ELSE cfg.api} \subseteq cfg.listed
=============================================================================
