--------------------------- MODULE OperandMetrics ---------------------------
(***************************************************************************)
(* The rollout counter and the readiness gauge of one operand workload.    *)
(*                                                                         *)
(* Both are derived from reads of the Deployment through the informer      *)
(* cache, unlike the conditions of the status, which are derived from the  *)
(* uncached read after each apply.  So here the Deployment's watch stream  *)
(* is kept: its last element is the live object, its first the cached one. *)
(* The gauge goes by the Deployment's Available condition, the status by   *)
(* its replica counts: two signals the Deployment controller reports and   *)
(* that need not agree.                                                    *)
(* The rest of the reconcile pass is reduced to what wakes it, what it     *)
(* applies and the status it writes.                                       *)
(***************************************************************************)
EXTENDS Integers, Sequences, FiniteSetsExt

CONSTANTS
  Images,    \* container images
  Configs,   \* everything else a pod template is rendered from
  Limit,     \* how often each kind of environment event may happen
  MaxEvents, \* how many environment events may happen altogether
  MaxCount,  \* no pass starts once this many rollouts were counted or carried
             \* out: a pass retried while the caches lag may repeat both
  MaxLag     \* how far the Deployment's cache may be behind when a pass starts
             \* or the garbage collector acts

Budgets == {"create", "edit", "delete", "health", "drift", "fault", "read"}

ASSUME MetricsAssumption ==
  /\ Limit \in [Budgets -> Nat]
  /\ {MaxEvents, MaxCount, MaxLag} \subseteq Nat
  /\ Images # {} /\ Configs # {}

VARIABLES
  cr,         \* the HyperFleetConfig: live state and watch stream
  dep,        \* the operand Deployment: live state and watch stream
  spent,      \* how often each kind of environment event has happened
  queued,     \* the request is in the work queue
  pc,         \* the step the pass is at
  base,       \* the copy of the CR the pass read
  fresh,      \* that copy is still the live version
  events,     \* the rollouts detected and not yet counted, by trigger
  seen,       \* whether the live Deployment's replica counts sufficed
  failed,     \* the pass has met an error
  rollouts,   \* operand_rollouts_total, by trigger
  gauge,      \* operand_ready
  \* history
  rolled,     \* how often an apply of the operator changed the pod template
  staleRead,  \* rollouts were detected on a cache that lagged behind
  skipped     \* the last pass that got to the gauge could not read for it

vars == <<cr, dep, spent, queued, pc, base, fresh, events, seen, failed,
          rollouts, gauge, rolled, staleRead, skipped>>
metrics == <<rollouts, gauge>>
history == <<rolled, staleRead, skipped>>
locals  == <<base, fresh, events, seen, failed>>

-----------------------------------------------------------------------------
Template == [image : Images, config : Configs]
Triggers == {"create", "image", "config"}

NoDep == [present |-> FALSE]

\* available: it has the condition Available=True; serving: its available
\* replicas are as many as its spec asks for.
Deployment ==
  [present : {TRUE}, owner : Nat, template : Template, stamp : Template,
   available : BOOLEAN, serving : BOOLEAN]

\* The published status: the generation acted on (0: none), the readiness
\* reported with it, and whether the last pass failed.
Status == [gen : Nat, ready : BOOLEAN, degraded : BOOLEAN]
EmptyStatus == [gen |-> 0, ready |-> FALSE, degraded |-> FALSE]

CR == [uid : Nat, gen : Nat, want : Template, status : Status]
NoCR == [uid |-> 0, gen |-> 0, want |-> CHOOSE t \in Template : TRUE,
         status |-> EmptyStatus]

Live(stream)   == stream[Len(stream)]
Cached(stream) == Head(stream)
Total(count)   == count["create"] + count["image"] + count["config"]

TypeOK ==
  /\ cr \in Seq(CR) \ {<<>>}
  /\ dep \in Seq(Deployment \cup {NoDep}) \ {<<>>}
  /\ spent \in [Budgets -> Nat]
  /\ queued \in BOOLEAN
  /\ pc \in {"idle", "detect", "apply", "refresh", "record", "status"}
  /\ base \in CR
  /\ fresh \in BOOLEAN
  /\ events \subseteq Triggers
  /\ seen \in BOOLEAN
  /\ failed \in BOOLEAN
  /\ rollouts \in [Triggers -> Nat]
  /\ gauge \in {"unset", "ready", "notready"}
  /\ rolled \in Nat
  /\ staleRead \in BOOLEAN
  /\ skipped \in BOOLEAN

Init ==
  /\ cr = <<NoCR>>
  /\ dep = <<NoDep>>
  /\ spent = [b \in Budgets |-> 0]
  /\ queued = FALSE
  /\ pc = "idle"
  /\ base = NoCR
  /\ fresh = FALSE
  /\ events = {}
  /\ seen = FALSE
  /\ failed = FALSE
  /\ rollouts = [t \in Triggers |-> 0]
  /\ gauge = "unset"
  /\ rolled = 0
  /\ staleRead = FALSE
  /\ skipped = FALSE

SpentInAll == MapThenSumSet(LAMBDA x : spent[x], Budgets)

Spend(b) ==
  /\ spent[b] < Limit[b]
  /\ SpentInAll < MaxEvents
  /\ spent' = [spent EXCEPT ![b] = @ + 1]

-----------------------------------------------------------------------------
(***************************************************************************)
(* The pass, from the read of the CR to the status update.                 *)
(***************************************************************************)
Begin ==
  /\ pc = "idle"
  /\ queued
  /\ Total(rollouts) < MaxCount
  /\ rolled < MaxCount
  /\ Len(dep) <= MaxLag
  /\ queued' = FALSE
  /\ IF Cached(cr).uid = 0
       THEN UNCHANGED <<pc, base, fresh>>
       ELSE pc' = "detect" /\ base' = Cached(cr) /\ fresh' = (Len(cr) = 1)
  /\ UNCHANGED <<cr, dep, spent, events, seen, failed, metrics, history>>

\* An error in a stage before the operand is rendered (Secrets, discovery).
EarlyFails ==
  /\ pc = "detect"
  /\ Spend("fault")
  /\ failed' = TRUE
  /\ pc' = "status"
  /\ UNCHANGED <<cr, dep, queued, base, fresh, events, seen, metrics, history>>

sameContainerImages(live, want) == live.template.image = want.image

\* Mutant: the trigger label carries the image instead of the closed set.
rolloutTriggerImage(live, want) ==
  IF ~sameContainerImages(live, want) THEN want.image ELSE "config"

rolloutTrigger(live, want) ==
  IF ~sameContainerImages(live, want) THEN "image" ELSE "config"

\* Mutant: a Deployment that does not exist yet is not counted.
RolloutsExceptCreate(live, want) ==
  IF /\ live.present
     /\ live.stamp # want \/ ~sameContainerImages(live, want)
    THEN {rolloutTrigger(live, want)}
    ELSE {}

\* The rollouts an apply of want will cause, going by what the cache shows.
\* Every Deployment of the model was created by this release, so its stamp is
\* never empty.
Rollouts(live, want) ==
  CASE ~live.present -> {"create"}
    [] live.present /\ (live.stamp # want \/ ~sameContainerImages(live, want)) ->
         {rolloutTrigger(live, want)}
    [] OTHER -> {}

detectRollouts ==
  /\ pc = "detect"
  /\ events' = Rollouts(Cached(dep), base.want)
  /\ staleRead' = (staleRead \/ Len(dep) > 1)
  /\ pc' = "apply"
  /\ UNCHANGED <<cr, dep, spent, queued, base, fresh, seen, failed, metrics,
                 rolled, skipped>>

\* The read fails, other than by NotFound: the apply goes on uncounted.
DetectionSkipped ==
  /\ pc = "detect"
  /\ Spend("read")
  /\ events' = {}
  /\ pc' = "apply"
  /\ UNCHANGED <<cr, dep, queued, base, fresh, seen, failed, metrics, history>>

\* The apply persists the template and the stamp together.  The live status
\* stays; a Deployment created anew has none.
Applied(live) ==
  [present   |-> TRUE,
   owner     |-> base.uid,
   template  |-> base.want,
   stamp     |-> base.want,
   available |-> live.present /\ live.available,
   serving   |-> live.present /\ live.serving]

Apply ==
  LET live == Live(dep) IN
  /\ dep' = IF Applied(live) = live THEN dep ELSE Append(dep, Applied(live))
  /\ rolled' = IF live.present /\ live.template = base.want THEN rolled
                                                            ELSE rolled + 1

ApplyOperand ==
  /\ pc = "apply"
  /\ Apply
  /\ pc' = "refresh"
  /\ UNCHANGED <<cr, spent, queued, locals, metrics, staleRead, skipped>>

\* The apply returns an error; the write may have been carried out or not.
ApplyFails ==
  /\ pc = "apply"
  /\ Spend("fault")
  /\ Apply \/ UNCHANGED <<dep, rolled>>
  /\ failed' = TRUE
  /\ pc' = "status"
  /\ UNCHANGED <<cr, queued, base, fresh, events, seen, metrics, staleRead, skipped>>

\* The live object is read back, and with that apply.Objects has succeeded:
\* commitRollouts counts what was detected.
Refresh ==
  /\ pc = "refresh"
  /\ Live(dep).present
  /\ seen' = Live(dep).serving
  /\ rollouts' = [t \in Triggers |->
                    IF t \in events THEN rollouts[t] + 1 ELSE rollouts[t]]
  /\ pc' = "record"
  /\ UNCHANGED <<cr, dep, spent, queued, base, fresh, events, failed, gauge,
                 history>>

\* The object is gone again, or the read fails: apply.Objects has failed.
RefreshFails ==
  /\ pc = "refresh"
  /\ \/ ~Live(dep).present /\ UNCHANGED spent
     \/ Spend("fault")
  /\ failed' = TRUE
  /\ pc' = "status"
  /\ UNCHANGED <<cr, dep, queued, base, fresh, events, seen, metrics, history>>

\* deploymentAvailable, of the cached Deployment: one that is not there is not
\* ready, and its replica counts do not matter.
Readiness(live) ==
  IF live.present /\ live.available THEN "ready" ELSE "notready"

recordReadiness ==
  /\ pc = "record"
  /\ gauge' = Readiness(Cached(dep))
  /\ skipped' = FALSE
  /\ pc' = "status"
  /\ UNCHANGED <<cr, dep, spent, queued, locals, rollouts, rolled, staleRead>>

\* The read fails, other than by NotFound: the gauge is left untouched and the
\* pass succeeds all the same, so nothing retries it.
ReadinessSkipped ==
  /\ pc = "record"
  /\ Spend("read")
  /\ skipped' = TRUE
  /\ pc' = "status"
  /\ UNCHANGED <<cr, dep, queued, locals, metrics, rolled, staleRead>>

NewStatus ==
  IF failed THEN [base.status EXCEPT !.degraded = TRUE]
            ELSE [gen |-> base.gen, ready |-> seen, degraded |-> FALSE]

\* The status is written when it changed and the copy read is still the live
\* version; a failed pass, and a rejected write, are retried.
UpdateStatus ==
  /\ pc = "status"
  /\ cr' = IF NewStatus # base.status /\ fresh
             THEN Append(cr, [Live(cr) EXCEPT !.status = NewStatus])
             ELSE cr
  /\ queued' = (queued \/ failed \/ (NewStatus # base.status /\ ~fresh))
  /\ pc' = "idle"
  /\ base' = NoCR
  /\ fresh' = FALSE
  /\ events' = {}
  /\ seen' = FALSE
  /\ failed' = FALSE
  /\ UNCHANGED <<dep, spent, metrics, history>>

-----------------------------------------------------------------------------
(***************************************************************************)
(* The watches.                                                            *)
(***************************************************************************)
DeliverConfig ==
  /\ Len(cr) > 1
  /\ cr' = Tail(cr)
  /\ queued' = TRUE
  /\ UNCHANGED <<dep, spent, pc, locals, metrics, history>>

\* Mutant: the Deployment is cached but its events do not wake the operator.
DeliverSilently ==
  /\ Len(dep) > 1
  /\ dep' = Tail(dep)
  /\ UNCHANGED <<cr, spent, queued, pc, locals, metrics, history>>

DeliverDeployment ==
  /\ Len(dep) > 1
  /\ dep' = Tail(dep)
  /\ queued' = TRUE
  /\ UNCHANGED <<cr, spent, pc, locals, metrics, history>>

-----------------------------------------------------------------------------
(***************************************************************************)
(* Users, the Deployment controller and the garbage collector.             *)
(***************************************************************************)
WriteConfig(new) ==
  /\ cr' = Append(cr, new)
  /\ fresh' = FALSE
  /\ UNCHANGED <<dep, queued, pc, base, events, seen, failed, metrics, history>>

CreateConfig(t) ==
  /\ Live(cr).uid = 0
  /\ Spend("create")
  /\ WriteConfig([uid |-> spent["create"] + 1, gen |-> 1, want |-> t,
                  status |-> EmptyStatus])

EditConfig(t) ==
  /\ Live(cr).uid # 0
  /\ Live(cr).want # t
  /\ Spend("edit")
  /\ WriteConfig([Live(cr) EXCEPT !.want = t, !.gen = @ + 1])

DeleteConfig ==
  /\ Live(cr).uid # 0
  /\ Spend("delete")
  /\ WriteConfig(NoCR)

WriteDeployment(new) ==
  /\ dep' = Append(dep, new)
  /\ UNCHANGED <<cr, queued, pc, locals, metrics, history>>

\* The Deployment controller reports the condition and the counts.
ReportHealth(a, s) ==
  /\ Live(dep).present
  /\ <<Live(dep).available, Live(dep).serving>> # <<a, s>>
  /\ Spend("health")
  /\ WriteDeployment([Live(dep) EXCEPT !.available = a, !.serving = s])

\* Somebody edits the pod template or deletes the Deployment.
EditTemplate(t) ==
  /\ Live(dep).present
  /\ Live(dep).template # t
  /\ Spend("drift")
  /\ WriteDeployment([Live(dep) EXCEPT !.template = t])

DeleteDeployment ==
  /\ Live(dep).present
  /\ Spend("drift")
  /\ WriteDeployment(NoDep)

CollectGarbage ==
  /\ Live(dep).present
  /\ Live(dep).owner # Live(cr).uid
  /\ Len(dep) <= MaxLag
  /\ WriteDeployment(NoDep)
  /\ UNCHANGED spent

-----------------------------------------------------------------------------
Pass ==
  \/ Begin
  \/ EarlyFails
  \/ detectRollouts
  \/ DetectionSkipped
  \/ ApplyOperand
  \/ ApplyFails
  \/ Refresh
  \/ RefreshFails
  \/ recordReadiness
  \/ ReadinessSkipped
  \/ UpdateStatus

Next ==
  \/ Pass
  \/ DeliverConfig
  \/ DeliverDeployment
  \/ \E t \in Template : CreateConfig(t)
  \/ \E t \in Template : EditConfig(t)
  \/ DeleteConfig
  \/ \E a, s \in BOOLEAN : ReportHealth(a, s)
  \/ \E t \in Template : EditTemplate(t)
  \/ DeleteDeployment
  \/ CollectGarbage

Spec == Init /\ [][Next]_vars

-----------------------------------------------------------------------------
(***************************************************************************)
(* Properties.                                                             *)
(***************************************************************************)
Quiet ==
  /\ pc = "idle"
  /\ ~queued
  /\ Len(cr) = 1
  /\ Len(dep) = 1

(***************************************************************************)
(* At rest, with a HyperFleetConfig, the readiness gauge shows the live    *)
(* Deployment's Available condition, although it is set from the cache in  *)
(* the middle of a pass that may fail later, was woken by the status the   *)
(* operator itself wrote, or was overtaken by further changes.  It rests   *)
(* on every cached change of the Deployment starting another pass.  The    *)
(* one exception is the one recordReadiness accepts: the last pass that    *)
(* got to the gauge could not read the Deployment and left it untouched.   *)
(***************************************************************************)
GaugeTrueWhenQuiet ==
  Quiet /\ Live(cr).uid # 0 /\ ~skipped => gauge = Readiness(Live(dep))

(***************************************************************************)
(* The rollout counter is exact as long as the cache is never behind when  *)
(* rollouts are detected, no call or read fails and nobody else writes or  *)
(* deletes the Deployment.                                                 *)
(***************************************************************************)
CountsExactWhenCoherent ==
  /\ pc = "idle"
  /\ ~staleRead
  /\ spent["fault"] = 0
  /\ spent["read"] = 0
  /\ spent["drift"] = 0
  /\ spent["delete"] = 0
  => Total(rollouts) = rolled

(***************************************************************************)
(* operand_rollouts_total counts rollouts: without failures and without    *)
(* writes by others it never exceeds the rollouts there were.              *)
(***************************************************************************)
NeverOvercounted ==
  spent["fault"] = 0 /\ spent["drift"] = 0 /\ spent["delete"] = 0
  => Total(rollouts) <= rolled

(***************************************************************************)
(* A failed apply left the Deployment as it was and is retried, so that at *)
(* rest every rollout has been counted (commitRollouts).                   *)
(***************************************************************************)
FailedApplyCountedOnRetry ==
  Quiet /\ ~staleRead /\ (\A b \in {"read", "drift", "delete"} : spent[b] = 0)
  => Total(rollouts) >= rolled

(***************************************************************************)
(* The readiness gauge does not stay at "ready" once the workload is gone  *)
(* (recordReadiness).                                                      *)
(***************************************************************************)
GaugeNotStuck ==
  Quiet /\ ~Live(dep).present => gauge # "ready"
=============================================================================
