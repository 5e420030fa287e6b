----------------------------- MODULE StatusRules -----------------------------
(***************************************************************************)
(* How health becomes status: the conditions a component derives from its  *)
(* live Deployment, and aggregateStatus, which turns one pass's findings   *)
(* into the HyperFleetConfig's status.  Messages are abstracted to what    *)
(* tells two of them apart: the component or the Secret roles they name,   *)
(* and whether a Deployment is scaled to zero.  The message with replica   *)
(* figures goes with the reason DeploymentNotReady, and with at most two   *)
(* replicas the figures in it are 1/2.                                     *)
(***************************************************************************)
EXTENDS Operands

\* A Deployment's status, relative to its spec: whether the Deployment
\* controller has observed the current generation, and the replica counts.
Counts == 0..2
DepStatus ==
  [observed : BOOLEAN, replicas : Counts, updated : Counts, available : Counts]
NewDepStatus ==
  [observed |-> FALSE, replicas |-> 0, updated |-> 0, available |-> 0]

(***************************************************************************)
(* Conditions.  Unset is a condition that was never published.             *)
(***************************************************************************)
All == "all"
Reasons ==
  {"Unset", "DeploymentAvailable", "DeploymentUnavailable",
   "DeploymentNotReady", "RolloutInProgress", "RolloutComplete"}

\* zero: the message says that the Deployment is scaled to zero.
Condition == [status : BOOLEAN, reason : Reasons, zero : BOOLEAN]
Unset == [status |-> FALSE, reason |-> "Unset", zero |-> FALSE]

ComponentConditions == [available : Condition, progressing : Condition]
Unreported == [available |-> Unset, progressing |-> Unset]

\* desired is the live spec.replicas, st the live status.
availableCondition(desired, st) ==
  CASE desired = 0 ->
         [status |-> TRUE, reason |-> "DeploymentAvailable", zero |-> TRUE]
    [] desired # 0 /\ st.available = 0 ->
         [status |-> FALSE, reason |-> "DeploymentUnavailable", zero |-> FALSE]
    [] desired # 0 /\ st.available # 0 /\ st.available < desired ->
         [status |-> FALSE, reason |-> "DeploymentNotReady", zero |-> FALSE]
    [] OTHER ->
         [status |-> TRUE, reason |-> "DeploymentAvailable", zero |-> FALSE]

progressingCondition(desired, st) ==
  IF \/ ~st.observed
     \/ st.updated < desired
     \/ st.replicas # st.updated
     \/ st.available < st.updated
    THEN [status |-> TRUE, reason |-> "RolloutInProgress", zero |-> FALSE]
    ELSE [status |-> FALSE, reason |-> "RolloutComplete", zero |-> FALSE]

\* Component.Conditions, from the Deployment as refreshed after its apply.
Conditions(desired, st) ==
  [available   |-> availableCondition(desired, st),
   progressing |-> progressingCondition(desired, st)]

-----------------------------------------------------------------------------
(***************************************************************************)
(* The published status.                                                   *)
(***************************************************************************)
Rollup == [status : BOOLEAN, reason : Reasons, by : ComponentSet \cup {All},
           gen : Nat]
Degraded == [reason : {"Unset", "AsExpected", "ReconcileError",
                       "ReferencedSecretMissing"},
             missing : SUBSET Roles, gen : Nat]
Health == [ComponentSet -> ComponentConditions]
NoHealth == [c \in ComponentSet |-> Unreported]

Status ==
  [observedGeneration : Nat,
   degraded    : Degraded,
   available   : Rollup,
   progressing : Rollup,
   components  : [gen : Nat, health : Health]]

EmptyStatus ==
  [observedGeneration |-> 0,
   degraded    |-> [reason |-> "Unset", missing |-> {}, gen |-> 0],
   available   |-> [status |-> FALSE, reason |-> "Unset", by |-> All, gen |-> 0],
   progressing |-> [status |-> FALSE, reason |-> "Unset", by |-> All, gen |-> 0],
   components  |-> [gen |-> 0, health |-> NoHealth]]

\* rollupCondition over Available: the first component, in bundle order, that
\* is not in the expected state decides; otherwise the generic reason.
rollupAvailable(health, gen) ==
  LET bad == {i \in DOMAIN Components : ~health[Components[i]].available.status}
      i   == CHOOSE x \in bad : \A y \in bad : x <= y
  IN IF bad = {}
       THEN [status |-> TRUE, reason |-> "DeploymentAvailable", by |-> All,
             gen |-> gen]
       ELSE [status |-> FALSE,
             reason |-> health[Components[i]].available.reason,
             by |-> Components[i], gen |-> gen]

\* Mutant: the rolled-up condition is not stamped with the generation.
rollupUnstamped(health, gen) ==
  [status |-> FALSE, reason |-> "RolloutComplete", by |-> All, gen |-> 0]

rollupProgressing(health, gen) ==
  LET bad == {i \in DOMAIN Components : health[Components[i]].progressing.status}
      i   == CHOOSE x \in bad : \A y \in bad : x <= y
  IN IF bad = {}
       THEN [status |-> FALSE, reason |-> "RolloutComplete", by |-> All,
             gen |-> gen]
       ELSE [status |-> TRUE,
             reason |-> health[Components[i]].progressing.reason,
             by |-> Components[i], gen |-> gen]

\* A missing Secret takes precedence over a failed reconcile.
degradedCondition(missing, failed, gen) ==
  CASE missing # {} ->
         [reason |-> "ReferencedSecretMissing", missing |-> missing, gen |-> gen]
    [] missing = {} /\ failed ->
         [reason |-> "ReconcileError", missing |-> {}, gen |-> gen]
    [] OTHER ->
         [reason |-> "AsExpected", missing |-> {}, gen |-> gen]

\* Mutant: a failed pass claims to have acted on the generation it read.
aggregateAlwaysObserved(prev, gen, health, missing, failed) ==
  LET degraded == degradedCondition(missing, failed, gen)
  IN IF failed
       THEN [prev EXCEPT !.degraded = degraded, !.observedGeneration = gen]
       ELSE [observedGeneration |-> gen,
             degraded    |-> degraded,
             available   |-> rollupAvailable(health, gen),
             progressing |-> rollupProgressing(health, gen),
             components  |-> [gen |-> gen, health |-> health]]

(***************************************************************************)
(* aggregateStatus.  prev is the status of the copy of the CR this pass    *)
(* read, gen its generation.  A pass that failed before every component    *)
(* reported leaves everything but Degraded as it was.                      *)
(***************************************************************************)
aggregateStatus(prev, gen, health, missing, failed) ==
  LET degraded == degradedCondition(missing, failed, gen)
  IN IF failed
       THEN [prev EXCEPT !.degraded = degraded]
       ELSE [observedGeneration |-> gen,
             degraded    |-> degraded,
             available   |-> rollupAvailable(health, gen),
             progressing |-> rollupProgressing(health, gen),
             components  |-> [gen |-> gen, health |-> health]]
=============================================================================
