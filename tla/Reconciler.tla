----------------------------- MODULE Reconciler -----------------------------
(***************************************************************************)
(* The HyperFleetConfig controller against a live API server.              *)
(*                                                                         *)
(* The controller reads the CR and the Secrets through informer caches and *)
(* writes straight to the API server.  What the server holds of a watched  *)
(* object and what the cache shows of it are kept in one sequence: its     *)
(* last element is the live state, its first element the cached one, and   *)
(* the elements after the first are watch events still to be delivered.    *)
(* Operands are never read from the cache on this path (apply.Objects      *)
(* refreshes them through the uncached reader), so of their watch only the *)
(* fact that an event is outstanding is kept.                              *)
(*                                                                         *)
(* One reconcile pass is a sequence of steps, each making at most one call *)
(* that another process can interleave with.  The operator's own metrics   *)
(* are not part of this module.                                            *)
(***************************************************************************)
EXTENDS StatusRules

CONSTANTS
  Specs,        \* the specs users submit
  Releases,     \* the environments the operator may be (re)started with
  Seeded,       \* the Secrets that exist from the start
  DepStatuses,  \* the statuses the Deployment controller may write
  Limit         \* how often each kind of environment event may happen

Budgets == {"create", "edit", "delete", "secret", "idp", "fault", "crash",
            "late", "drift", "health", "resync"}

ASSUME SpecsAssumption == Specs \subseteq ConfigSpec /\ Specs # {}
ASSUME ReleasesAssumption == Releases \subseteq Release
ASSUME SeededAssumption == Seeded \subseteq SecretNames
ASSUME DepStatusesAssumption == DepStatuses \subseteq DepStatus
ASSUME LimitAssumption == Limit \in [Budgets -> Nat]

VARIABLES
  \* the API server and the rest of the cluster
  cr,          \* the HyperFleetConfig "cluster": live state and watch stream
  secret,      \* every Secret's resourceVersion (0: absent), likewise
  operand,     \* every operand's owner and content
  depStatus,   \* every component's Deployment status
  late,        \* applies on their way that nobody waits for any more
  idp,         \* the jwks_uri each issuer publishes (NoURI: unreachable)
  spent,       \* how often each kind of environment event has happened
  \* the operator process
  release,     \* its images and broker settings
  queued,      \* the singleton request is in the work queue
  ownedEvent,  \* an operand watch event is outstanding
  discovered,  \* discoveryCache: the last jwks_uri discovered per issuer
  \* the pass in progress
  pc,          \* the step it is at
  base,        \* the copy of the CR it read
  fresh,       \* that copy is still the live version
  at,          \* the Secret reference or operand it is at
  read,        \* the Secret versions read so far, per component and role
  url,         \* the resolved JWKS URL
  health,      \* the conditions collected so far
  failed       \* the pass has met an error

server   == <<operand, depStatus, late>>
outside  == <<idp, spent, release>>
locals   == <<base, fresh, at, read, url, health, failed>>
vars == <<cr, secret, operand, depStatus, late, idp, spent, release, queued,
          ownedEvent, discovered, pc, base, fresh, at, read, url, health,
          failed>>

-----------------------------------------------------------------------------
(***************************************************************************)
(* Values.                                                                 *)
(***************************************************************************)
NoCR == [uid |-> 0, gen |-> 0, spec |-> CHOOSE s \in Specs : TRUE,
         status |-> EmptyStatus]
CR == [uid : Nat, gen : Nat, spec : Specs, status : Status]

NoObject == [owner |-> 0, data |-> [of |-> "absent"]]
Object == [owner : Nat, data : Data \cup {[of |-> "absent"]}]
Exists(o) == operand[o].data.of # "absent"

\* An apply: the operand and what it is to become.
Write == [op : Operands, obj : Object]

DeploymentOf(c) == [comp |-> c, kind |-> "deployment"]

NothingRead == [c \in ComponentSet |-> NoEntries]

Live(stream)   == stream[Len(stream)]
Cached(stream) == Head(stream)

TypeOK ==
  /\ cr \in Seq(CR) \ {<<>>}
  /\ secret \in [SecretNames -> Seq(Nat) \ {<<>>}]
  /\ operand \in [Operands -> Object]
  /\ depStatus \in [ComponentSet -> DepStatus]
  /\ late \in SUBSET Write
  /\ idp \in [Issuers -> URIs \cup {NoURI}]
  /\ spent \in [Budgets -> Nat]
  /\ release \in Releases
  /\ queued \in BOOLEAN
  /\ ownedEvent \in BOOLEAN
  /\ discovered \in [Issuers -> URIs \cup {NoURI}]
  /\ pc \in {"down", "idle", "secrets", "discover", "apply", "refresh", "status"}
  /\ base \in CR
  /\ fresh \in BOOLEAN
  /\ at \in Nat
  /\ read \in [ComponentSet -> Entries]
  /\ url \in URIs \cup {NoURI}
  /\ health \in Health
  /\ failed \in BOOLEAN

-----------------------------------------------------------------------------
Init ==
  /\ cr = <<NoCR>>
  /\ secret = [s \in SecretNames |-> IF s \in Seeded THEN <<1>> ELSE <<0>>]
  /\ operand = [o \in Operands |-> NoObject]
  /\ depStatus = [c \in ComponentSet |-> NewDepStatus]
  /\ late = {}
  /\ idp \in [Issuers -> URIs \cup {NoURI}]
  /\ spent = [b \in Budgets |-> 0]
  /\ release \in Releases
  /\ queued = FALSE
  /\ ownedEvent = FALSE
  /\ discovered = [i \in Issuers |-> NoURI]
  /\ pc = "idle"
  /\ base = NoCR
  /\ fresh = FALSE
  /\ at = 0
  /\ read = NothingRead
  /\ url = NoURI
  /\ health = NoHealth
  /\ failed = FALSE

Spend(b) ==
  /\ spent[b] < Limit[b]
  /\ spent' = [spent EXCEPT ![b] = @ + 1]

-----------------------------------------------------------------------------
(***************************************************************************)
(* One pass of Reconcile.                                                  *)
(***************************************************************************)

\* Mutant: the Secret entries outlive the pass that read them.
ForgetPassButEntries ==
  /\ base' = NoCR
  /\ fresh' = FALSE
  /\ at' = 0
  /\ read' = read
  /\ url' = NoURI
  /\ health' = NoHealth
  /\ failed' = FALSE

\* No pass is in progress: its variables hold nothing.
ForgetPass ==
  /\ base' = NoCR
  /\ fresh' = FALSE
  /\ at' = 0
  /\ read' = NothingRead
  /\ url' = NoURI
  /\ health' = NoHealth
  /\ failed' = FALSE

\* The request leaves the queue and the CR is read from the cache.  A CR that
\* is gone ends the pass; a bundle that cannot be resolved fails it.
Begin ==
  /\ pc = "idle"
  /\ queued
  /\ queued' = FALSE
  /\ LET c == Cached(cr) IN
     \/ /\ c.uid = 0
        /\ UNCHANGED <<pc, locals>>
     \/ /\ c.uid # 0
        /\ base' = c
        /\ fresh' = (Len(cr) = 1)
        /\ IF Resolvable(c.spec)
             THEN pc' = "secrets" /\ at' = 1 /\ UNCHANGED failed
             ELSE pc' = "status" /\ failed' = TRUE /\ UNCHANGED at
        /\ UNCHANGED <<read, url, health>>
  /\ UNCHANGED <<cr, secret, server, outside, ownedEvent, discovered>>

\* The read of the CR itself fails: nothing is published, the queue retries.
GetFails ==
  /\ pc = "idle"
  /\ queued
  /\ Spend("fault")
  /\ UNCHANGED <<cr, secret, server, idp, release, queued, ownedEvent,
                 discovered, pc, locals>>

Refs == ReferencedSecrets(base.spec, release)

\* resolveSecretEntries, one reference: the cached version, 0 when absent.
ReadSecret ==
  /\ pc = "secrets"
  /\ read' = [read EXCEPT ![Refs[at].comp][Refs[at].role] =
                Cached(secret[Refs[at].name])]
  /\ IF at = Len(Refs)
       THEN pc' = "discover" /\ at' = 0
       ELSE pc' = pc /\ at' = at + 1
  /\ UNCHANGED <<cr, secret, server, outside, queued, ownedEvent, discovered,
                 base, fresh, url, health, failed>>

\* A failed read drops what was read for the same component and ends the pass.
ReadSecretFails ==
  /\ pc = "secrets"
  /\ Spend("fault")
  /\ read' = [read EXCEPT ![Refs[at].comp] = NoEntries]
  /\ failed' = TRUE
  /\ pc' = "status"
  /\ at' = 0
  /\ UNCHANGED <<cr, secret, server, idp, release, queued, ownedEvent,
                 discovered, base, fresh, url, health>>

\* Mutant: discovery failures are never bridged by the cache.
NoFallback(i) == NoURI

\* cachedDiscovery.
Fallback(i) == discovered[i]

\* resolveJWKSURL: discovery, with the last discovered value as the fallback.
ResolveJWKSURL ==
  /\ pc = "discover"
  /\ LET i == base.spec.issuer IN
     \/ /\ ~NeedsDiscovery(base.spec)
        /\ pc' = "apply" /\ at' = 1
        /\ UNCHANGED <<url, discovered, failed>>
     \/ /\ NeedsDiscovery(base.spec)
        /\ idp[i] # NoURI
        /\ url' = idp[i]
        /\ discovered' = [discovered EXCEPT ![i] = idp[i]]
        /\ pc' = "apply" /\ at' = 1
        /\ UNCHANGED failed
     \/ /\ NeedsDiscovery(base.spec)
        /\ idp[i] = NoURI
        /\ Fallback(i) # NoURI
        /\ url' = Fallback(i)
        /\ pc' = "apply" /\ at' = 1
        /\ UNCHANGED <<discovered, failed>>
     \/ /\ NeedsDiscovery(base.spec)
        /\ idp[i] = NoURI
        /\ Fallback(i) = NoURI
        /\ failed' = TRUE
        /\ pc' = "status"
        /\ UNCHANGED <<url, discovered, at>>
  /\ UNCHANGED <<cr, secret, server, outside, queued, ownedEvent, base, fresh,
                 read, health>>

\* Mutant: the controller reference is left out.
DesiredUnowned(o) ==
  [owner |-> 0,
   data  |-> Render(o, base.spec, url, release, read[o.comp])]

\* Mutant: the controller reference is set only when the operand is created.
DesiredKeepsOwner(o) ==
  [owner |-> IF Exists(o) THEN operand[o].owner ELSE base.uid,
   data  |-> Render(o, base.spec, url, release, read[o.comp])]

\* Mutant: a missing Secret leaves no entry in the hash.
DesiredSkipsMissing(o) ==
  [owner |-> base.uid,
   data  |-> Render(o, base.spec, url, release,
                    [r \in Roles |-> IF read[o.comp][r] = 0 THEN NotRead
                                                           ELSE read[o.comp][r]])]

\* Server-side apply of one operand: its content and its controller reference
\* are forced to the desired ones.  An apply that changes nothing is no event.
\* A changed Deployment has a generation its controller has not observed.
Desired(o) ==
  [owner |-> base.uid,
   data  |-> Render(o, base.spec, url, release, read[o.comp])]

Upsert(o, obj) ==
  /\ operand' = [operand EXCEPT ![o] = obj]
  /\ ownedEvent' = (pc # "down" /\ (ownedEvent \/ obj # operand[o]))
  /\ depStatus' =
       IF o.kind # "deployment" \/ obj.data = operand[o].data
         THEN depStatus
         ELSE [depStatus EXCEPT ![o.comp].observed = FALSE]

\* apply.Objects, one object: the apply, then the uncached read of it by a step
\* of its own.
ApplyOperand ==
  /\ pc = "apply"
  /\ Upsert(ApplyOrder[at], Desired(ApplyOrder[at]))
  /\ pc' = "refresh"
  /\ UNCHANGED <<cr, secret, late, outside, queued, discovered, locals>>

\* The apply returns an error; the write may have been carried out or not.
ApplyFails ==
  /\ pc = "apply"
  /\ Spend("fault")
  /\ \/ Upsert(ApplyOrder[at], Desired(ApplyOrder[at])) /\ UNCHANGED late
     \/ UNCHANGED <<server, ownedEvent>>
  /\ failed' = TRUE
  /\ pc' = "status"
  /\ at' = 0
  /\ UNCHANGED <<cr, secret, idp, release, queued, discovered, base, fresh,
                 read, url, health>>

\* The apply is sent and stays on its way.
Delay ==
  /\ pc = "apply"
  /\ Spend("late")
  /\ late' = late \cup {[op |-> ApplyOrder[at], obj |-> Desired(ApplyOrder[at])]}
  /\ UNCHANGED <<operand, depStatus>>

\* The call returns an error while the request is still on its way.
ApplyTimesOut ==
  /\ Delay
  /\ failed' = TRUE
  /\ pc' = "status"
  /\ at' = 0
  /\ UNCHANGED <<cr, secret, idp, release, queued, ownedEvent, discovered, base,
                 fresh, read, url, health>>

\* The object is read back live.  A component's Deployment is its last object:
\* its conditions are collected from what was read.  After the last component
\* the pass goes on to the status.
Refresh ==
  /\ pc = "refresh"
  /\ LET o == ApplyOrder[at] IN
     /\ Exists(o)
     /\ health' = IF o.kind = "deployment"
                    THEN [health EXCEPT ![o.comp] =
                            Conditions(operand[o].data.replicas,
                                       depStatus[o.comp])]
                    ELSE health
  /\ IF at = Len(ApplyOrder)
       THEN pc' = "status" /\ at' = 0
       ELSE pc' = "apply" /\ at' = at + 1
  /\ UNCHANGED <<cr, secret, server, outside, queued, ownedEvent, discovered,
                 base, fresh, read, url, failed>>

\* The read fails, or the object was deleted since the apply.
AbortRefresh ==
  /\ pc = "refresh"
  /\ failed' = TRUE
  /\ pc' = "status"
  /\ at' = 0
  /\ UNCHANGED <<cr, secret, server, idp, release, queued, ownedEvent,
                 discovered, base, fresh, read, url, health>>

RefreshNotFound ==
  /\ AbortRefresh
  /\ ~Exists(ApplyOrder[at])
  /\ UNCHANGED spent

RefreshFails ==
  /\ AbortRefresh
  /\ Spend("fault")

\* Mutant: the missing Secrets are reported by name instead of by role.
MissingSecretNames ==
  {Refs[i].name : i \in {j \in DOMAIN Refs : read[Refs[j].comp][Refs[j].role] = 0}}

\* The missing Secrets by role.  The set stands for the list in the status
\* message, its order and repetitions left out: a pass that read every Secret
\* sorts and compacts the list, one that failed on the way has the roles in the
\* order of the references, and a role once per reference.
MissingSecrets == {r \in Roles : \E c \in ComponentSet : read[c][r] = 0}

NewStatus ==
  aggregateStatus(base.status, base.gen, health, MissingSecrets, failed)

\* Mutant: a failed request is not retried.
EndPassDropsError(err) ==
  /\ pc' = "idle"
  /\ queued' = queued
  /\ ForgetPass

\* A failed request goes back to the queue, rate limited; an event that came
\* in while the pass ran has already put it there.
EndPass(err) ==
  /\ pc' = "idle"
  /\ queued' = (queued \/ err)
  /\ ForgetPass

\* Mutant: the status is written without a resourceVersion.
WriteForced == TRUE

\* The write is accepted only for the version the pass read.
WriteAccepted == fresh

\* The deferred status update: skipped when nothing changed, rejected when the
\* copy the pass read is no longer the live version.
UpdateStatus ==
  /\ pc = "status"
  /\ \/ /\ NewStatus = base.status
        /\ UNCHANGED cr
        /\ EndPass(failed)
     \/ /\ NewStatus # base.status
        /\ WriteAccepted
        /\ cr' = Append(cr, [Live(cr) EXCEPT !.status = NewStatus])
        /\ EndPass(failed)
     \/ /\ NewStatus # base.status
        /\ ~WriteAccepted
        /\ UNCHANGED cr
        /\ EndPass(TRUE)
  /\ UNCHANGED <<secret, server, outside, ownedEvent, discovered>>

\* The update returns an error; the write may have been carried out or not.
UpdateStatusFails ==
  /\ pc = "status"
  /\ NewStatus # base.status
  /\ Spend("fault")
  /\ \/ WriteAccepted /\ cr' = Append(cr, [Live(cr) EXCEPT !.status = NewStatus])
     \/ UNCHANGED cr
  /\ EndPass(TRUE)
  /\ UNCHANGED <<secret, server, idp, release, ownedEvent, discovered>>

-----------------------------------------------------------------------------
(***************************************************************************)
(* The informers: a watch event reaches the cache and the work queue.      *)
(***************************************************************************)

\* Mutant: the CR is watched with a generation-changed predicate.
GenerationChanged(old, new) == old.uid # new.uid \/ old.gen # new.gen

\* The CR is watched without a predicate: the operator's own status updates
\* wake it too.
ConfigEventEnqueues(old, new) == TRUE

DeliverConfig ==
  /\ pc # "down"
  /\ Len(cr) > 1
  /\ cr' = Tail(cr)
  /\ queued' = (queued \/ ConfigEventEnqueues(cr[1], cr[2]))
  /\ UNCHANGED <<secret, server, outside, ownedEvent, discovered, pc, locals>>

\* Any Secret of the namespace whose resourceVersion changed wakes the operator.
SecretEventEnqueues(s, old, new) == new # old

DeliverSecret(s) ==
  /\ pc # "down"
  /\ Len(secret[s]) > 1
  /\ secret' = [secret EXCEPT ![s] = Tail(@)]
  /\ queued' = (queued \/ SecretEventEnqueues(s, secret[s][1], secret[s][2]))
  /\ UNCHANGED <<cr, server, outside, ownedEvent, discovered, pc, locals>>

\* Mutant: the operand types are not watched.
DropOwned ==
  /\ pc # "down"
  /\ ownedEvent
  /\ ownedEvent' = FALSE
  /\ UNCHANGED <<cr, secret, server, outside, queued, discovered, pc, locals>>

\* The Owns() watches.
DeliverOwned ==
  /\ pc # "down"
  /\ ownedEvent
  /\ ownedEvent' = FALSE
  /\ queued' = TRUE
  /\ UNCHANGED <<cr, secret, server, outside, discovered, pc, locals>>

\* The informers' periodic resync.
Resync ==
  /\ pc # "down"
  /\ ~queued
  /\ Spend("resync")
  /\ queued' = TRUE
  /\ UNCHANGED <<cr, secret, server, idp, release, ownedEvent, discovered, pc,
                 locals>>

-----------------------------------------------------------------------------
(***************************************************************************)
(* Crash and restart.  Everything the process held is lost; the restarted  *)
(* one lists its objects, possibly as another release, and the listing     *)
(* enqueues the request.                                                   *)
(***************************************************************************)
Die ==
  /\ pc # "down"
  /\ pc' = "down"
  /\ queued' = FALSE
  /\ ownedEvent' = FALSE
  /\ discovered' = [i \in Issuers |-> NoURI]
  /\ ForgetPass
  /\ UNCHANGED <<cr, secret, idp, release>>

Crash == Die /\ Spend("crash") /\ UNCHANGED server

\* A process that dies, or loses its lease and exits, leaves an apply behind.
CrashInApply == Die /\ Delay

\* The apply arrives after all: during a later pass, or under the process that
\* has taken over, or after the HyperFleetConfig is gone.
Land(w) ==
  /\ w \in late
  /\ late' = late \ {w}
  /\ Upsert(w.op, w.obj)
  /\ UNCHANGED <<cr, secret, outside, queued, discovered, pc, locals>>

Restart ==
  /\ pc = "down"
  /\ pc' = "idle"
  /\ release' \in Releases
  /\ cr' = <<Live(cr)>>
  /\ secret' = [s \in SecretNames |-> <<Live(secret[s])>>]
  /\ ownedEvent' = FALSE
  /\ queued' = TRUE
  /\ UNCHANGED <<server, idp, spent, discovered, locals>>

-----------------------------------------------------------------------------
(***************************************************************************)
(* Users and the rest of the cluster.                                      *)
(***************************************************************************)
operatorState == <<release, queued, discovered, pc, base, at, read, url,
                   health, failed>>

\* The API server accepts a write of the CR.
WriteConfig(new) ==
  /\ cr' = Append(cr, new)
  /\ fresh' = FALSE

CreateConfig(s) ==
  /\ Live(cr).uid = 0
  /\ Spend("create")
  /\ WriteConfig([uid |-> spent["create"] + 1, gen |-> 1, spec |-> s,
                  status |-> EmptyStatus])
  /\ UNCHANGED <<secret, server, idp, ownedEvent, operatorState>>

\* The bundle is immutable; every other field may be edited.
EditConfig(s) ==
  /\ Live(cr).uid # 0
  /\ s # Live(cr).spec
  /\ s.bundle = Live(cr).spec.bundle
  /\ Spend("edit")
  /\ WriteConfig([Live(cr) EXCEPT !.spec = s, !.gen = @ + 1])
  /\ UNCHANGED <<secret, server, idp, ownedEvent, operatorState>>

DeleteConfig ==
  /\ Live(cr).uid # 0
  /\ Spend("delete")
  /\ WriteConfig(NoCR)
  /\ UNCHANGED <<secret, server, idp, ownedEvent, operatorState>>

\* A Secret is created or rotated (v is a new resourceVersion) or deleted.
WriteSecret(s, v) ==
  /\ v # 0 \/ Live(secret[s]) # 0
  /\ Spend("secret")
  /\ secret' = [secret EXCEPT ![s] = Append(@, v)]
  /\ UNCHANGED <<cr, server, idp, ownedEvent, fresh, operatorState>>

NewVersion == spent["secret"] + 2

\* An issuer publishes another jwks_uri, becomes unreachable or recovers.
ChangeIdP(i, u) ==
  /\ idp[i] # u
  /\ Spend("idp")
  /\ idp' = [idp EXCEPT ![i] = u]
  /\ UNCHANGED <<cr, secret, server, ownedEvent, fresh, operatorState>>

\* The Deployment controller reports progress.
ReportHealth(c, st) ==
  /\ Exists(DeploymentOf(c))
  /\ depStatus[c] # st
  /\ Spend("health")
  /\ depStatus' = [depStatus EXCEPT ![c] = st]
  /\ ownedEvent' = (pc # "down")
  /\ UNCHANGED <<cr, secret, operand, late, idp, fresh, operatorState>>

\* Somebody edits an operand behind the operator's back.
EditOperand(o, n) ==
  /\ Exists(o)
  /\ operand[o].data # Drifted(n)
  /\ Spend("drift")
  /\ operand' = [operand EXCEPT ![o].data = Drifted(n)]
  /\ depStatus' = IF o.kind = "deployment"
                    THEN [depStatus EXCEPT ![o.comp].observed = FALSE]
                    ELSE depStatus
  /\ ownedEvent' = (pc # "down")
  /\ UNCHANGED <<cr, secret, late, idp, fresh, operatorState>>

RemoveObject(o) ==
  /\ operand' = [operand EXCEPT ![o] = NoObject]
  /\ depStatus' = IF o.kind = "deployment"
                    THEN [depStatus EXCEPT ![o.comp] = NewDepStatus]
                    ELSE depStatus
  /\ ownedEvent' = (pc # "down")
  /\ UNCHANGED late

DeleteOperand(o) ==
  /\ Exists(o)
  /\ Spend("drift")
  /\ RemoveObject(o)
  /\ UNCHANGED <<cr, secret, idp, fresh, operatorState>>

\* The garbage collector removes an operand whose owner is gone.
CollectGarbage(o) ==
  /\ Exists(o)
  /\ operand[o].owner # 0
  /\ operand[o].owner # Live(cr).uid
  /\ RemoveObject(o)
  /\ UNCHANGED <<cr, secret, idp, spent, fresh, operatorState>>

-----------------------------------------------------------------------------
Pass ==
  \/ Begin
  \/ ReadSecret
  \/ ResolveJWKSURL
  \/ ApplyOperand
  \/ Refresh
  \/ RefreshNotFound
  \/ UpdateStatus

Faults ==
  \/ GetFails
  \/ ReadSecretFails
  \/ ApplyFails
  \/ ApplyTimesOut
  \/ RefreshFails
  \/ UpdateStatusFails

Users ==
  \/ \E s \in Specs : CreateConfig(s)
  \/ \E s \in Specs : EditConfig(s)
  \/ DeleteConfig
  \/ \E s \in SecretNames : \E v \in {0, NewVersion} : WriteSecret(s, v)
  \/ \E i \in Issuers : \E u \in URIs \cup {NoURI} : ChangeIdP(i, u)
  \/ \E c \in ComponentSet : \E st \in DepStatuses : ReportHealth(c, st)
  \/ \E o \in Operands :
       \E n \in IF o.kind = "deployment" THEN {0, 1, 2} ELSE {1} : EditOperand(o, n)
  \/ \E o \in Operands : DeleteOperand(o)

Next ==
  \/ Pass
  \/ Faults
  \/ DeliverConfig
  \/ \E s \in SecretNames : DeliverSecret(s)
  \/ DeliverOwned
  \/ Resync
  \/ Crash
  \/ CrashInApply
  \/ \E w \in late : Land(w)
  \/ Restart
  \/ Users
  \/ \E o \in Operands : CollectGarbage(o)

Spec == Init /\ [][Next]_vars

(***************************************************************************)
(* The operator's worker, its informers, the kubelet's restart of a        *)
(* crashed operator and the garbage collector keep running.  Users, the    *)
(* Deployment controller and faults owe nothing.                           *)
(***************************************************************************)
Fairness ==
  /\ WF_vars(Pass)
  /\ WF_vars(DeliverConfig)
  /\ \A s \in SecretNames : WF_vars(DeliverSecret(s))
  /\ WF_vars(DeliverOwned)
  /\ WF_vars(Restart)
  /\ \A o \in Operands : WF_vars(CollectGarbage(o))

FairSpec == Spec /\ Fairness

-----------------------------------------------------------------------------
(***************************************************************************)
(* Properties.                                                             *)
(***************************************************************************)

\* The operator has nothing to do and nothing is on its way to it.
Quiet ==
  /\ pc = "idle"
  /\ ~queued
  /\ ~ownedEvent
  /\ Len(cr) = 1
  /\ \A s \in SecretNames : Len(secret[s]) = 1

\* The Secret versions a component would read now.
LiveEntries(c) ==
  LET refs == ReferencedSecrets(Live(cr).spec, release)
      mine == {i \in DOMAIN refs : refs[i].comp = c}
  IN [r \in Roles |->
        IF \E i \in mine : refs[i].role = r
          THEN Live(secret[refs[CHOOSE i \in mine : refs[i].role = r].name])
          ELSE NotRead]

\* The operand is what the live spec, the live Secrets, the last discovered
\* key endpoint and the running release call for, and the live CR owns it.
UpToDate(o) ==
  operand[o] =
    [owner |-> Live(cr).uid,
     data  |-> Render(o, Live(cr).spec, discovered[Live(cr).spec.issuer],
                      release, LiveEntries(o.comp))]

(***************************************************************************)
(* No change is ever missed: whenever the operator comes to rest while a   *)
(* HyperFleetConfig exists, every operand matches the live spec and the    *)
(* live Secrets.  This is Reconcile's "level-based" claim, and rests on    *)
(* every watch enqueueing, on a failed pass being retried, and on events   *)
(* during a pass putting the request back into the queue.                  *)
(***************************************************************************)
ConvergedWhenQuiet ==
  Quiet /\ Live(cr).uid # 0 => \A o \in Operands : UpToDate(o)

(***************************************************************************)
(* At rest the published status tells the truth: it is for the current     *)
(* generation, its conditions are those of the live Deployments, and it    *)
(* names exactly the referenced Secrets that are missing.  aggregateStatus *)
(* decides whether to write by comparing with a cached status that may be  *)
(* stale, so this also rests on the operator's own status updates waking   *)
(* it again.                                                               *)
(***************************************************************************)
StatusTrueWhenQuiet ==
  Quiet /\ Live(cr).uid # 0 =>
    LET now  == [c \in ComponentSet |->
                   Conditions(operand[DeploymentOf(c)].data.replicas,
                              depStatus[c])]
        gone == {r \in Roles : \E c \in ComponentSet : LiveEntries(c)[r] = 0}
    IN Live(cr).status =
         aggregateStatus(EmptyStatus, Live(cr).gen, now, gone, FALSE)

(***************************************************************************)
(* status.observedGeneration is "the .metadata.generation the operator     *)
(* last acted on": while it names the current generation, every operand    *)
(* carries that generation's spec, at every step and not only at rest.     *)
(* Out-of-band edits, and applies that arrive after their pass has ended,  *)
(* are the exception until they are healed.                                *)
(***************************************************************************)
ObservedGenerationIsApplied ==
  /\ Live(cr).uid # 0
  /\ Live(cr).status.observedGeneration = Live(cr).gen
  /\ spent["drift"] = 0
  /\ spent["late"] = 0
  => \A o \in Operands :
       /\ Exists(o)
       /\ \E u \in URIs \cup {NoURI}, rel \in Releases :
            operand[o] =
              [owner |-> Live(cr).uid,
               data  |-> Render(o, Live(cr).spec, u, rel,
                                IF o.kind = "deployment"
                                  THEN operand[o].data.hash.secrets
                                  ELSE NoEntries)]

(***************************************************************************)
(* The generations of one status are ordered: Available, Progressing and   *)
(* the per-component entries are all for observedGeneration, Degraded is   *)
(* for that generation or a later one, and none is ahead of the CR.  A     *)
(* failed pass may advance Degraded alone.                                 *)
(***************************************************************************)
GenerationsOrdered(c) ==
  /\ c.status.available.gen = c.status.observedGeneration
  /\ c.status.progressing.gen = c.status.observedGeneration
  /\ c.status.components.gen = c.status.observedGeneration
  /\ c.status.observedGeneration <= c.status.degraded.gen
  /\ c.status.degraded.gen <= c.gen

StatusGenerationsOrdered == GenerationsOrdered(Live(cr))

(***************************************************************************)
(* A HyperFleetConfig's observedGeneration never goes back.  A pass works  *)
(* on a cached copy that users may have overtaken; only the API server's   *)
(* conflict check keeps its status update from undoing a newer one.        *)
(***************************************************************************)
ObservedGenerationMonotone ==
  [][Live(cr').uid = Live(cr).uid =>
       Live(cr').status.observedGeneration >= Live(cr).status.observedGeneration]_cr

(***************************************************************************)
(* A Deployment is never rolled to a config hash whose ConfigMap is not    *)
(* on the server yet, so no pod of the new template can start on the old   *)
(* configuration.  It rests on Render listing the workload last, and on no *)
(* apply arriving after its pass has ended.  Only somebody else's edit or  *)
(* deletion of the ConfigMap between the two applies comes in between: the *)
(* ConfigMap is then that edit's, never another Render's.                  *)
(***************************************************************************)
ConfigBeforeWorkload ==
  [][\A c \in ComponentSet :
       LET d == DeploymentOf(c)
           m == [comp |-> c, kind |-> "configmap"]
       IN /\ spent["late"] = 0
          /\ operand'[d] # operand[d]
          /\ operand'[d].data.of = "deployment"
          /\ operand'[d].owner = Live(cr').uid
          => \/ operand'[m].data = operand'[d].data.hash.config
             \/ /\ spent["drift"] > 0
                /\ operand'[m].data.of \in {"absent", "drifted"}]_operand

\* Nothing the operator can do would help: the bundle has no entity set, or
\* the issuer is unreachable and this process has never reached it.
Blocked ==
  /\ Live(cr).uid # 0
  /\ \/ ~Resolvable(Live(cr).spec)
     \/ /\ NeedsDiscovery(Live(cr).spec)
        /\ idp[Live(cr).spec.issuer] = NoURI
        /\ discovered[Live(cr).spec.issuer] = NoURI

(***************************************************************************)
(* Once users, faults and crashes stop, the operator comes to rest with    *)
(* every operand up to date, or with no operand left when the              *)
(* HyperFleetConfig is gone.  In particular its own status updates and     *)
(* applies do not keep waking it forever, and an unreachable issuer that   *)
(* it has reached before does not stop a Secret rotation.                  *)
(***************************************************************************)
Settles ==
  <>[](\/ Blocked
       \/ /\ Quiet
          /\ IF Live(cr).uid = 0
               THEN \A o \in Operands : ~Exists(o)
               ELSE \A o \in Operands : UpToDate(o))

-----------------------------------------------------------------------------
(***************************************************************************)
(* The inductive invariant behind the type invariant and the order of the  *)
(* generations: the pass is at a reference or an operand that exists,      *)
(* every version of the CR the watch still holds and the copy the pass     *)
(* read are in order, and a copy held to be fresh is the live version.     *)
(***************************************************************************)
InRange ==
  /\ pc = "secrets" => at \in 1..Len(Refs)
  /\ pc \in {"apply", "refresh"} => at \in 1..Len(ApplyOrder)

FreshIsLive == fresh => base = Live(cr)

AllInOrder ==
  /\ \A i \in 1..Len(cr) : GenerationsOrdered(cr[i])
  /\ GenerationsOrdered(base)

IInv == TypeOK /\ InRange /\ FreshIsLive /\ AllInOrder
=============================================================================
