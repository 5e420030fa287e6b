------------------------ MODULE ReconcilerRestProofs ------------------------
(***************************************************************************)
(* Whenever the operator comes to rest, operands and status are as the     *)
(* live HyperFleetConfig, Secrets, Deployments and release call for.       *)
(*                                                                         *)
(* The argument: every change the operator has not acted on yet keeps it   *)
(* awake.  So a pass during which it is not awake has read nothing but     *)
(* live values, and what it has applied and collected still stands.        *)
(***************************************************************************)
EXTENDS ReconcilerProofs

\* Another pass is due: it is queued, or an event that will queue it is under
\* way.
Awake ==
  \/ queued
  \/ ownedEvent
  \/ Len(cr) > 1
  \/ \E s \in SecretNames : Len(secret[s]) > 1

InPass == pc \notin {"idle", "down"}

\* How many references the pass has read.
ReadSoFar == IF pc = "secrets" THEN at - 1 ELSE Len(Refs)

\* The i-th operand has been applied, and read back, by the pass.
Applied(i) ==
  \/ pc = "apply" /\ i < at
  \/ pc = "refresh" /\ i <= at
  \/ pc = "status"

ReadBack(i) ==
  \/ pc \in {"apply", "refresh"} /\ i < at
  \/ pc = "status"

\* Between passes nothing is kept of the last one.
Forgotten ==
  ~InPass => /\ base = NoCR /\ read = NothingRead /\ url = NoURI
             /\ health = NoHealth /\ ~failed

\* A Secret's versions are told apart: a new one is higher than all before it,
\* and neighbours in the watch stream differ.
VersionsDiffer ==
  \A s \in SecretNames :
    /\ \A i \in 1..Len(secret[s]) : secret[s][i] <= spent["secret"] + 1
    /\ \A i \in 1..(Len(secret[s]) - 1) : secret[s][i] # secret[s][i + 1]

\* The pass has recorded the live version of every reference it has come to,
\* and nothing else.
ReadsLive ==
  /\ \A i \in 1..ReadSoFar :
       read[Refs[i].comp][Refs[i].role] = Live(secret[Refs[i].name])
  /\ \A c \in ComponentSet, r \in Roles :
       (\A i \in 1..ReadSoFar : ~(Refs[i].comp = c /\ Refs[i].role = r))
       => read[c][r] = NotRead

\* The key endpoint of the pass is the one last discovered.
URLDiscovered ==
  pc \in {"apply", "refresh", "status"} /\ NeedsDiscovery(base.spec)
  => url = discovered[base.spec.issuer]

\* What the pass has applied is on the server, and what it has collected is the
\* state of the Deployments.
AppliedStands ==
  \A i \in 1..Len(ApplyOrder) :
    /\ Applied(i) => operand[ApplyOrder[i]] = Desired(ApplyOrder[i])
    /\ ReadBack(i) /\ ApplyOrder[i].kind = "deployment" =>
         health[ApplyOrder[i].comp] =
           Conditions(operand[ApplyOrder[i]].data.replicas,
                      depStatus[ApplyOrder[i].comp])

\* A pass that has not failed and will not be repeated works on live values.
PassIsCurrent ==
  ~Awake /\ InPass /\ ~failed =>
    /\ base = Live(cr)
    /\ ReadsLive
    /\ URLDiscovered
    /\ AppliedStands

\* The published status is that of the live Deployments and Secrets.
StatusTrue ==
  LET now  == [c \in ComponentSet |->
                 Conditions(operand[DeploymentOf(c)].data.replicas,
                            depStatus[c])]
      gone == {r \in Roles : \E c \in ComponentSet : LiveEntries(c)[r] = 0}
  IN Live(cr).status = aggregateStatus(EmptyStatus, Live(cr).gen, now, gone, FALSE)

\* Operands and status are as they should be.
Settled == (\A o \in Operands : UpToDate(o)) /\ StatusTrue

RestIsCurrent == ~Awake /\ pc = "idle" /\ Live(cr).uid # 0 => Settled

Current == PassIsCurrent /\ RestIsCurrent

RestInv == Forgotten /\ VersionsDiffer /\ Current

-----------------------------------------------------------------------------
(***************************************************************************)
(* Steps that cannot hurt.                                                 *)
(***************************************************************************)

\* After a step that leaves the operator awake, or down, nothing is claimed.
LEMMA AwakeIsCurrent ==
  ASSUME Awake' \/ pc' = "down"
  PROVE  Current'
BY DEF Current, PassIsCurrent, RestIsCurrent, InPass

\* Nor of a pass that has failed.
LEMMA FailedIsCurrent ==
  ASSUME failed', pc' = "status"
  PROVE  Current'
BY DEF Current, PassIsCurrent, RestIsCurrent

\* A step that leaves everything that is spoken of alone.
LEMMA CurrentFrame ==
  ASSUME Current,
         UNCHANGED <<cr, secret, operand, depStatus, discovered, release,
                     queued, ownedEvent, pc, base, at, read, url, health,
                     failed>>
  PROVE  Current'
<1>1. Awake' = Awake /\ InPass' = InPass
  BY DEF Awake, InPass
<1>2. ReadsLive' = ReadsLive
  BY DEF ReadsLive, ReadSoFar, Refs
<1>3. URLDiscovered' = URLDiscovered
  BY DEF URLDiscovered
<1>4. AppliedStands' = AppliedStands
  BY DEF AppliedStands, Applied, ReadBack, Desired
<1>5. Settled' = Settled
  BY DEF Settled, UpToDate, StatusTrue, LiveEntries
<1> QED
  BY <1>1, <1>2, <1>3, <1>4, <1>5 DEF Current, PassIsCurrent, RestIsCurrent

-----------------------------------------------------------------------------
(***************************************************************************)
(* What a pass has read and applied.                                       *)
(***************************************************************************)

\* No component has a role twice among the references of the pass.
LEMMA RefsDistinct ==
  ASSUME TypeOK
  PROVE  /\ Distinct(Refs)
         /\ DOMAIN Refs = 1..Len(Refs)
         /\ Len(Refs) \in Nat \ {0}
         /\ \A i \in 1..Len(Refs) :
              /\ Refs[i].comp \in ComponentSet
              /\ Refs[i].role \in Roles
              /\ Refs[i].name \in SecretNames
<1>1. base.spec \in ConfigSpec /\ release \in Release
  BY SpecsAssumption, ReleasesAssumption DEF TypeOK, CR
<1>2. Refs \in Seq(SecretRef) /\ Distinct(Refs)
  BY <1>1, ReferencedSecretsType DEF Refs
<1>3. DOMAIN Refs = 1..Len(Refs)
  BY <1>2, LenProperties
<1> QED BY <1>2, <1>3, RefsType DEF SecretRef

\* A pass that is through with the references and has read live versions has
\* recorded what a component would read now.
LEMMA ReadIsLiveEntries ==
  ASSUME TypeOK, base = Live(cr), ReadsLive, pc # "secrets",
         NEW c \in ComponentSet
  PROVE  read[c] = LiveEntries(c)
<1> DEFINE mine == {i \in DOMAIN Refs : Refs[i].comp = c}
<1> DEFINE pick(r) == CHOOSE i \in mine : Refs[i].role = r
<1>1. LiveEntries(c) =
        [r \in Roles |-> IF \E i \in mine : Refs[i].role = r
                           THEN Live(secret[Refs[pick(r)].name]) ELSE NotRead]
  BY DEF LiveEntries, Refs
<1>2. read[c] \in Entries
  BY DEF TypeOK
<1>3. ASSUME NEW r \in Roles
      PROVE  read[c][r] = IF \E i \in mine : Refs[i].role = r
                            THEN Live(secret[Refs[pick(r)].name]) ELSE NotRead
  <2>1. CASE \E i \in mine : Refs[i].role = r
    <3>1. pick(r) \in mine /\ Refs[pick(r)].role = r
      BY <2>1
    <3>2. pick(r) \in 1..Len(Refs) /\ Refs[pick(r)].comp = c
      BY <3>1, RefsDistinct
    <3> HIDE DEF pick, mine
    <3>3. read[c][r] = Live(secret[Refs[pick(r)].name])
      BY <3>1, <3>2 DEF ReadsLive, ReadSoFar
    <3> QED BY <2>1, <3>3
  <2>2. CASE ~\E i \in mine : Refs[i].role = r
    <3>1. \A i \in 1..Len(Refs) : ~(Refs[i].comp = c /\ Refs[i].role = r)
      BY <2>2, RefsDistinct
    <3>2. read[c][r] = NotRead
      BY <3>1 DEF ReadsLive, ReadSoFar
    <3> QED BY <2>2, <3>2
  <2> QED BY <2>1, <2>2
<1> HIDE DEF mine, pick
<1> QED BY <1>1, <1>2, <1>3 DEF Entries

\* With no event under way the cached version is the live one.
LEMMA NothingUnderWay ==
  ASSUME NEW S, NEW s \in Seq(S) \ {<<>>}, ~(Len(s) > 1)
  PROVE  Len(s) = 1 /\ Cached(s) = Live(s)
<1>1. Len(s) \in Nat \ {0}
  BY StreamEnds
<1>2. \A n \in Nat \ {0} : ~(n > 1) => n = 1
  OBVIOUS
<1>3. Len(s) = 1
  BY <1>1, <1>2
<1> QED BY <1>3, StreamEnds

\* At the end of a pass on live values that has not failed, everything is as it
\* should be, provided that the status it would publish is the published one.
LEMMA PassSettles ==
  ASSUME TypeOK, pc = "status", ~failed, base = Live(cr), ReadsLive,
         URLDiscovered, AppliedStands, NewStatus = base.status
  PROVE  Settled
<1>1. \A c \in ComponentSet : read[c] = LiveEntries(c)
  BY ReadIsLiveEntries
<1>2. \A i \in 1..Len(ApplyOrder) :
        operand[ApplyOrder[i]] = Desired(ApplyOrder[i])
  BY DEF AppliedStands, Applied
<1>3. ASSUME NEW o \in Operands PROVE UpToDate(o)
  <2>1. PICK i \in 1..Len(ApplyOrder) : o = ApplyOrder[i]
    BY ApplyOrderType DEF Operands
  <2>2. o.comp \in ComponentSet
    BY ApplyOrderType DEF Operand
  <2>3. operand[o] =
          [owner |-> Live(cr).uid,
           data  |-> Render(o, Live(cr).spec, url, release, LiveEntries(o.comp))]
    BY <1>1, <1>2, <2>1, <2>2 DEF Desired
  <2>4. Render(o, Live(cr).spec, url, release, LiveEntries(o.comp)) =
        Render(o, Live(cr).spec, discovered[Live(cr).spec.issuer], release,
               LiveEntries(o.comp))
    <3>1. CASE NeedsDiscovery(Live(cr).spec)
      BY <3>1 DEF URLDiscovered
    <3>2. CASE ~NeedsDiscovery(Live(cr).spec)
      BY <3>2, RenderWithoutDiscovery
    <3> QED BY <3>1, <3>2
  <2> QED BY <2>3, <2>4 DEF UpToDate
<1> DEFINE now == [c \in ComponentSet |->
                     Conditions(operand[DeploymentOf(c)].data.replicas,
                                depStatus[c])]
<1> DEFINE gone == {r \in Roles : \E c \in ComponentSet : LiveEntries(c)[r] = 0}
<1>4. health = now
  <2>1. ASSUME NEW c \in ComponentSet
        PROVE  health[c] = Conditions(operand[DeploymentOf(c)].data.replicas,
                                      depStatus[c])
    <3>1. PICK i \in 1..Len(ApplyOrder) : ApplyOrder[i] = DeploymentOf(c)
      BY WorkloadOrder DEF DeploymentOf
    <3>2. ApplyOrder[i].kind = "deployment" /\ ApplyOrder[i].comp = c
      BY <3>1 DEF DeploymentOf
    <3> QED BY <3>1, <3>2 DEF AppliedStands, ReadBack
  <2>2. health \in [ComponentSet -> ComponentConditions]
    BY DEF TypeOK, Health
  <2> QED BY <2>1, <2>2
<1>5. MissingSecrets = gone
  BY <1>1 DEF MissingSecrets
<1>6. Live(cr).status = aggregateStatus(Live(cr).status, Live(cr).gen, now, gone, FALSE)
  <2> HIDE DEF now, gone
  <2>1. failed = FALSE
    BY DEF TypeOK
  <2> QED BY <1>4, <1>5, <2>1 DEF NewStatus
<1>7. StatusTrue
  <2> HIDE DEF now, gone
  <2>1. Live(cr).status = aggregateStatus(EmptyStatus, Live(cr).gen, now, gone, FALSE)
    BY <1>6 DEF aggregateStatus
  <2> QED BY <2>1 DEF StatusTrue, now, gone
<1> QED BY <1>3, <1>7 DEF Settled

-----------------------------------------------------------------------------
(***************************************************************************)
(* The steps of the pass.                                                  *)
(***************************************************************************)

\* A pass that starts while nothing is under way has the live CR.
LEMMA BeginIsCurrent ==
  ASSUME Typed, RestInv, Begin
  PROVE  Current'
<1>1. cr \in Seq(CR) \ {<<>>} /\ cr' = cr /\ secret' = secret
  BY DEF Typed, TypeOK, Begin
<1>2. CASE Cached(cr).uid = 0
  <2>1. pc' = "idle"
    BY <1>2 DEF Begin
  <2>2. ~Awake' => Live(cr') = Cached(cr)
    BY <1>1, NothingUnderWay DEF Awake
  <2> QED BY <1>2, <2>1, <2>2 DEF Current, PassIsCurrent, RestIsCurrent, InPass
<1>3. CASE Cached(cr).uid # 0 /\ ~Resolvable(Cached(cr).spec)
  <2>1. failed' /\ pc' = "status"
    BY <1>3 DEF Begin
  <2> QED BY <2>1, FailedIsCurrent
<1>4. CASE Cached(cr).uid # 0 /\ Resolvable(Cached(cr).spec)
  <2>1. base' = Cached(cr) /\ pc' = "secrets" /\ at' = 1 /\ read' = read
    BY <1>4 DEF Begin
  <2>2. read' = NothingRead
    BY <2>1 DEF RestInv, Forgotten, InPass, Begin
  <2>3. ~Awake' => base' = Live(cr')
    BY <1>1, <2>1, NothingUnderWay DEF Awake
  <2>4. ReadsLive'
    <3>1. ReadSoFar' = 0
      BY <2>1 DEF ReadSoFar
    <3>2. \A c \in ComponentSet, r \in Roles : read'[c][r] = NotRead
      BY <2>2 DEF NothingRead, NoEntries
    <3> QED BY <3>1, <3>2 DEF ReadsLive
  <2>5. URLDiscovered' /\ AppliedStands'
    BY <2>1 DEF URLDiscovered, AppliedStands, Applied, ReadBack
  <2> QED BY <2>1, <2>3, <2>4, <2>5 DEF Current, PassIsCurrent, RestIsCurrent
<1> QED BY <1>2, <1>3, <1>4

\* A Secret read while nothing is under way is read in its live version.
LEMMA ReadSecretIsCurrent ==
  ASSUME Typed, RestInv, ReadSecret
  PROVE  Current'
<1>1. /\ UNCHANGED <<cr, secret, operand, depStatus, discovered, release, queued,
                     ownedEvent, base, url, health, failed>>
      /\ pc = "secrets" /\ pc' \in {"secrets", "discover"}
  BY DEF ReadSecret, server, outside
<1> SUFFICES ASSUME ~Awake', ~failed' PROVE Current'
  BY <1>1 DEF Current, PassIsCurrent, RestIsCurrent
<1>2. ~Awake /\ ~failed /\ InPass
  BY <1>1 DEF Awake, InPass
<1>3. base = Live(cr) /\ ReadsLive
  BY <1>2 DEF RestInv, Current, PassIsCurrent
<1>4. Refs' = Refs
  BY <1>1 DEF Refs
<1> DEFINE c0 == Refs[at].comp
<1> DEFINE r0 == Refs[at].role
<1> DEFINE n0 == Refs[at].name
<1>5. /\ at \in 1..Len(Refs) /\ Len(Refs) \in Nat
      /\ c0 \in ComponentSet /\ r0 \in Roles /\ n0 \in SecretNames
  BY <1>1, RefsDistinct DEF Typed, InRange
<1>6. read' = [read EXCEPT ![c0][r0] = Cached(secret[n0])]
  BY DEF ReadSecret
<1>7. Cached(secret[n0]) = Live(secret[n0])
  <2>1. secret[n0] \in Seq(Nat) \ {<<>>}
    BY <1>5 DEF Typed, TypeOK
  <2>2. ~(Len(secret[n0]) > 1)
    BY <1>2, <1>5 DEF Awake
  <2> QED BY <2>1, <2>2, NothingUnderWay
<1>8. ReadSoFar' = at /\ ReadSoFar = at - 1
  BY <1>1, <1>4, <1>5 DEF ReadSoFar, ReadSecret
<1>9. /\ read'[c0][r0] = Live(secret[n0])
      /\ \A c \in ComponentSet, r \in Roles :
           ~(c = c0 /\ r = r0) => read'[c][r] = read[c][r]
  <2> HIDE DEF c0, r0, n0
  <2>1. read \in [ComponentSet -> [Roles -> Entry]]
    BY DEF Typed, TypeOK, Entries
  <2> QED BY <1>5, <1>6, <1>7, <2>1
<1>10. ASSUME NEW i \in 1..at
       PROVE  read'[Refs[i].comp][Refs[i].role] = Live(secret[Refs[i].name])
  <2>1. i \in 1..Len(Refs)
    BY <1>5
  <2>2. CASE i = at
    BY <1>9, <2>2
  <2>3. CASE i # at
    <3>1. ~(Refs[i].comp = c0 /\ Refs[i].role = r0)
      BY <1>5, <2>1, <2>3, RefsDistinct DEF Typed, Distinct
    <3>2. i \in 1..(at - 1)
      BY <1>5, <2>3
    <3>3. read[Refs[i].comp][Refs[i].role] = Live(secret[Refs[i].name])
      BY <1>3, <1>8, <3>2 DEF ReadsLive
    <3>4. Refs[i].comp \in ComponentSet /\ Refs[i].role \in Roles
      BY <2>1, RefsDistinct DEF Typed
    <3> HIDE DEF c0, r0, n0
    <3> QED BY <1>9, <3>1, <3>3, <3>4
  <2> QED BY <2>2, <2>3
<1>11. ASSUME NEW c \in ComponentSet, NEW r \in Roles,
              \A i \in 1..at : ~(Refs[i].comp = c /\ Refs[i].role = r)
       PROVE  read'[c][r] = NotRead
  <2>1. ~(c = c0 /\ r = r0)
    BY <1>5, <1>11
  <2>2. read[c][r] = NotRead
    BY <1>3, <1>5, <1>8, <1>11 DEF ReadsLive
  <2> HIDE DEF c0, r0, n0
  <2> QED BY <1>9, <2>1, <2>2
<1>12. ReadsLive'
  BY <1>1, <1>4, <1>8, <1>10, <1>11 DEF ReadsLive
<1>13. URLDiscovered' /\ AppliedStands'
  BY <1>1 DEF URLDiscovered, AppliedStands, Applied, ReadBack
<1>14. base' = Live(cr')
  BY <1>1, <1>3
<1> QED BY <1>1, <1>12, <1>13, <1>14 DEF Current, PassIsCurrent, RestIsCurrent

\* The endpoint the pass goes on with is the one last discovered.
LEMMA ResolveIsCurrent ==
  ASSUME Typed, RestInv, ResolveJWKSURL
  PROVE  Current'
<1>1. /\ UNCHANGED <<cr, secret, operand, depStatus, release, queued,
                     ownedEvent, base, read, health>>
      /\ pc = "discover"
  BY DEF ResolveJWKSURL, server, outside
<1>2. CASE failed' /\ pc' = "status"
  BY <1>2, FailedIsCurrent
<1>3. CASE pc' = "apply" /\ at' = 1 /\ failed' = failed
  <2> SUFFICES ASSUME ~Awake', ~failed' PROVE Current'
    BY <1>3 DEF Current, PassIsCurrent, RestIsCurrent
  <2>1. ~Awake /\ ~failed /\ InPass
    BY <1>1, <1>3 DEF Awake, InPass
  <2>2. base = Live(cr) /\ ReadsLive
    BY <2>1 DEF RestInv, Current, PassIsCurrent
  <2>3. base' = Live(cr')
    BY <1>1, <2>2
  <2>4. ReadsLive'
    BY <1>1, <1>3, <2>2 DEF ReadsLive, ReadSoFar, Refs
  <2>5. URLDiscovered'
    <3>1. base.spec.issuer \in Issuers /\ discovered \in [Issuers -> URIs \cup {NoURI}]
      BY SpecsAssumption DEF Typed, TypeOK, CR, ConfigSpec
    <3>2. NeedsDiscovery(base.spec) => url' = discovered'[base.spec.issuer]
      BY <1>3, <3>1 DEF ResolveJWKSURL, Fallback
    <3> QED BY <1>1, <3>2 DEF URLDiscovered
  <2>6. AppliedStands'
    BY <1>3 DEF AppliedStands, Applied, ReadBack
  <2> QED BY <1>3, <2>3, <2>4, <2>5, <2>6 DEF Current, PassIsCurrent, RestIsCurrent
<1> QED BY <1>2, <1>3 DEF ResolveJWKSURL

\* An apply that changes an operand wakes the operator; one that does not has
\* found it as desired.
LEMMA QuietUpsert ==
  ASSUME TypeOK, NEW o \in Operands, NEW obj, Upsert(o, obj), pc # "down", ~ownedEvent'
  PROVE  /\ operand[o] = obj
         /\ UNCHANGED <<operand, depStatus, ownedEvent>>
<1>1. obj = operand[o] /\ ~ownedEvent
  BY DEF Upsert
<1>2. operand' = operand
  BY <1>1 DEF Upsert, TypeOK
<1> QED BY <1>1, <1>2 DEF Upsert, TypeOK

\* The operand just applied is as desired.
LEMMA ApplyIsCurrent ==
  ASSUME Typed, RestInv, ApplyOperand
  PROVE  Current'
<1>1. /\ UNCHANGED <<cr, secret, discovered, release, queued, base, at, read,
                     url, health, failed>>
      /\ pc = "apply" /\ pc' = "refresh"
  BY DEF ApplyOperand, outside, locals
<1> SUFFICES ASSUME ~Awake', ~failed' PROVE Current'
  BY <1>1 DEF Current, PassIsCurrent, RestIsCurrent
<1>2. at \in 1..Len(ApplyOrder) /\ ApplyOrder[at] \in Operands
  BY <1>1, ApplyOrderType DEF Typed, InRange
<1>3. /\ operand[ApplyOrder[at]] = Desired(ApplyOrder[at])
      /\ UNCHANGED <<operand, depStatus, ownedEvent>>
  BY <1>1, <1>2, QuietUpsert DEF ApplyOperand, Typed, Awake
<1>4. ~Awake /\ ~failed /\ InPass
  BY <1>1, <1>3 DEF Awake, InPass
<1>5. base = Live(cr) /\ ReadsLive /\ URLDiscovered /\ AppliedStands
  BY <1>4 DEF RestInv, Current, PassIsCurrent
<1>6. base' = Live(cr') /\ ReadsLive' /\ URLDiscovered'
  BY <1>1, <1>5 DEF ReadsLive, ReadSoFar, Refs, URLDiscovered
<1>7. \A o : Desired(o)' = Desired(o)
  BY <1>1 DEF Desired
<1>8. ASSUME NEW i \in 1..Len(ApplyOrder), Applied(i)'
      PROVE  operand'[ApplyOrder[i]] = Desired(ApplyOrder[i])'
  <2>1. i <= at
    BY <1>1, <1>8 DEF Applied
  <2>2. i = at \/ Applied(i)
    BY <1>1, <1>2, <2>1 DEF Applied
  <2>3. operand[ApplyOrder[i]] = Desired(ApplyOrder[i])
    BY <1>3, <1>5, <2>2 DEF AppliedStands
  <2> QED BY <1>3, <1>7, <2>3
<1>9. AppliedStands'
  <2>1. \A i : ReadBack(i)' = ReadBack(i)
    BY <1>1 DEF ReadBack
  <2> QED BY <1>1, <1>3, <1>5, <1>8, <2>1 DEF AppliedStands
<1> QED BY <1>1, <1>6, <1>9 DEF Current, PassIsCurrent, RestIsCurrent

\* The conditions just collected are those of the live Deployment.
LEMMA RefreshIsCurrent ==
  ASSUME Typed, RestInv, Refresh
  PROVE  Current'
<1>1. /\ UNCHANGED <<cr, secret, operand, depStatus, discovered, release, queued,
                     ownedEvent, base, read, url, failed>>
      /\ pc = "refresh" /\ pc' \in {"apply", "status"}
  BY DEF Refresh, server, outside
<1> SUFFICES ASSUME ~Awake', ~failed' PROVE Current'
  BY <1>1 DEF Current, PassIsCurrent, RestIsCurrent
<1>2. ~Awake /\ ~failed /\ InPass
  BY <1>1 DEF Awake, InPass
<1>3. base = Live(cr) /\ ReadsLive /\ URLDiscovered /\ AppliedStands
  BY <1>2 DEF RestInv, Current, PassIsCurrent
<1>4. base' = Live(cr') /\ ReadsLive' /\ URLDiscovered'
  BY <1>1, <1>3 DEF ReadsLive, ReadSoFar, Refs, URLDiscovered
<1>5. /\ at \in 1..Len(ApplyOrder) /\ Len(ApplyOrder) \in Nat
      /\ ApplyOrder[at].comp \in ComponentSet
  BY <1>1, ApplyOrderType DEF Typed, InRange, Operand
<1>6. \A o : Desired(o)' = Desired(o)
  BY <1>1 DEF Desired
<1> DEFINE o0 == ApplyOrder[at]
<1> DEFINE cond(o) == Conditions(operand[o].data.replicas, depStatus[o.comp])
<1>7. ASSUME NEW i \in 1..Len(ApplyOrder)
      PROVE  /\ Applied(i)' => i <= at
             /\ ReadBack(i)' => i <= at
  <2>1. CASE at = Len(ApplyOrder)
    BY <1>5, <2>1
  <2>2. CASE at # Len(ApplyOrder)
    <3>1. pc' = "apply" /\ at' = at + 1
      BY <2>2 DEF Refresh
    <3> QED BY <1>5, <3>1 DEF Applied, ReadBack
  <2> QED BY <2>1, <2>2
<1>8. /\ o0.kind = "deployment" => health' = [health EXCEPT ![o0.comp] = cond(o0)]
      /\ o0.kind # "deployment" => health' = health
  BY DEF Refresh
<1>9. ASSUME NEW i \in 1..Len(ApplyOrder), ReadBack(i)',
             ApplyOrder[i].kind = "deployment"
      PROVE  health'[ApplyOrder[i].comp] = cond(ApplyOrder[i])
  <2>1. ApplyOrder[i] \in Operand /\ o0 \in Operand
    BY <1>5, ApplyOrderType
  <2>2. health \in [ComponentSet -> ComponentConditions]
    BY DEF Typed, TypeOK, Health
  <2>3. CASE ApplyOrder[i] = o0
    <3> HIDE DEF cond, o0
    <3>1. o0.comp \in ComponentSet
      BY <1>5 DEF o0
    <3> QED BY <1>8, <1>9, <2>2, <2>3, <3>1
  <2>4. CASE ApplyOrder[i] # o0
    <3>1. i < at
      BY <1>5, <1>7, <1>9, <2>4
    <3>2. health[ApplyOrder[i].comp] = cond(ApplyOrder[i])
      BY <1>1, <1>3, <1>9, <3>1 DEF AppliedStands, ReadBack
    <3>3. ~(o0.kind = "deployment" /\ o0.comp = ApplyOrder[i].comp)
      <4> HIDE DEF o0
      <4> QED BY <1>9, <2>1, <2>4 DEF Operand
    <3>4. ApplyOrder[i].comp \in ComponentSet
      BY <2>1 DEF Operand
    <3> HIDE DEF cond, o0
    <3> QED BY <1>8, <2>2, <3>2, <3>3, <3>4
  <2> QED BY <2>3, <2>4
<1>10. ASSUME NEW i \in 1..Len(ApplyOrder), Applied(i)'
       PROVE  operand'[ApplyOrder[i]] = Desired(ApplyOrder[i])'
  BY <1>1, <1>3, <1>6, <1>7, <1>10 DEF AppliedStands, Applied
<1>11. AppliedStands'
  BY <1>1, <1>9, <1>10 DEF AppliedStands
<1> QED BY <1>1, <1>4, <1>11 DEF Current, PassIsCurrent, RestIsCurrent

\* A pass that ends without waking the operator has settled everything.
LEMMA UpdateStatusIsCurrent ==
  ASSUME Typed, RestInv, UpdateStatus
  PROVE  Current'
<1>1. /\ UNCHANGED <<secret, operand, depStatus, release, ownedEvent, discovered>>
      /\ pc = "status" /\ pc' = "idle"
  BY DEF UpdateStatus, EndPass, server, outside
<1> SUFFICES ASSUME ~Awake' PROVE Current'
  BY AwakeIsCurrent
<1>2. cr \in Seq(CR) \ {<<>>} /\ Len(cr) \in Nat \ {0}
  BY StreamEnds DEF Typed, TypeOK
<1>3. cr' = cr
  <2>1. ASSUME cr' = Append(cr, [Live(cr) EXCEPT !.status = NewStatus])
        PROVE  FALSE
    <3>1. [Live(cr) EXCEPT !.status = NewStatus] \in CR
      BY StreamEnds, NewStatusType DEF Typed, TypeOK, CR
    <3>2. Len(cr') > 1
      BY <1>2, <2>1, <3>1, StreamAppend
    <3> QED BY <3>2 DEF Awake
  <2> QED BY <2>1 DEF UpdateStatus
<1>4. NewStatus = base.status /\ ~failed /\ ~queued
  <2>1. ~queued'
    BY DEF Awake
  <2>2. CASE NewStatus = base.status /\ EndPass(failed)
    BY <2>1, <2>2 DEF EndPass
  <2>3. CASE NewStatus # base.status /\ EndPass(TRUE)
    BY <2>1, <2>3 DEF EndPass
  <2>4. CASE cr' = Append(cr, [Live(cr) EXCEPT !.status = NewStatus])
    <3>1. [Live(cr) EXCEPT !.status = NewStatus] \in CR
      BY StreamEnds, NewStatusType DEF Typed, TypeOK, CR
    <3>2. Len(cr') > 1
      BY <1>2, <2>4, <3>1, StreamAppend
    <3> QED BY <3>2 DEF Awake
  <2> QED BY <2>2, <2>3, <2>4 DEF UpdateStatus
<1>5. ~Awake /\ InPass
  BY <1>1, <1>3, <1>4 DEF Awake, InPass
<1>6. base = Live(cr) /\ ReadsLive /\ URLDiscovered /\ AppliedStands
  BY <1>4, <1>5 DEF RestInv, Current, PassIsCurrent
<1>7. Settled
  BY <1>1, <1>4, <1>6, PassSettles DEF Typed
<1>8. Settled'
  <2>1. Settled' = Settled
    BY <1>1, <1>3 DEF Settled, UpToDate, StatusTrue, LiveEntries
  <2> QED BY <1>7, <2>1
<1> QED BY <1>1, <1>8 DEF Current, PassIsCurrent, RestIsCurrent, InPass

-----------------------------------------------------------------------------
(***************************************************************************)
(* Secret versions.                                                        *)
(***************************************************************************)

\* Other events do not count as writes of a Secret.
LEMMA SpendOther ==
  ASSUME TypeOK, NEW b \in Budgets \ {"secret"}, Spend(b)
  PROVE  spent'["secret"] = spent["secret"]
BY DEF TypeOK, Spend, Budgets

\* A write appends a version that differs from the live one.
LEMMA WriteSecretVersions ==
  ASSUME TypeOK, VersionsDiffer, NEW s \in SecretNames,
         NEW v \in {0, NewVersion}, WriteSecret(s, v)
  PROVE  VersionsDiffer' /\ Len(secret'[s]) > 1
<1> DEFINE w == secret[s]
<1>1. w \in Seq(Nat) \ {<<>>} /\ spent["secret"] \in Nat
  BY DEF TypeOK, Budgets
<1>2. v \in Nat /\ v <= spent["secret"] + 2 /\ (v # 0 => v = spent["secret"] + 2)
  BY <1>1 DEF NewVersion
<1>3. spent'["secret"] = spent["secret"] + 1
  BY DEF WriteSecret, Spend, TypeOK, Budgets
<1>4. /\ secret'[s] = Append(w, v)
      /\ \A t \in SecretNames \ {s} : secret'[t] = secret[t]
  BY DEF WriteSecret, TypeOK
<1>5. /\ Len(w) \in Nat \ {0}
      /\ Len(Append(w, v)) = Len(w) + 1
      /\ \A i \in 1..Len(w) : Append(w, v)[i] = w[i]
      /\ Append(w, v)[Len(w) + 1] = v
  BY <1>1, <1>2, StreamEnds, StreamAppend
<1>6. /\ \A i \in 1..Len(w) : w[i] <= spent["secret"] + 1
      /\ \A i \in 1..Len(w) : w[i] \in Nat
      /\ \A i \in 1..(Len(w) - 1) : w[i] # w[i + 1]
  BY <1>1, ElementOfSeq DEF VersionsDiffer
<1>7. w[Len(w)] # v
  <2>1. v # 0 \/ w[Len(w)] # 0
    BY DEF WriteSecret, Live
  <2>2. \A n \in Nat \ {0} : n \in 1..n
    OBVIOUS
  <2>3. Len(w) \in 1..Len(w)
    BY <1>5, <2>2
  <2>4. PICK x \in Nat : x = w[Len(w)] /\ x <= spent["secret"] + 1
    BY <1>6, <2>3
  <2>5. v # 0 => v # x
    BY <1>1, <1>2, <2>4
  <2> QED BY <2>1, <2>4, <2>5
<1> HIDE DEF w
<1>8. ASSUME NEW i \in 1..(Len(w) + 1)
      PROVE  Append(w, v)[i] <= spent["secret"] + 2
  <2>1. CASE i = Len(w) + 1
    BY <1>2, <1>5, <2>1
  <2>2. CASE i \in 1..Len(w)
    BY <1>1, <1>5, <1>6, <2>2
  <2> QED BY <1>5, <2>1, <2>2
<1>9. ASSUME NEW i \in 1..Len(w)
      PROVE  Append(w, v)[i] # Append(w, v)[i + 1]
  <2>1. CASE i = Len(w)
    BY <1>5, <1>7, <2>1
  <2>2. CASE i \in 1..(Len(w) - 1)
    <3>1. i + 1 \in 1..Len(w)
      BY <1>5, <2>2
    <3> QED BY <1>5, <1>6, <2>2, <3>1
  <2> QED BY <1>5, <2>1, <2>2
<1>10. ASSUME NEW t \in SecretNames
       PROVE  /\ \A i \in 1..Len(secret'[t]) : secret'[t][i] <= spent'["secret"] + 1
              /\ \A i \in 1..(Len(secret'[t]) - 1) : secret'[t][i] # secret'[t][i + 1]
  <2>1. CASE t = s
    <3>1. Len(secret'[t]) = Len(w) + 1 /\ Len(secret'[t]) - 1 = Len(w)
      BY <1>4, <1>5, <2>1
    <3>2. spent'["secret"] + 1 = spent["secret"] + 2
      BY <1>1, <1>3
    <3> QED BY <1>4, <1>8, <1>9, <2>1, <3>1, <3>2
  <2>2. CASE t # s
    <3>1. secret'[t] = secret[t] /\ secret[t] \in Seq(Nat)
      BY <1>4, <2>2 DEF TypeOK
    <3>2. \A i \in 1..Len(secret[t]) :
            secret[t][i] \in Nat /\ secret[t][i] <= spent["secret"] + 1
      BY <3>1, ElementOfSeq DEF VersionsDiffer
    <3>3. \A i \in 1..Len(secret[t]) : secret[t][i] <= spent'["secret"] + 1
      BY <1>1, <1>3, <3>2
    <3> QED BY <3>1, <3>3 DEF VersionsDiffer
  <2> QED BY <2>1, <2>2
<1> QED BY <1>4, <1>5, <1>10 DEF VersionsDiffer

\* A delivery takes one version off, and the next one differs from it.
LEMMA DeliverSecretVersions ==
  ASSUME TypeOK, VersionsDiffer, NEW s \in SecretNames, DeliverSecret(s)
  PROVE  VersionsDiffer' /\ queued'
<1> DEFINE w == secret[s]
<1>1. w \in Seq(Nat) \ {<<>>} /\ Len(w) > 1
  BY DEF TypeOK, DeliverSecret
<1>2. /\ Len(w) \in Nat
      /\ Len(Tail(w)) = Len(w) - 1
      /\ \A i \in 1..Len(Tail(w)) : Tail(w)[i] = w[i + 1]
  BY <1>1, StreamEnds, StreamTail
<1>3. /\ secret'[s] = Tail(w) /\ spent' = spent
      /\ \A t \in SecretNames \ {s} : secret'[t] = secret[t]
  BY DEF DeliverSecret, TypeOK, outside
<1>4. /\ \A i \in 1..Len(w) : w[i] <= spent["secret"] + 1
      /\ \A i \in 1..(Len(w) - 1) : w[i] # w[i + 1]
  BY DEF VersionsDiffer
<1>5. queued'
  <2>1. w[1] # w[1 + 1]
    BY <1>1, <1>2, <1>4
  <2>2. w[1] # w[2]
    BY <2>1
  <2> QED BY <2>2 DEF DeliverSecret, SecretEventEnqueues
<1> HIDE DEF w
<1>6. /\ \A i \in 1..Len(Tail(w)) : Tail(w)[i] <= spent["secret"] + 1
      /\ \A i \in 1..(Len(Tail(w)) - 1) : Tail(w)[i] # Tail(w)[i + 1]
  <2>1. ASSUME NEW i \in 1..Len(Tail(w)) PROVE Tail(w)[i] <= spent["secret"] + 1
    <3>1. i + 1 \in 1..Len(w)
      BY <1>1, <1>2
    <3> QED BY <1>2, <1>4, <3>1
  <2>2. ASSUME NEW i \in 1..(Len(Tail(w)) - 1) PROVE Tail(w)[i] # Tail(w)[i + 1]
    <3>1. i \in 1..Len(Tail(w)) /\ i + 1 \in 1..Len(Tail(w)) /\ i + 1 \in 1..(Len(w) - 1)
      BY <1>1, <1>2
    <3> QED BY <1>2, <1>4, <3>1
  <2> QED BY <2>1, <2>2
<1> QED BY <1>3, <1>5, <1>6 DEF VersionsDiffer

\* A listing starts from the live versions.
LEMMA RestartVersions ==
  ASSUME TypeOK, VersionsDiffer, Restart
  PROVE  VersionsDiffer'
<1> SUFFICES ASSUME NEW s \in SecretNames
             PROVE  /\ \A i \in 1..Len(secret'[s]) :
                         secret'[s][i] <= spent'["secret"] + 1
                    /\ \A i \in 1..(Len(secret'[s]) - 1) :
                         secret'[s][i] # secret'[s][i + 1]
  BY DEF VersionsDiffer
<1>1. secret[s] \in Seq(Nat) \ {<<>>}
  BY DEF TypeOK
<1>2. Len(secret[s]) \in Nat \ {0} /\ Live(secret[s]) \in Nat
  BY <1>1, StreamEnds
<1>3. secret'[s] = <<Live(secret[s])>> /\ spent' = spent
  BY DEF Restart
<1>4. Live(secret[s]) <= spent["secret"] + 1
  BY <1>2 DEF VersionsDiffer, Live
<1>5. Len(secret'[s]) = 1 /\ secret'[s][1] = Live(secret[s])
  BY <1>2, <1>3, StreamOne
<1> QED BY <1>3, <1>4, <1>5

\* The other steps leave the Secrets alone.
LEMMA VersionsStep ==
  ASSUME TypeOK, VersionsDiffer, Next
  PROVE  VersionsDiffer'
<1>1. CASE secret' = secret /\ spent'["secret"] = spent["secret"]
  BY <1>1 DEF VersionsDiffer
<1>2. CASE secret' = secret /\ spent' = spent
  BY <1>1, <1>2
<1>3. CASE secret' = secret /\ \E b \in Budgets \ {"secret"} : Spend(b)
  BY <1>1, <1>3, SpendOther
<1>4. CASE Pass
  <2>1. secret' = secret /\ spent' = spent
    BY <1>4
    DEF Pass, Begin, ReadSecret, ResolveJWKSURL, ApplyOperand, Refresh,
        RefreshNotFound, AbortRefresh, UpdateStatus, outside
  <2> QED BY <1>2, <2>1
<1>5. CASE Faults
  <2>1. secret' = secret /\ (Spend("fault") \/ Spend("late"))
    BY <1>5
    DEF Faults, GetFails, ReadSecretFails, ApplyFails, ApplyTimesOut, Delay,
        RefreshFails, AbortRefresh, UpdateStatusFails
  <2> QED BY <1>3, <2>1 DEF Budgets
<1>6. CASE \E s \in SecretNames : DeliverSecret(s)
  BY <1>6, DeliverSecretVersions
<1>7. CASE Restart
  BY <1>7, RestartVersions
<1>8. CASE DeliverConfig \/ DeliverOwned \/ Resync \/ Crash \/ CrashInApply
           \/ \E w \in late : Land(w)
  <2>1. /\ secret' = secret
        /\ spent' = spent \/ Spend("resync") \/ Spend("crash") \/ Spend("late")
    BY <1>8
    DEF DeliverConfig, DeliverOwned, Resync, Crash, CrashInApply, Die, Delay,
        Land, outside
  <2> QED BY <1>2, <1>3, <2>1 DEF Budgets
<1>9. CASE \E s \in SecretNames : \E v \in {0, NewVersion} : WriteSecret(s, v)
  BY <1>9, WriteSecretVersions
<1>10. CASE \/ \E s \in Specs : CreateConfig(s) \/ EditConfig(s)
            \/ DeleteConfig
            \/ \E i \in Issuers : \E u \in URIs \cup {NoURI} : ChangeIdP(i, u)
            \/ \E c \in ComponentSet : \E st \in DepStatuses : ReportHealth(c, st)
            \/ \E o \in Operands :
                 \E n \in IF o.kind = "deployment" THEN {0, 1, 2} ELSE {1} :
                   EditOperand(o, n)
            \/ \E o \in Operands : DeleteOperand(o)
            \/ \E o \in Operands : CollectGarbage(o)
  <2>1. /\ secret' = secret
        /\ \/ spent' = spent
           \/ \E b \in {"create", "edit", "delete", "idp", "health", "drift"} :
                Spend(b)
    BY <1>10
    DEF CreateConfig, EditConfig, DeleteConfig, ChangeIdP, ReportHealth,
        EditOperand, DeleteOperand, CollectGarbage
  <2> QED BY <1>2, <1>3, <2>1 DEF Budgets
<1> QED BY <1>4, <1>5, <1>6, <1>7, <1>8, <1>9, <1>10 DEF Next, Users

-----------------------------------------------------------------------------
(***************************************************************************)
(* The invariant and the theorems.                                         *)
(***************************************************************************)

\* Nothing is kept from one pass to the next.
LEMMA ForgottenStep ==
  ASSUME Forgotten, Next
  PROVE  Forgotten'
<1>1. CASE InPass'
  BY <1>1 DEF Forgotten
<1>2. CASE ForgetPass
  BY <1>2 DEF Forgotten, ForgetPass
<1>3. CASE UNCHANGED <<pc, base, read, url, health, failed>>
  BY <1>3 DEF Forgotten, InPass
<1>4. CASE Restart
  BY <1>4 DEF Forgotten, InPass, Restart, locals
<1>5. CASE Pass
  <2>1. \/ InPass'
        \/ ForgetPass
        \/ UNCHANGED <<pc, base, read, url, health, failed>>
    BY <1>5
    DEF Pass, Begin, ReadSecret, ResolveJWKSURL, ApplyOperand, Refresh,
        RefreshNotFound, AbortRefresh, UpdateStatus, EndPass, InPass, locals
  <2> QED BY <1>1, <1>2, <1>3, <2>1
<1>6. CASE Faults
  <2>1. \/ InPass'
        \/ ForgetPass
        \/ UNCHANGED <<pc, base, read, url, health, failed>>
    BY <1>6
    DEF Faults, GetFails, ReadSecretFails, ApplyFails, ApplyTimesOut,
        RefreshFails, AbortRefresh, UpdateStatusFails, EndPass, InPass, locals
  <2> QED BY <1>1, <1>2, <1>3, <2>1
<1>7. CASE Crash \/ CrashInApply
  BY <1>2, <1>7 DEF Crash, CrashInApply, Die
<1>8. CASE \/ DeliverConfig \/ DeliverOwned \/ Resync
           \/ \E s \in SecretNames : DeliverSecret(s)
           \/ \E w \in late : Land(w)
  <2>1. UNCHANGED <<pc, base, read, url, health, failed>>
    BY <1>8 DEF DeliverConfig, DeliverOwned, Resync, DeliverSecret, Land, locals
  <2> QED BY <1>3, <2>1
<1>9. CASE Users \/ \E o \in Operands : CollectGarbage(o)
  <2>1. UNCHANGED <<pc, base, read, url, health, failed>>
    BY <1>9
    DEF Users, CreateConfig, EditConfig, DeleteConfig, WriteSecret, ChangeIdP,
        ReportHealth, EditOperand, DeleteOperand, CollectGarbage, operatorState
  <2> QED BY <1>3, <2>1
<1> QED BY <1>4, <1>5, <1>6, <1>7, <1>8, <1>9 DEF Next

\* Writing the CR wakes the operator.
LEMMA ConfigWritten ==
  ASSUME TypeOK, NEW x \in CR, cr' = Append(cr, x)
  PROVE  Awake'
<1>1. cr \in Seq(CR) \ {<<>>}
  BY DEF TypeOK
<1>2. Len(cr) \in Nat \ {0} /\ Len(cr') = Len(cr) + 1
  BY <1>1, StreamEnds, StreamAppend
<1> QED BY <1>2 DEF Awake

\* Every step keeps pass and rest current.
LEMMA CurrentStep ==
  ASSUME Typed, RestInv, Next
  PROVE  Current'
<1>0. TypeOK /\ cr \in Seq(CR) \ {<<>>} /\ Live(cr) \in CR
  BY StreamEnds DEF Typed, TypeOK
<1>1. CASE Pass
  <2>1. CASE RefreshNotFound
    BY <2>1, FailedIsCurrent DEF RefreshNotFound, AbortRefresh
  <2> QED
    BY <1>1, <2>1, BeginIsCurrent, ReadSecretIsCurrent, ResolveIsCurrent,
       ApplyIsCurrent, RefreshIsCurrent, UpdateStatusIsCurrent
    DEF Pass
<1>2. CASE Faults
  <2>1. CASE GetFails
    BY <2>1, AwakeIsCurrent DEF GetFails, Awake
  <2>2. CASE UpdateStatusFails
    BY <2>2, AwakeIsCurrent DEF UpdateStatusFails, EndPass, Awake
  <2>3. CASE ReadSecretFails \/ ApplyFails \/ ApplyTimesOut \/ RefreshFails
    BY <2>3, FailedIsCurrent
    DEF ReadSecretFails, ApplyFails, ApplyTimesOut, RefreshFails, AbortRefresh
  <2> QED BY <1>2, <2>1, <2>2, <2>3 DEF Faults
<1>3. CASE DeliverConfig \/ DeliverOwned \/ Resync \/ Restart
  <2>1. queued'
    BY <1>3
    DEF DeliverConfig, ConfigEventEnqueues, DeliverOwned, Resync, Restart
  <2> QED BY <2>1, AwakeIsCurrent DEF Awake
<1>4. CASE \E s \in SecretNames : DeliverSecret(s)
  <2>1. queued'
    BY <1>0, <1>4, DeliverSecretVersions DEF RestInv
  <2> QED BY <2>1, AwakeIsCurrent DEF Awake
<1>5. CASE Crash \/ CrashInApply
  BY <1>5, AwakeIsCurrent DEF Crash, CrashInApply, Die
<1>6. ASSUME NEW w \in late, Land(w)
      PROVE  Current'
  <2>1. CASE Awake' \/ pc' = "down"
    BY <2>1, AwakeIsCurrent
  <2>2. CASE ~Awake' /\ pc' # "down"
    <3>1. /\ UNCHANGED <<cr, secret, discovered, release, queued, pc, base, at,
                         read, url, health, failed>>
          /\ Upsert(w.op, w.obj) /\ w.op \in Operands
      BY <1>0, <1>6 DEF Land, outside, locals, TypeOK, Write
    <3>2. UNCHANGED <<operand, depStatus, ownedEvent>>
      BY <1>0, <2>2, <3>1, QuietUpsert DEF Awake
    <3> QED BY <3>1, <3>2, CurrentFrame DEF RestInv
  <2> QED BY <2>1, <2>2
<1>7. ASSUME NEW s \in Specs, CreateConfig(s)
      PROVE  Current'
  <2> DEFINE x == [uid |-> spent["create"] + 1, gen |-> 1, spec |-> s,
                   status |-> EmptyStatus]
  <2>0. spent["create"] \in Nat
    BY <1>0 DEF TypeOK, Budgets
  <2>1. x \in CR
    BY <2>0, EmptyStatusType DEF CR
  <2>2. cr' = Append(cr, x)
    BY <1>7 DEF CreateConfig, WriteConfig
  <2> HIDE DEF x
  <2> QED BY <1>0, <2>1, <2>2, ConfigWritten, AwakeIsCurrent
<1>8. ASSUME NEW s \in Specs, EditConfig(s)
      PROVE  Current'
  <2> DEFINE x == [Live(cr) EXCEPT !.spec = s, !.gen = @ + 1]
  <2>1. x \in CR
    BY <1>0, EditType
  <2>2. cr' = Append(cr, x)
    BY <1>8 DEF EditConfig, WriteConfig
  <2> HIDE DEF x
  <2> QED BY <1>0, <2>1, <2>2, ConfigWritten, AwakeIsCurrent
<1>9. CASE DeleteConfig
  BY <1>0, <1>9, NoCRType, ConfigWritten, AwakeIsCurrent
  DEF DeleteConfig, WriteConfig
<1>10. ASSUME NEW s \in SecretNames, NEW v \in {0, NewVersion}, WriteSecret(s, v)
       PROVE  Current'
  <2>1. Len(secret'[s]) > 1
    BY <1>0, <1>10, WriteSecretVersions DEF RestInv
  <2> QED BY <2>1, AwakeIsCurrent DEF Awake
<1>11. ASSUME NEW i \in Issuers, NEW u \in URIs \cup {NoURI}, ChangeIdP(i, u)
       PROVE  Current'
  <2>1. UNCHANGED <<cr, secret, operand, depStatus, discovered, release, queued,
                    ownedEvent, pc, base, at, read, url, health, failed>>
    BY <1>11 DEF ChangeIdP, server, operatorState
  <2> QED BY <2>1, CurrentFrame DEF RestInv
<1>12. CASE \/ \E c \in ComponentSet : \E st \in DepStatuses : ReportHealth(c, st)
            \/ \E o \in Operands :
                 \E n \in IF o.kind = "deployment" THEN {0, 1, 2} ELSE {1} :
                   EditOperand(o, n)
            \/ \E o \in Operands : DeleteOperand(o) \/ CollectGarbage(o)
  <2>1. ownedEvent' = (pc # "down") /\ pc' = pc
    BY <1>12
    DEF ReportHealth, EditOperand, DeleteOperand, CollectGarbage, RemoveObject,
        operatorState
  <2> QED BY <2>1, AwakeIsCurrent DEF Awake
<1> QED
  BY <1>1, <1>2, <1>3, <1>4, <1>5, <1>6, <1>7, <1>8, <1>9, <1>10, <1>11, <1>12
  DEF Next, Users

\* A freshly started operator has nothing to be current about.
LEMMA RestInit == Init => RestInv
<1> SUFFICES ASSUME Init PROVE RestInv
  OBVIOUS
<1>1. Forgotten
  BY DEF Init, Forgotten
<1>2. VersionsDiffer
  <2>1. ASSUME NEW s \in SecretNames
        PROVE  /\ Len(secret[s]) = 1
               /\ secret[s][1] <= spent["secret"] + 1
    BY DEF Init, Budgets
  <2> QED BY <2>1 DEF VersionsDiffer
<1>3. Current
  <2>1. Live(cr) = NoCR
    BY NoCRType, StreamOne DEF Init
  <2> QED BY <2>1 DEF Init, Current, PassIsCurrent, RestIsCurrent, InPass, NoCR
<1> QED BY <1>1, <1>2, <1>3 DEF RestInv

\* RestInv is inductive, given the types.
LEMMA RestStep == Typed /\ RestInv /\ [Next]_vars => RestInv'
<1> SUFFICES ASSUME Typed, RestInv, [Next]_vars PROVE RestInv'
  OBVIOUS
<1>1. CASE Next
  BY <1>1, ForgottenStep, VersionsStep, CurrentStep DEF RestInv, Typed
<1>2. CASE UNCHANGED vars
  <2>1. Current'
    BY <1>2, CurrentFrame DEF RestInv, vars
  <2>2. Forgotten' /\ VersionsDiffer'
    BY <1>2 DEF RestInv, Forgotten, VersionsDiffer, InPass, vars
  <2> QED BY <2>1, <2>2 DEF RestInv
<1> QED BY <1>1, <1>2

\* It holds in every reachable state.
LEMMA RestAlways == Spec => []RestInv
<1>1. Spec => []Typed
  BY TypeCorrect DEF Typed
<1> QED BY <1>1, RestInit, RestStep, PTL DEF Spec

\* At rest the operator is not awake.
LEMMA QuietIsSettled ==
  ASSUME TypeOK, RestInv, Quiet, Live(cr).uid # 0
  PROVE  Settled
<1>1. ~(Len(cr) > 1)
  BY DEF Quiet
<1>2. ASSUME NEW s \in SecretNames PROVE ~(Len(secret[s]) > 1)
  <2>1. Len(secret[s]) = 1
    BY DEF Quiet
  <2> QED BY <2>1
<1>3. ~Awake /\ pc = "idle"
  BY <1>1, <1>2 DEF Quiet, Awake
<1> QED BY <1>3 DEF RestInv, Current, RestIsCurrent

(***************************************************************************)
(* No change is ever missed: for any bundle, specs, Secrets and releases   *)
(* and however edits, rotations, drift, failures, crashes and late applies *)
(* interleave with passes, an operator at rest has every operand as the    *)
(* live HyperFleetConfig calls for.                                        *)
(***************************************************************************)
THEOREM NothingMissed == Spec => []ConvergedWhenQuiet
<1>1. Typed /\ RestInv => ConvergedWhenQuiet
  BY QuietIsSettled DEF Typed, ConvergedWhenQuiet, Settled
<1>2. Spec => []Typed
  BY TypeCorrect DEF Typed
<1> QED BY <1>1, <1>2, RestAlways, PTL

(***************************************************************************)
(* At rest the published status is for the current generation and tells    *)
(* the truth about Deployments and missing Secrets, although the decision  *)
(* to write it was made by comparing with a cached status.                 *)
(***************************************************************************)
THEOREM StatusTellsTheTruth == Spec => []StatusTrueWhenQuiet
<1>1. Typed /\ RestInv => StatusTrueWhenQuiet
  BY QuietIsSettled DEF Typed, StatusTrueWhenQuiet, StatusTrue, Settled
<1>2. Spec => []Typed
  BY TypeCorrect DEF Typed
<1> QED BY <1>1, <1>2, RestAlways, PTL
=============================================================================
