---------------------- MODULE ReconcilerAppliedProofs ----------------------
(***************************************************************************)
(* What is on the server while a pass is at work: a Deployment never gets  *)
(* ahead of its ConfigMap, and observedGeneration never gets ahead of the  *)
(* operands.                                                               *)
(*                                                                         *)
(* The argument: as long as the HyperFleetConfig a pass works for lives,   *)
(* nobody but the pass writes the operands it has applied, so they stand;  *)
(* and a status naming the current generation leaves no version of another *)
(* spec in the watch stream for a later pass to read.                      *)
(***************************************************************************)
EXTENDS ReconcilerProofs

InPass == pc \notin {"idle", "down"}

\* The pass has applied the i-th operand.
Applied(i) ==
  \/ pc = "apply" /\ i < at
  \/ pc = "refresh" /\ i <= at
  \/ pc = "status" /\ ~failed

\* An apply on its way was delayed once.
LateCounted == spent["late"] = 0 => late = {}

\* Uids are those of the creations so far, and a pass works for a real CR.
UidsCounted ==
  /\ \A i \in 1..Len(cr) : cr[i].uid <= spent["create"]
  /\ base.uid <= spent["create"]
  /\ InPass => base.uid # 0

\* A copy that is still the live version is the only one in the stream.
FreshAlone == fresh => Len(cr) = 1

\* Somebody else has edited or deleted the operand.
Tampered(o) ==
  spent["drift"] > 0 /\ operand[o].data.of \in {"absent", "drifted"}

\* What the pass has applied stands.
PrefixStands ==
  spent["late"] = 0 /\ Live(cr).uid = base.uid =>
    \A i \in 1..Len(ApplyOrder) :
      Applied(i) => \/ operand[ApplyOrder[i]] = Desired(ApplyOrder[i])
                    \/ Tampered(ApplyOrder[i])

\* The status names the current generation.
Acknowledged ==
  /\ Live(cr).uid # 0
  /\ Live(cr).status.observedGeneration = Live(cr).gen

\* c is a version of the live CR with its present spec.
SameSpec(c) == c.uid = Live(cr).uid /\ c.spec = Live(cr).spec

\* Every version that a pass works on or may still read has the present spec.
NoOtherSpec ==
  Acknowledged => /\ \A i \in 1..Len(cr) : SameSpec(cr[i])
                  /\ InPass => SameSpec(base)

\* The operand was rendered from the live spec and belongs to the live CR.
OfLiveSpec(o) ==
  /\ Exists(o)
  /\ \E u \in URIs \cup {NoURI}, rel \in Releases :
       operand[o] =
         [owner |-> Live(cr).uid,
          data  |-> Render(o, Live(cr).spec, u, rel,
                           IF o.kind = "deployment"
                             THEN operand[o].data.hash.secrets
                             ELSE NoEntries)]

AppliedInv ==
  /\ LateCounted
  /\ UidsCounted
  /\ FreshAlone
  /\ PrefixStands
  /\ NoOtherSpec
  /\ ObservedGenerationIsApplied

-----------------------------------------------------------------------------
(***************************************************************************)
(* What a step can do to the counters, the stream and the copy.            *)
(***************************************************************************)

\* Counting one kind of event leaves the others alone.
LEMMA SpendCounts ==
  ASSUME TypeOK, NEW b \in Budgets, Spend(b)
  PROVE  /\ spent'[b] = spent[b] + 1
         /\ \A k \in Budgets \ {b} : spent'[k] = spent[k]
         /\ \A k \in Budgets : spent'[k] >= spent[k]
<1>1. spent \in [Budgets -> Nat]
  BY DEF TypeOK
<1> HIDE DEF Budgets
<1> QED BY <1>1 DEF Spend

\* No event is ever forgotten.
LEMMA SpentGrows ==
  ASSUME TypeOK, Next
  PROVE  \A k \in Budgets : /\ spent[k] \in Nat
                              /\ spent'[k] \in Nat
                              /\ spent'[k] >= spent[k]
<1>0. \A k \in Budgets : spent[k] \in Nat
  BY DEF TypeOK
<1>1. spent' = spent \/ \E b \in Budgets : Spend(b)
  BY DEF Next, Pass, Faults, Users, Begin, ReadSecret, ResolveJWKSURL,
         ApplyOperand, Refresh, RefreshNotFound, UpdateStatus, GetFails,
         ReadSecretFails, ApplyFails, ApplyTimesOut, Delay, RefreshFails,
         UpdateStatusFails, DeliverConfig, DeliverSecret, DeliverOwned, Resync,
         Crash, CrashInApply, Land, Restart, CreateConfig, EditConfig,
         DeleteConfig, WriteSecret, ChangeIdP, ReportHealth, EditOperand,
         DeleteOperand, CollectGarbage, Budgets, outside
<1>2. CASE spent' = spent
  BY <1>0, <1>2
<1>3. CASE \E b \in Budgets : Spend(b)
  BY <1>0, <1>3, SpendCounts, SpendType
<1> QED BY <1>1, <1>2, <1>3

\* The pass writes the status it computed over the one it read.
WritesStatus ==
  /\ pc = "status"
  /\ fresh
  /\ Live(cr') = [Live(cr) EXCEPT !.status = NewStatus]
  /\ base' = NoCR
  /\ pc' = "idle"
  /\ UNCHANGED operand

CreatesConfig ==
  \E s \in Specs : CreateConfig(s) /\ Live(cr').uid = spent["create"] + 1
                                   /\ Live(cr').gen = 1
                                   /\ Live(cr').status = EmptyStatus

EditsConfig ==
  \E s \in Specs : /\ EditConfig(s)
                   /\ Live(cr').uid = Live(cr).uid
                   /\ Live(cr').gen = Live(cr).gen + 1
                   /\ Live(cr').status = Live(cr).status

\* Every version in the stream was there before or is the live one, and only
\* users and status updates make another version live.
StreamMoves ==
  /\ \A i \in 1..Len(cr') : \/ \E j \in 1..Len(cr) : cr'[i] = cr[j]
                            \/ cr'[i] = Live(cr')
  /\ \/ Live(cr') = Live(cr)
     \/ WritesStatus
     \/ CreatesConfig
     \/ EditsConfig
     \/ DeleteConfig /\ Live(cr') = NoCR

\* A write adds one version.
LEMMA AppendMoves ==
  ASSUME TypeOK, NEW x \in CR, cr' = Append(cr, x)
  PROVE  /\ Live(cr') = x
         /\ \A i \in 1..Len(cr') : \/ \E j \in 1..Len(cr) : cr'[i] = cr[j]
                                   \/ cr'[i] = Live(cr')
<1>0. cr \in Seq(CR) \ {<<>>}
  BY DEF TypeOK
<1>1. /\ Live(cr') = x
      /\ Len(cr') = Len(cr) + 1
      /\ \A i \in 1..Len(cr) : cr'[i] = cr[i]
      /\ cr'[Len(cr) + 1] = x
      /\ Len(cr) \in Nat
  BY <1>0, StreamAppend, StreamEnds
<1>2. ASSUME NEW i \in 1..Len(cr')
      PROVE  (\E j \in 1..Len(cr) : cr'[i] = cr[j]) \/ cr'[i] = Live(cr')
  <2>1. CASE i \in 1..Len(cr)
    BY <1>1, <2>1
  <2>2. CASE i = Len(cr) + 1
    BY <1>1, <2>2
  <2> QED BY <1>1, <2>1, <2>2
<1> QED BY <1>1, <1>2

\* The watch stream only loses its first or gains a last version.
LEMMA StreamStep ==
  ASSUME TypeOK, Next
  PROVE  StreamMoves
<1>0. cr \in Seq(CR) \ {<<>>} /\ Live(cr) \in CR /\ Len(cr) \in Nat \ {0}
  BY StreamEnds DEF TypeOK
<1>1. CASE cr' = cr
  <2>1. Live(cr') = Live(cr)
    BY <1>1
  <2>2. \A i \in 1..Len(cr') : \E j \in 1..Len(cr) : cr'[i] = cr[j]
    BY <1>1
  <2> QED BY <2>1, <2>2 DEF StreamMoves
<1>2. CASE UpdateStatus \/ UpdateStatusFails
  <2> DEFINE x == [Live(cr) EXCEPT !.status = NewStatus]
  <2>1. CASE cr' = Append(cr, x) /\ fresh
    <3>1. x \in CR
      BY <1>0, NewStatusType DEF CR
    <3>2. /\ Live(cr') = x
          /\ \A i \in 1..Len(cr') : \/ \E j \in 1..Len(cr) : cr'[i] = cr[j]
                                    \/ cr'[i] = Live(cr')
      <4> HIDE DEF x
      <4> QED BY <2>1, <3>1, AppendMoves
    <3>3. pc = "status" /\ base' = NoCR /\ pc' = "idle" /\ UNCHANGED operand
      BY <1>2
      DEF UpdateStatus, UpdateStatusFails, EndPass, ForgetPass, server
    <3> QED BY <2>1, <3>2, <3>3 DEF StreamMoves, WritesStatus
  <2>2. cr' = cr \/ (cr' = Append(cr, x) /\ fresh)
    BY <1>2 DEF UpdateStatus, UpdateStatusFails, WriteAccepted
  <2> QED BY <1>1, <2>1, <2>2
<1>3. CASE DeliverConfig
  <2>1. cr' = Tail(cr) /\ Len(cr) > 1
    BY <1>3 DEF DeliverConfig
  <2>2. /\ Live(cr') = Live(cr)
        /\ Len(cr') = Len(cr) - 1
        /\ \A i \in 1..Len(cr') : cr'[i] = cr[i + 1]
    BY <1>0, <2>1, StreamTail
  <2>3. \A i \in 1..Len(cr') : i + 1 \in 1..Len(cr)
    BY <1>0, <2>2
  <2> QED BY <2>2, <2>3 DEF StreamMoves
<1>4. CASE Restart
  <2>1. cr' = <<Live(cr)>>
    BY <1>4 DEF Restart
  <2>2. Len(cr') = 1 /\ cr'[1] = Live(cr) /\ Live(cr') = Live(cr)
    BY <1>0, <2>1, StreamOne
  <2>3. \A i \in 1..Len(cr') : cr'[i] = Live(cr')
    BY <2>2
  <2> QED BY <2>2, <2>3 DEF StreamMoves
<1>5. ASSUME NEW s \in Specs, CreateConfig(s)
      PROVE  StreamMoves
  <2> DEFINE x == [uid |-> spent["create"] + 1, gen |-> 1, spec |-> s,
                   status |-> EmptyStatus]
  <2>1. spent["create"] \in Nat
    BY DEF TypeOK, Budgets
  <2>2. /\ x \in CR /\ x.uid = spent["create"] + 1 /\ x.gen = 1
        /\ x.status = EmptyStatus
    BY <2>1, EmptyStatusType DEF CR
  <2>3. cr' = Append(cr, x)
    BY <1>5 DEF CreateConfig, WriteConfig
  <2> HIDE DEF x
  <2> QED BY <1>5, <2>2, <2>3, AppendMoves DEF StreamMoves, CreatesConfig
<1>6. ASSUME NEW s \in Specs, EditConfig(s)
      PROVE  StreamMoves
  <2> DEFINE x == [Live(cr) EXCEPT !.spec = s, !.gen = @ + 1]
  <2>1. /\ x \in CR /\ x.gen = Live(cr).gen + 1 /\ x.uid = Live(cr).uid
        /\ x.status = Live(cr).status
    BY <1>0, EditType
  <2>2. cr' = Append(cr, x)
    BY <1>6 DEF EditConfig, WriteConfig
  <2> HIDE DEF x
  <2> QED BY <1>6, <2>1, <2>2, AppendMoves DEF StreamMoves, EditsConfig
<1>7. CASE DeleteConfig
  <2>1. cr' = Append(cr, NoCR)
    BY <1>7 DEF DeleteConfig, WriteConfig
  <2> QED BY <1>7, <2>1, NoCRType, AppendMoves DEF StreamMoves
<1>8. CASE \/ Begin \/ ReadSecret \/ ResolveJWKSURL \/ ApplyOperand \/ Refresh
           \/ RefreshNotFound \/ GetFails \/ ReadSecretFails \/ ApplyFails
           \/ ApplyTimesOut \/ RefreshFails \/ DeliverOwned \/ Resync
           \/ Crash \/ CrashInApply
           \/ \E w \in late : Land(w)
           \/ \E s \in SecretNames : DeliverSecret(s)
  <2>1. cr' = cr
    BY <1>8
    DEF Begin, ReadSecret, ResolveJWKSURL, ApplyOperand, Refresh,
        RefreshNotFound, GetFails, ReadSecretFails, ApplyFails, ApplyTimesOut,
        RefreshFails, AbortRefresh, Land, DeliverOwned, Resync, DeliverSecret,
        Crash, CrashInApply, Die
  <2> QED BY <1>1, <2>1
<1>9. CASE \/ \E s \in SecretNames : \E v \in {0, NewVersion} : WriteSecret(s, v)
           \/ \E i \in Issuers : \E u \in URIs \cup {NoURI} : ChangeIdP(i, u)
           \/ \E c \in ComponentSet : \E st \in DepStatuses : ReportHealth(c, st)
           \/ \E o \in Operands :
                \E n \in IF o.kind = "deployment" THEN {0, 1, 2} ELSE {1} :
                  EditOperand(o, n)
           \/ \E o \in Operands : DeleteOperand(o)
           \/ \E o \in Operands : CollectGarbage(o)
  <2>1. cr' = cr
    BY <1>9
    DEF WriteSecret, ChangeIdP, ReportHealth, EditOperand, DeleteOperand,
        CollectGarbage
  <2> QED BY <1>1, <2>1
<1> QED
  BY <1>2, <1>3, <1>4, <1>5, <1>6, <1>7, <1>8, <1>9
  DEF Next, Pass, Faults, Users

\* The copy of a pass is what the cache showed at its beginning.
LEMMA BaseStep ==
  ASSUME Next
  PROVE  \/ base' = base /\ (InPass' => InPass)
         \/ base' = NoCR /\ ~InPass'
         \/ base' = Cached(cr) /\ base'.uid # 0 /\ cr' = cr
<1>1. CASE Begin
  <2>1. CASE Cached(cr).uid = 0
    BY <1>1, <2>1 DEF Begin, locals, InPass
  <2>2. CASE Cached(cr).uid # 0
    BY <1>1, <2>2 DEF Begin
  <2> QED BY <2>1, <2>2
<1>2. CASE UpdateStatus \/ UpdateStatusFails \/ Crash \/ CrashInApply
  BY <1>2
  DEF UpdateStatus, UpdateStatusFails, EndPass, Crash, CrashInApply, Die,
      ForgetPass, InPass
<1>3. CASE \/ ReadSecret \/ ResolveJWKSURL \/ ApplyOperand \/ Refresh
           \/ RefreshNotFound \/ GetFails \/ ReadSecretFails \/ ApplyFails
           \/ ApplyTimesOut \/ RefreshFails \/ DeliverOwned \/ Resync
           \/ Restart \/ DeliverConfig
           \/ \E w \in late : Land(w)
           \/ \E s \in SecretNames : DeliverSecret(s)
  BY <1>3
  DEF ReadSecret, ResolveJWKSURL, ApplyOperand, Refresh, RefreshNotFound,
      GetFails, ReadSecretFails, ApplyFails, ApplyTimesOut, Delay, RefreshFails,
      AbortRefresh, Land, DeliverOwned, Resync, DeliverSecret, DeliverConfig,
      Restart, locals, InPass
<1>4. CASE Users \/ \E o \in Operands : CollectGarbage(o)
  BY <1>4
  DEF Users, CreateConfig, EditConfig, DeleteConfig, WriteSecret, ChangeIdP,
      ReportHealth, EditOperand, DeleteOperand, CollectGarbage, operatorState,
      InPass
<1> QED BY <1>1, <1>2, <1>3, <1>4 DEF Next, Pass, Faults

-----------------------------------------------------------------------------
(***************************************************************************)
(* The conjuncts of AppliedInv, step by step.                              *)
(***************************************************************************)
LEMMA LateStep ==
  ASSUME TypeOK, LateCounted, Next
  PROVE  LateCounted'
<1>0. "late" \in Budgets /\ spent["late"] \in Nat /\ spent'["late"] >= spent["late"]
  BY SpentGrows DEF Budgets
<1>1. CASE Delay
  <2>1. spent'["late"] = spent["late"] + 1
    BY <1>0, <1>1, SpendCounts DEF Delay
  <2> QED BY <1>0, <2>1 DEF LateCounted
<1>2. CASE late' \subseteq late
  BY <1>0, <1>2 DEF LateCounted, TypeOK
<1>3. Delay \/ late' \subseteq late
  BY DEF Next, Pass, Faults, Users, Begin, ReadSecret, ResolveJWKSURL,
         ApplyOperand, Refresh, RefreshNotFound, UpdateStatus, GetFails,
         ReadSecretFails, ApplyFails, ApplyTimesOut, RefreshFails, AbortRefresh,
         UpdateStatusFails, DeliverConfig, DeliverSecret, DeliverOwned, Resync,
         Crash, CrashInApply, Land, Restart, CreateConfig, EditConfig,
         DeleteConfig, WriteSecret, ChangeIdP, ReportHealth, EditOperand,
         DeleteOperand, CollectGarbage, RemoveObject, server
<1> QED BY <1>1, <1>2, <1>3

\* Only a creation makes a new uid, and it is counted (CreateConfig).
LEMMA UidsStep ==
  ASSUME TypeOK, UidsCounted, Next
  PROVE  UidsCounted'
<1>0. PICK n \in Nat, m \in Nat :
        n = spent["create"] /\ m = spent'["create"] /\ m >= n
  BY SpentGrows DEF Budgets
<1>1. /\ cr \in Seq(CR) \ {<<>>} /\ Live(cr) \in CR /\ Len(cr) \in Nat \ {0}
      /\ Cached(cr) = cr[1] /\ base \in CR
  BY StreamEnds DEF TypeOK
<1>2. ASSUME NEW j \in 1..Len(cr)
      PROVE  cr[j].uid \in Nat /\ cr[j].uid <= n
  <2>1. cr[j] \in CR
    BY <1>1, ElementOfSeq
  <2>2. cr[j].uid \in Nat
    BY <2>1 DEF CR
  <2> QED BY <1>0, <2>2 DEF UidsCounted
<1>3. Live(cr).uid \in Nat /\ Live(cr).uid <= n
  <2>1. Len(cr) \in 1..Len(cr)
    BY <1>1
  <2> QED BY <1>2, <2>1 DEF Live
<1>4. Live(cr').uid \in Nat /\ Live(cr').uid <= m
  <2>1. CASE Live(cr') = Live(cr)
    BY <1>0, <1>3, <2>1
  <2>2. CASE WritesStatus
    <3>1. Live(cr').uid = Live(cr).uid
      BY <1>1, <2>2 DEF WritesStatus, CR
    <3> QED BY <1>0, <1>3, <3>1
  <2>3. CASE CreatesConfig
    <3>1. Spend("create") /\ Live(cr').uid = n + 1
      BY <1>0, <2>3 DEF CreatesConfig, CreateConfig
    <3>2. m = n + 1
      BY <1>0, <3>1, SpendCounts DEF Budgets
    <3> QED BY <1>0, <3>1, <3>2
  <2>4. CASE EditsConfig
    <3>1. Live(cr').uid = Live(cr).uid
      BY <2>4 DEF EditsConfig
    <3> QED BY <1>0, <1>3, <3>1
  <2>5. CASE Live(cr') = NoCR
    BY <1>0, <2>5 DEF NoCR
  <2> QED BY <2>1, <2>2, <2>3, <2>4, <2>5, StreamStep DEF StreamMoves
<1>5. ASSUME NEW i \in 1..Len(cr')
      PROVE  cr'[i].uid <= m
  <2>1. CASE \E j \in 1..Len(cr) : cr'[i] = cr[j]
    <3>1. cr'[i].uid \in Nat /\ cr'[i].uid <= n
      BY <1>2, <2>1
    <3> QED BY <1>0, <3>1
  <2>2. CASE cr'[i] = Live(cr')
    BY <1>4, <2>2
  <2> QED BY <2>1, <2>2, StreamStep DEF StreamMoves
<1>6. base'.uid <= m /\ (InPass' => base'.uid # 0)
  <2>1. CASE base' = base /\ (InPass' => InPass)
    <3>1. base.uid \in Nat /\ base.uid <= n
      BY <1>0, <1>1 DEF UidsCounted, CR
    <3>2. base.uid <= m
      BY <1>0, <3>1
    <3> QED BY <2>1, <3>2 DEF UidsCounted
  <2>2. CASE base' = NoCR /\ ~InPass'
    BY <1>0, <2>2 DEF NoCR
  <2>3. CASE base' = Cached(cr) /\ base'.uid # 0
    <3>1. 1 \in 1..Len(cr)
      BY <1>1
    <3>2. base'.uid \in Nat /\ base'.uid <= n
      BY <1>1, <1>2, <2>3, <3>1
    <3> QED BY <1>0, <2>3, <3>2
  <2> QED BY <2>1, <2>2, <2>3, BaseStep
<1> QED BY <1>0, <1>5, <1>6 DEF UidsCounted

\* A pass whose copy is live has no event of the CR under way: its own status
\* update ends it, and every other write makes the copy stale.
LEMMA FreshStep ==
  ASSUME TypeOK, FreshAlone, Next
  PROVE  FreshAlone'
<1>0. Len(cr) \in Nat \ {0} /\ Live(cr) \in CR
  BY StreamEnds DEF TypeOK
<1>1. CASE UNCHANGED <<cr, fresh>> \/ ~fresh'
  BY <1>1 DEF FreshAlone
<1>2. CASE Begin
  BY <1>2 DEF Begin, FreshAlone, locals
<1>3. CASE UpdateStatus \/ UpdateStatusFails \/ Crash \/ CrashInApply
  <2>1. ~fresh'
    BY <1>3
    DEF UpdateStatus, UpdateStatusFails, EndPass, Crash, CrashInApply, Die,
        ForgetPass
  <2> QED BY <1>1, <2>1
<1>4. CASE DeliverConfig
  <2>1. Len(cr) > 1 /\ fresh' = fresh
    BY <1>4 DEF DeliverConfig, locals
  <2>2. ~fresh
    <3>1. \A n \in Nat : n > 1 => n # 1
      OBVIOUS
    <3>2. Len(cr) # 1
      BY <1>0, <2>1, <3>1
    <3> QED BY <3>2 DEF FreshAlone
  <2> QED BY <1>1, <2>1, <2>2
<1>5. CASE Restart
  <2>1. Len(cr') = 1
    BY <1>0, <1>5, StreamOne DEF Restart
  <2> QED BY <2>1 DEF FreshAlone
<1>6. CASE \/ ReadSecret \/ ResolveJWKSURL \/ ApplyOperand \/ Refresh
           \/ RefreshNotFound \/ GetFails \/ ReadSecretFails \/ ApplyFails
           \/ ApplyTimesOut \/ RefreshFails \/ DeliverOwned \/ Resync
           \/ \E w \in late : Land(w)
           \/ \E s \in SecretNames : DeliverSecret(s)
  <2>1. UNCHANGED <<cr, fresh>>
    BY <1>6
    DEF ReadSecret, ResolveJWKSURL, ApplyOperand, Refresh, RefreshNotFound,
        GetFails, ReadSecretFails, ApplyFails, ApplyTimesOut, RefreshFails,
        AbortRefresh, Land, DeliverOwned, Resync, DeliverSecret, locals
  <2> QED BY <1>1, <2>1
<1>7. CASE Users \/ \E o \in Operands : CollectGarbage(o)
  <2>1. UNCHANGED <<cr, fresh>> \/ ~fresh'
    BY <1>7
    DEF Users, CreateConfig, EditConfig, DeleteConfig, WriteConfig, WriteSecret,
        ChangeIdP, ReportHealth, EditOperand, DeleteOperand, CollectGarbage
  <2> QED BY <1>1, <2>1
<1> QED
  BY <1>2, <1>3, <1>4, <1>5, <1>6, <1>7 DEF Next, Pass, Faults

\* A step that leaves the status naming the current generation found it so, or
\* is the status update of a pass that has not failed.
LEMMA AcknowledgedStep ==
  ASSUME IInv, Next, Acknowledged'
  PROVE  \/ Live(cr') = Live(cr) /\ Acknowledged
         \/ /\ WritesStatus
            /\ Live(cr').uid = Live(cr).uid
            /\ Live(cr').spec = Live(cr).spec
            /\ base = Live(cr)
            /\ Acknowledged \/ ~failed
<1>0. /\ TypeOK /\ Live(cr) \in CR
      /\ GenerationsOrdered(Live(cr))
  BY LiveInOrder DEF IInv, TypeOK
<1>1. CASE Live(cr') = Live(cr)
  BY <1>1 DEF Acknowledged
<1>2. CASE WritesStatus
  <2>1. base = Live(cr)
    BY <1>2 DEF WritesStatus, IInv, FreshIsLive
  <2> DEFINE st == NewStatus
  <2>2. /\ Live(cr').uid = Live(cr).uid
        /\ Live(cr').spec = Live(cr).spec
        /\ Live(cr').gen = Live(cr).gen
        /\ Live(cr').status = st
    <3> HIDE DEF st
    <3>1. Live(cr') = [Live(cr) EXCEPT !.status = st]
      BY <1>2 DEF WritesStatus, st
    <3> QED BY <1>0, <3>1 DEF CR
  <2>3. failed => st.observedGeneration = Live(cr).status.observedGeneration
    <3>1. /\ base.status \in Status /\ base.gen \in Nat /\ health \in Health
          /\ failed \in BOOLEAN /\ MissingSecrets \in SUBSET Roles
      BY <1>0 DEF TypeOK, CR, MissingSecrets
    <3>2. Stamped(base.status, base.gen, failed, NewStatus)
      BY <3>1, AggregateStatusType DEF NewStatus
    <3>3. failed => st = [base.status EXCEPT !.degraded = st.degraded]
      BY <3>2 DEF Stamped
    <3> HIDE DEF st
    <3> QED BY <2>1, <3>1, <3>3 DEF Status
  <2>4. Acknowledged \/ ~failed
    BY <2>2, <2>3 DEF Acknowledged
  <2> QED BY <1>2, <2>1, <2>2, <2>4
<1>3. CASE CreatesConfig
  BY <1>3 DEF CreatesConfig, Acknowledged, EmptyStatus
<1>4. CASE EditsConfig
  <2>1. /\ Live(cr').gen = Live(cr).gen + 1
        /\ Live(cr').status = Live(cr).status
    BY <1>4 DEF EditsConfig
  <2>2. /\ Live(cr).gen \in Nat /\ Live(cr).status.degraded.gen \in Nat
        /\ Live(cr).status.observedGeneration \in Nat
    BY <1>0 DEF CR, Status, Degraded
  <2>3. Live(cr).status.observedGeneration <= Live(cr).gen
    BY <1>0, <2>2 DEF GenerationsOrdered
  <2> QED BY <2>1, <2>2, <2>3 DEF Acknowledged
<1>5. CASE Live(cr') = NoCR
  BY <1>5 DEF NoCR, Acknowledged
<1> QED BY <1>0, <1>1, <1>2, <1>3, <1>4, <1>5, StreamStep DEF StreamMoves

\* Acknowledging a generation needs a fresh copy, so no other spec is left to read.
LEMMA NoOtherSpecStep ==
  ASSUME IInv, FreshAlone, NoOtherSpec, Next
  PROVE  NoOtherSpec'
<1> SUFFICES ASSUME Acknowledged'
             PROVE  /\ \A i \in 1..Len(cr') : SameSpec(cr[i])'
                    /\ InPass' => SameSpec(base)'
  BY DEF NoOtherSpec
<1>0. /\ TypeOK /\ Len(cr) \in Nat \ {0} /\ Live(cr) = cr[Len(cr)]
      /\ Cached(cr) = cr[1] /\ 1 \in 1..Len(cr)
  BY StreamEnds DEF IInv, TypeOK, Live
<1>1. CASE Live(cr') = Live(cr) /\ Acknowledged
  <2>1. \A j \in 1..Len(cr) : SameSpec(cr[j])
    BY <1>1 DEF NoOtherSpec
  <2>2. ASSUME NEW i \in 1..Len(cr') PROVE SameSpec(cr[i])'
    BY <1>0, <1>1, <2>1, StreamStep DEF StreamMoves, SameSpec
  <2>3. ASSUME InPass' PROVE SameSpec(base)'
    <3>1. CASE base' = base /\ InPass
      BY <1>1, <3>1 DEF NoOtherSpec, SameSpec
    <3>2. CASE base' = Cached(cr)
      BY <1>0, <1>1, <2>1, <3>2 DEF SameSpec
    <3> QED BY <2>3, <3>1, <3>2, BaseStep
  <2> QED BY <2>2, <2>3
<1>2. CASE /\ WritesStatus
           /\ Live(cr').uid = Live(cr).uid
           /\ Live(cr').spec = Live(cr).spec
  <2>1. ~InPass' /\ Len(cr) = 1
    BY <1>2 DEF WritesStatus, InPass, FreshAlone
  <2>2. \A j \in 1..Len(cr) : cr[j] = Live(cr)
    BY <1>0, <2>1
  <2>3. ASSUME NEW i \in 1..Len(cr') PROVE SameSpec(cr[i])'
    BY <1>0, <1>2, <2>2, StreamStep DEF StreamMoves, SameSpec
  <2> QED BY <2>1, <2>3
<1> QED BY <1>1, <1>2, AcknowledgedStep

-----------------------------------------------------------------------------
(***************************************************************************)
(* What the pass has applied stands.                                       *)
(***************************************************************************)

\* A step that applies nothing and spoils nothing the pass has applied.
LEMMA PrefixFrame ==
  ASSUME PrefixStands,
         spent'["late"] = 0 => spent["late"] = 0,
         Live(cr').uid = base'.uid => Live(cr).uid = base.uid,
         UNCHANGED <<base, url, release, read>>,
         \A i \in 1..Len(ApplyOrder) : Applied(i)' => Applied(i),
         \A i \in 1..Len(ApplyOrder) :
           LET o == ApplyOrder[i] IN
             /\ Live(cr).uid = base.uid
             /\ operand[o] = Desired(o) \/ Tampered(o)
             => \/ operand'[o] = operand[o] /\ (Tampered(o) => Tampered(o)')
                \/ Tampered(o)'
  PROVE  PrefixStands'
<1> SUFFICES ASSUME spent'["late"] = 0, Live(cr').uid = base'.uid,
                    NEW i \in 1..Len(ApplyOrder), Applied(i)'
             PROVE  \/ operand'[ApplyOrder[i]] = Desired(ApplyOrder[i])'
                    \/ Tampered(ApplyOrder[i])'
  BY DEF PrefixStands
<1> DEFINE o == ApplyOrder[i]
<1>1. operand[o] = Desired(o) \/ Tampered(o)
  BY DEF PrefixStands
<1>2. Desired(o)' = Desired(o)
  BY DEF Desired
<1>3. (operand'[o] = operand[o] /\ (Tampered(o) => Tampered(o)')) \/ Tampered(o)'
  BY <1>1
<1> HIDE DEF o
<1>4. operand'[o] = Desired(o)' \/ Tampered(o)'
  BY <1>1, <1>2, <1>3
<1> QED BY <1>4 DEF o

\* After a step that leaves no pass, or one that has applied nothing or failed,
\* nothing is claimed.
LEMMA PrefixEmpty ==
  ASSUME \/ pc' \in {"idle", "down", "secrets", "discover"}
         \/ pc' = "status" /\ failed'
         \/ pc' = "apply" /\ at' = 1
  PROVE  PrefixStands'
<1>1. ASSUME NEW i \in 1..Len(ApplyOrder), Applied(i)'
      PROVE  FALSE
  BY <1>1 DEF Applied
<1> QED BY <1>1 DEF PrefixStands

\* What the pass has applied stands: only drift or a late apply could touch it.
LEMMA PrefixStep ==
  ASSUME IInv, LateCounted, UidsCounted, PrefixStands, Next
  PROVE  PrefixStands'
<1>0. TypeOK /\ InRange
  BY DEF IInv
<1>a. /\ spent["late"] \in Nat /\ spent'["late"] \in Nat
      /\ spent'["late"] >= spent["late"]
      /\ spent["drift"] \in Nat /\ spent'["drift"] \in Nat
      /\ spent'["drift"] >= spent["drift"]
  BY <1>0, SpentGrows DEF Budgets
<1>b. spent'["late"] = 0 => spent["late"] = 0
  BY <1>a
<1>c. spent["drift"] > 0 => spent'["drift"] > 0
  BY <1>a
<1>d. ASSUME NEW o, operand'[o] = operand[o], Tampered(o)
      PROVE  Tampered(o)'
  BY <1>c, <1>d DEF Tampered
<1>1. CASE \/ Begin \/ ReadSecret \/ ResolveJWKSURL \/ ReadSecretFails
           \/ ApplyFails \/ ApplyTimesOut \/ RefreshNotFound \/ RefreshFails
           \/ UpdateStatus \/ UpdateStatusFails \/ GetFails \/ Crash
           \/ CrashInApply \/ Restart
  <2>1. \/ pc' \in {"idle", "down", "secrets", "discover"}
        \/ pc' = "status" /\ failed'
        \/ pc' = "apply" /\ at' = 1
    BY <1>1
    DEF Begin, ReadSecret, ResolveJWKSURL, ReadSecretFails, ApplyFails,
        ApplyTimesOut, RefreshNotFound, RefreshFails, AbortRefresh,
        UpdateStatus, UpdateStatusFails, EndPass, GetFails, Crash, CrashInApply,
        Die, Restart
  <2> QED BY <2>1, PrefixEmpty
<1>2. CASE ApplyOperand
  <2>1. /\ at \in 1..Len(ApplyOrder) /\ pc = "apply" /\ pc' = "refresh"
        /\ UNCHANGED <<cr, base, url, release, read, at, spent>>
        /\ operand' = [operand EXCEPT ![ApplyOrder[at]] = Desired(ApplyOrder[at])]
    BY <1>0, <1>2 DEF ApplyOperand, InRange, Upsert, locals, outside
  <2>2. ASSUME spent'["late"] = 0, Live(cr').uid = base'.uid,
               NEW i \in 1..Len(ApplyOrder), Applied(i)'
        PROVE  \/ operand'[ApplyOrder[i]] = Desired(ApplyOrder[i])'
               \/ Tampered(ApplyOrder[i])'
    <3> DEFINE o == ApplyOrder[i]
    <3>1. Desired(o)' = Desired(o)
      BY <2>1 DEF Desired
    <3>2. o \in Operands /\ ApplyOrder[at] \in Operands
      BY <2>1, ApplyOrderType
    <3>3. CASE o = ApplyOrder[at]
      <4>1. operand'[o] = Desired(o)
        BY <1>0, <2>1, <3>2, <3>3 DEF TypeOK
      <4> QED BY <3>1, <4>1
    <3>4. CASE o # ApplyOrder[at]
      <4>1. operand'[o] = operand[o]
        BY <1>0, <2>1, <3>2, <3>4 DEF TypeOK
      <4>2. i <= at /\ i # at
        BY <2>1, <2>2, <3>4 DEF Applied
      <4>3. Applied(i)
        BY <2>1, <4>2 DEF Applied
      <4>4. operand[o] = Desired(o) \/ Tampered(o)
        BY <2>1, <2>2, <4>3 DEF PrefixStands
      <4> QED BY <1>d, <3>1, <4>1, <4>4
    <3> QED BY <3>3, <3>4
  <2> QED BY <2>2 DEF PrefixStands
<1>3. CASE Refresh
  <2>1. /\ at \in 1..Len(ApplyOrder) /\ pc = "refresh"
        /\ UNCHANGED <<cr, base, url, release, read, operand, spent>>
        /\ IF at = Len(ApplyOrder)
             THEN pc' = "status" /\ at' = 0
             ELSE pc' = "apply" /\ at' = at + 1
    BY <1>0, <1>3 DEF Refresh, InRange, server, outside
  <2>2. Len(ApplyOrder) \in Nat
    BY ApplyOrderType
  <2>3. ASSUME NEW i \in 1..Len(ApplyOrder), Applied(i)'
        PROVE  Applied(i)
    <3>1. i <= at
      BY <2>1, <2>2, <2>3 DEF Applied
    <3> QED BY <2>1, <3>1 DEF Applied
  <2>4. \A o : Tampered(o)' = Tampered(o)
    BY <2>1 DEF Tampered
  <2> QED BY <2>1, <2>3, <2>4, PrefixFrame
<1>4. ASSUME NEW w \in late, Land(w)
      PROVE  PrefixStands'
  <2>1. spent' = spent /\ spent["late"] # 0
    BY <1>4 DEF Land, outside, LateCounted
  <2> QED BY <2>1 DEF PrefixStands
<1>5. ASSUME UNCHANGED <<base, url, release, read, pc, at, failed>>,
             Live(cr').uid = base'.uid => Live(cr).uid = base.uid,
             UNCHANGED operand
      PROVE  PrefixStands'
  <2>1. \A i \in 1..Len(ApplyOrder) : Applied(i)' => Applied(i)
    BY <1>5 DEF Applied
  <2> QED BY <1>5, <1>b, <1>d, <2>1, PrefixFrame
<1>6. CASE \/ DeliverConfig \/ DeliverOwned \/ Resync
           \/ \E s \in SecretNames : DeliverSecret(s)
  <2>1. UNCHANGED <<base, url, release, read, pc, at, failed, operand>>
    BY <1>6
    DEF DeliverConfig, DeliverOwned, Resync, DeliverSecret, server, outside,
        locals
  <2>2. Live(cr') = Live(cr)
    <3>1. CASE DeliverConfig
      BY <1>0, <3>1, StreamTail DEF DeliverConfig, TypeOK
    <3>2. CASE ~DeliverConfig
      BY <1>6, <3>2 DEF DeliverOwned, Resync, DeliverSecret
    <3> QED BY <3>1, <3>2
  <2> QED BY <1>5, <2>1, <2>2
<1>7. CASE \/ \E s \in SecretNames : \E v \in {0, NewVersion} : WriteSecret(s, v)
           \/ \E i \in Issuers : \E u \in URIs \cup {NoURI} : ChangeIdP(i, u)
           \/ \E c \in ComponentSet : \E st \in DepStatuses : ReportHealth(c, st)
  <2>1. UNCHANGED <<base, url, release, read, pc, at, failed, operand, cr>>
    BY <1>7
    DEF WriteSecret, ChangeIdP, ReportHealth, server, operatorState
  <2> QED BY <1>5, <2>1
<1>8. CASE \/ \E s \in Specs : CreateConfig(s)
           \/ \E s \in Specs : EditConfig(s)
           \/ DeleteConfig
  <2>1. UNCHANGED <<base, url, release, read, pc, at, failed, operand>>
    BY <1>8
    DEF CreateConfig, EditConfig, DeleteConfig, server, operatorState
  <2>2. CASE Live(cr').uid = base'.uid => Live(cr).uid = base.uid
    BY <1>5, <2>1, <2>2
  <2>3. CASE Live(cr').uid = base'.uid /\ Live(cr).uid # base.uid
    <3>1. \/ Live(cr').uid = spent["create"] + 1
          \/ Live(cr').uid = Live(cr).uid
          \/ Live(cr').uid = 0
      <4>1. CASE Live(cr') = Live(cr)
        BY <4>1
      <4>2. CASE WritesStatus
        <5>1. Live(cr) \in CR
          BY <1>0, StreamEnds DEF TypeOK
        <5> QED BY <4>2, <5>1 DEF WritesStatus, CR
      <4>3. CASE CreatesConfig \/ EditsConfig \/ Live(cr') = NoCR
        BY <4>3 DEF CreatesConfig, EditsConfig, NoCR
      <4> QED BY <1>0, <4>1, <4>2, <4>3, StreamStep DEF StreamMoves
    <3>2. PICK n \in Nat, u \in Nat :
            n = spent["create"] /\ u = base.uid /\ u <= n
      BY <1>0 DEF UidsCounted, TypeOK, CR, Budgets
    <3>3. base.uid # spent["create"] + 1
      BY <3>2
    <3>4. base.uid = 0
      BY <2>1, <2>3, <3>1, <3>3
    <3>5. pc' \in {"idle", "down"}
      BY <2>1, <3>4 DEF UidsCounted, InPass
    <3> QED BY <3>5, PrefixEmpty
  <2> QED BY <2>2, <2>3
<1>9. ASSUME NEW o \in Operands,
             UNCHANGED <<cr, base, url, release, read, pc, at, failed>>,
             \A p \in Operands \ {o} : operand'[p] = operand[p],
             Live(cr).uid = base.uid /\ (operand[o] = Desired(o) \/ Tampered(o))
               => Tampered(o)'
      PROVE  PrefixStands'
  <2>1. \A i \in 1..Len(ApplyOrder) : Applied(i)' => Applied(i)
    BY <1>9 DEF Applied
  <2>2. \A i \in 1..Len(ApplyOrder) : ApplyOrder[i] \in Operands
    BY ApplyOrderType
  <2> QED BY <1>9, <1>b, <1>d, <2>1, <2>2, PrefixFrame
<1>10. ASSUME NEW o \in Operands, NEW n \in {0, 1, 2}, EditOperand(o, n)
       PROVE  PrefixStands'
  <2>1. /\ UNCHANGED <<cr, base, url, release, read, pc, at, failed>>
        /\ operand' = [operand EXCEPT ![o].data = Drifted(n)]
        /\ Spend("drift")
    BY <1>10 DEF EditOperand, operatorState
  <2>2. \A p \in Operands \ {o} : operand'[p] = operand[p]
    BY <1>0, <2>1 DEF TypeOK
  <2>3. Tampered(o)'
    <3>1. operand'[o].data = Drifted(n)
      BY <1>0, <2>1 DEF TypeOK, Object
    <3>2. spent'["drift"] > 0
      BY <1>0, <1>a, <2>1, SpendCounts DEF Budgets
    <3> QED BY <3>1, <3>2 DEF Tampered, Drifted
  <2> QED BY <1>9, <2>1, <2>2, <2>3
<1>11. ASSUME NEW o \in Operands, DeleteOperand(o) \/ CollectGarbage(o)
       PROVE  PrefixStands'
  <2>1. /\ UNCHANGED <<cr, base, url, release, read, pc, at, failed>>
        /\ operand' = [operand EXCEPT ![o] = NoObject]
    BY <1>11 DEF DeleteOperand, CollectGarbage, RemoveObject, operatorState
  <2>2. \A p \in Operands \ {o} : operand'[p] = operand[p]
    BY <1>0, <2>1 DEF TypeOK
  <2>3. operand'[o].data.of = "absent"
    BY <1>0, <2>1 DEF TypeOK, NoObject
  <2>4. CASE DeleteOperand(o)
    <3>1. spent'["drift"] > 0
      BY <1>0, <1>a, <2>4, SpendCounts DEF Budgets, DeleteOperand
    <3>2. Tampered(o)'
      BY <2>3, <3>1 DEF Tampered
    <3> QED BY <1>9, <2>1, <2>2, <3>2
  <2>5. CASE CollectGarbage(o)
    <3>1. Live(cr).uid = base.uid => operand[o] # Desired(o)
      BY <2>5 DEF CollectGarbage, Desired
    <3>2. Tampered(o) => Tampered(o)'
      BY <1>c, <2>3 DEF Tampered
    <3> QED BY <1>9, <2>1, <2>2, <3>1, <3>2
  <2> QED BY <1>11, <2>4, <2>5
<1> QED
  BY <1>1, <1>2, <1>3, <1>4, <1>6, <1>7, <1>8, <1>10, <1>11
  DEF Next, Pass, Faults, Users

-----------------------------------------------------------------------------
(***************************************************************************)
(* observedGeneration and the operands.                                    *)
(***************************************************************************)

\* What Render produces is neither absent nor somebody else's.
LEMMA RenderShape ==
  ASSUME NEW o \in Operand, NEW spec, NEW u, NEW rel, NEW e
  PROVE  Render(o, spec, u, rel, e).of \in
           {"access", "configmap", "service", "deployment"}
<1>1. Config(o.comp, spec, u, rel).of = "configmap"
  BY DEF Config, ApiConfig, SentinelConfig
<1> QED BY <1>1 DEF Operand, Kinds, Render, Access, Service, Deployment

\* An operand as the pass wants it is one of the spec the pass works for.
LEMMA DesiredOfSpec ==
  ASSUME TypeOK, NEW o \in Operands, operand'[o] = Desired(o),
         base.uid = Live(cr').uid, base.spec = Live(cr').spec
  PROVE  OfLiveSpec(o)'
<1> DEFINE x == Render(o, base.spec, url, release, read[o.comp])
<1> DEFINE e == IF o.kind = "deployment" THEN x.hash.secrets ELSE NoEntries
<1>1. o \in Operand /\ url \in URIs \cup {NoURI} /\ release \in Releases
  BY ApplyOrderType DEF TypeOK
<1>2. operand'[o].owner = base.uid /\ operand'[o].data = x
  BY DEF Desired
<1>3. x.of # "absent"
  BY <1>1, RenderShape
<1>4. x = Render(o, base.spec, url, release, e)
  <2>1. CASE o.kind = "deployment"
    BY <2>1, RenderEntries
  <2>2. CASE o.kind # "deployment"
    BY <2>2, RenderEntries
  <2> QED BY <2>1, <2>2
<1>5. operand'[o] = [owner |-> Live(cr').uid,
                     data  |-> Render(o, Live(cr').spec, url, release,
                                      IF o.kind = "deployment"
                                        THEN operand'[o].data.hash.secrets
                                        ELSE NoEntries)]
  <2>1. operand'[o] = [owner |-> Live(cr').uid, data |-> x]
    BY DEF Desired
  <2>2. e = IF o.kind = "deployment" THEN operand'[o].data.hash.secrets
                                     ELSE NoEntries
    BY <1>2
  <2> HIDE DEF x, e
  <2> QED BY <1>4, <2>1, <2>2
<1>6. Exists(o)'
  BY <1>2, <1>3 DEF Exists
<1> HIDE DEF x, e
<1> QED BY <1>1, <1>5, <1>6 DEF OfLiveSpec

\* The invariant in terms of Acknowledged and OfLiveSpec.
LEMMA ObservedSplit ==
  ObservedGenerationIsApplied <=>
    (Acknowledged /\ spent["drift"] = 0 /\ spent["late"] = 0
       => \A o \in Operands : OfLiveSpec(o))
BY DEF ObservedGenerationIsApplied, Acknowledged, OfLiveSpec

\* What a step does to the operands while the CR it finds stays live.
LEMMA OperandStep ==
  ASSUME IInv, LateCounted, Next, spent'["late"] = 0, spent'["drift"] = 0
  PROVE  \/ operand' = operand
         \/ /\ cr' = cr /\ pc = "apply" /\ at \in 1..Len(ApplyOrder)
            /\ operand' =
                 [operand EXCEPT ![ApplyOrder[at]] = Desired(ApplyOrder[at])]
         \/ \E o \in Operands :
              /\ operand[o].owner # Live(cr).uid
              /\ cr' = cr
<1>0. TypeOK /\ InRange
  BY DEF IInv
<1>a. /\ spent["late"] \in Nat /\ spent'["late"] >= spent["late"]
      /\ spent["drift"] \in Nat /\ spent'["drift"] >= spent["drift"]
  BY <1>0, SpentGrows DEF Budgets
<1>b. late = {} /\ ~Spend("drift")
  <2>1. spent["late"] = 0
    BY <1>a
  <2>2. Spend("drift") => spent'["drift"] = spent["drift"] + 1
    BY <1>0, SpendCounts DEF Budgets
  <2>3. ~Spend("drift")
    BY <1>a, <2>2
  <2> QED BY <2>1, <2>3 DEF LateCounted
<1>1. CASE ApplyOperand \/ ApplyFails
  BY <1>0, <1>1 DEF ApplyOperand, ApplyFails, InRange, Upsert, server
<1>2. CASE \E o \in Operands : CollectGarbage(o)
  BY <1>2 DEF CollectGarbage
<1>3. CASE \E o \in Operands :
             \/ \E n \in IF o.kind = "deployment" THEN {0, 1, 2} ELSE {1} :
                  EditOperand(o, n)
             \/ DeleteOperand(o)
  BY <1>b, <1>3 DEF EditOperand, DeleteOperand
<1>4. CASE \E w \in late : Land(w)
  BY <1>b, <1>4
<1>5. CASE \/ Begin \/ ReadSecret \/ ResolveJWKSURL \/ Refresh \/ RefreshNotFound
           \/ UpdateStatus \/ GetFails \/ ReadSecretFails \/ ApplyTimesOut
           \/ RefreshFails \/ UpdateStatusFails \/ DeliverConfig \/ DeliverOwned
           \/ Resync \/ Crash \/ CrashInApply \/ Restart
           \/ \E s \in SecretNames : DeliverSecret(s)
  BY <1>5
  DEF Begin, ReadSecret, ResolveJWKSURL, Refresh, RefreshNotFound, UpdateStatus,
      GetFails, ReadSecretFails, ApplyTimesOut, Delay, RefreshFails,
      AbortRefresh, UpdateStatusFails, DeliverConfig, DeliverOwned, Resync,
      Crash, CrashInApply, Restart, DeliverSecret, server
<1>6. CASE \/ \E s \in Specs : CreateConfig(s)
           \/ \E s \in Specs : EditConfig(s)
           \/ DeleteConfig
           \/ \E s \in SecretNames : \E v \in {0, NewVersion} : WriteSecret(s, v)
           \/ \E i \in Issuers : \E u \in URIs \cup {NoURI} : ChangeIdP(i, u)
           \/ \E c \in ComponentSet : \E st \in DepStatuses : ReportHealth(c, st)
  BY <1>6
  DEF CreateConfig, EditConfig, DeleteConfig, WriteSecret, ChangeIdP,
      ReportHealth, server
<1> QED
  BY <1>1, <1>2, <1>3, <1>4, <1>5, <1>6 DEF Next, Pass, Faults, Users

\* The status names a generation only after the last operand was applied.
LEMMA ObservedStep ==
  ASSUME IInv, LateCounted, PrefixStands, NoOtherSpec,
         ObservedGenerationIsApplied, Next
  PROVE  ObservedGenerationIsApplied'
<1> SUFFICES ASSUME Acknowledged', spent'["drift"] = 0, spent'["late"] = 0,
                    NEW o \in Operands
             PROVE  OfLiveSpec(o)'
  BY DEF ObservedGenerationIsApplied, Acknowledged, OfLiveSpec
<1>0. TypeOK
  BY DEF IInv
<1>1. spent["late"] = 0 /\ spent["drift"] = 0
  <2>1. /\ spent["late"] \in Nat /\ spent'["late"] >= spent["late"]
        /\ spent["drift"] \in Nat /\ spent'["drift"] >= spent["drift"]
    BY <1>0, SpentGrows DEF Budgets
  <2> QED BY <2>1
<1>2. Acknowledged => \A p \in Operands : OfLiveSpec(p)
  BY <1>1, ObservedSplit
<1>3. ASSUME Acknowledged, operand'[o] = operand[o],
             Live(cr').uid = Live(cr).uid, Live(cr').spec = Live(cr).spec
      PROVE  OfLiveSpec(o)'
  BY <1>2, <1>3 DEF OfLiveSpec, Exists
<1>4. CASE Live(cr') = Live(cr) /\ Acknowledged
  <2>1. CASE operand' = operand
    BY <1>3, <1>4, <2>1
  <2>2. CASE /\ cr' = cr /\ pc = "apply" /\ at \in 1..Len(ApplyOrder)
             /\ operand' =
                  [operand EXCEPT ![ApplyOrder[at]] = Desired(ApplyOrder[at])]
    <3>1. ApplyOrder[at] \in Operands
      BY <2>2, ApplyOrderType
    <3>2. CASE o # ApplyOrder[at]
      <4>1. operand'[o] = operand[o]
        BY <1>0, <2>2, <3>1, <3>2 DEF TypeOK
      <4> QED BY <1>3, <1>4, <4>1
    <3>3. CASE o = ApplyOrder[at]
      <4>1. operand'[o] = Desired(o)
        BY <1>0, <2>2, <3>1, <3>3 DEF TypeOK
      <4>2. SameSpec(base)
        BY <1>4, <2>2 DEF NoOtherSpec, InPass
      <4>3. base.uid = Live(cr').uid /\ base.spec = Live(cr').spec
        BY <1>4, <4>2 DEF SameSpec
      <4> QED BY <1>0, <4>1, <4>3, DesiredOfSpec
    <3> QED BY <3>2, <3>3
  <2>3. ASSUME NEW p \in Operands, operand[p].owner # Live(cr).uid
        PROVE  FALSE
    <3>1. OfLiveSpec(p)
      BY <1>2, <1>4
    <3> QED BY <2>3, <3>1 DEF OfLiveSpec
  <2> QED BY <2>1, <2>2, <2>3, OperandStep
<1>5. CASE /\ WritesStatus
           /\ Live(cr').uid = Live(cr).uid
           /\ Live(cr').spec = Live(cr).spec
           /\ base = Live(cr)
           /\ Acknowledged \/ ~failed
  <2>0. operand'[o] = operand[o]
    BY <1>5 DEF WritesStatus
  <2>1. CASE Acknowledged
    BY <1>3, <1>5, <2>0, <2>1
  <2>2. CASE ~failed
    <3>1. PICK i \in 1..Len(ApplyOrder) : ApplyOrder[i] = o
      BY ApplyOrderType DEF Operands
    <3>2. Applied(i)
      BY <1>5, <2>2 DEF Applied, WritesStatus
    <3>3. ~Tampered(o)
      BY <1>1 DEF Tampered
    <3>4. operand[o] = Desired(o)
      BY <1>1, <1>5, <3>1, <3>2, <3>3 DEF PrefixStands
    <3> QED BY <1>0, <1>5, <2>0, <3>4, DesiredOfSpec
  <2> QED BY <1>5, <2>1, <2>2
<1> QED BY <1>4, <1>5, AcknowledgedStep

-----------------------------------------------------------------------------
(***************************************************************************)
(* The invariant as a whole.                                               *)
(***************************************************************************)
LEMMA AppliedInit == Init => AppliedInv
<1> SUFFICES ASSUME Init PROVE AppliedInv
  OBVIOUS
<1>1. /\ cr = <<NoCR>> /\ base = NoCR /\ pc = "idle" /\ ~fresh /\ late = {}
      /\ spent["create"] = 0
  BY DEF Init, Budgets
<1>2. Len(cr) = 1 /\ cr[1] = NoCR /\ Live(cr) = NoCR
  BY <1>1, NoCRType, StreamOne
<1>3. ~Acknowledged
  BY <1>2 DEF Acknowledged, NoCR
<1>4. UidsCounted
  <2>1. \A i \in 1..Len(cr) : cr[i] = NoCR
    BY <1>2
  <2>2. NoCR.uid <= spent["create"]
    BY <1>1 DEF NoCR
  <2> QED BY <1>1, <2>1, <2>2 DEF UidsCounted, InPass
<1>5. LateCounted /\ FreshAlone /\ NoOtherSpec
  BY <1>1, <1>3 DEF LateCounted, FreshAlone, NoOtherSpec
<1>6. PrefixStands
  BY <1>1 DEF PrefixStands, Applied
<1>7. ObservedGenerationIsApplied
  BY <1>3, ObservedSplit
<1> QED BY <1>4, <1>5, <1>6, <1>7 DEF AppliedInv

\* The invariant is inductive.
LEMMA AppliedStep == IInv /\ AppliedInv /\ [Next]_vars => AppliedInv'
<1> SUFFICES ASSUME IInv, AppliedInv, [Next]_vars PROVE AppliedInv'
  OBVIOUS
<1>1. CASE Next
  BY <1>1, LateStep, UidsStep, FreshStep, PrefixStep, NoOtherSpecStep,
     ObservedStep
  DEF AppliedInv, IInv
<1>2. CASE UNCHANGED vars
  <2>1. LateCounted' /\ UidsCounted' /\ FreshAlone'
    BY <1>2 DEF AppliedInv, LateCounted, UidsCounted, FreshAlone, InPass, vars
  <2>2. PrefixStands'
    <3>1. \A o : Desired(o)' = Desired(o) /\ Tampered(o)' = Tampered(o)
      BY <1>2 DEF Desired, Tampered, vars
    <3>2. \A i : Applied(i)' = Applied(i)
      BY <1>2 DEF Applied, vars
    <3> QED BY <1>2, <3>1, <3>2 DEF AppliedInv, PrefixStands, vars
  <2>3. NoOtherSpec'
    BY <1>2 DEF AppliedInv, NoOtherSpec, Acknowledged, SameSpec, InPass, vars
  <2>4. ObservedGenerationIsApplied'
    BY <1>2 DEF AppliedInv, ObservedGenerationIsApplied, Exists, vars
  <2> QED BY <2>1, <2>2, <2>3, <2>4 DEF AppliedInv
<1> QED BY <1>1, <1>2

\* It holds in every reachable state.
LEMMA AppliedAlways == Spec => []AppliedInv
BY AppliedInit, AppliedStep, IInvAlways, PTL DEF Spec

(***************************************************************************)
(* observedGeneration never claims what is not there: whenever it names    *)
(* the live generation, every operand was rendered from that generation's  *)
(* spec and belongs to the live HyperFleetConfig, in every state of every  *)
(* pass, out-of-band changes and applies that outlive their pass excepted. *)
(***************************************************************************)
THEOREM ObservedIsApplied == Spec => []ObservedGenerationIsApplied
<1>1. AppliedInv => ObservedGenerationIsApplied
  BY DEF AppliedInv
<1> QED BY <1>1, AppliedAlways, PTL

\* What a step may do to a Deployment.
ConfigFirst ==
  \A c \in ComponentSet :
    LET d == DeploymentOf(c)
        m == [comp |-> c, kind |-> "configmap"]
    IN /\ spent["late"] = 0
       /\ operand'[d] # operand[d]
       /\ operand'[d].data.of = "deployment"
       /\ operand'[d].owner = Live(cr').uid
       => \/ operand'[m].data = operand'[d].data.hash.config
          \/ /\ spent["drift"] > 0
             /\ operand'[m].data.of \in {"absent", "drifted"}

\* A Deployment is written after the ConfigMap of the same pass (apply.Objects).
LEMMA ConfigFirstStep ==
  ASSUME IInv, AppliedInv, Next
  PROVE  ConfigFirst
<1> SUFFICES ASSUME NEW c \in ComponentSet, spent["late"] = 0,
                    operand'[DeploymentOf(c)] # operand[DeploymentOf(c)],
                    operand'[DeploymentOf(c)].data.of = "deployment",
                    operand'[DeploymentOf(c)].owner = Live(cr').uid
             PROVE  LET d == DeploymentOf(c)
                        m == [comp |-> c, kind |-> "configmap"]
                    IN \/ operand'[m].data = operand'[d].data.hash.config
                       \/ /\ spent["drift"] > 0
                          /\ operand'[m].data.of \in {"absent", "drifted"}
  BY DEF ConfigFirst
<1> DEFINE d == DeploymentOf(c)
<1> DEFINE m == [comp |-> c, kind |-> "configmap"]
<1>0. TypeOK /\ InRange /\ late = {} /\ PrefixStands
  BY DEF IInv, AppliedInv, LateCounted
<1>1. d \in Operands /\ d.kind = "deployment" /\ d.comp = c
  <2>1. \E i \in 1..Len(ApplyOrder) : ApplyOrder[i] = d
    BY WorkloadOrder DEF DeploymentOf
  <2> QED BY <2>1, ApplyOrderType DEF DeploymentOf
<1>2. ASSUME ApplyOperand \/ ApplyFails
      PROVE  \/ operand'[m].data = operand'[d].data.hash.config
             \/ /\ spent["drift"] > 0
                /\ operand'[m].data.of \in {"absent", "drifted"}
  <2>1. /\ cr' = cr /\ pc = "apply" /\ at \in 1..Len(ApplyOrder)
        /\ \/ operand' = operand
           \/ operand' =
                [operand EXCEPT ![ApplyOrder[at]] = Desired(ApplyOrder[at])]
    BY <1>0, <1>2 DEF ApplyOperand, ApplyFails, InRange, Upsert, server
  <2>2. ApplyOrder[at] = d /\ operand'[d] = Desired(d)
    BY <1>0, <1>1, <2>1 DEF TypeOK
  <2>3. PICK j \in 1..(at - 1) : ApplyOrder[j] = m
    BY <1>1, <2>1, <2>2, WorkloadOrder
  <2>4. j \in 1..Len(ApplyOrder) /\ Applied(j) /\ j < at
    <3>1. Len(ApplyOrder) \in Nat
      BY ApplyOrderType
    <3>2. j \in 1..Len(ApplyOrder) /\ j < at
      BY <2>1, <3>1
    <3> QED BY <2>1, <3>2 DEF Applied
  <2>5. m \in Operands /\ m # d
    BY <2>3, <2>4, ApplyOrderType DEF DeploymentOf
  <2>6. operand'[m] = operand[m]
    BY <1>0, <1>1, <2>1, <2>2, <2>5 DEF TypeOK
  <2>7. Live(cr).uid = base.uid
    BY <2>1, <2>2 DEF Desired
  <2>8. operand[m] = Desired(m) \/ Tampered(m)
    BY <1>0, <2>3, <2>4, <2>7 DEF PrefixStands
  <2>9. CASE operand[m] = Desired(m)
    <3>1. Desired(m).data = Config(c, base.spec, url, release)
      BY DEF Desired, Render
    <3>2. Desired(d).data.hash.config = Config(c, base.spec, url, release)
      BY <1>1, RenderEntries DEF Desired
    <3> QED BY <2>2, <2>6, <2>9, <3>1, <3>2
  <2>10. CASE Tampered(m)
    BY <2>6, <2>10 DEF Tampered
  <2> QED BY <2>8, <2>9, <2>10
<1>3. ASSUME NEW o \in Operands, NEW n \in {0, 1, 2}, EditOperand(o, n)
      PROVE  FALSE
  <2>1. operand' = [operand EXCEPT ![o].data = Drifted(n)]
    BY <1>3 DEF EditOperand
  <2>2. o = d
    BY <1>0, <1>1, <2>1 DEF TypeOK
  <2>3. operand'[d].data = Drifted(n)
    BY <1>0, <1>1, <2>1, <2>2 DEF TypeOK, Object
  <2> QED BY <2>3 DEF Drifted
<1>4. ASSUME NEW o \in Operands, DeleteOperand(o) \/ CollectGarbage(o)
      PROVE  FALSE
  <2>1. operand' = [operand EXCEPT ![o] = NoObject]
    BY <1>4 DEF DeleteOperand, CollectGarbage, RemoveObject
  <2>2. o = d
    BY <1>0, <1>1, <2>1 DEF TypeOK
  <2>3. operand'[d] = NoObject
    BY <1>0, <1>1, <2>1, <2>2 DEF TypeOK
  <2> QED BY <2>3 DEF NoObject
<1>5. ASSUME NEW w \in late, Land(w)
      PROVE  FALSE
  BY <1>0
<1>6. ASSUME operand' = operand
      PROVE  FALSE
  BY <1>6
<1>7. CASE \/ Begin \/ ReadSecret \/ ResolveJWKSURL \/ Refresh \/ RefreshNotFound
           \/ UpdateStatus \/ GetFails \/ ReadSecretFails \/ ApplyTimesOut
           \/ RefreshFails \/ UpdateStatusFails \/ DeliverConfig \/ DeliverOwned
           \/ Resync \/ Crash \/ CrashInApply \/ Restart
           \/ \E s \in SecretNames : DeliverSecret(s)
  <2>1. operand' = operand
    BY <1>7
    DEF Begin, ReadSecret, ResolveJWKSURL, Refresh, RefreshNotFound,
        UpdateStatus, GetFails, ReadSecretFails, ApplyTimesOut, Delay,
        RefreshFails, AbortRefresh, UpdateStatusFails, DeliverConfig,
        DeliverOwned, Resync, Crash, CrashInApply, Restart, DeliverSecret, server
  <2> QED BY <1>6, <2>1
<1>8. CASE \/ \E s \in Specs : CreateConfig(s)
           \/ \E s \in Specs : EditConfig(s)
           \/ DeleteConfig
           \/ \E s \in SecretNames : \E v \in {0, NewVersion} : WriteSecret(s, v)
           \/ \E i \in Issuers : \E u \in URIs \cup {NoURI} : ChangeIdP(i, u)
           \/ \E k \in ComponentSet : \E st \in DepStatuses : ReportHealth(k, st)
  <2>1. operand' = operand
    BY <1>8
    DEF CreateConfig, EditConfig, DeleteConfig, WriteSecret, ChangeIdP,
        ReportHealth, server
  <2> QED BY <1>6, <2>1
<1> QED
  BY <1>2, <1>3, <1>4, <1>5, <1>7, <1>8 DEF Next, Pass, Faults, Users

(***************************************************************************)
(* No Deployment is ever rolled ahead of its ConfigMap: when a step gives  *)
(* a Deployment of the live HyperFleetConfig a new template, the ConfigMap *)
(* it was hashed from is already on the server, unless somebody else has   *)
(* edited or deleted it since the same pass applied it.                    *)
(***************************************************************************)
THEOREM ConfigPrecedesWorkload == Spec => ConfigBeforeWorkload
<1>1. IInv /\ AppliedInv /\ [Next]_vars => [ConfigFirst]_operand
  <2> SUFFICES ASSUME IInv, AppliedInv, [Next]_vars
               PROVE  [ConfigFirst]_operand
    OBVIOUS
  <2>1. CASE Next
    BY <2>1, ConfigFirstStep
  <2>2. CASE UNCHANGED vars
    BY <2>2 DEF vars
  <2> QED BY <2>1, <2>2
<1>2. Spec => [][ConfigFirst]_operand
  BY <1>1, IInvAlways, AppliedAlways, PTL DEF Spec
<1> QED BY <1>2 DEF ConfigBeforeWorkload, ConfigFirst
=============================================================================
