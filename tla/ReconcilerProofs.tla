-------------------------- MODULE ReconcilerProofs --------------------------
(***************************************************************************)
(* What holds of Reconciler for every entity set, every set of specs,      *)
(* releases and Secrets, and every bound on the environment.               *)
(***************************************************************************)
EXTENDS Reconciler, StatusRulesProofs

-----------------------------------------------------------------------------
(***************************************************************************)
(* Watch streams.                                                          *)
(***************************************************************************)

\* The live and the cached version of an object are versions of it.
LEMMA StreamEnds ==
  ASSUME NEW S, NEW s \in Seq(S) \ {<<>>}
  PROVE  /\ Len(s) \in Nat \ {0}
         /\ Live(s) \in S
         /\ Cached(s) \in S
         /\ Cached(s) = s[1]
         /\ Len(s) = 1 => Cached(s) = Live(s)
BY EmptySeq, ElementOfSeq, HeadTailProperties DEF Live, Cached

\* A write makes its version the live one and leaves the earlier ones alone.
LEMMA StreamAppend ==
  ASSUME NEW S, NEW s \in Seq(S) \ {<<>>}, NEW x \in S
  PROVE  /\ Append(s, x) \in Seq(S) \ {<<>>}
         /\ Live(Append(s, x)) = x
         /\ Len(Append(s, x)) = Len(s) + 1
         /\ \A i \in 1..Len(s) : Append(s, x)[i] = s[i]
         /\ Append(s, x)[Len(s) + 1] = x
<1>1. Len(s) \in Nat \ {0}
  BY EmptySeq
<1>2. Append(s, x) \in Seq(S) /\ Len(Append(s, x)) = Len(s) + 1
  OBVIOUS
<1>3. /\ \A i \in 1..Len(s) : Append(s, x)[i] = s[i]
      /\ Append(s, x)[Len(s) + 1] = x
  BY <1>1
<1>4. Append(s, x) # <<>>
  BY <1>1, <1>2
<1> QED BY <1>2, <1>3, <1>4 DEF Live

\* Delivering an event changes the cached version and not the live one.
LEMMA StreamTail ==
  ASSUME NEW S, NEW s \in Seq(S) \ {<<>>}, Len(s) > 1
  PROVE  /\ Tail(s) \in Seq(S) \ {<<>>}
         /\ Live(Tail(s)) = Live(s)
         /\ Len(Tail(s)) = Len(s) - 1
         /\ \A i \in 1..Len(Tail(s)) : Tail(s)[i] = s[i + 1]
<1>1. Len(s) \in Nat \ {0}
  BY EmptySeq
<1>2. /\ Tail(s) \in Seq(S)
      /\ Len(Tail(s)) = Len(s) - 1
      /\ \A i \in 1..Len(Tail(s)) : Tail(s)[i] = s[i + 1]
  BY HeadTailProperties
<1>3. Tail(s) # <<>>
  <2>1. Len(Tail(s)) # 0
    BY <1>1, <1>2
  <2> QED BY <2>1, EmptySeq
<1>4. Tail(s)[Len(s) - 1] = s[Len(s)]
  BY <1>1, <1>2
<1> QED BY <1>2, <1>3, <1>4 DEF Live

\* A stream of one version.
LEMMA StreamOne ==
  ASSUME NEW S, NEW x \in S
  PROVE  <<x>> \in Seq(S) \ {<<>>} /\ Len(<<x>>) = 1 /\ <<x>>[1] = x /\ Live(<<x>>) = x
BY DEF Live

-----------------------------------------------------------------------------
(***************************************************************************)
(* Types of the values the actions write.                                  *)
(***************************************************************************)
LEMMA EmptyStatusType == EmptyStatus \in Status
<1>1. NoHealth \in Health
  BY DEF NoHealth, Health, Unreported, Unset, ComponentConditions, Condition,
         Reasons
<1> QED BY <1>1 DEF EmptyStatus, Status, Degraded, Rollup, Reasons, All

\* Nothing collected yet is a well-formed collection of conditions.
LEMMA NoHealthType == NoHealth \in Health
BY DEF NoHealth, Health, Unreported, Unset, ComponentConditions, Condition,
       Reasons

\* The absent HyperFleetConfig has the type of one.
LEMMA NoCRType == NoCR \in CR
<1>1. (CHOOSE s \in Specs : TRUE) \in Specs
  BY SpecsAssumption
<1> QED BY <1>1, EmptyStatusType DEF NoCR, CR

\* An edit of a HyperFleetConfig is one, with the next generation.
LEMMA EditType ==
  ASSUME NEW c \in CR, NEW s \in Specs
  PROVE  LET e == [c EXCEPT !.spec = s, !.gen = @ + 1]
         IN /\ e \in CR
            /\ e.gen = c.gen + 1
            /\ e.uid = c.uid
            /\ e.status = c.status
<1> DEFINE d == [c EXCEPT !.spec = s]
<1> DEFINE e == [d EXCEPT !.gen = c.gen + 1]
<1>1. d \in CR /\ d.gen = c.gen /\ d.uid = c.uid /\ d.status = c.status
  BY DEF CR
<1>2. [c EXCEPT !.spec = s, !.gen = @ + 1] = e
  BY DEF CR
<1>3. c.gen + 1 \in Nat
  BY DEF CR
<1>4. e \in CR /\ e.gen = c.gen + 1 /\ e.uid = c.uid /\ e.status = c.status
  <2> HIDE DEF d
  <2> QED BY <1>1, <1>3 DEF CR
<1> HIDE DEF e
<1> QED BY <1>2, <1>4

\* No Secret read yet is a well-formed table of entries.
LEMMA NothingReadType == NothingRead \in [ComponentSet -> Entries]
BY DEF NothingRead, NoEntries, Entries, Entry, NotRead

\* A new Deployment's status is a Deployment status.
LEMMA NewDepStatusType == NewDepStatus \in DepStatus
BY DEF NewDepStatus, DepStatus, Counts

\* An absent operand has the type of an object.
LEMMA NoObjectType == NoObject \in Object
BY DEF NoObject, Object

\* The status a pass publishes is well-formed.
LEMMA NewStatusType ==
  ASSUME TypeOK
  PROVE  NewStatus \in Status
<1>1. base.status \in Status /\ base.gen \in Nat
  BY DEF TypeOK, CR
<1>2. MissingSecrets \in SUBSET Roles
  BY DEF MissingSecrets
<1> QED BY <1>1, <1>2, AggregateStatusType DEF NewStatus, TypeOK

\* The references of the CR the pass read.
LEMMA RefsType ==
  ASSUME TypeOK
  PROVE  /\ Len(Refs) \in Nat \ {0}
         /\ \A i \in 1..Len(Refs) : Refs[i] \in SecretRef
<1>1. base.spec \in ConfigSpec /\ release \in Release
  BY SpecsAssumption, ReleasesAssumption DEF TypeOK, CR
<1>2. Refs \in Seq(SecretRef) /\ Len(Refs) \in Nat \ {0}
  BY <1>1, ReferencedSecretsType DEF Refs
<1> QED BY <1>2, ElementOfSeq

\* What a pass applies is an object.
LEMMA DesiredType ==
  ASSUME TypeOK, NEW o \in Operand
  PROVE  Desired(o) \in Object
<1>1. base.spec \in ConfigSpec /\ release \in Release /\ base.uid \in Nat
  BY SpecsAssumption, ReleasesAssumption DEF TypeOK, CR
<1>2. o.comp \in ComponentSet
  BY DEF Operand
<1>3. read[o.comp] \in Entries /\ url \in URIs \cup {NoURI}
  BY <1>2 DEF TypeOK
<1>4. Render(o, base.spec, url, release, read[o.comp]) \in Data
  BY <1>1, <1>3, RenderType
<1> QED BY <1>1, <1>4 DEF Desired, Object

\* The server side of an apply keeps the types.
LEMMA UpsertType ==
  ASSUME TypeOK, NEW o \in Operands, NEW obj \in Object, Upsert(o, obj)
  PROVE  /\ operand' \in [Operands -> Object]
         /\ ownedEvent' \in BOOLEAN
         /\ depStatus' \in [ComponentSet -> DepStatus]
<1>1. o.comp \in ComponentSet
  BY ApplyOrderType DEF Operand
<1>2. operand' \in [Operands -> Object] /\ ownedEvent' \in BOOLEAN
  BY DEF TypeOK, Upsert
<1>3. depStatus' \in [ComponentSet -> DepStatus]
  BY <1>1 DEF TypeOK, Upsert, DepStatus
<1> QED BY <1>2, <1>3

\* Removing an operand keeps operands, Deployment statuses and the event flag
\* well-typed.
LEMMA RemoveObjectType ==
  ASSUME TypeOK, NEW o \in Operands, RemoveObject(o)
  PROVE  /\ operand' \in [Operands -> Object]
         /\ ownedEvent' \in BOOLEAN
         /\ depStatus' \in [ComponentSet -> DepStatus]
         /\ late' = late
BY NoObjectType, NewDepStatusType DEF TypeOK, RemoveObject

\* Counting an environment event keeps the counters natural numbers.
LEMMA SpendType ==
  ASSUME TypeOK, NEW b \in Budgets, Spend(b)
  PROVE  spent' \in [Budgets -> Nat]
BY DEF TypeOK, Spend

\* An apply left on its way is well-typed.
LEMMA DelayType ==
  ASSUME TypeOK, InRange, Delay
  PROVE  late' \in SUBSET Write /\ spent' \in [Budgets -> Nat]
<1>1. at \in 1..Len(ApplyOrder)
  BY DEF Delay, InRange
<1>2. [op |-> ApplyOrder[at], obj |-> Desired(ApplyOrder[at])] \in Write
  BY <1>1, ApplyOrderType, DesiredType DEF Write
<1>3. late' \in SUBSET Write
  BY <1>2 DEF Delay, TypeOK
<1>4. spent' \in [Budgets -> Nat]
  BY SpendType DEF Delay, Budgets
<1> QED BY <1>3, <1>4

\* The variables of a pass that has ended are well-typed.
LEMMA ForgetPassType ==
  ASSUME ForgetPass
  PROVE  /\ base' \in CR
         /\ fresh' \in BOOLEAN
         /\ at' \in Nat
         /\ read' \in [ComponentSet -> Entries]
         /\ url' \in URIs \cup {NoURI}
         /\ health' \in Health
         /\ failed' \in BOOLEAN
BY NoCRType, NothingReadType, NoHealthType DEF ForgetPass

-----------------------------------------------------------------------------
(***************************************************************************)
(* Type correctness.  Typed strengthens the type invariant by the range of *)
(* the position the pass is at.                                            *)
(***************************************************************************)
Typed == TypeOK /\ InRange

\* A freshly started operator and cluster are well-typed.
LEMMA TypedInit == Init => Typed
<1> SUFFICES ASSUME Init PROVE Typed
  OBVIOUS
<1>1. cr \in Seq(CR) \ {<<>>}
  BY NoCRType, StreamOne DEF Init
<1>2. secret \in [SecretNames -> Seq(Nat) \ {<<>>}]
  <2>1. <<0>> \in Seq(Nat) \ {<<>>} /\ <<1>> \in Seq(Nat) \ {<<>>}
    BY StreamOne
  <2> QED BY <2>1 DEF Init
<1>3. operand \in [Operands -> Object] /\ depStatus \in [ComponentSet -> DepStatus]
  BY NoObjectType, NewDepStatusType DEF Init
<1>4. /\ base \in CR /\ read \in [ComponentSet -> Entries] /\ health \in Health
  BY NoCRType, NothingReadType, NoHealthType DEF Init
<1>5. spent \in [Budgets -> Nat] /\ at \in Nat
  BY DEF Init
<1>6. discovered \in [Issuers -> URIs \cup {NoURI}] /\ url \in URIs \cup {NoURI}
  BY DEF Init
<1>7. InRange
  BY DEF Init, InRange
<1> QED BY <1>1, <1>2, <1>3, <1>4, <1>5, <1>6, <1>7 DEF Init, Typed, TypeOK

\* The steps of the pass.
LEMMA TypedPass ==
  ASSUME Typed, Pass \/ Faults
  PROVE  Typed'
<1> USE DEF Typed
<1>1. CASE Begin
  <2>1. Cached(cr) \in CR
    BY StreamEnds DEF TypeOK
  <2>2. CASE Cached(cr).uid = 0
    BY <1>1, <2>2 DEF Begin, TypeOK, InRange, Refs, server, outside, locals
  <2>3. CASE Cached(cr).uid # 0 /\ Resolvable(Cached(cr).spec)
    <3>1. /\ base' = Cached(cr) /\ fresh' = (Len(cr) = 1)
          /\ at' = 1 /\ pc' = "secrets" /\ queued' = FALSE
          /\ UNCHANGED <<failed, read, url, health>>
      BY <1>1, <2>3 DEF Begin
    <3>2. TypeOK'
      BY <1>1, <2>1, <3>1 DEF Begin, TypeOK, server, outside
    <3>3. Len(Refs)' \in Nat \ {0}
      <4>1. base'.spec \in ConfigSpec /\ release' \in Release
        BY <3>2, SpecsAssumption, ReleasesAssumption DEF TypeOK, CR
      <4> QED BY <4>1, ReferencedSecretsType DEF Refs
    <3> QED BY <3>1, <3>2, <3>3 DEF InRange
  <2>4. CASE Cached(cr).uid # 0 /\ ~Resolvable(Cached(cr).spec)
    BY <1>1, <2>1, <2>4 DEF Begin, TypeOK, InRange, server, outside
  <2> QED BY <2>2, <2>3, <2>4
<1>2. CASE ReadSecret
  <2> DEFINE ref == Refs[at]
  <2>1. at \in 1..Len(Refs) /\ Len(Refs) \in Nat \ {0}
    BY <1>2, RefsType DEF ReadSecret, InRange
  <2>2. ref \in SecretRef
    BY <2>1, RefsType
  <2>3. ref.comp \in ComponentSet /\ ref.role \in Roles /\ ref.name \in SecretNames
    BY <2>2 DEF SecretRef
  <2>4. Cached(secret[ref.name]) \in Entry
    BY <2>3, StreamEnds DEF TypeOK, Entry
  <2>5. read' = [read EXCEPT ![ref.comp][ref.role] = Cached(secret[ref.name])]
    BY <1>2 DEF ReadSecret
  <2>6. read' \in [ComponentSet -> Entries]
    <3> HIDE DEF ref
    <3> QED BY <2>3, <2>4, <2>5 DEF TypeOK, Entries
  <2>7. at' \in Nat /\ pc' \in {"secrets", "discover"}
    BY <1>2, <2>1 DEF ReadSecret
  <2>8. TypeOK'
    BY <1>2, <2>6, <2>7 DEF ReadSecret, TypeOK, server, outside
  <2>9. InRange'
    BY <1>2, <2>1 DEF ReadSecret, InRange, Refs, outside
  <2> QED BY <2>8, <2>9
<1>3. CASE ResolveJWKSURL
  <2>1. base.spec.issuer \in Issuers
    BY SpecsAssumption DEF TypeOK, CR, ConfigSpec
  <2>2. /\ url' \in URIs \cup {NoURI}
        /\ discovered' \in [Issuers -> URIs \cup {NoURI}]
        /\ failed' \in BOOLEAN
        /\ \/ pc' = "apply" /\ at' = 1
           \/ pc' = "status" /\ at' = at
    BY <1>3, <2>1 DEF ResolveJWKSURL, TypeOK, Fallback
  <2>3. TypeOK'
    BY <1>3, <2>2 DEF ResolveJWKSURL, TypeOK, server, outside
  <2>4. InRange'
    BY <2>2, ApplyOrderType DEF InRange
  <2> QED BY <2>3, <2>4
<1>4. CASE ApplyOperand
  <2>1. at \in 1..Len(ApplyOrder)
    BY <1>4 DEF ApplyOperand, InRange
  <2>2. /\ operand' \in [Operands -> Object]
        /\ ownedEvent' \in BOOLEAN
        /\ depStatus' \in [ComponentSet -> DepStatus]
    BY <1>4, <2>1, ApplyOrderType, DesiredType, UpsertType DEF ApplyOperand
  <2>3. TypeOK'
    BY <1>4, <2>2 DEF ApplyOperand, TypeOK, outside, locals
  <2>4. InRange'
    BY <1>4, <2>1 DEF ApplyOperand, InRange, locals
  <2> QED BY <2>3, <2>4
<1>5. CASE Refresh
  <2> DEFINE o == ApplyOrder[at]
  <2>1. at \in 1..Len(ApplyOrder)
    BY <1>5 DEF Refresh, InRange
  <2>2. o.comp \in ComponentSet
    BY <2>1, ApplyOrderType DEF Operand
  <2>3. health' \in Health
    <3>1. Conditions(operand[o].data.replicas, depStatus[o.comp])
            \in ComponentConditions
      BY ConditionsType
    <3>2. health' = health \/
          health' = [health EXCEPT ![o.comp] =
                       Conditions(operand[o].data.replicas, depStatus[o.comp])]
      BY <1>5 DEF Refresh
    <3> HIDE DEF o
    <3> QED BY <2>2, <3>1, <3>2 DEF TypeOK, Health
  <2>4. /\ at' \in Nat
        /\ pc' \in {"status", "apply"}
        /\ pc' = "apply" => at' \in 1..Len(ApplyOrder)
    <3>1. Len(ApplyOrder) \in Nat
      BY ApplyOrderType
    <3>2. CASE at = Len(ApplyOrder)
      BY <1>5, <3>2 DEF Refresh
    <3>3. CASE at # Len(ApplyOrder)
      <4>1. pc' = "apply" /\ at' = at + 1
        BY <1>5, <3>3 DEF Refresh
      <4> QED BY <2>1, <3>1, <3>3, <4>1
    <3> QED BY <3>2, <3>3
  <2>5. TypeOK'
    BY <1>5, <2>3, <2>4 DEF Refresh, TypeOK, server, outside
  <2>6. InRange'
    BY <2>4 DEF InRange
  <2> QED BY <2>5, <2>6
<1>6. CASE RefreshNotFound
  BY <1>6 DEF RefreshNotFound, AbortRefresh, TypeOK, InRange, server
<1>7. CASE UpdateStatus
  <2>1. cr' \in Seq(CR) \ {<<>>}
    <3>1. [Live(cr) EXCEPT !.status = NewStatus] \in CR
      BY StreamEnds, NewStatusType DEF TypeOK, CR
    <3>2. cr \in Seq(CR) \ {<<>>}
      BY DEF TypeOK
    <3>3. Append(cr, [Live(cr) EXCEPT !.status = NewStatus]) \in Seq(CR) \ {<<>>}
      BY <3>1, <3>2, StreamAppend
    <3>4. \/ cr' = cr
          \/ cr' = Append(cr, [Live(cr) EXCEPT !.status = NewStatus])
      BY <1>7 DEF UpdateStatus
    <3> QED BY <3>2, <3>3, <3>4
  <2>2. ForgetPass /\ pc' = "idle" /\ queued' \in BOOLEAN
    BY <1>7 DEF UpdateStatus, EndPass, TypeOK
  <2>3. TypeOK'
    BY <1>7, <2>1, <2>2, ForgetPassType DEF UpdateStatus, TypeOK, server, outside
  <2>4. InRange'
    BY <2>2 DEF InRange
  <2> QED BY <2>3, <2>4
<1>8. CASE GetFails
  BY <1>8, SpendType DEF GetFails, Budgets, TypeOK, InRange, Refs, server, locals
<1>9. CASE ReadSecretFails
  <2>1. Refs[at].comp \in ComponentSet
    BY <1>9, RefsType DEF ReadSecretFails, InRange, SecretRef
  <2>2. read' \in [ComponentSet -> Entries]
    <3>1. NoEntries \in Entries
      BY DEF NoEntries, Entries, Entry, NotRead
    <3> QED BY <1>9, <2>1, <3>1 DEF ReadSecretFails, TypeOK
  <2>3. spent' \in [Budgets -> Nat]
    BY <1>9, SpendType DEF ReadSecretFails, Budgets
  <2>4. TypeOK' /\ InRange'
    BY <1>9, <2>2, <2>3 DEF ReadSecretFails, TypeOK, InRange, server
  <2> QED BY <2>4
<1>10. CASE ApplyFails
  <2>1. at \in 1..Len(ApplyOrder)
    BY <1>10 DEF ApplyFails, InRange
  <2>2. /\ operand' \in [Operands -> Object]
        /\ ownedEvent' \in BOOLEAN
        /\ depStatus' \in [ComponentSet -> DepStatus]
    <3>1. CASE Upsert(ApplyOrder[at], Desired(ApplyOrder[at]))
      BY <2>1, <3>1, ApplyOrderType, DesiredType, UpsertType
    <3>2. CASE UNCHANGED <<server, ownedEvent>>
      BY <3>2 DEF TypeOK, server
    <3> QED BY <1>10, <3>1, <3>2 DEF ApplyFails
  <2>5. late' = late
    BY <1>10 DEF ApplyFails, server
  <2>3. spent' \in [Budgets -> Nat]
    BY <1>10, SpendType DEF ApplyFails, Budgets
  <2>4. TypeOK' /\ InRange'
    BY <1>10, <2>2, <2>3, <2>5 DEF ApplyFails, TypeOK, InRange
  <2> QED BY <2>4
<1>11. CASE RefreshFails
  <2>1. spent' \in [Budgets -> Nat]
    BY <1>11, SpendType DEF RefreshFails, Budgets
  <2> QED BY <1>11, <2>1 DEF RefreshFails, AbortRefresh, TypeOK, InRange, server
<1>12. CASE UpdateStatusFails
  <2>1. cr' \in Seq(CR) \ {<<>>}
    <3>1. [Live(cr) EXCEPT !.status = NewStatus] \in CR
      BY StreamEnds, NewStatusType DEF TypeOK, CR
    <3>2. cr \in Seq(CR) \ {<<>>}
      BY DEF TypeOK
    <3>3. Append(cr, [Live(cr) EXCEPT !.status = NewStatus]) \in Seq(CR) \ {<<>>}
      BY <3>1, <3>2, StreamAppend
    <3>4. \/ cr' = cr
          \/ cr' = Append(cr, [Live(cr) EXCEPT !.status = NewStatus])
      BY <1>12 DEF UpdateStatusFails
    <3> QED BY <3>2, <3>3, <3>4
  <2>2. ForgetPass /\ pc' = "idle" /\ queued' \in BOOLEAN
    BY <1>12 DEF UpdateStatusFails, EndPass, TypeOK
  <2>3. spent' \in [Budgets -> Nat]
    BY <1>12, SpendType DEF UpdateStatusFails, Budgets
  <2>4. TypeOK'
    BY <1>12, <2>1, <2>2, <2>3, ForgetPassType
    DEF UpdateStatusFails, TypeOK, server
  <2>5. InRange'
    BY <2>2 DEF InRange
  <2> QED BY <2>4, <2>5
<1>13. CASE ApplyTimesOut
  <2>1. late' \in SUBSET Write /\ spent' \in [Budgets -> Nat]
    BY <1>13, DelayType DEF ApplyTimesOut
  <2> QED BY <1>13, <2>1 DEF ApplyTimesOut, Delay, TypeOK, InRange
<1> QED
  BY <1>1, <1>2, <1>3, <1>4, <1>5, <1>6, <1>7, <1>8, <1>9, <1>10, <1>11, <1>12,
     <1>13
  DEF Pass, Faults

\* The watches, crash and restart, and the applies a crash left behind.
LEMMA TypedWatch ==
  ASSUME Typed,
         \/ DeliverConfig
         \/ \E s \in SecretNames : DeliverSecret(s)
         \/ DeliverOwned
         \/ Resync
         \/ Crash
         \/ CrashInApply
         \/ \E w \in late : Land(w)
         \/ Restart
  PROVE  Typed'
<1> USE DEF Typed
<1>1. CASE DeliverConfig
  <2>1. cr' \in Seq(CR) \ {<<>>}
    BY <1>1, StreamTail DEF DeliverConfig, TypeOK
  <2>2. queued' \in BOOLEAN
    BY <1>1 DEF DeliverConfig
  <2>3. TypeOK'
    BY <1>1, <2>1, <2>2 DEF DeliverConfig, TypeOK, server, outside, locals
  <2>4. InRange'
    BY <1>1 DEF DeliverConfig, InRange, Refs, outside, locals
  <2> QED BY <2>3, <2>4
<1>2. ASSUME NEW s \in SecretNames, DeliverSecret(s)
      PROVE  Typed'
  <2>1. Tail(secret[s]) \in Seq(Nat) \ {<<>>}
    BY <1>2, StreamTail DEF DeliverSecret, TypeOK
  <2>2. secret' \in [SecretNames -> Seq(Nat) \ {<<>>}]
    BY <1>2, <2>1 DEF DeliverSecret, TypeOK
  <2>3. queued' \in BOOLEAN
    BY <1>2 DEF DeliverSecret
  <2>4. TypeOK'
    BY <1>2, <2>2, <2>3 DEF DeliverSecret, TypeOK, server, outside, locals
  <2>5. InRange'
    BY <1>2 DEF DeliverSecret, InRange, Refs, outside, locals
  <2> QED BY <2>4, <2>5
<1>3. CASE DeliverOwned
  BY <1>3 DEF DeliverOwned, TypeOK, InRange, Refs, server, outside, locals
<1>4. CASE Resync
  <2>1. spent' \in [Budgets -> Nat]
    BY <1>4, SpendType DEF Resync, Budgets
  <2> QED BY <1>4, <2>1 DEF Resync, TypeOK, InRange, Refs, server, locals
<1>5. CASE Crash
  <2>1. spent' \in [Budgets -> Nat]
    BY <1>5, SpendType DEF Crash, Budgets
  <2>2. discovered' \in [Issuers -> URIs \cup {NoURI}]
    BY <1>5 DEF Crash, Die
  <2> QED
    BY <1>5, <2>1, <2>2, ForgetPassType DEF Crash, Die, TypeOK, InRange, server
<1>6. CASE Restart
  <2>1. cr' \in Seq(CR) \ {<<>>}
    BY <1>6, StreamEnds, StreamOne DEF Restart, TypeOK
  <2>2. \A s \in SecretNames : <<Live(secret[s])>> \in Seq(Nat) \ {<<>>}
    BY StreamEnds, StreamOne DEF TypeOK
  <2>3. secret' \in [SecretNames -> Seq(Nat) \ {<<>>}]
    BY <1>6, <2>2 DEF Restart
  <2> QED BY <1>6, <2>1, <2>3 DEF Restart, TypeOK, InRange, server, locals
<1>7. CASE CrashInApply
  <2>1. late' \in SUBSET Write /\ spent' \in [Budgets -> Nat]
    BY <1>7, DelayType DEF CrashInApply
  <2>2. discovered' \in [Issuers -> URIs \cup {NoURI}]
    BY <1>7 DEF CrashInApply, Die
  <2> QED
    BY <1>7, <2>1, <2>2, ForgetPassType
    DEF CrashInApply, Die, Delay, TypeOK, InRange
<1>8. ASSUME NEW w \in late, Land(w)
      PROVE  Typed'
  <2>1. w.op \in Operands /\ w.obj \in Object
    BY DEF TypeOK, Write
  <2>2. /\ operand' \in [Operands -> Object]
        /\ ownedEvent' \in BOOLEAN
        /\ depStatus' \in [ComponentSet -> DepStatus]
    BY <1>8, <2>1, UpsertType DEF Land
  <2>3. late' \in SUBSET Write
    BY <1>8 DEF Land, TypeOK
  <2> QED
    BY <1>8, <2>2, <2>3 DEF Land, TypeOK, InRange, Refs, outside, locals
<1> QED BY <1>1, <1>2, <1>3, <1>4, <1>5, <1>6, <1>7, <1>8

\* Users and the rest of the cluster.
LEMMA TypedUsers ==
  ASSUME Typed, Users \/ \E o \in Operands : CollectGarbage(o)
  PROVE  Typed'
<1> USE DEF Typed
<1>0. cr \in Seq(CR) \ {<<>>} /\ Live(cr) \in CR
  BY StreamEnds DEF TypeOK
<1>1. ASSUME NEW s \in Specs, CreateConfig(s)
      PROVE  Typed'
  <2>1. [uid |-> spent["create"] + 1, gen |-> 1, spec |-> s,
         status |-> EmptyStatus] \in CR
    <3>1. spent["create"] \in Nat
      BY DEF TypeOK, Budgets
    <3> QED BY <3>1, EmptyStatusType DEF CR
  <2>2. cr' \in Seq(CR) \ {<<>>}
    BY <1>0, <1>1, <2>1, StreamAppend DEF CreateConfig, WriteConfig
  <2>3. spent' \in [Budgets -> Nat]
    BY <1>1, SpendType DEF CreateConfig, Budgets
  <2> QED
    BY <1>1, <2>2, <2>3
    DEF CreateConfig, WriteConfig, TypeOK, InRange, Refs, server, operatorState
<1>2. ASSUME NEW s \in Specs, EditConfig(s)
      PROVE  Typed'
  <2>1. [Live(cr) EXCEPT !.spec = s, !.gen = @ + 1] \in CR
    BY <1>0, EditType
  <2>2. cr' \in Seq(CR) \ {<<>>}
    BY <1>0, <1>2, <2>1, StreamAppend DEF EditConfig, WriteConfig
  <2>3. spent' \in [Budgets -> Nat]
    BY <1>2, SpendType DEF EditConfig, Budgets
  <2> QED
    BY <1>2, <2>2, <2>3
    DEF EditConfig, WriteConfig, TypeOK, InRange, Refs, server, operatorState
<1>3. CASE DeleteConfig
  <2>1. cr' \in Seq(CR) \ {<<>>}
    BY <1>0, <1>3, NoCRType, StreamAppend DEF DeleteConfig, WriteConfig
  <2>2. spent' \in [Budgets -> Nat]
    BY <1>3, SpendType DEF DeleteConfig, Budgets
  <2> QED
    BY <1>3, <2>1, <2>2
    DEF DeleteConfig, WriteConfig, TypeOK, InRange, Refs, server, operatorState
<1>4. ASSUME NEW s \in SecretNames, NEW v \in {0, NewVersion}, WriteSecret(s, v)
      PROVE  Typed'
  <2>1. v \in Nat
    BY DEF NewVersion, TypeOK, Budgets
  <2>2. Append(secret[s], v) \in Seq(Nat) \ {<<>>}
    BY <2>1, StreamAppend DEF TypeOK
  <2>3. secret' \in [SecretNames -> Seq(Nat) \ {<<>>}]
    BY <1>4, <2>2 DEF WriteSecret, TypeOK
  <2>4. spent' \in [Budgets -> Nat]
    BY <1>4, SpendType DEF WriteSecret, Budgets
  <2> QED
    BY <1>4, <2>3, <2>4
    DEF WriteSecret, TypeOK, InRange, Refs, server, operatorState
<1>5. ASSUME NEW i \in Issuers, NEW u \in URIs \cup {NoURI}, ChangeIdP(i, u)
      PROVE  Typed'
  <2>1. spent' \in [Budgets -> Nat]
    BY <1>5, SpendType DEF ChangeIdP, Budgets
  <2>2. idp' \in [Issuers -> URIs \cup {NoURI}]
    BY <1>5 DEF ChangeIdP, TypeOK
  <2> QED
    BY <1>5, <2>1, <2>2
    DEF ChangeIdP, TypeOK, InRange, Refs, server, operatorState
<1>6. ASSUME NEW c \in ComponentSet, NEW st \in DepStatuses, ReportHealth(c, st)
      PROVE  Typed'
  <2>1. spent' \in [Budgets -> Nat]
    BY <1>6, SpendType DEF ReportHealth, Budgets
  <2>2. depStatus' \in [ComponentSet -> DepStatus]
    BY <1>6, DepStatusesAssumption DEF ReportHealth, TypeOK
  <2>3. ownedEvent' \in BOOLEAN
    BY <1>6 DEF ReportHealth
  <2> QED
    BY <1>6, <2>1, <2>2, <2>3
    DEF ReportHealth, TypeOK, InRange, Refs, operatorState
<1>7. ASSUME NEW o \in Operands, NEW n \in {0, 1, 2}, EditOperand(o, n)
      PROVE  Typed'
  <2>1. spent' \in [Budgets -> Nat]
    BY <1>7, SpendType DEF EditOperand, Budgets
  <2>2. Drifted(n) \in Data
    BY DEF Drifted, DriftData, Data
  <2>3. operand' \in [Operands -> Object]
    BY <1>7, <2>2 DEF EditOperand, TypeOK, Object
  <2>4. o.comp \in ComponentSet
    BY ApplyOrderType DEF Operand
  <2>5. depStatus' \in [ComponentSet -> DepStatus]
    BY <1>7, <2>4 DEF EditOperand, TypeOK, DepStatus
  <2>6. ownedEvent' \in BOOLEAN
    BY <1>7 DEF EditOperand
  <2> QED
    BY <1>7, <2>1, <2>3, <2>5, <2>6
    DEF EditOperand, TypeOK, InRange, Refs, operatorState
<1>8. ASSUME NEW o \in Operands, DeleteOperand(o)
      PROVE  Typed'
  <2>1. spent' \in [Budgets -> Nat]
    BY <1>8, SpendType DEF DeleteOperand, Budgets
  <2>2. /\ operand' \in [Operands -> Object]
        /\ ownedEvent' \in BOOLEAN
        /\ depStatus' \in [ComponentSet -> DepStatus]
        /\ late' = late
    BY <1>8, RemoveObjectType DEF DeleteOperand
  <2> QED
    BY <1>8, <2>1, <2>2
    DEF DeleteOperand, TypeOK, InRange, Refs, operatorState
<1>9. ASSUME NEW o \in Operands, CollectGarbage(o)
      PROVE  Typed'
  <2>1. /\ operand' \in [Operands -> Object]
        /\ ownedEvent' \in BOOLEAN
        /\ depStatus' \in [ComponentSet -> DepStatus]
        /\ late' = late
    BY <1>9, RemoveObjectType DEF CollectGarbage
  <2> QED
    BY <1>9, <2>1
    DEF CollectGarbage, TypeOK, InRange, Refs, operatorState
<1> QED
  BY <1>1, <1>2, <1>3, <1>4, <1>5, <1>6, <1>7, <1>8, <1>9 DEF Users

\* Every step, a stuttering one included, keeps the state well-typed and the
\* pass within its references and operands.
LEMMA TypedStep == Typed /\ [Next]_vars => Typed'
<1> SUFFICES ASSUME Typed, [Next]_vars PROVE Typed'
  OBVIOUS
<1>1. CASE Next
  BY <1>1, TypedPass, TypedWatch, TypedUsers DEF Next
<1>2. CASE UNCHANGED vars
  BY <1>2 DEF vars, Typed, TypeOK, InRange, Refs
<1> QED BY <1>1, <1>2

(***************************************************************************)
(* The reconciler never leaves the declared states: every operand it       *)
(* writes is a well-formed object, every status well-formed, and a pass is *)
(* never at a Secret reference or an operand that does not exist, although *)
(* the CR may change, the process restart as another release and every     *)
(* call fail between any two of its steps.                                 *)
(***************************************************************************)
THEOREM TypeCorrect == Spec => [](TypeOK /\ InRange)
<1>1. Init => Typed
  BY TypedInit
<1>2. Typed /\ [Next]_vars => Typed'
  BY TypedStep
<1> QED BY <1>1, <1>2, PTL DEF Spec, Typed

-----------------------------------------------------------------------------
(***************************************************************************)
(* The order of the generations.  A status update is computed from the     *)
(* copy of the CR the pass read, so that copy has to be in order too, and  *)
(* it replaces the status of the live version, so an accepted update has   *)
(* to have been computed from that version.                                *)
(***************************************************************************)

\* The values the actions write are in order.
LEMMA NoCROrdered == GenerationsOrdered(NoCR)
BY DEF GenerationsOrdered, NoCR, EmptyStatus

\* A HyperFleetConfig just created has its generations in order.
LEMMA CreatedOrdered ==
  ASSUME NEW u, NEW s
  PROVE  GenerationsOrdered([uid |-> u, gen |-> 1, spec |-> s,
                             status |-> EmptyStatus])
BY DEF GenerationsOrdered, EmptyStatus

\* An edit raises the generation and leaves the status, so the order is kept.
LEMMA EditOrdered ==
  ASSUME NEW c \in CR, NEW s \in Specs, GenerationsOrdered(c)
  PROVE  GenerationsOrdered([c EXCEPT !.spec = s, !.gen = @ + 1])
<1> DEFINE e == [c EXCEPT !.spec = s, !.gen = @ + 1]
<1>1. e.gen = c.gen + 1 /\ e.status = c.status
  BY EditType
<1>2. c.gen \in Nat /\ c.status.degraded.gen \in Nat
  BY DEF CR, Status, Degraded
<1> HIDE DEF e
<1>3. GenerationsOrdered(e)
  BY <1>1, <1>2 DEF GenerationsOrdered
<1> QED BY <1>3 DEF e

\* The status a pass publishes is in order and not behind the one it read.
LEMMA StatusOrdered ==
  ASSUME TypeOK, GenerationsOrdered(base)
  PROVE  LET c == [base EXCEPT !.status = NewStatus]
         IN /\ GenerationsOrdered(c)
            /\ c.uid = base.uid
            /\ c.status.observedGeneration >= base.status.observedGeneration
<1> DEFINE st == NewStatus
<1> DEFINE c == [base EXCEPT !.status = st]
<1>1. /\ base \in CR
      /\ base.status \in Status
      /\ base.gen \in Nat
      /\ base.status.observedGeneration \in Nat
      /\ base.status.degraded.gen \in Nat
  BY DEF TypeOK, CR, Status, Degraded
<1>2. MissingSecrets \in SUBSET Roles /\ health \in Health /\ failed \in BOOLEAN
  BY DEF MissingSecrets, TypeOK
<1>3. /\ st.degraded.gen = base.gen
      /\ ~failed => /\ st.observedGeneration = base.gen
                    /\ st.available.gen = base.gen
                    /\ st.progressing.gen = base.gen
                    /\ st.components.gen = base.gen
      /\ failed => st = [base.status EXCEPT !.degraded = st.degraded]
  <2>1. Stamped(base.status, base.gen, failed, NewStatus)
    BY <1>1, <1>2, AggregateStatusType DEF NewStatus
  <2> QED BY <2>1 DEF Stamped
<1>4. failed => /\ st.observedGeneration = base.status.observedGeneration
                /\ st.available = base.status.available
                /\ st.progressing = base.status.progressing
                /\ st.components = base.status.components
  <2> HIDE DEF st
  <2> QED BY <1>1, <1>3 DEF Status
<1>5. c.gen = base.gen /\ c.uid = base.uid /\ c.status = st
  <2> HIDE DEF st
  <2> QED BY <1>1 DEF CR
<1>6. GenerationsOrdered(c)
  <2> HIDE DEF st, c
  <2>1. CASE failed
    BY <1>1, <1>3, <1>4, <1>5, <2>1 DEF GenerationsOrdered
  <2>2. CASE ~failed
    BY <1>1, <1>3, <1>5, <2>2 DEF GenerationsOrdered
  <2> QED BY <2>1, <2>2
<1>7. c.status.observedGeneration >= base.status.observedGeneration
  <2> HIDE DEF st, c
  <2> QED BY <1>1, <1>2, <1>3, <1>4, <1>5 DEF GenerationsOrdered
<1> QED BY <1>5, <1>6, <1>7

\* A write of a version in order keeps the stream in order.
LEMMA AppendInOrder ==
  ASSUME cr \in Seq(CR) \ {<<>>}, NEW x \in CR, GenerationsOrdered(x),
         \A i \in 1..Len(cr) : GenerationsOrdered(cr[i])
  PROVE  \A i \in 1..Len(Append(cr, x)) : GenerationsOrdered(Append(cr, x)[i])
<1>1. Len(cr) \in Nat
  BY StreamEnds
<1>2. /\ Len(Append(cr, x)) = Len(cr) + 1
      /\ \A i \in 1..Len(cr) : Append(cr, x)[i] = cr[i]
      /\ Append(cr, x)[Len(cr) + 1] = x
  BY StreamAppend
<1>3. ASSUME NEW i \in 1..Len(Append(cr, x))
      PROVE  GenerationsOrdered(Append(cr, x)[i])
  <2>1. CASE i \in 1..Len(cr)
    BY <1>2, <2>1
  <2>2. CASE i = Len(cr) + 1
    BY <1>2, <2>2
  <2> QED BY <1>1, <1>2, <2>1, <2>2
<1> QED BY <1>3

\* The live version is one of the versions in order.
LEMMA LiveInOrder ==
  ASSUME cr \in Seq(CR) \ {<<>>}, AllInOrder
  PROVE  GenerationsOrdered(Live(cr)) /\ Live(cr) \in CR
<1>1. Len(cr) \in Nat \ {0} /\ Live(cr) \in CR
  BY StreamEnds
<1> QED BY <1>1 DEF AllInOrder, Live

\* An accepted status update.
LEMMA StatusWritten ==
  ASSUME IInv, fresh,
         cr' = Append(cr, [Live(cr) EXCEPT !.status = NewStatus])
  PROVE  /\ \A i \in 1..Len(cr') : GenerationsOrdered(cr'[i])
         /\ Live(cr').status.observedGeneration >=
              Live(cr).status.observedGeneration
<1> DEFINE x == [base EXCEPT !.status = NewStatus]
<1>1. TypeOK /\ base = Live(cr) /\ GenerationsOrdered(base)
  BY DEF IInv, FreshIsLive, AllInOrder
<1>2. cr \in Seq(CR) \ {<<>>} /\ base \in CR
  BY <1>1 DEF TypeOK
<1>3. x \in CR
  BY <1>1, <1>2, NewStatusType DEF CR
<1>4. /\ GenerationsOrdered(x)
      /\ x.status.observedGeneration >= base.status.observedGeneration
  BY <1>1, StatusOrdered
<1>5. cr' = Append(cr, x)
  BY <1>1
<1>6. \A i \in 1..Len(cr) : GenerationsOrdered(cr[i])
  BY DEF IInv, AllInOrder
<1> HIDE DEF x
<1>7. \A i \in 1..Len(Append(cr, x)) : GenerationsOrdered(Append(cr, x)[i])
  BY <1>2, <1>3, <1>4, <1>6, AppendInOrder
<1>8. Live(Append(cr, x)) = x
  BY <1>2, <1>3, StreamAppend
<1> QED BY <1>1, <1>4, <1>5, <1>7, <1>8

-----------------------------------------------------------------------------
\* The inductive invariant holds initially.
LEMMA IInvInit == Init => IInv
<1> SUFFICES ASSUME Init PROVE IInv
  OBVIOUS
<1>1. TypeOK /\ InRange
  BY TypedInit DEF Typed
<1>2. FreshIsLive
  BY DEF Init, FreshIsLive
<1>3. AllInOrder
  <2>1. Len(cr) = 1 /\ cr[1] = NoCR
    BY DEF Init
  <2>2. \A i \in 1..Len(cr) : cr[i] = NoCR
    BY <2>1
  <2> QED BY <2>2, NoCROrdered DEF Init, AllInOrder
<1> QED BY <1>1, <1>2, <1>3 DEF IInv

\* The steps that change neither the CR nor the copy of it.
LEMMA OthersKeepOrder ==
  ASSUME IInv, UNCHANGED <<cr, base, fresh>>
  PROVE  FreshIsLive' /\ AllInOrder'
BY DEF IInv, FreshIsLive, AllInOrder

\* Users' writes of the CR.
LEMMA WriteKeepsOrder ==
  ASSUME IInv, NEW x \in CR, GenerationsOrdered(x), WriteConfig(x), base' = base
  PROVE  FreshIsLive' /\ AllInOrder' /\ Live(cr') = x
<1>1. cr \in Seq(CR) \ {<<>>}
  BY DEF IInv, TypeOK
<1>2. cr' = Append(cr, x) /\ fresh' = FALSE
  BY DEF WriteConfig
<1>3. \A i \in 1..Len(cr) : GenerationsOrdered(cr[i])
  BY DEF IInv, AllInOrder
<1>4. \A i \in 1..Len(Append(cr, x)) : GenerationsOrdered(Append(cr, x)[i])
  BY <1>1, <1>3, AppendInOrder
<1>5. Live(Append(cr, x)) = x
  BY <1>1, StreamAppend
<1>6. FreshIsLive'
  BY <1>2 DEF FreshIsLive
<1>7. AllInOrder'
  BY <1>2, <1>4 DEF IInv, AllInOrder
<1> QED BY <1>2, <1>5, <1>6, <1>7

\* What a step does to the status of the live CR.
NotBehind ==
  Live(cr').uid = Live(cr).uid =>
    Live(cr').status.observedGeneration >= Live(cr).status.observedGeneration

\* A step that leaves the CR alone does not take observedGeneration back.
LEMMA UnchangedNotBehind ==
  ASSUME TypeOK, Live(cr') = Live(cr)
  PROVE  NotBehind
<1>1. Live(cr) \in CR
  BY StreamEnds DEF TypeOK
<1>2. Live(cr).status.observedGeneration \in Nat
  BY <1>1 DEF CR, Status
<1> QED BY <1>2 DEF NotBehind

\* Every step keeps the order and leaves no generation behind.
LEMMA OrderStep ==
  ASSUME IInv, Next
  PROVE  FreshIsLive' /\ AllInOrder' /\ NotBehind
<1>0. TypeOK /\ cr \in Seq(CR) \ {<<>>} /\ Live(cr) \in CR /\ Len(cr) \in Nat \ {0}
  BY StreamEnds DEF IInv, TypeOK
<1>1. CASE UNCHANGED <<cr, base, fresh>>
  BY <1>0, <1>1, OthersKeepOrder, UnchangedNotBehind
<1>2. CASE Begin
  <2>1. CASE Cached(cr).uid = 0
    <3>1. UNCHANGED <<cr, base, fresh>>
      BY <1>2, <2>1 DEF Begin, locals
    <3> QED BY <1>1, <3>1
  <2>2. CASE Cached(cr).uid # 0
    <3>1. cr' = cr /\ base' = Cached(cr) /\ fresh' = (Len(cr) = 1)
      BY <1>2, <2>2 DEF Begin
    <3>2. GenerationsOrdered(Cached(cr))
      BY <1>0, StreamEnds DEF IInv, AllInOrder
    <3>3. AllInOrder'
      BY <3>1, <3>2 DEF IInv, AllInOrder
    <3>4. FreshIsLive'
      BY <1>0, <3>1, StreamEnds DEF FreshIsLive
    <3> QED BY <1>0, <3>1, <3>3, <3>4, UnchangedNotBehind
  <2> QED BY <2>1, <2>2
<1>3. CASE UpdateStatus \/ UpdateStatusFails
  <2>1. base' = NoCR /\ fresh' = FALSE
    BY <1>3 DEF UpdateStatus, UpdateStatusFails, EndPass, ForgetPass
  <2>2. FreshIsLive' /\ GenerationsOrdered(base')
    BY <2>1, NoCROrdered DEF FreshIsLive
  <2>3. CASE cr' = cr
    BY <1>0, <2>2, <2>3, UnchangedNotBehind DEF IInv, AllInOrder
  <2>4. CASE fresh /\ cr' = Append(cr, [Live(cr) EXCEPT !.status = NewStatus])
    BY <2>2, <2>4, StatusWritten DEF AllInOrder, NotBehind
  <2>5. \/ cr' = cr
        \/ fresh /\ cr' = Append(cr, [Live(cr) EXCEPT !.status = NewStatus])
    BY <1>3 DEF UpdateStatus, UpdateStatusFails, WriteAccepted
  <2> QED BY <2>3, <2>4, <2>5
<1>4. CASE DeliverConfig
  <2>1. cr' = Tail(cr) /\ Len(cr) > 1 /\ UNCHANGED <<base, fresh>>
    BY <1>4 DEF DeliverConfig, locals
  <2>2. /\ Live(cr') = Live(cr)
        /\ Len(cr') = Len(cr) - 1
        /\ \A i \in 1..Len(cr') : cr'[i] = cr[i + 1]
    BY <1>0, <2>1, StreamTail
  <2>3. \A i \in 1..Len(cr') : i + 1 \in 1..Len(cr)
    BY <1>0, <2>2
  <2>4. AllInOrder'
    BY <2>1, <2>2, <2>3 DEF IInv, AllInOrder
  <2>5. FreshIsLive'
    BY <2>1, <2>2 DEF IInv, FreshIsLive
  <2> QED BY <1>0, <2>2, <2>4, <2>5, UnchangedNotBehind
<1>5. CASE Crash \/ CrashInApply
  <2>1. cr' = cr /\ base' = NoCR /\ fresh' = FALSE
    BY <1>5 DEF Crash, CrashInApply, Die, ForgetPass
  <2> QED
    BY <1>0, <2>1, NoCROrdered, UnchangedNotBehind
    DEF IInv, FreshIsLive, AllInOrder
<1>6. CASE Restart
  <2>1. cr' = <<Live(cr)>> /\ UNCHANGED <<base, fresh>>
    BY <1>6 DEF Restart, locals
  <2>2. Len(cr') = 1 /\ cr'[1] = Live(cr) /\ Live(cr') = Live(cr)
    BY <1>0, <2>1, StreamOne
  <2>3. GenerationsOrdered(Live(cr))
    BY <1>0, LiveInOrder DEF IInv
  <2>4. \A i \in 1..Len(cr') : cr'[i] = Live(cr)
    BY <2>2
  <2>5. AllInOrder'
    BY <2>1, <2>3, <2>4 DEF IInv, AllInOrder
  <2>6. FreshIsLive'
    BY <2>1, <2>2 DEF IInv, FreshIsLive
  <2> QED BY <1>0, <2>2, <2>5, <2>6, UnchangedNotBehind
<1>7. ASSUME NEW s \in Specs, CreateConfig(s)
      PROVE  FreshIsLive' /\ AllInOrder' /\ NotBehind
  <2> DEFINE x == [uid |-> spent["create"] + 1, gen |-> 1, spec |-> s,
                   status |-> EmptyStatus]
  <2>1. spent["create"] \in Nat
    BY <1>0 DEF TypeOK, Budgets
  <2>2. x \in CR /\ x.uid = spent["create"] + 1
    BY <2>1, EmptyStatusType DEF CR
  <2>3. GenerationsOrdered(x)
    BY CreatedOrdered
  <2>4. WriteConfig(x) /\ base' = base /\ Live(cr).uid = 0
    BY <1>7 DEF CreateConfig, operatorState
  <2> HIDE DEF x
  <2>5. FreshIsLive' /\ AllInOrder' /\ Live(cr') = x
    BY <2>2, <2>3, <2>4, WriteKeepsOrder
  <2>6. NotBehind
    BY <2>1, <2>2, <2>4, <2>5 DEF NotBehind
  <2> QED BY <2>5, <2>6
<1>8. ASSUME NEW s \in Specs, EditConfig(s)
      PROVE  FreshIsLive' /\ AllInOrder' /\ NotBehind
  <2> DEFINE x == [Live(cr) EXCEPT !.spec = s, !.gen = @ + 1]
  <2>1. GenerationsOrdered(Live(cr))
    BY <1>0, LiveInOrder DEF IInv
  <2>2. x \in CR /\ x.status = Live(cr).status
    BY <1>0, EditType
  <2>3. GenerationsOrdered(x)
    BY <1>0, <2>1, EditOrdered
  <2>4. WriteConfig(x) /\ base' = base
    BY <1>8 DEF EditConfig, operatorState
  <2> HIDE DEF x
  <2>5. FreshIsLive' /\ AllInOrder' /\ Live(cr') = x
    BY <2>2, <2>3, <2>4, WriteKeepsOrder
  <2>6. NotBehind
    BY <1>0, <2>2, <2>5 DEF NotBehind, CR, Status
  <2> QED BY <2>5, <2>6
<1>9. CASE DeleteConfig
  <2>1. WriteConfig(NoCR) /\ base' = base /\ Live(cr).uid # 0
    BY <1>9 DEF DeleteConfig, operatorState
  <2>2. FreshIsLive' /\ AllInOrder' /\ Live(cr') = NoCR
    BY <2>1, NoCRType, NoCROrdered, WriteKeepsOrder
  <2>3. NotBehind
    BY <2>1, <2>2 DEF NotBehind, NoCR
  <2> QED BY <2>2, <2>3
<1>10. CASE \/ ReadSecret \/ ResolveJWKSURL \/ ApplyOperand \/ Refresh
            \/ RefreshNotFound \/ GetFails \/ ReadSecretFails \/ ApplyFails
            \/ ApplyTimesOut \/ RefreshFails \/ DeliverOwned \/ Resync
            \/ \E w \in late : Land(w)
            \/ \E s \in SecretNames : DeliverSecret(s)
  <2>1. UNCHANGED <<cr, base, fresh>>
    BY <1>10
    DEF ReadSecret, ResolveJWKSURL, ApplyOperand, Refresh, RefreshNotFound,
        GetFails, ReadSecretFails, ApplyFails, ApplyTimesOut, RefreshFails,
        AbortRefresh, Land, DeliverOwned, Resync, DeliverSecret, locals
  <2> QED BY <1>1, <2>1
<1>11. CASE \/ \E s \in SecretNames : \E v \in {0, NewVersion} : WriteSecret(s, v)
            \/ \E i \in Issuers : \E u \in URIs \cup {NoURI} : ChangeIdP(i, u)
            \/ \E c \in ComponentSet : \E st \in DepStatuses : ReportHealth(c, st)
            \/ \E o \in Operands :
                 \E n \in IF o.kind = "deployment" THEN {0, 1, 2} ELSE {1} :
                   EditOperand(o, n)
            \/ \E o \in Operands : DeleteOperand(o)
            \/ \E o \in Operands : CollectGarbage(o)
  <2>1. UNCHANGED <<cr, base, fresh>>
    BY <1>11
    DEF WriteSecret, ChangeIdP, ReportHealth, EditOperand, DeleteOperand,
        CollectGarbage, operatorState
  <2> QED BY <1>1, <2>1
<1> QED
  BY <1>2, <1>3, <1>4, <1>5, <1>6, <1>7, <1>8, <1>9, <1>10, <1>11
  DEF Next, Pass, Faults, Users

\* Every step keeps the inductive invariant and, if it touches the CR, does not
\* take observedGeneration back.
LEMMA IInvStep == IInv /\ [Next]_vars => IInv' /\ [NotBehind]_cr
<1> SUFFICES ASSUME IInv, [Next]_vars PROVE IInv' /\ [NotBehind]_cr
  OBVIOUS
<1>1. TypeOK' /\ InRange'
  BY TypedStep DEF IInv, Typed
<1>2. CASE Next
  BY <1>1, <1>2, OrderStep DEF IInv
<1>3. CASE UNCHANGED vars
  <2>1. UNCHANGED <<cr, base, fresh>>
    BY <1>3 DEF vars
  <2> QED BY <1>1, <2>1, OthersKeepOrder DEF IInv
<1> QED BY <1>2, <1>3

\* The inductive invariant holds in every reachable state.
LEMMA IInvAlways == Spec => []IInv
<1>1. IInv /\ [Next]_vars => IInv'
  BY IInvStep
<1> QED BY <1>1, IInvInit, PTL DEF Spec

(***************************************************************************)
(* The generations of the published status are always in order: Available, *)
(* Progressing and the per-component entries are for observedGeneration,   *)
(* Degraded is for that generation or a later one, and none is ahead of    *)
(* the CR, however passes, edits, failures and restarts interleave.        *)
(***************************************************************************)
THEOREM StatusInOrder == Spec => []StatusGenerationsOrdered
<1>1. IInv => StatusGenerationsOrdered
  BY LiveInOrder DEF IInv, TypeOK, StatusGenerationsOrdered
<1> QED BY <1>1, IInvAlways, PTL

(***************************************************************************)
(* observedGeneration never goes back during the life of a                 *)
(* HyperFleetConfig, although the pass that writes it works on a cached    *)
(* copy: an accepted update was computed from the live version.            *)
(***************************************************************************)
THEOREM ObservedNeverGoesBack == Spec => ObservedGenerationMonotone
<1>1. IInv /\ [Next]_vars => [NotBehind]_cr
  BY IInvStep
<1>2. Spec => [][NotBehind]_cr
  BY <1>1, IInvAlways, PTL DEF Spec
<1> QED BY <1>2 DEF ObservedGenerationMonotone, NotBehind
=============================================================================
