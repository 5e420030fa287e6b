------------------------ MODULE OperandMetricsProofs ------------------------
(***************************************************************************)
(* Theorems about OperandMetrics, for all images, configurations and       *)
(* bounds.                                                                 *)
(***************************************************************************)
EXTENDS OperandMetrics, TLAPS

-----------------------------------------------------------------------------
(***************************************************************************)
(* The inductive invariants.                                               *)
(***************************************************************************)

\* No wake-up is outstanding and none will come of what has happened.
Undisturbed == ~queued /\ Len(cr) = 1 /\ Len(dep) = 1

\* The pass works for a HyperFleetConfig, and an error ends it.
PassSane ==
  /\ pc # "idle" => base.uid # 0
  /\ failed => pc = "status"

\* What the pass holds is the present state unless it will be woken again.
PassCurrent ==
  /\ Undisturbed /\ pc # "idle" => base = Live(cr) /\ fresh
  /\ Undisturbed /\ pc = "status" /\ ~failed /\ ~skipped =>
       gauge = Readiness(Live(dep))

GaugeInv == TypeOK /\ PassSane /\ PassCurrent /\ GaugeTrueWhenQuiet

\* Nothing happened that the counter cannot see.
Coherent ==
  /\ ~staleRead /\ spent["fault"] = 0 /\ spent["read"] = 0
  /\ spent["drift"] = 0 /\ spent["delete"] = 0

\* The Deployment belongs to the one HyperFleetConfig there ever was, its
\* stamp tells its template, and once it was applied it stays.
OwnedAndStamped ==
  /\ pc # "idle" => base.uid = Live(cr).uid
  /\ \A i \in DOMAIN cr : cr[i].uid # 0 => cr[i].uid = Live(cr).uid
  /\ Live(dep).present =>
       /\ Live(dep).owner # 0 /\ Live(dep).owner = Live(cr).uid
       /\ Live(dep).stamp = Live(dep).template
  /\ pc = "refresh" => Live(dep).present

\* What was detected is what the apply will do, or has done.
DetectedIsDone ==
  /\ pc = "apply" => events = Rollouts(Live(dep), base.want)
  /\ pc = "refresh" =>
       \/ events = {} /\ Total(rollouts) = rolled
       \/ \E t \in Triggers : events = {t} /\ Total(rollouts) + 1 = rolled
  /\ pc # "refresh" => Total(rollouts) = rolled

CountInv == TypeOK /\ PassSane /\ (Coherent => OwnedAndStamped /\ DetectedIsDone)

-----------------------------------------------------------------------------
(***************************************************************************)
(* Watch streams and other helpers.                                        *)
(***************************************************************************)

\* The live and the cached object are elements of the stream.
LEMMA StreamEnds ==
  ASSUME NEW T, NEW s \in Seq(T) \ {<<>>}
  PROVE  /\ Len(s) \in Nat /\ Len(s) >= 1
         /\ Live(s) \in T /\ Cached(s) \in T
         /\ Cached(s) = s[1] /\ 1 \in DOMAIN s
         /\ Len(s) = 1 => Cached(s) = Live(s)
<1>1. Len(s) \in Nat /\ Len(s) # 0
  OBVIOUS
<1>2. Len(s) >= 1
  BY <1>1
<1>3. DOMAIN s = 1..Len(s) /\ Head(s) = s[1]
  OBVIOUS
<1>4. 1 \in DOMAIN s /\ Len(s) \in DOMAIN s
  BY <1>1, <1>2, <1>3
<1>5. \A i \in DOMAIN s : s[i] \in T
  OBVIOUS
<1> QED BY <1>1, <1>2, <1>3, <1>4, <1>5 DEF Live, Cached

\* A write is the new live object and leaves a wake-up outstanding.
LEMMA StreamAppend ==
  ASSUME NEW T, NEW s \in Seq(T) \ {<<>>}, NEW x \in T
  PROVE  /\ Append(s, x) \in Seq(T) \ {<<>>}
         /\ Live(Append(s, x)) = x
         /\ Len(Append(s, x)) # 1
         /\ \A i \in DOMAIN Append(s, x) :
              Append(s, x)[i] = x \/ \E j \in DOMAIN s : Append(s, x)[i] = s[j]
<1>1. Len(s) \in Nat /\ Len(s) >= 1
  BY StreamEnds
<1>2. Append(s, x) \in Seq(T) /\ Len(Append(s, x)) = Len(s) + 1
  OBVIOUS
<1>3. Append(s, x)[Len(s) + 1] = x
  OBVIOUS
<1>4. \A i \in 1..Len(s) : i \in DOMAIN s /\ Append(s, x)[i] = s[i]
  OBVIOUS
<1>5. DOMAIN Append(s, x) = 1..(Len(s) + 1)
  OBVIOUS
<1>6. Len(s) + 1 # 1 /\ Len(s) + 1 # 0
  BY <1>1
<1>7. Append(s, x) # <<>>
  BY <1>2, <1>6
<1>8. \A i \in 1..(Len(s) + 1) : i \in 1..Len(s) \/ i = Len(s) + 1
  BY <1>1
<1> QED BY <1>2, <1>3, <1>4, <1>5, <1>6, <1>7, <1>8 DEF Live

\* A delivery leaves the live object as it is.
LEMMA StreamTail ==
  ASSUME NEW T, NEW s \in Seq(T) \ {<<>>}, Len(s) > 1
  PROVE  /\ Tail(s) \in Seq(T) \ {<<>>}
         /\ Live(Tail(s)) = Live(s)
         /\ \A i \in DOMAIN Tail(s) : \E j \in DOMAIN s : Tail(s)[i] = s[j]
<1>1. Len(s) \in Nat
  OBVIOUS
<1>2. Tail(s) \in Seq(T) /\ Len(Tail(s)) = Len(s) - 1
  BY <1>1
<1>3. Len(s) - 1 \in 1..(Len(s) - 1) /\ Len(s) - 1 # 0 /\ (Len(s) - 1) + 1 = Len(s)
  BY <1>1
<1>4. Tail(s) # <<>>
  BY <1>2, <1>3
<1>5. \A i \in 1..(Len(s) - 1) : i + 1 \in DOMAIN s /\ Tail(s)[i] = s[i + 1]
  BY <1>1
<1>6. DOMAIN Tail(s) = 1..(Len(s) - 1)
  BY <1>2
<1> QED BY <1>2, <1>3, <1>4, <1>5, <1>6 DEF Live

\* An environment event is one more of its kind.
LEMMA SpendOne ==
  ASSUME spent \in [Budgets -> Nat], NEW b \in Budgets, Spend(b)
  PROVE  /\ spent' \in [Budgets -> Nat]
         /\ spent'[b] # 0
         /\ \A x \in Budgets : spent'[x] = 0 => spent[x] = 0
BY DEF Spend

\* An empty HyperFleetConfig is one by type.
LEMMA NoCRType == NoCR \in CR /\ EmptyStatus \in Status
<1>1. Template # {}
  <2>1. PICK i \in Images, c \in Configs : TRUE
    BY MetricsAssumption
  <2>2. [image |-> i, config |-> c] \in Template
    BY DEF Template
  <2> QED BY <2>2
<1>2. (CHOOSE t \in Template : TRUE) \in Template
  BY <1>1
<1>3. EmptyStatus \in Status
  BY DEF EmptyStatus, Status
<1> QED BY <1>2, <1>3 DEF NoCR, CR

\* An edited HyperFleetConfig is one by type.
LEMMA EditedConfig ==
  ASSUME NEW c \in CR, NEW t \in Template
  PROVE  [c EXCEPT !.want = t, !.gen = @ + 1] \in CR
<1>1. PICK n \in Nat : n = c.gen
  BY DEF CR
<1>2. PICK m \in Nat : m = n + 1
  OBVIOUS
<1>3. [[c EXCEPT !.want = t] EXCEPT !.gen = m] \in CR
  BY DEF CR
<1>4. [c EXCEPT !.want = t].gen = n
  BY <1>1 DEF CR
<1> QED BY <1>2, <1>3, <1>4

-----------------------------------------------------------------------------
(***************************************************************************)
(* Types.                                                                  *)
(***************************************************************************)

\* What the pass applies is a Deployment, and what it publishes a status.
LEMMA PassTypes ==
  ASSUME TypeOK
  PROVE  /\ Applied(Live(dep)) \in Deployment
         /\ NewStatus \in Status
         /\ [Live(cr) EXCEPT !.status = NewStatus] \in CR
         /\ Live(cr) \in CR /\ Cached(cr) \in CR
         /\ Live(dep) \in Deployment \cup {NoDep} /\ Cached(dep) \in Deployment \cup {NoDep}
<1>1. /\ Live(cr) \in CR /\ Cached(cr) \in CR
      /\ Live(dep) \in Deployment \cup {NoDep} /\ Cached(dep) \in Deployment \cup {NoDep}
  BY StreamEnds DEF TypeOK
<1>2. base.uid \in Nat /\ base.want \in Template /\ base.gen \in Nat /\ base.status \in Status
  BY DEF TypeOK, CR
<1>3. NewStatus \in Status
  BY <1>2 DEF NewStatus, Status, TypeOK
<1>4. /\ (Live(dep).present /\ Live(dep).available) \in BOOLEAN
      /\ (Live(dep).present /\ Live(dep).serving) \in BOOLEAN
  OBVIOUS
<1>5. Applied(Live(dep)) \in Deployment
  BY <1>2, <1>4 DEF Applied, Deployment
<1>6. [Live(cr) EXCEPT !.status = NewStatus] \in CR
  BY <1>1, <1>3 DEF CR
<1> QED BY <1>1, <1>3, <1>5, <1>6

\* Every action of the pass keeps the types.
LEMMA PassTypeOK == TypeOK /\ Pass => TypeOK'
<1> SUFFICES ASSUME TypeOK, Pass PROVE TypeOK'
  OBVIOUS
<1> USE DEF metrics, history, locals
<1>1. CASE Begin
  BY <1>1, PassTypes DEF TypeOK, Begin
<1>2. CASE EarlyFails
  BY <1>2, SpendOne DEF TypeOK, EarlyFails, Budgets
<1>3. CASE detectRollouts
  <2>1. events' \subseteq Triggers
    BY <1>3 DEF detectRollouts, Rollouts, rolloutTrigger, Triggers
  <2> QED BY <1>3, <2>1 DEF TypeOK, detectRollouts
<1>4. ASSUME Apply
      PROVE  dep' \in Seq(Deployment \cup {NoDep}) \ {<<>>} /\ rolled' \in Nat
  <2>1. Append(dep, Applied(Live(dep))) \in Seq(Deployment \cup {NoDep}) \ {<<>>}
    BY PassTypes, StreamAppend DEF TypeOK
  <2> QED BY <1>4, <2>1 DEF Apply, TypeOK
<1>5. CASE ApplyOperand
  BY <1>4, <1>5 DEF TypeOK, ApplyOperand
<1>6. CASE ApplyFails
  <2>1. dep' \in Seq(Deployment \cup {NoDep}) \ {<<>>} /\ rolled' \in Nat
    BY <1>4, <1>6 DEF ApplyFails, TypeOK
  <2>2. spent' \in [Budgets -> Nat]
    BY <1>6, SpendOne DEF ApplyFails, TypeOK, Budgets
  <2> QED BY <1>6, <2>1, <2>2 DEF TypeOK, ApplyFails
<1>7. CASE Refresh
  <2>1. rollouts' \in [Triggers -> Nat]
    BY <1>7 DEF Refresh, TypeOK
  <2>2. seen' \in BOOLEAN
    <3>1. Live(dep).present /\ seen' = Live(dep).serving
      BY <1>7 DEF Refresh
    <3>2. Live(dep) \in Deployment
      BY <3>1, PassTypes DEF NoDep
    <3> QED BY <3>1, <3>2 DEF Deployment
  <2> QED BY <1>7, <2>1, <2>2 DEF TypeOK, Refresh
<1>8. CASE RefreshFails
  <2>1. spent' \in [Budgets -> Nat]
    BY <1>8, SpendOne DEF RefreshFails, TypeOK, Budgets
  <2> QED BY <1>8, <2>1 DEF TypeOK, RefreshFails
<1>9. CASE recordReadiness
  BY <1>9 DEF TypeOK, recordReadiness, Readiness
<1>10. CASE UpdateStatus
  <2>1. cr' \in Seq(CR) \ {<<>>}
    BY <1>10, PassTypes, StreamAppend DEF UpdateStatus, TypeOK
  <2>2. queued' \in BOOLEAN
    BY <1>10 DEF UpdateStatus, TypeOK
  <2> QED BY <1>10, <2>1, <2>2, NoCRType DEF TypeOK, UpdateStatus
<1>11. CASE DetectionSkipped
  BY <1>11, SpendOne DEF TypeOK, DetectionSkipped, Budgets
<1>12. CASE ReadinessSkipped
  BY <1>12, SpendOne DEF TypeOK, ReadinessSkipped, Budgets
<1> QED BY <1>1, <1>2, <1>3, <1>5, <1>6, <1>7, <1>8, <1>9, <1>10, <1>11, <1>12 DEF Pass

\* So does what users, the watches and the cluster do.
LEMMA OthersTypeOK ==
  ASSUME TypeOK, Next, ~Pass
  PROVE  TypeOK'
<1> USE DEF metrics, history, locals
<1>1. Live(cr) \in CR /\ Live(dep) \in Deployment \cup {NoDep}
  BY PassTypes
<1>2. CASE DeliverConfig
  <2>1. cr' \in Seq(CR) \ {<<>>}
    BY <1>2, StreamTail DEF DeliverConfig, TypeOK
  <2> QED BY <1>2, <2>1 DEF DeliverConfig, TypeOK
<1>3. CASE DeliverDeployment
  <2>1. dep' \in Seq(Deployment \cup {NoDep}) \ {<<>>}
    BY <1>3, StreamTail DEF DeliverDeployment, TypeOK
  <2> QED BY <1>3, <2>1 DEF DeliverDeployment, TypeOK
<1>4. ASSUME NEW new \in CR, WriteConfig(new), spent' \in [Budgets -> Nat]
      PROVE  TypeOK'
  <2>1. cr' \in Seq(CR) \ {<<>>}
    BY <1>4, StreamAppend DEF WriteConfig, TypeOK
  <2> QED BY <1>4, <2>1 DEF WriteConfig, TypeOK
<1>5. ASSUME NEW new \in Deployment \cup {NoDep}, WriteDeployment(new),
             spent' \in [Budgets -> Nat]
      PROVE  TypeOK'
  <2>1. dep' \in Seq(Deployment \cup {NoDep}) \ {<<>>}
    BY <1>5, StreamAppend DEF WriteDeployment, TypeOK
  <2> QED BY <1>5, <2>1 DEF WriteDeployment, TypeOK
<1>6. ASSUME NEW b \in Budgets, Spend(b)
      PROVE  spent' \in [Budgets -> Nat]
  BY <1>6, SpendOne DEF TypeOK
<1>7. ASSUME Live(dep).present
      PROVE  Live(dep) \in Deployment
  BY <1>1, <1>7 DEF NoDep
<1>8. ASSUME NEW t \in Template, CreateConfig(t)
      PROVE  TypeOK'
  <2>1. spent["create"] + 1 \in Nat
    BY DEF TypeOK, Budgets
  <2>2. [uid |-> spent["create"] + 1, gen |-> 1, want |-> t, status |-> EmptyStatus] \in CR
    BY <2>1, NoCRType DEF CR
  <2> QED BY <1>4, <1>6, <1>8, <2>2 DEF CreateConfig, Budgets
<1>9. ASSUME NEW t \in Template, EditConfig(t)
      PROVE  TypeOK'
  <2>1. [Live(cr) EXCEPT !.want = t, !.gen = @ + 1] \in CR
    BY <1>1, EditedConfig
  <2> QED BY <1>4, <1>6, <1>9, <2>1 DEF EditConfig, Budgets
<1>10. CASE DeleteConfig
  BY <1>4, <1>6, <1>10, NoCRType DEF DeleteConfig, Budgets
<1>11. ASSUME NEW a \in BOOLEAN, NEW b \in BOOLEAN, ReportHealth(a, b)
       PROVE  TypeOK'
  <2>1. [Live(dep) EXCEPT !.available = a, !.serving = b] \in Deployment
    BY <1>7, <1>11 DEF ReportHealth, Deployment
  <2> QED BY <1>5, <1>6, <1>11, <2>1 DEF ReportHealth, Budgets
<1>12. ASSUME NEW t \in Template, EditTemplate(t)
       PROVE  TypeOK'
  <2>1. [Live(dep) EXCEPT !.template = t] \in Deployment
    BY <1>7, <1>12 DEF EditTemplate, Deployment
  <2> QED BY <1>5, <1>6, <1>12, <2>1 DEF EditTemplate, Budgets
<1>13. CASE DeleteDeployment
  BY <1>5, <1>6, <1>13 DEF DeleteDeployment, Budgets
<1>14. CASE CollectGarbage
  BY <1>5, <1>14 DEF CollectGarbage, TypeOK
<1> QED BY <1>2, <1>3, <1>8, <1>9, <1>10, <1>11, <1>12, <1>13, <1>14 DEF Next

\* Types hold at first.
LEMMA TypeInit == Init => TypeOK
<1> SUFFICES ASSUME Init PROVE TypeOK
  OBVIOUS
<1>1. cr \in Seq(CR) \ {<<>>}
  BY NoCRType DEF Init
<1>2. dep \in Seq(Deployment \cup {NoDep}) \ {<<>>}
  BY DEF Init
<1> QED BY <1>1, <1>2, NoCRType DEF Init, TypeOK

\* Every step keeps the types.
LEMMA TypeStep == TypeOK /\ [Next]_vars => TypeOK'
<1> SUFFICES ASSUME TypeOK, [Next]_vars PROVE TypeOK'
  OBVIOUS
<1>1. CASE UNCHANGED vars
  BY <1>1 DEF vars, TypeOK
<1> QED BY <1>1, PassTypeOK, OthersTypeOK

(***************************************************************************)
(* Every variable keeps its type, the streams never run empty (operand     *)
(* metrics, hyperfleetconfig_metrics.go).                                  *)
(***************************************************************************)
THEOREM TypesKept == Spec => []TypeOK
BY TypeInit, TypeStep, PTL DEF Spec

-----------------------------------------------------------------------------
(***************************************************************************)
(* The gauge.                                                              *)
(***************************************************************************)

\* The pass stays sane.
LEMMA SaneStep == TypeOK /\ PassSane /\ [Next]_vars => PassSane'
<1> SUFFICES ASSUME TypeOK, PassSane, [Next]_vars PROVE PassSane'
  OBVIOUS
<1> USE DEF PassSane, metrics, history, locals
<1>1. CASE Begin
  BY <1>1 DEF Begin
<1>2. CASE UpdateStatus
  BY <1>2 DEF UpdateStatus
<1>3. CASE EarlyFails \/ detectRollouts \/ DetectionSkipped \/ ApplyOperand
             \/ ApplyFails \/ Refresh \/ RefreshFails \/ recordReadiness
             \/ ReadinessSkipped
  BY <1>3 DEF EarlyFails, detectRollouts, DetectionSkipped, ApplyOperand, ApplyFails,
              Refresh, RefreshFails, recordReadiness, ReadinessSkipped
<1>4. CASE UNCHANGED <<pc, base, failed>>
  BY <1>4
<1>5. Pass \/ UNCHANGED <<pc, base, failed>>
  BY DEF Next, vars, DeliverConfig, DeliverDeployment, CreateConfig, EditConfig,
         DeleteConfig, WriteConfig, ReportHealth, EditTemplate, DeleteDeployment,
         CollectGarbage, WriteDeployment
<1> QED BY <1>1, <1>2, <1>3, <1>4, <1>5 DEF Pass

\* Whoever writes an object or delivers a change leaves a wake-up outstanding,
\* and only Begin takes it; what is undisturbed afterwards was so before, and
\* neither object has changed.
LEMMA DisturbedStep ==
  ASSUME TypeOK, [Next]_vars, Undisturbed'
  PROVE  \/ Begin
         \/ /\ Undisturbed /\ UNCHANGED <<cr, dep>>
            /\ \/ UNCHANGED <<pc, base, fresh, failed, gauge, skipped>>
               \/ Pass /\ ~Begin
<1> USE DEF metrics, history, locals
<1>1. ASSUME NEW new, \/ cr' = Append(cr, new)
                      \/ dep' = Append(dep, new)
      PROVE  FALSE
  <2>1. Len(Append(cr, new)) = Len(cr) + 1 /\ Len(Append(dep, new)) = Len(dep) + 1
    BY DEF TypeOK
  <2>2. Len(cr) \in Nat /\ Len(cr) >= 1 /\ Len(dep) \in Nat /\ Len(dep) >= 1
    BY StreamEnds DEF TypeOK
  <2> QED BY <1>1, <2>1, <2>2 DEF Undisturbed
<1>2. CASE Pass /\ ~Begin
  <2> USE DEF Pass, EarlyFails, detectRollouts, DetectionSkipped, ApplyOperand,
              ApplyFails, Refresh, RefreshFails, recordReadiness, ReadinessSkipped,
              UpdateStatus
  <2>1. dep' = dep
    BY <1>1, <1>2 DEF Apply
  <2>2. cr' = cr
    BY <1>1, <1>2
  <2>3. queued => queued'
    BY <1>2
  <2> QED BY <1>2, <2>1, <2>2, <2>3 DEF Undisturbed
<1>3. CASE DeliverConfig \/ DeliverDeployment
  BY <1>3 DEF DeliverConfig, DeliverDeployment, Undisturbed
<1>4. CASE UNCHANGED vars
  BY <1>4 DEF vars, Undisturbed
<1>5. ~(\E t \in Template : CreateConfig(t) \/ EditConfig(t) \/ EditTemplate(t))
  BY <1>1 DEF CreateConfig, EditConfig, EditTemplate, WriteConfig, WriteDeployment
<1>6. ~DeleteConfig /\ ~DeleteDeployment /\ ~CollectGarbage
        /\ ~(\E a, b \in BOOLEAN : ReportHealth(a, b))
  BY <1>1 DEF DeleteConfig, DeleteDeployment, CollectGarbage, ReportHealth,
              WriteConfig, WriteDeployment
<1> QED BY <1>2, <1>3, <1>4, <1>5, <1>6 DEF Next

\* What the pass holds stays current, or it will be woken again.
LEMMA PassCurrentStep ==
  TypeOK /\ PassSane /\ PassCurrent /\ [Next]_vars => PassCurrent'
<1> SUFFICES ASSUME TypeOK, PassSane, PassCurrent, [Next]_vars, Undisturbed'
             PROVE  PassCurrent'
  BY DEF PassCurrent
<1> USE DEF metrics, history, locals
<1>1. CASE Begin
  <2>1. Len(cr) = 1 /\ cr' = cr
    BY <1>1 DEF Begin, Undisturbed
  <2>2. Cached(cr) = Live(cr)
    BY <2>1, StreamEnds DEF TypeOK
  <2>3. pc' \in {"idle", "detect"}
    BY <1>1 DEF Begin
  <2>4. pc' # "idle" => base' = Live(cr') /\ fresh'
    BY <1>1, <2>1, <2>2 DEF Begin
  <2> QED BY <2>3, <2>4 DEF PassCurrent
<1>2. CASE Undisturbed /\ UNCHANGED <<cr, dep>> /\ UNCHANGED <<pc, base, fresh, failed, gauge, skipped>>
  BY <1>2 DEF PassCurrent
<1>3. ASSUME Undisturbed, UNCHANGED <<cr, dep>>, Pass, ~Begin
      PROVE  PassCurrent'
  <2>1. CASE EarlyFails \/ detectRollouts \/ DetectionSkipped \/ ApplyOperand
               \/ ApplyFails \/ RefreshFails \/ ReadinessSkipped
    BY <1>3, <2>1 DEF PassCurrent, EarlyFails, detectRollouts, DetectionSkipped,
                      ApplyOperand, ApplyFails, RefreshFails, ReadinessSkipped
  <2>2. CASE Refresh
    BY <1>3, <2>2 DEF PassCurrent, Refresh
  <2>3. CASE recordReadiness
    <3>1. Cached(dep) = Live(dep)
      BY <1>3, StreamEnds DEF Undisturbed, TypeOK
    <3> QED BY <1>3, <2>3, <3>1 DEF PassCurrent, recordReadiness
  <2>4. CASE UpdateStatus
    BY <1>3, <2>4 DEF PassCurrent, UpdateStatus
  <2> QED BY <1>3, <2>1, <2>2, <2>3, <2>4 DEF Pass
<1> QED BY <1>1, <1>2, <1>3, DisturbedStep

\* The gauge of the last pass that ended well is that of the state as it is.
LEMMA GaugeStep ==
  TypeOK /\ PassSane /\ PassCurrent /\ GaugeTrueWhenQuiet /\ [Next]_vars
    => GaugeTrueWhenQuiet'
<1> SUFFICES ASSUME TypeOK, PassSane, PassCurrent, GaugeTrueWhenQuiet, [Next]_vars,
                    Quiet', Live(cr)'.uid # 0, ~skipped'
             PROVE  GaugeTrueWhenQuiet'
  BY DEF GaugeTrueWhenQuiet
<1> USE DEF metrics, history, locals
<1>1. Undisturbed' /\ pc' = "idle"
  BY DEF Quiet, Undisturbed
<1>2. ~Begin
  <2> SUFFICES ASSUME Begin PROVE FALSE
    OBVIOUS
  <2>1. Len(cr) = 1 /\ cr' = cr
    BY <1>1 DEF Begin, Undisturbed
  <2>2. Cached(cr) = Live(cr)
    BY <2>1, StreamEnds DEF TypeOK
  <2>3. Cached(cr).uid = 0
    BY <1>1 DEF Begin
  <2> QED BY <2>1, <2>2, <2>3
<1>3. Undisturbed /\ cr' = cr /\ dep' = dep
  BY <1>1, <1>2, DisturbedStep
<1>4. CASE UNCHANGED <<pc, gauge, skipped>>
  BY <1>1, <1>3, <1>4 DEF GaugeTrueWhenQuiet, Quiet, Undisturbed
<1>5. CASE UpdateStatus
  <2>1. pc = "status" /\ gauge' = gauge /\ skipped' = skipped /\ ~failed
    BY <1>1, <1>5 DEF UpdateStatus, Undisturbed
  <2>2. gauge = Readiness(Live(dep))
    BY <1>3, <2>1 DEF PassCurrent
  <2> QED BY <1>3, <2>1, <2>2 DEF GaugeTrueWhenQuiet
<1>6. UNCHANGED <<pc, gauge, skipped>> \/ UpdateStatus
  BY <1>1, <1>2, DisturbedStep
     DEF Pass, EarlyFails, detectRollouts, DetectionSkipped, ApplyOperand, ApplyFails,
         Refresh, RefreshFails, recordReadiness, ReadinessSkipped
<1> QED BY <1>4, <1>5, <1>6

(***************************************************************************)
(* At rest the readiness gauge, which comes from the cache, shows the live *)
(* Deployment's Available condition, unless the last pass that got to it   *)
(* could not read the Deployment (recordReadiness), for any number of      *)
(* edits, health changes, failures and deletions.                          *)
(***************************************************************************)
THEOREM GaugeTrue == Spec => []GaugeTrueWhenQuiet
<1>1. Init => GaugeInv
  <2> SUFFICES ASSUME Init PROVE GaugeInv
    OBVIOUS
  <2>1. Live(cr) = NoCR
    BY DEF Init, Live
  <2> QED BY <2>1, TypeInit DEF Init, GaugeInv, PassSane, PassCurrent,
                                GaugeTrueWhenQuiet, NoCR
<1>2. GaugeInv /\ [Next]_vars => GaugeInv'
  BY TypeStep, SaneStep, PassCurrentStep, GaugeStep DEF GaugeInv
<1>3. GaugeInv => GaugeTrueWhenQuiet
  BY DEF GaugeInv
<1> QED BY <1>1, <1>2, <1>3, PTL DEF Spec

-----------------------------------------------------------------------------
(***************************************************************************)
(* The counter.                                                            *)
(***************************************************************************)

\* What may happen while the counter can see everything.
LEMMA CoherentStep ==
  ASSUME TypeOK, [Next]_vars, Coherent'
  PROVE  /\ Coherent
         /\ \/ Begin \/ (detectRollouts /\ Len(dep) = 1) \/ ApplyOperand \/ Refresh
            \/ (RefreshFails /\ ~Live(dep).present) \/ recordReadiness \/ UpdateStatus
            \/ DeliverConfig \/ DeliverDeployment
            \/ \E t \in Template : CreateConfig(t) \/ EditConfig(t)
            \/ \E a, b \in BOOLEAN : ReportHealth(a, b)
            \/ CollectGarbage
            \/ UNCHANGED vars
<1> USE DEF metrics, history, locals
<1>1. ASSUME NEW b \in Budgets, Spend(b)
      PROVE  \A x \in {"fault", "read", "drift", "delete"} : b # x /\ spent[x] = 0
  <2>1. {"fault", "read", "drift", "delete"} \subseteq Budgets
    BY DEF Budgets
  <2>2. \A x \in {"fault", "read", "drift", "delete"} : spent'[x] = 0
    BY DEF Coherent
  <2> QED BY <1>1, <2>1, <2>2, SpendOne DEF TypeOK
<1>2. {"fault", "read", "drift", "delete", "create", "edit", "health"} \subseteq Budgets
  BY DEF Budgets
<1>3. /\ ~EarlyFails /\ ~DetectionSkipped /\ ~ApplyFails /\ ~ReadinessSkipped
      /\ ~DeleteConfig /\ ~DeleteDeployment /\ ~\E t \in Template : EditTemplate(t)
  BY <1>1, <1>2 DEF EarlyFails, DetectionSkipped, ApplyFails, ReadinessSkipped,
                    DeleteConfig, DeleteDeployment, EditTemplate
<1>4. RefreshFails => ~Live(dep).present /\ spent' = spent
  BY <1>1, <1>2 DEF RefreshFails
<1>5. detectRollouts => Len(dep) = 1
  <2>1. Len(dep) \in Nat /\ Len(dep) >= 1
    BY StreamEnds DEF TypeOK
  <2>2. detectRollouts => ~(Len(dep) > 1)
    BY DEF detectRollouts, Coherent
  <2>3. \A n \in Nat : n >= 1 /\ ~(n > 1) => n = 1
    OBVIOUS
  <2> QED BY <2>1, <2>2, <2>3
<1>6. ~staleRead
  BY <1>3 DEF Coherent, TypeOK, Next, vars, Pass, Begin, detectRollouts,
         ApplyOperand, Refresh, RefreshFails, recordReadiness, UpdateStatus,
         DeliverConfig, DeliverDeployment, CreateConfig, EditConfig, DeleteConfig,
         WriteConfig, ReportHealth, EditTemplate, DeleteDeployment, CollectGarbage,
         WriteDeployment
<1>7. spent' = spent \/ \E b \in Budgets : Spend(b)
  BY <1>2, <1>3, <1>4
     DEF Next, vars, Pass, Begin, detectRollouts, ApplyOperand, Refresh,
         recordReadiness, UpdateStatus, DeliverConfig, DeliverDeployment, CreateConfig,
         EditConfig, ReportHealth, CollectGarbage
<1>8. \A x \in {"fault", "read", "drift", "delete"} : spent[x] = 0
  BY <1>1, <1>7 DEF Coherent
<1>9. Coherent
  BY <1>6, <1>8 DEF Coherent
<1> QED BY <1>3, <1>4, <1>5, <1>9 DEF Next, Pass

\* The Deployment stays with the one HyperFleetConfig.
LEMMA OwnedStep ==
  ASSUME TypeOK, PassSane, OwnedAndStamped, [Next]_vars, Coherent'
  PROVE  OwnedAndStamped'
<1> USE DEF metrics, history, locals
<1>1. ~CollectGarbage
  BY DEF CollectGarbage, OwnedAndStamped
<1>2. ~(RefreshFails /\ ~Live(dep).present)
  BY DEF RefreshFails, OwnedAndStamped
<1>3. ASSUME cr' = cr, dep' = dep, base' = base,
             pc' = "refresh" => pc = "refresh", pc' # "idle" => pc # "idle"
      PROVE  OwnedAndStamped'
  BY <1>3 DEF OwnedAndStamped
<1>4. CASE Begin
  <2>1. Cached(cr) = cr[1] /\ 1 \in DOMAIN cr
    BY StreamEnds DEF TypeOK
  <2>2. cr' = cr /\ dep' = dep /\ pc' # "refresh"
    BY <1>4 DEF Begin
  <2>3. pc' # "idle" => base'.uid # 0 /\ base' = Cached(cr)
    BY <1>4 DEF Begin
  <2> QED BY <2>1, <2>2, <2>3 DEF OwnedAndStamped
<1>5. CASE detectRollouts \/ Refresh \/ recordReadiness \/ UNCHANGED vars
  BY <1>3, <1>5 DEF detectRollouts, Refresh, recordReadiness, vars
<1>6. CASE ApplyOperand
  <2>1. /\ cr' = cr /\ base' = base /\ pc = "apply"
        /\ dep' = IF Applied(Live(dep)) = Live(dep) THEN dep
                  ELSE Append(dep, Applied(Live(dep)))
    BY <1>6 DEF ApplyOperand, Apply
  <2>2. Live(dep') = Applied(Live(dep))
    BY <2>1, PassTypes, StreamAppend DEF TypeOK
  <2>3. /\ Live(dep').present /\ Live(dep').owner = base.uid
        /\ Live(dep').stamp = Live(dep').template
    BY <2>2 DEF Applied
  <2>4. base.uid # 0 /\ base.uid = Live(cr).uid
    BY <2>1 DEF PassSane, OwnedAndStamped
  <2> QED BY <2>1, <2>3, <2>4 DEF OwnedAndStamped
<1>7. CASE UpdateStatus
  <2>1. dep' = dep /\ pc' = "idle"
    BY <1>7 DEF UpdateStatus
  <2>2. CASE cr' = cr
    BY <2>1, <2>2 DEF OwnedAndStamped
  <2>3. CASE cr' = Append(cr, [Live(cr) EXCEPT !.status = NewStatus])
    <3>1. Live(cr') = [Live(cr) EXCEPT !.status = NewStatus]
      BY <2>3, PassTypes, StreamAppend DEF TypeOK
    <3>2. Live(cr') .uid = Live(cr).uid
      BY <3>1, PassTypes DEF CR
    <3>3. \A i \in DOMAIN cr' : cr'[i] = Live(cr') \/ \E j \in DOMAIN cr : cr'[i] = cr[j]
      BY <2>3, <3>1, PassTypes, StreamAppend DEF TypeOK
    <3> QED BY <2>1, <3>2, <3>3 DEF OwnedAndStamped
  <2> QED BY <1>7, <2>2, <2>3 DEF UpdateStatus
<1>8. CASE DeliverConfig
  <2>1. Live(cr') = Live(cr) /\ \A i \in DOMAIN cr' : \E j \in DOMAIN cr : cr'[i] = cr[j]
    BY <1>8, StreamTail DEF DeliverConfig, TypeOK
  <2>2. dep' = dep /\ base' = base /\ pc' = pc
    BY <1>8 DEF DeliverConfig
  <2> QED BY <2>1, <2>2 DEF OwnedAndStamped
<1>9. CASE DeliverDeployment
  <2>1. Live(dep') = Live(dep)
    BY <1>9, StreamTail DEF DeliverDeployment, TypeOK
  <2>2. cr' = cr /\ base' = base /\ pc' = pc
    BY <1>9 DEF DeliverDeployment
  <2> QED BY <2>1, <2>2 DEF OwnedAndStamped
<1>10. ASSUME NEW new \in CR, WriteConfig(new), \/ new.uid = Live(cr).uid
                                               \/ Live(cr).uid = 0
       PROVE  OwnedAndStamped'
  <2>1. /\ Live(cr') = new
        /\ \A i \in DOMAIN cr' : cr'[i] = new \/ \E j \in DOMAIN cr : cr'[i] = cr[j]
    BY <1>10, StreamAppend DEF WriteConfig, TypeOK
  <2>2. dep' = dep /\ base' = base /\ pc' = pc
    BY <1>10 DEF WriteConfig
  <2>3. CASE new.uid = Live(cr).uid
    BY <2>1, <2>2, <2>3 DEF OwnedAndStamped
  <2>4. CASE Live(cr).uid = 0
    <3>1. pc = "idle" /\ ~Live(dep).present /\ \A j \in DOMAIN cr : cr[j].uid = 0
      BY <2>4 DEF OwnedAndStamped, PassSane
    <3> QED BY <2>1, <2>2, <3>1 DEF OwnedAndStamped
  <2> QED BY <1>10, <2>3, <2>4
<1>11. ASSUME NEW t \in Template, CreateConfig(t)
       PROVE  OwnedAndStamped'
  <2>1. spent["create"] + 1 \in Nat
    BY DEF TypeOK, Budgets
  <2>2. [uid |-> spent["create"] + 1, gen |-> 1, want |-> t, status |-> EmptyStatus] \in CR
    BY <2>1, NoCRType DEF CR
  <2> QED BY <1>10, <1>11, <2>2 DEF CreateConfig
<1>12. ASSUME NEW t \in Template, EditConfig(t)
       PROVE  OwnedAndStamped'
  <2>1. PICK new \in CR : new = [Live(cr) EXCEPT !.want = t, !.gen = @ + 1]
    BY EditedConfig, PassTypes
  <2>2. new.uid = Live(cr).uid
    BY <2>1, PassTypes DEF CR
  <2> QED BY <1>10, <1>12, <2>1, <2>2 DEF EditConfig
<1>13. ASSUME NEW a \in BOOLEAN, NEW b \in BOOLEAN, ReportHealth(a, b)
       PROVE  OwnedAndStamped'
  <2>1. Live(dep) \in Deployment /\ Live(dep).present
    BY <1>13, PassTypes DEF ReportHealth, NoDep
  <2>2. [Live(dep) EXCEPT !.available = a, !.serving = b] \in Deployment \cup {NoDep}
    BY <2>1 DEF Deployment
  <2>3. Live(dep') = [Live(dep) EXCEPT !.available = a, !.serving = b]
    BY <1>13, <2>2, StreamAppend DEF ReportHealth, WriteDeployment, TypeOK
  <2>4. /\ Live(dep').present /\ Live(dep').owner = Live(dep).owner
        /\ Live(dep').stamp = Live(dep).stamp /\ Live(dep').template = Live(dep).template
    BY <2>1, <2>3 DEF Deployment
  <2>5. cr' = cr /\ base' = base /\ pc' = pc
    BY <1>13 DEF ReportHealth, WriteDeployment
  <2> QED BY <2>1, <2>4, <2>5 DEF OwnedAndStamped
<1> QED BY <1>1, <1>2, <1>4, <1>5, <1>6, <1>7, <1>8, <1>9, <1>11, <1>12, <1>13,
           CoherentStep

\* One rollout more of one trigger is one more in all.
LEMMA CountOne ==
  ASSUME rollouts \in [Triggers -> Nat], NEW e, \/ e = {}
                                              \/ \E t \in Triggers : e = {t},
         rollouts' = [t \in Triggers |-> IF t \in e THEN rollouts[t] + 1 ELSE rollouts[t]]
  PROVE  /\ Total(rollouts) \in Nat
         /\ e = {} => Total(rollouts') = Total(rollouts)
         /\ e # {} => Total(rollouts') = Total(rollouts) + 1
<1>1. PICK a \in Nat, b \in Nat, c \in Nat :
        a = rollouts["create"] /\ b = rollouts["image"] /\ c = rollouts["config"]
  BY DEF Triggers
<1>2. Total(rollouts) = a + b + c
  BY <1>1 DEF Total
<1>3. CASE e = {}
  <2>1. rollouts'["create"] = a /\ rollouts'["image"] = b /\ rollouts'["config"] = c
    BY <1>1, <1>3 DEF Triggers
  <2> QED BY <1>2, <1>3, <2>1 DEF Total
<1>4. CASE e = {"create"}
  <2>1. rollouts'["create"] = a + 1 /\ rollouts'["image"] = b /\ rollouts'["config"] = c
    BY <1>1, <1>4 DEF Triggers
  <2>2. Total(rollouts') = (a + 1) + b + c
    BY <2>1 DEF Total
  <2> QED BY <1>2, <1>4, <2>2
<1>5. CASE e = {"image"}
  <2>1. rollouts'["create"] = a /\ rollouts'["image"] = b + 1 /\ rollouts'["config"] = c
    BY <1>1, <1>5 DEF Triggers
  <2> QED BY <1>2, <1>5, <2>1 DEF Total
<1>6. CASE e = {"config"}
  <2>1. rollouts'["create"] = a /\ rollouts'["image"] = b /\ rollouts'["config"] = c + 1
    BY <1>1, <1>6 DEF Triggers
  <2> QED BY <1>2, <1>6, <2>1 DEF Total
<1> QED BY <1>3, <1>4, <1>5, <1>6 DEF Triggers

\* A rollout is announced exactly when an apply will change the template of a
\* Deployment whose stamp is true, and as one event.
LEMMA RolloutsExact ==
  ASSUME NEW d, NEW want \in Template,
         d.present => d.stamp = d.template
  PROVE  /\ Rollouts(d, want) = {} <=> d.present /\ d.template = want
         /\ \/ Rollouts(d, want) = {}
            \/ \E t \in Triggers : Rollouts(d, want) = {t}
<1>1. CASE ~d.present
  BY <1>1 DEF Rollouts, Triggers
<1>2. CASE d.present /\ d.template = want
  <2>1. ~(d.stamp # want \/ ~sameContainerImages(d, want))
    BY <1>2 DEF sameContainerImages
  <2>2. Rollouts(d, want) = {}
    BY <1>2, <2>1 DEF Rollouts
  <2> QED BY <1>2, <2>2
<1>3. CASE d.present /\ d.template # want
  <2>1. Rollouts(d, want) = {rolloutTrigger(d, want)}
    BY <1>3 DEF Rollouts
  <2>2. rolloutTrigger(d, want) \in Triggers
    BY DEF rolloutTrigger, Triggers
  <2> QED BY <1>3, <2>1, <2>2
<1> QED BY <1>1, <1>2, <1>3

\* The pass counts what it detected, and it detected what it does.
LEMMA DetectedStep ==
  ASSUME TypeOK, PassSane, OwnedAndStamped, DetectedIsDone, [Next]_vars, Coherent'
  PROVE  DetectedIsDone'
<1> USE DEF metrics, history, locals
<1>1. ~CollectGarbage
  BY DEF CollectGarbage, OwnedAndStamped
<1>2. ~(RefreshFails /\ ~Live(dep).present)
  BY DEF RefreshFails, OwnedAndStamped
<1>3. ASSUME UNCHANGED <<rollouts, rolled>>, pc # "refresh", pc' \notin {"apply", "refresh"}
      PROVE  DetectedIsDone'
  BY <1>3 DEF DetectedIsDone
<1>4. CASE Begin \/ recordReadiness \/ UpdateStatus
  BY <1>3, <1>4 DEF Begin, recordReadiness, UpdateStatus
<1>5. CASE detectRollouts /\ Len(dep) = 1
  <2>1. Cached(dep) = Live(dep)
    BY <1>5, StreamEnds DEF TypeOK
  <2>2. /\ events' = Rollouts(Live(dep), base.want)
        /\ dep' = dep /\ base' = base /\ rollouts' = rollouts /\ rolled' = rolled
        /\ pc = "detect" /\ pc' = "apply"
    BY <1>5, <2>1 DEF detectRollouts
  <2>3. Total(rollouts) = rolled
    BY <2>2 DEF DetectedIsDone
  <2> QED BY <2>2, <2>3 DEF DetectedIsDone
<1>6. CASE ApplyOperand
  <2>1. /\ pc = "apply" /\ pc' = "refresh" /\ events' = events /\ rollouts' = rollouts
        /\ rolled' = IF Live(dep).present /\ Live(dep).template = base.want
                     THEN rolled ELSE rolled + 1
    BY <1>6 DEF ApplyOperand, Apply
  <2>2. events = Rollouts(Live(dep), base.want) /\ Total(rollouts) = rolled
    BY <2>1 DEF DetectedIsDone
  <2>3. base.want \in Template
    BY DEF TypeOK, CR
  <2>4. /\ events = {} <=> Live(dep).present /\ Live(dep).template = base.want
        /\ events = {} \/ \E t \in Triggers : events = {t}
    BY <2>2, <2>3, RolloutsExact DEF OwnedAndStamped
  <2>5. CASE events = {}
    BY <2>1, <2>2, <2>4, <2>5 DEF DetectedIsDone
  <2>6. CASE events # {}
    <3>1. rolled' = rolled + 1
      BY <2>1, <2>4, <2>6
    <3>2. PICK t \in Triggers : events' = {t}
      BY <2>1, <2>4, <2>6
    <3>3. Total(rollouts') + 1 = rolled'
      BY <2>1, <2>2, <3>1
    <3> QED BY <2>1, <3>2, <3>3 DEF DetectedIsDone
  <2> QED BY <2>5, <2>6
<1>7. CASE Refresh
  <2>1. /\ pc = "refresh" /\ pc' = "record" /\ rolled' = rolled
        /\ rollouts' = [t \in Triggers |->
                          IF t \in events THEN rollouts[t] + 1 ELSE rollouts[t]]
    BY <1>7 DEF Refresh
  <2>2. \/ events = {} /\ Total(rollouts) = rolled
        \/ \E t \in Triggers : events = {t} /\ Total(rollouts) + 1 = rolled
    BY <2>1 DEF DetectedIsDone
  <2>3. /\ events = {} => Total(rollouts') = Total(rollouts)
        /\ events # {} => Total(rollouts') = Total(rollouts) + 1
    BY <2>1, <2>2, CountOne DEF TypeOK
  <2>4. Total(rollouts') = rolled'
    BY <2>1, <2>2, <2>3
  <2> QED BY <2>1, <2>4 DEF DetectedIsDone
<1>8. ASSUME UNCHANGED <<pc, base, events, rollouts, rolled>>,
             /\ Live(dep').present = Live(dep).present
             /\ Live(dep).present =>
                  /\ Live(dep').stamp = Live(dep).stamp
                  /\ Live(dep').template = Live(dep).template
      PROVE  DetectedIsDone'
  <2>1. Rollouts(Live(dep'), base.want) = Rollouts(Live(dep), base.want)
    BY <1>8 DEF Rollouts, rolloutTrigger, sameContainerImages
  <2> QED BY <1>8, <2>1 DEF DetectedIsDone
<1>9. CASE DeliverConfig \/ UNCHANGED vars
           \/ \E t \in Template : CreateConfig(t) \/ EditConfig(t)
  BY <1>8, <1>9 DEF DeliverConfig, vars, CreateConfig, EditConfig, WriteConfig
<1>10. CASE DeliverDeployment
  <2>1. Live(dep') = Live(dep)
    BY <1>10, StreamTail DEF DeliverDeployment, TypeOK
  <2> QED BY <1>8, <1>10, <2>1 DEF DeliverDeployment
<1>11. ASSUME NEW a \in BOOLEAN, NEW b \in BOOLEAN, ReportHealth(a, b)
       PROVE  DetectedIsDone'
  <2>1. Live(dep) \in Deployment
    BY <1>11, PassTypes DEF ReportHealth, NoDep
  <2>2. [Live(dep) EXCEPT !.available = a, !.serving = b] \in Deployment \cup {NoDep}
    BY <2>1 DEF Deployment
  <2>3. Live(dep') = [Live(dep) EXCEPT !.available = a, !.serving = b]
    BY <1>11, <2>2, StreamAppend DEF ReportHealth, WriteDeployment, TypeOK
  <2>4. /\ Live(dep').present = Live(dep).present
        /\ Live(dep').stamp = Live(dep).stamp /\ Live(dep').template = Live(dep).template
    BY <2>1, <2>3 DEF Deployment
  <2> QED BY <1>8, <1>11, <2>4 DEF ReportHealth, WriteDeployment
<1> QED BY <1>1, <1>2, <1>4, <1>5, <1>6, <1>7, <1>9, <1>10, <1>11, CoherentStep

(***************************************************************************)
(* The rollout counter is exact as long as the cache is not behind when    *)
(* rollouts are detected, no call fails and nobody else writes or deletes  *)
(* (detectRollouts, commitRollouts), for any number of edits and health    *)
(* changes at any moment of a pass.                                        *)
(***************************************************************************)
THEOREM CountsExact == Spec => []CountsExactWhenCoherent
<1>1. Init => CountInv
  <2> SUFFICES ASSUME Init PROVE CountInv
    OBVIOUS
  <2>1. /\ \A i \in DOMAIN cr : cr[i].uid = 0
        /\ ~Live(dep).present
    BY DEF Init, Live, NoCR, NoDep
  <2>2. Total(rollouts) = rolled
    BY DEF Init, Total, Triggers
  <2> QED BY <2>1, <2>2, TypeInit DEF Init, CountInv, PassSane, OwnedAndStamped, DetectedIsDone
<1>2. CountInv /\ [Next]_vars => CountInv'
  <2> SUFFICES ASSUME CountInv, [Next]_vars PROVE CountInv'
    OBVIOUS
  <2>1. TypeOK' /\ PassSane'
    BY TypeStep, SaneStep DEF CountInv
  <2>2. ASSUME Coherent'
        PROVE  OwnedAndStamped' /\ DetectedIsDone'
    <3>1. Coherent
      BY <2>2, CoherentStep DEF CountInv
    <3> QED BY <2>2, <3>1, OwnedStep, DetectedStep DEF CountInv
  <2> QED BY <2>1, <2>2 DEF CountInv
<1>3. CountInv => CountsExactWhenCoherent
  BY DEF CountInv, Coherent, DetectedIsDone, CountsExactWhenCoherent
<1> QED BY <1>1, <1>2, <1>3, PTL DEF Spec
=============================================================================
