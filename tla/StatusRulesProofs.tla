-------------------------- MODULE StatusRulesProofs --------------------------
(***************************************************************************)
(* Facts about the pure operators of Operands and StatusRules, for every   *)
(* entity set, spec and release: what they return has the declared type,   *)
(* and aggregateStatus keeps the generations of a status in order.         *)
(***************************************************************************)
EXTENDS StatusRules, SequenceTheorems, FiniteSetTheorems, TLAPS

\* A non-empty set of naturals has a least element.  (The strict subset order
\* on the intervals 1..n is well founded.)
LEMMA LeastElement ==
  ASSUME NEW S \in SUBSET Nat, S # {}
  PROVE  \E x \in S : \A y \in S : x <= y
<1> DEFINE T == {1..x : x \in S}
<1> DEFINE R == StrictSubsetOrdering(Nat)
<1>1. \A x \in S : 1..x \in FiniteSubsetsOf(Nat)
  BY FS_Interval DEF FiniteSubsetsOf
<1>2. T \subseteq FiniteSubsetsOf(Nat) /\ T # {}
  BY <1>1
<1>3. IsWellFoundedOn(R, FiniteSubsetsOf(Nat))
  BY FS_StrictSubsetOrderingWellFounded
<1>4. \E t \in T : \A u \in T : ~(<<u, t>> \in R)
  <2> HIDE DEF T, R
  <2> QED BY <1>2, <1>3, WFMin
<1>5. PICK x \in S : \A y \in S : ~(<<1..y, 1..x>> \in R)
  BY <1>4
<1>6. ASSUME NEW y \in S, ~(x <= y) PROVE FALSE
  <2>1. 1..y \subseteq 1..x /\ 1..y # 1..x
    <3>1. x \in 1..x /\ x \notin 1..y
      BY <1>6
    <3>2. \A z \in 1..y : z \in 1..x
      BY <1>6
    <3> QED BY <3>1, <3>2
  <2>2. 1..y \in SUBSET Nat /\ 1..x \in SUBSET Nat
    OBVIOUS
  <2>3. <<1..y, 1..x>> \in R
    BY <2>1, <2>2 DEF StrictSubsetOrdering
  <2> QED BY <2>3, <1>5
<1> QED BY <1>6

-----------------------------------------------------------------------------
\* The component set: the API and one Sentinel per entity.
LEMMA ComponentsType ==
  /\ Len(Entities) \in Nat
  /\ DOMAIN Components = 1..(Len(Entities) + 1)
  /\ \A i \in DOMAIN Components : Components[i] \in ComponentSet
  /\ "api" \in ComponentSet
  /\ \A i \in 1..Len(Entities) : Entities[i].plural \in ComponentSet
<1>1. Len(Entities) \in Nat
  BY EntitiesAssumption
<1>2. DOMAIN Components = 1..(Len(Entities) + 1)
  BY DEF Components
<1>3. \A i \in DOMAIN Components : Components[i] \in ComponentSet
  BY DEF ComponentSet
<1>4. 1 \in DOMAIN Components /\ Components[1] = "api"
  BY <1>1, <1>2 DEF Components
<1>5. ASSUME NEW i \in 1..Len(Entities)
      PROVE  i + 1 \in DOMAIN Components /\ Components[i + 1] = Entities[i].plural
  BY <1>1, <1>2 DEF Components
<1> QED BY <1>1, <1>2, <1>3, <1>4, <1>5

\* A component other than the API comes from an entity of the bundle.
LEMMA EntityOfType ==
  ASSUME NEW c \in ComponentSet, c # "api"
  PROVE  EntityOf(c).parent \in BOOLEAN
<1>1. PICK i \in DOMAIN Components : c = Components[i]
  BY DEF ComponentSet
<1>2. i # 1 /\ c = Entities[i - 1].plural /\ i - 1 \in 1..Len(Entities)
  BY <1>1, ComponentsType DEF Components
<1>3. DOMAIN Entities = 1..Len(Entities)
  BY EntitiesAssumption, LenProperties
<1>4. \E e \in {Entities[j] : j \in DOMAIN Entities} : e.plural = c
  BY <1>2, <1>3
<1>5. EntityOf(c) \in {Entities[j] : j \in DOMAIN Entities}
  BY <1>4 DEF EntityOf
<1>6. \A j \in DOMAIN Entities : Entities[j].parent \in BOOLEAN
  <2>1. \A j \in 1..Len(Entities) :
          Entities[j] \in [plural : ReconciledKinds \cup RecencyKinds,
                           parent : BOOLEAN]
    BY EntitiesAssumption, ElementOfSeq
  <2> QED BY <2>1, <1>3
<1> QED BY <1>5, <1>6

\* Every step of the apply order is an operand.
LEMMA ApplyOrderType ==
  /\ DOMAIN ApplyOrder = 1..Len(ApplyOrder)
  /\ Len(ApplyOrder) \in Nat \ {0}
  /\ \A i \in 1..Len(ApplyOrder) :
       /\ ApplyOrder[i] \in Operands
       /\ ApplyOrder[i] \in Operand
  /\ Operands \subseteq Operand
<1> DEFINE n == 4 + 3 * Len(Entities)
<1>1. n \in Nat /\ n >= 4
  BY ComponentsType
<1>2. ASSUME NEW i \in 1..n PROVE ApplyOrder[i] \in Operand
  <2>1. CASE i <= 4
    <3>1. ApiKinds[i] \in Kinds
      <4>1. i \in {1, 2, 3, 4}
        BY <2>1
      <4> QED BY <4>1 DEF ApiKinds, Kinds
    <3>2. ApplyOrder[i] = [comp |-> "api", kind |-> ApiKinds[i]]
      BY <2>1 DEF ApplyOrder
    <3> QED BY <3>1, <3>2, ComponentsType DEF Operand
  <2>2. CASE i > 4
    <3> DEFINE k == ((i - 5) \div 3) + 2
    <3> DEFINE m == ((i - 5) % 3) + 1
    <3>1. k \in 1..(Len(Entities) + 1)
      BY <2>2, ComponentsType
    <3>2. m \in {1, 2, 3}
      BY <2>2
    <3>3. SentinelKinds[m] \in Kinds
      BY <3>2 DEF SentinelKinds, Kinds
    <3>4. Components[k] \in ComponentSet
      BY <3>1, ComponentsType
    <3>5. ApplyOrder[i] = [comp |-> Components[k], kind |-> SentinelKinds[m]]
      BY <2>2, <1>1 DEF ApplyOrder
    <3> HIDE DEF k, m
    <3> QED BY <3>3, <3>4, <3>5 DEF Operand
  <2> QED BY <2>1, <2>2, <1>1
<1>3. DOMAIN ApplyOrder = 1..n /\ ApplyOrder \in [1..n -> Operand]
  BY <1>1, <1>2 DEF ApplyOrder
<1>4. ApplyOrder \in Seq(Operand)
  BY <1>1, <1>3, SeqDef
<1>5. DOMAIN ApplyOrder = 1..Len(ApplyOrder) /\ Len(ApplyOrder) \in Nat
  BY <1>4, LenProperties
<1>6. Len(ApplyOrder) # 0
  <2>1. 1 \in 1..Len(ApplyOrder)
    BY <1>1, <1>3, <1>5
  <2> QED BY <2>1
<1> QED BY <1>2, <1>3, <1>5, <1>6 DEF Operands

\* Every component's workload is among the operands, and its configuration is
\* applied before it.
LEMMA WorkloadOrder ==
  /\ \A c \in ComponentSet : \E i \in 1..Len(ApplyOrder) :
       ApplyOrder[i] = [comp |-> c, kind |-> "deployment"]
  /\ \A i \in 1..Len(ApplyOrder) : ApplyOrder[i].kind = "deployment" =>
       \E j \in 1..(i - 1) :
         ApplyOrder[j] = [comp |-> ApplyOrder[i].comp, kind |-> "configmap"]
<1> DEFINE n == 4 + 3 * Len(Entities)
<1>1. n \in Nat /\ n >= 4 /\ Len(Entities) \in Nat
  BY ComponentsType
<1>2. Len(ApplyOrder) = n
  <2>1. DOMAIN ApplyOrder = 1..n
    BY DEF ApplyOrder
  <2> QED BY <1>1, <2>1, ApplyOrderType
<1>3. /\ ApplyOrder[2] = [comp |-> "api", kind |-> "configmap"]
      /\ ApplyOrder[4] = [comp |-> "api", kind |-> "deployment"]
  BY <1>1 DEF ApplyOrder, ApiKinds
<1>4. ASSUME NEW k \in 1..Len(Entities)
      PROVE  /\ 3 + 3 * k \in 1..n /\ 4 + 3 * k \in 1..n
             /\ ApplyOrder[3 + 3 * k] =
                  [comp |-> Components[k + 1], kind |-> "configmap"]
             /\ ApplyOrder[4 + 3 * k] =
                  [comp |-> Components[k + 1], kind |-> "deployment"]
  <2>1. 3 + 3 * k \in 1..n /\ 4 + 3 * k \in 1..n /\ ~(3 + 3 * k <= 4) /\ ~(4 + 3 * k <= 4)
    BY <1>1
  <2>2. /\ ((3 + 3 * k) - 5) \div 3 = k - 1 /\ ((3 + 3 * k) - 5) % 3 = 1
        /\ ((4 + 3 * k) - 5) \div 3 = k - 1 /\ ((4 + 3 * k) - 5) % 3 = 2
    BY <1>1
  <2>3. (k - 1) + 2 = k + 1
    BY <1>1
  <2>4. ApplyOrder[3 + 3 * k] =
          [comp |-> Components[((3 + 3 * k - 5) \div 3) + 2],
           kind |-> SentinelKinds[((3 + 3 * k - 5) % 3) + 1]]
    BY <2>1 DEF ApplyOrder
  <2>5. ApplyOrder[4 + 3 * k] =
          [comp |-> Components[((4 + 3 * k - 5) \div 3) + 2],
           kind |-> SentinelKinds[((4 + 3 * k - 5) % 3) + 1]]
    BY <2>1 DEF ApplyOrder
  <2>6. SentinelKinds[2] = "configmap" /\ SentinelKinds[3] = "deployment"
    BY DEF SentinelKinds
  <2> QED BY <2>1, <2>2, <2>3, <2>4, <2>5, <2>6
<1>5. ASSUME NEW c \in ComponentSet
      PROVE  \E i \in 1..Len(ApplyOrder) :
               ApplyOrder[i] = [comp |-> c, kind |-> "deployment"]
  <2>1. PICK m \in 1..(Len(Entities) + 1) : c = Components[m]
    BY ComponentsType DEF ComponentSet
  <2>2. CASE m = 1
    BY <1>1, <1>2, <1>3, <2>1, <2>2 DEF Components
  <2>3. CASE m # 1
    <3>1. m - 1 \in 1..Len(Entities) /\ (m - 1) + 1 = m
      BY <1>1, <2>3
    <3> QED BY <1>2, <1>4, <2>1, <3>1
  <2> QED BY <2>2, <2>3
<1>6. ASSUME NEW i \in 1..n, ApplyOrder[i].kind = "deployment"
      PROVE  \E j \in 1..(i - 1) :
               ApplyOrder[j] = [comp |-> ApplyOrder[i].comp, kind |-> "configmap"]
  <2>1. CASE i <= 4
    <3>1. ApplyOrder[i] = [comp |-> "api", kind |-> ApiKinds[i]]
      BY <2>1 DEF ApplyOrder
    <3>2. i = 4
      <4>1. i \in {1, 2, 3, 4}
        BY <2>1
      <4> QED BY <1>6, <3>1, <4>1 DEF ApiKinds
    <3> QED BY <1>3, <3>2
  <2>2. CASE i > 4
    <3> DEFINE k == ((i - 5) \div 3) + 1
    <3> DEFINE m == (i - 5) % 3
    <3>1. k \in 1..Len(Entities) /\ m \in {0, 1, 2} /\ i = 2 + 3 * k + m
      BY <1>1, <2>2
    <3>2. ApplyOrder[i] = [comp |-> Components[((i - 5) \div 3) + 2],
                           kind |-> SentinelKinds[((i - 5) % 3) + 1]]
      BY <2>2 DEF ApplyOrder
    <3>3. m = 2
      BY <1>6, <3>1, <3>2 DEF SentinelKinds
    <3>4. PICK e \in 1..Len(Entities) : i = 4 + 3 * e
      BY <3>1, <3>3
    <3>5. 3 + 3 * e \in 1..(i - 1)
      BY <1>1, <3>4
    <3>6. /\ ApplyOrder[3 + 3 * e] =
               [comp |-> Components[e + 1], kind |-> "configmap"]
          /\ ApplyOrder[4 + 3 * e] =
               [comp |-> Components[e + 1], kind |-> "deployment"]
      BY <1>4
    <3> HIDE DEF k, m, n
    <3> QED BY <3>4, <3>5, <3>6
  <2> QED BY <2>1, <2>2
<1> QED BY <1>2, <1>5, <1>6

-----------------------------------------------------------------------------
\* The references of the API component, role by role.
DatabaseRefs(spec) ==
  <<[comp |-> "api", role |-> "database", name |-> spec.db]>>
TLSRefs(spec) ==
  IF TLSEnabled(spec)
    THEN <<[comp |-> "api", role |-> "tls", name |-> spec.tls]>> ELSE <<>>
JWKSRefs(spec) ==
  IF AuthEnabled(spec) /\ spec.jwks # NoSecret
    THEN <<[comp |-> "api", role |-> "jwks", name |-> spec.jwks]>> ELSE <<>>

\* A list of references under some roles only.
Under(refs, roles) == \A i \in 1..Len(refs) : refs[i].role \in roles

\* A list of references in which no component has one role twice.
Distinct(refs) ==
  \A i, j \in 1..Len(refs) :
    refs[i].comp = refs[j].comp /\ refs[i].role = refs[j].role => i = j

\* The referenced Secrets are put together from four lists of their own role,
\* each without repetition.
LEMMA SecretRefParts ==
  ASSUME NEW spec \in ConfigSpec, NEW rel \in Release
  PROVE  /\ ReferencedSecrets(spec, rel) =
              ((DatabaseRefs(spec) \o TLSRefs(spec)) \o JWKSRefs(spec))
              \o SentinelSecretRefs(rel)
         /\ DatabaseRefs(spec) \in Seq(SecretRef) /\ Len(DatabaseRefs(spec)) = 1
         /\ Under(DatabaseRefs(spec), {"database"}) /\ Distinct(DatabaseRefs(spec))
         /\ TLSRefs(spec) \in Seq(SecretRef)
         /\ Under(TLSRefs(spec), {"tls"}) /\ Distinct(TLSRefs(spec))
         /\ JWKSRefs(spec) \in Seq(SecretRef)
         /\ Under(JWKSRefs(spec), {"jwks"}) /\ Distinct(JWKSRefs(spec))
         /\ SentinelSecretRefs(rel) \in Seq(SecretRef)
         /\ Under(SentinelSecretRefs(rel), {"broker"})
         /\ Distinct(SentinelSecretRefs(rel))
<1> DEFINE d == DatabaseRefs(spec)
<1> DEFINE t == TLSRefs(spec)
<1> DEFINE j == JWKSRefs(spec)
<1> DEFINE b == SentinelSecretRefs(rel)
<1>1. /\ d \in Seq(SecretRef) /\ Len(d) = 1
      /\ Under(d, {"database"}) /\ Distinct(d)
  <2>1. [comp |-> "api", role |-> "database", name |-> spec.db] \in SecretRef
    BY ComponentsType DEF SecretRef, Roles, ConfigSpec
  <2> QED BY <2>1 DEF DatabaseRefs, Under, Distinct
<1>2. t \in Seq(SecretRef) /\ Under(t, {"tls"}) /\ Distinct(t)
  <2>1. CASE TLSEnabled(spec)
    <3>1. [comp |-> "api", role |-> "tls", name |-> spec.tls] \in SecretRef
      BY <2>1, ComponentsType DEF SecretRef, Roles, ConfigSpec, TLSEnabled
    <3> QED BY <2>1, <3>1 DEF TLSRefs, Under, Distinct
  <2>2. CASE ~TLSEnabled(spec)
    BY <2>2 DEF TLSRefs, Under, Distinct
  <2> QED BY <2>1, <2>2
<1>3. j \in Seq(SecretRef) /\ Under(j, {"jwks"}) /\ Distinct(j)
  <2>1. CASE AuthEnabled(spec) /\ spec.jwks # NoSecret
    <3>1. [comp |-> "api", role |-> "jwks", name |-> spec.jwks] \in SecretRef
      BY <2>1, ComponentsType DEF SecretRef, Roles, ConfigSpec
    <3> QED BY <2>1, <3>1 DEF JWKSRefs, Under, Distinct
  <2>2. CASE ~(AuthEnabled(spec) /\ spec.jwks # NoSecret)
    BY <2>2 DEF JWKSRefs, Under, Distinct
  <2> QED BY <2>1, <2>2
<1>4. b \in Seq(SecretRef) /\ Under(b, {"broker"}) /\ Distinct(b)
  <2>1. CASE rel.broker = "rabbitmq"
    <3>1. \A i \in 1..Len(Entities) :
            [comp |-> Entities[i].plural, role |-> "broker",
             name |-> BrokerSecret] \in SecretRef
      BY ComponentsType, NamesAssumption DEF SecretRef, Roles
    <3>2. /\ b \in [1..Len(Entities) -> SecretRef]
          /\ \A i \in 1..Len(Entities) :
               b[i].comp = Entities[i].plural /\ b[i].role = "broker"
      BY <2>1, <3>1 DEF SentinelSecretRefs
    <3>3. b \in Seq(SecretRef)
      BY <3>2, ComponentsType, SeqDef
    <3>4. Len(b) = Len(Entities)
      <4>1. DOMAIN b = 1..Len(b) /\ Len(b) \in Nat
        BY <3>3, LenProperties
      <4> QED BY <3>2, <4>1, ComponentsType
    <3> QED BY <3>2, <3>3, <3>4, EntitiesAssumption DEF Under, Distinct
  <2>2. CASE rel.broker # "rabbitmq"
    BY <2>2 DEF SentinelSecretRefs, Under, Distinct
  <2> QED BY <2>1, <2>2
<1>5. ReferencedSecrets(spec, rel) = ((d \o t) \o j) \o b
  BY DEF ReferencedSecrets, ApiSecretRefs, DatabaseRefs, TLSRefs, JWKSRefs
<1> QED BY <1>1, <1>2, <1>3, <1>4, <1>5

\* Lists under different roles have no reference in common.
LEMMA ConcatDistinct ==
  ASSUME NEW s \in Seq(SecretRef), NEW t \in Seq(SecretRef),
         NEW P, NEW Q, Under(s, P), Under(t, Q), P \cap Q = {},
         Distinct(s), Distinct(t)
  PROVE  Distinct(s \o t) /\ Under(s \o t, P \cup Q)
<1>1. /\ Len(s) \in Nat /\ Len(t) \in Nat
      /\ Len(s \o t) = Len(s) + Len(t)
      /\ \A i \in 1..Len(s \o t) :
           (s \o t)[i] = IF i <= Len(s) THEN s[i] ELSE t[i - Len(s)]
  BY ConcatProperties, LenProperties
<1>2. ASSUME NEW i \in 1..Len(s \o t)
      PROVE  \/ i \in 1..Len(s) /\ (s \o t)[i] = s[i]
             \/ i - Len(s) \in 1..Len(t) /\ (s \o t)[i] = t[i - Len(s)]
  BY <1>1
<1>3. Under(s \o t, P \cup Q)
  BY <1>2 DEF Under
<1>4. ASSUME NEW i \in 1..Len(s \o t), NEW j \in 1..Len(s \o t),
             (s \o t)[i].comp = (s \o t)[j].comp,
             (s \o t)[i].role = (s \o t)[j].role
      PROVE  i = j
  <2>1. CASE i \in 1..Len(s) /\ (s \o t)[i] = s[i]
    <3>1. (s \o t)[i].role \in P
      BY <2>1 DEF Under
    <3>2. ~(j - Len(s) \in 1..Len(t) /\ (s \o t)[j] = t[j - Len(s)])
      BY <1>4, <3>1 DEF Under
    <3>3. j \in 1..Len(s) /\ (s \o t)[j] = s[j]
      BY <1>2, <3>2
    <3> QED BY <1>4, <2>1, <3>3 DEF Distinct
  <2>2. CASE i - Len(s) \in 1..Len(t) /\ (s \o t)[i] = t[i - Len(s)]
    <3>1. (s \o t)[i].role \in Q
      BY <2>2 DEF Under
    <3>2. ~(j \in 1..Len(s) /\ (s \o t)[j] = s[j])
      BY <1>4, <3>1 DEF Under
    <3>3. j - Len(s) \in 1..Len(t) /\ (s \o t)[j] = t[j - Len(s)]
      BY <1>2, <3>2
    <3>4. i - Len(s) = j - Len(s)
      BY <1>4, <2>2, <3>3 DEF Distinct
    <3> QED BY <1>1, <3>4
  <2> QED BY <1>2, <2>1, <2>2
<1> QED BY <1>3, <1>4 DEF Distinct

\* Every component's referenced Secrets: there is always the database Secret,
\* and no component has a role twice.
LEMMA ReferencedSecretsType ==
  ASSUME NEW spec \in ConfigSpec, NEW rel \in Release
  PROVE  /\ ReferencedSecrets(spec, rel) \in Seq(SecretRef)
         /\ Len(ReferencedSecrets(spec, rel)) \in Nat \ {0}
         /\ Distinct(ReferencedSecrets(spec, rel))
<1> DEFINE d == DatabaseRefs(spec)
<1> DEFINE t == TLSRefs(spec)
<1> DEFINE j == JWKSRefs(spec)
<1> DEFINE b == SentinelSecretRefs(rel)
<1>1. /\ d \in Seq(SecretRef) /\ t \in Seq(SecretRef)
      /\ j \in Seq(SecretRef) /\ b \in Seq(SecretRef)
      /\ Len(d) = 1
  BY SecretRefParts
<1>2. /\ Under(d, {"database"}) /\ Under(t, {"tls"})
      /\ Under(j, {"jwks"}) /\ Under(b, {"broker"})
      /\ Distinct(d) /\ Distinct(t) /\ Distinct(j) /\ Distinct(b)
  BY SecretRefParts
<1> HIDE DEF d, t, j, b
<1> DEFINE dt == d \o t
<1> DEFINE dtj == dt \o j
<1>3. Len(t) \in Nat /\ Len(j) \in Nat /\ Len(b) \in Nat
  BY <1>1, LenProperties
<1>4. dt \in Seq(SecretRef) /\ Len(dt) = 1 + Len(t)
  BY <1>1, ConcatProperties
<1>5. Distinct(dt) /\ Under(dt, {"database"} \cup {"tls"})
  <2>1. {"database"} \cap {"tls"} = {}
    OBVIOUS
  <2> QED BY <1>1, <1>2, <2>1, ConcatDistinct
<1> HIDE DEF dt
<1>6. dtj \in Seq(SecretRef) /\ Len(dtj) = 1 + Len(t) + Len(j)
  <2>1. dtj \in Seq(SecretRef) /\ Len(dtj) = Len(dt) + Len(j)
    BY <1>1, <1>4, ConcatProperties
  <2> QED BY <1>3, <1>4, <2>1
<1>7. Distinct(dtj) /\ Under(dtj, ({"database"} \cup {"tls"}) \cup {"jwks"})
  <2>1. ({"database"} \cup {"tls"}) \cap {"jwks"} = {}
    OBVIOUS
  <2> QED BY <1>1, <1>2, <1>4, <1>5, <2>1, ConcatDistinct
<1> HIDE DEF dtj
<1>8. dtj \o b \in Seq(SecretRef) /\ Len(dtj \o b) = 1 + Len(t) + Len(j) + Len(b)
  <2>1. dtj \o b \in Seq(SecretRef) /\ Len(dtj \o b) = Len(dtj) + Len(b)
    BY <1>1, <1>6, ConcatProperties
  <2> QED BY <1>3, <1>6, <2>1
<1>9. Distinct(dtj \o b)
  <2>1. (({"database"} \cup {"tls"}) \cup {"jwks"}) \cap {"broker"} = {}
    OBVIOUS
  <2> QED BY <1>1, <1>2, <1>6, <1>7, <2>1, ConcatDistinct
<1>10. ReferencedSecrets(spec, rel) = dtj \o b
  BY SecretRefParts DEF d, t, j, b, dt, dtj
<1> QED BY <1>3, <1>8, <1>9, <1>10

\* What Render produces is an object content, whatever it is given.
LEMMA ConfigType ==
  ASSUME NEW c \in ComponentSet, NEW spec \in ConfigSpec,
         NEW url \in URIs \cup {NoURI}, NEW rel \in Release
  PROVE  Config(c, spec, url, rel) \in ConfigData
<1>1. CASE c = "api"
  <2>1. ApiConfig(spec, url) \in
          [of : {"configmap"}, tls : BOOLEAN, jwt : BOOLEAN,
           issuer : SUBSET Issuers, audience : SUBSET Audiences,
           file : BOOLEAN, url : URIs \cup {NoURI}]
    BY DEF ApiConfig, ConfigSpec, TLSEnabled, AuthEnabled, NeedsDiscovery
  <2> QED BY <1>1, <2>1 DEF Config, ConfigData
<1>2. CASE c # "api"
  <2>1. EntityOf(c).parent \in BOOLEAN
    BY <1>2, EntityOfType
  <2>2. SentinelConfig(c, spec, rel) \in
          [of : {"configmap"}, resource : ComponentSet, owner : BOOLEAN,
           decision : {"reconciled", "recency"}, api : {"http", "https"},
           auth : BOOLEAN, broker : BrokerTypes]
    BY <2>1 DEF SentinelConfig, Release, apiScheme, AuthEnabled,
                MessageDecision
  <2> QED BY <1>2, <2>2 DEF Config, ConfigData
<1> QED BY <1>1, <1>2

\* A rendered Deployment with its config hash is a well-formed Deployment.
LEMMA DeploymentType ==
  ASSUME NEW c \in ComponentSet, NEW spec \in ConfigSpec,
         NEW url \in URIs \cup {NoURI}, NEW rel \in Release,
         NEW entries \in Entries
  PROVE  Deployment(c, spec, url, rel, entries) \in DeploymentData
<1>1. configHash(Config(c, spec, url, rel), entries)
        \in [config : ConfigData, secrets : Entries]
  BY ConfigType DEF configHash
<1>2. (IF c = "api" THEN rel.apiImage ELSE rel.sentinelImage) \in Images
  BY DEF Release
<1>3. ApiMounts(spec) \in MountData
  BY DEF ApiMounts, MountData, ConfigSpec
<1>4. SentinelMounts(spec, rel) \in MountData
  BY NamesAssumption DEF SentinelMounts, MountData, ConfigSpec
<1> QED BY <1>1, <1>2, <1>3, <1>4 DEF Deployment, DeploymentData

\* Whatever a component renders is well-formed content.
LEMMA RenderType ==
  ASSUME NEW o \in Operand, NEW spec \in ConfigSpec,
         NEW url \in URIs \cup {NoURI}, NEW rel \in Release,
         NEW entries \in Entries
  PROVE  Render(o, spec, url, rel, entries) \in Data
<1>1. o.comp \in ComponentSet /\ o.kind \in Kinds
  BY DEF Operand
<1>2. CASE o.kind = "access"
  BY <1>2 DEF Render, Data
<1>3. CASE o.kind = "configmap"
  BY <1>1, <1>3, ConfigType DEF Render, Data
<1>4. CASE o.kind = "service"
  <2>1. Service(spec) \in [of : {"service"}, port : {"http", "https"}]
    BY DEF Service, apiScheme
  <2> QED BY <1>4, <2>1 DEF Render, Data
<1>5. CASE o.kind = "deployment"
  <2>1. Deployment(o.comp, spec, url, rel, entries) \in DeploymentData
    BY <1>1, DeploymentType
  <2> QED BY <1>5, <2>1 DEF Render, Data
<1> QED BY <1>1, <1>2, <1>3, <1>4, <1>5 DEF Kinds

\* The key endpoint decides nothing when there is no discovery.
LEMMA RenderWithoutDiscovery ==
  ASSUME NEW o, NEW spec, NEW u, NEW v, NEW rel, NEW entries,
         ~NeedsDiscovery(spec)
  PROVE  Render(o, spec, u, rel, entries) = Render(o, spec, v, rel, entries)
<1>1. ApiConfig(spec, u) = ApiConfig(spec, v)
  BY DEF ApiConfig
<1>2. Config(o.comp, spec, u, rel) = Config(o.comp, spec, v, rel)
  BY <1>1 DEF Config
<1> QED BY <1>2 DEF Render, Deployment

\* Of the operands only a Deployment carries the Secret versions, and it carries
\* those it was rendered with, next to the rendered configuration.
LEMMA RenderEntries ==
  ASSUME NEW o, NEW spec, NEW u, NEW rel, NEW e, NEW f
  PROVE  /\ o.kind # "deployment" =>
              Render(o, spec, u, rel, e) = Render(o, spec, u, rel, f)
         /\ o.kind = "deployment" =>
              /\ Render(o, spec, u, rel, e).of = "deployment"
              /\ Render(o, spec, u, rel, e).hash.secrets = e
              /\ Render(o, spec, u, rel, e).hash.config =
                   Config(o.comp, spec, u, rel)
BY DEF Render, Deployment, configHash

-----------------------------------------------------------------------------
\* Conditions always reports both conditions, from the closed set of reasons.
LEMMA ConditionsType ==
  ASSUME NEW desired, NEW st
  PROVE  Conditions(desired, st) \in ComponentConditions
<1>1. availableCondition(desired, st) \in Condition
  BY DEF availableCondition, Condition, Reasons
<1>2. progressingCondition(desired, st) \in Condition
  BY DEF progressingCondition, Condition, Reasons
<1> QED BY <1>1, <1>2 DEF Conditions, ComponentConditions

\* The rolled-up Available is well-formed and stamped with the generation given.
LEMMA RollupAvailableType ==
  ASSUME NEW health \in Health, NEW gen \in Nat
  PROVE  /\ rollupAvailable(health, gen) \in Rollup
         /\ rollupAvailable(health, gen).gen = gen
<1> DEFINE bad == {x \in DOMAIN Components :
                     ~health[Components[x]].available.status}
<1> DEFINE i == CHOOSE x \in bad : \A y \in bad : x <= y
<1>1. CASE bad = {}
  BY <1>1 DEF rollupAvailable, Rollup, Reasons, All
<1>2. CASE bad # {}
  <2>1. bad \in SUBSET Nat
    BY ComponentsType
  <2>2. i \in bad
    <3>1. \E x \in bad : \A y \in bad : x <= y
      <4> HIDE DEF bad
      <4> QED BY <1>2, <2>1, LeastElement
    <3> QED BY <3>1
  <2>3. Components[i] \in ComponentSet
    BY <2>2, ComponentsType
  <2>4. health[Components[i]].available.reason \in Reasons
    BY <2>3 DEF Health, ComponentConditions, Condition
  <2>5. rollupAvailable(health, gen) =
          [status |-> FALSE, reason |-> health[Components[i]].available.reason,
           by |-> Components[i], gen |-> gen]
    BY <1>2 DEF rollupAvailable
  <2> HIDE DEF bad, i
  <2> QED BY <2>3, <2>4, <2>5 DEF Rollup
<1> QED BY <1>1, <1>2

\* The rolled-up Progressing is well-formed and stamped with the generation
\* given.
LEMMA RollupProgressingType ==
  ASSUME NEW health \in Health, NEW gen \in Nat
  PROVE  /\ rollupProgressing(health, gen) \in Rollup
         /\ rollupProgressing(health, gen).gen = gen
<1> DEFINE bad == {x \in DOMAIN Components :
                     health[Components[x]].progressing.status}
<1> DEFINE i == CHOOSE x \in bad : \A y \in bad : x <= y
<1>1. CASE bad = {}
  BY <1>1 DEF rollupProgressing, Rollup, Reasons, All
<1>2. CASE bad # {}
  <2>1. bad \in SUBSET Nat
    BY ComponentsType
  <2>2. i \in bad
    <3>1. \E x \in bad : \A y \in bad : x <= y
      <4> HIDE DEF bad
      <4> QED BY <1>2, <2>1, LeastElement
    <3> QED BY <3>1
  <2>3. Components[i] \in ComponentSet
    BY <2>2, ComponentsType
  <2>4. health[Components[i]].progressing.reason \in Reasons
    BY <2>3 DEF Health, ComponentConditions, Condition
  <2>5. rollupProgressing(health, gen) =
          [status |-> TRUE, reason |-> health[Components[i]].progressing.reason,
           by |-> Components[i], gen |-> gen]
    BY <1>2 DEF rollupProgressing
  <2> HIDE DEF bad, i
  <2> QED BY <2>3, <2>4, <2>5 DEF Rollup
<1> QED BY <1>1, <1>2

\* How a pass that read generation gen may change the status prev into st: one
\* that succeeded stamps everything with gen; a failed one touches Degraded only.
Stamped(prev, gen, failed, st) ==
  /\ st.degraded.gen = gen
  /\ ~failed => /\ st.observedGeneration = gen
                /\ st.available.gen = gen
                /\ st.progressing.gen = gen
                /\ st.components.gen = gen
  /\ failed => st = [prev EXCEPT !.degraded = st.degraded]

(***************************************************************************)
(* aggregateStatus publishes a well-formed status, and stamps what it      *)
(* publishes with the generation of the copy it worked on.                 *)
(***************************************************************************)
THEOREM AggregateStatusType ==
  ASSUME NEW prev \in Status, NEW gen \in Nat, NEW health \in Health,
         NEW missing \in SUBSET Roles, NEW failed \in BOOLEAN
  PROVE  /\ aggregateStatus(prev, gen, health, missing, failed) \in Status
         /\ Stamped(prev, gen, failed,
                    aggregateStatus(prev, gen, health, missing, failed))
<1> DEFINE d == degradedCondition(missing, failed, gen)
<1> DEFINE a == rollupAvailable(health, gen)
<1> DEFINE p == rollupProgressing(health, gen)
<1>1. d \in Degraded /\ d.gen = gen
  BY DEF degradedCondition, Degraded
<1>2. a \in Rollup /\ a.gen = gen
  BY RollupAvailableType
<1>3. p \in Rollup /\ p.gen = gen
  BY RollupProgressingType
<1>4. CASE failed
  <2>1. aggregateStatus(prev, gen, health, missing, failed) =
          [prev EXCEPT !.degraded = d]
    BY <1>4 DEF aggregateStatus
  <2> HIDE DEF d
  <2> QED BY <1>1, <1>4, <2>1 DEF Status, Stamped
<1>5. CASE ~failed
  <2>1. aggregateStatus(prev, gen, health, missing, failed) =
          [observedGeneration |-> gen, degraded |-> d, available |-> a,
           progressing |-> p, components |-> [gen |-> gen, health |-> health]]
    BY <1>5 DEF aggregateStatus
  <2> HIDE DEF d, a, p
  <2> QED BY <1>1, <1>2, <1>3, <1>5, <2>1 DEF Status, Stamped
<1> QED BY <1>4, <1>5
=============================================================================
