--------------------- MODULE ReconcilerRefinementProofs ---------------------
(***************************************************************************)
(* Reconciler implements Convergence, for every entity set, spec, release  *)
(* and budget.                                                             *)
(*                                                                         *)
(* The argument: what a pass holds of a source it took out of the source's *)
(* window and gives back when it ends, and at an apply it holds something  *)
(* of every source that the rendered operand depends on.                   *)
(***************************************************************************)
EXTENDS ReconcilerRefinement, ReconcilerRestProofs

(***************************************************************************)
(* The inductive invariant: what a pass holds.                             *)
(***************************************************************************)

\* Something has been recorded for every reference the pass has come to.
ReadsRecorded ==
  pc \in {"secrets", "discover", "apply", "refresh"} =>
    \A i \in 1..ReadSoFar : read[Refs[i].comp][Refs[i].role] # NotRead

\* And nothing without a reference.
ReadsReferenced ==
  \A c \in ComponentSet, r \in Roles :
    read[c][r] # NotRead =>
      \E i \in 1..Len(Refs) : Refs[i].comp = c /\ Refs[i].role = r

\* The pass has a key endpoint from discovery on, if it needs one.
URLWhenNeeded ==
  /\ pc \in {"secrets", "discover"} => url = NoURI
  /\ pc \in {"apply", "refresh"} => (url # NoURI <=> NeedsDiscovery(base.spec))

HeldInv ==
  /\ InPass => base.uid # 0
  /\ ReadsRecorded
  /\ ReadsReferenced
  /\ URLWhenNeeded

-----------------------------------------------------------------------------
(***************************************************************************)
(* The windows.                                                            *)
(***************************************************************************)
ConfigWindow == {Goal(Live(cr))} \cup ({Goal(cr[i]) : i \in DOMAIN cr} \cup PassGoal)
SecretWindow(n) ==
  {Live(secret[n])} \cup ({secret[n][i] : i \in DOMAIN secret[n]} \cup PassRead(n))
IssuerWindow(i) == {idp[i]} \cup KnownURL(i)

\* The window of every kind of source.
WindowsAre ==
  /\ WindowOf(ConfigSource) = ConfigWindow /\ LiveValue(ConfigSource) = Goal(Live(cr))
  /\ \A n \in SecretNames :
       /\ WindowOf(SecretSource(n)) = SecretWindow(n)
       /\ LiveValue(SecretSource(n)) = Live(secret[n])
  /\ \A i \in Issuers :
       WindowOf(IssuerSource(i)) = IssuerWindow(i) /\ LiveValue(IssuerSource(i)) = idp[i]
  /\ WindowOf(ReleaseSource) = {release} /\ LiveValue(ReleaseSource) = release

\* They are as computed.
LEMMA WindowsNow == WindowsAre
BY DEF WindowsAre, WindowOf, LiveValue, ConfigSource, SecretSource, IssuerSource,
       ReleaseSource, ConfigWindow, SecretWindow, IssuerWindow

\* Also after a step.
LEMMA WindowsNext == WindowsAre'
BY DEF WindowsAre, WindowOf, LiveValue, ConfigSource, SecretSource, IssuerSource,
       ReleaseSource, ConfigWindow, SecretWindow, IssuerWindow

\* No window takes in anything but the new live value.
OnlyShrinks ==
  /\ ConfigWindow' \subseteq ConfigWindow \cup {Goal(Live(cr'))}
  /\ \A n \in SecretNames : SecretWindow(n)' \subseteq SecretWindow(n) \cup {Live(secret'[n])}
  /\ \A i \in Issuers : IssuerWindow(i)' \subseteq IssuerWindow(i) \cup {idp'[i]}

\* Which is what Convergence asks of a step.
LEMMA ShrinkingMovesOn ==
  ASSUME OnlyShrinks
  PROVE  C!MoveOn
<1>1. ASSUME NEW s \in SourceNames
      PROVE  WindowOf(s)' \subseteq WindowOf(s) \cup {LiveValue(s)'}
  <2>1. CASE s = ConfigSource
    BY <2>1, WindowsNow, WindowsNext DEF WindowsAre, OnlyShrinks
  <2>2. CASE s = ReleaseSource
    BY <2>2, WindowsNow, WindowsNext DEF WindowsAre, OnlyShrinks
  <2>3. ASSUME NEW n \in SecretNames, s = SecretSource(n)
        PROVE  WindowOf(s)' \subseteq WindowOf(s) \cup {LiveValue(s)'}
    BY <2>3, WindowsNow, WindowsNext DEF WindowsAre, OnlyShrinks
  <2>4. ASSUME NEW i \in Issuers, s = IssuerSource(i)
        PROVE  WindowOf(s)' \subseteq WindowOf(s) \cup {LiveValue(s)'}
    BY <2>4, WindowsNow, WindowsNext DEF WindowsAre, OnlyShrinks
  <2> QED BY <2>1, <2>2, <2>3, <2>4 DEF SourceNames
<1>2. \A s \in SourceNames : LiveValue(s)' \in WindowOf(s)'
  BY DEF WindowOf
<1> QED BY <1>1, <1>2 DEF C!MoveOn

-----------------------------------------------------------------------------
(***************************************************************************)
(* The invariant is inductive.                                             *)
(***************************************************************************)

\* A pass holds nothing at first.
LEMMA HeldInit == Init => HeldInv
<1> SUFFICES ASSUME Init PROVE HeldInv
  OBVIOUS
<1>1. \A c \in ComponentSet, r \in Roles : read[c][r] = NotRead
  BY DEF Init, NothingRead, NoEntries
<1> QED BY <1>1 DEF Init, HeldInv, InPass, ReadsRecorded, ReadsReferenced, URLWhenNeeded

\* Once a pass has ended, nothing is held.
LEMMA HeldOutside ==
  ASSUME pc' \in {"idle", "down"}, read' = NothingRead
  PROVE  HeldInv'
<1>1. \A c \in ComponentSet, r \in Roles : read'[c][r] = NotRead
  BY DEF NothingRead, NoEntries
<1> QED BY <1>1 DEF HeldInv, InPass, ReadsRecorded, ReadsReferenced, URLWhenNeeded

\* A new pass holds the CR only.
LEMMA HeldBegin ==
  ASSUME Typed, Forgotten, HeldInv, Begin
  PROVE  HeldInv'
<1>1. read = NothingRead /\ url = NoURI
  BY DEF Forgotten, InPass, Begin
<1>2. CASE Cached(cr).uid = 0
  BY <1>1, <1>2, HeldOutside DEF Begin, locals
<1>3. CASE Cached(cr).uid # 0
  <2>1. /\ base' = Cached(cr) /\ read' = read /\ url' = url
        /\ \/ pc' = "secrets" /\ at' = 1
           \/ pc' = "status"
    BY <1>3 DEF Begin
  <2>2. \A c \in ComponentSet, r \in Roles : read'[c][r] = NotRead
    BY <1>1, <2>1 DEF NothingRead, NoEntries
  <2>3. pc' = "secrets" => ReadSoFar' = 0
    BY <2>1 DEF ReadSoFar
  <2>4. ReadsRecorded'
    BY <2>1, <2>3 DEF ReadsRecorded
  <2> QED BY <1>1, <1>3, <2>1, <2>2, <2>4 DEF HeldInv, ReadsReferenced, URLWhenNeeded
<1> QED BY <1>2, <1>3

\* One more reference is recorded.
LEMMA HeldReadSecret ==
  ASSUME Typed, HeldInv, ReadSecret
  PROVE  HeldInv'
<1> DEFINE c0 == Refs[at].comp
<1> DEFINE r0 == Refs[at].role
<1> DEFINE v0 == Cached(secret[Refs[at].name])
<1>1. /\ pc = "secrets" /\ UNCHANGED <<base, release, url>>
      /\ pc' \in {"secrets", "discover"}
      /\ read' = [read EXCEPT ![c0][r0] = v0]
  BY DEF ReadSecret, outside
<1>2. Refs' = Refs
  BY <1>1 DEF Refs
<1>3. at \in 1..Len(Refs) /\ Len(Refs) \in Nat
  BY <1>1, RefsDistinct DEF Typed, InRange
<1>4. c0 \in ComponentSet /\ r0 \in Roles /\ secret[Refs[at].name] \in Seq(Nat) \ {<<>>}
  BY <1>3, RefsDistinct DEF Typed, TypeOK
<1>5. v0 # NotRead
  <2>1. v0 \in Nat
    BY <1>4, StreamEnds
  <2> QED BY <2>1 DEF NotRead
<1>6. ReadSoFar' = at /\ ReadSoFar = at - 1
  BY <1>1, <1>2, <1>3 DEF ReadSoFar, ReadSecret
<1>7. \A c \in ComponentSet, r \in Roles :
        read'[c][r] = IF c = c0 /\ r = r0 THEN v0 ELSE read[c][r]
  <2>1. read \in [ComponentSet -> [Roles -> Entry]]
    BY DEF Typed, TypeOK, Entries
  <2> HIDE DEF c0, r0, v0
  <2> QED BY <1>1, <1>4, <2>1
<1> HIDE DEF v0
<1>8. ReadsRecorded'
  <2>1. ASSUME NEW i \in 1..at
        PROVE  read'[Refs[i].comp][Refs[i].role] # NotRead
    <3>1. i \in 1..Len(Refs)
      BY <1>3
    <3>2. Refs[i].comp \in ComponentSet /\ Refs[i].role \in Roles
      BY <3>1, RefsDistinct DEF Typed
    <3>3. CASE i = at
      BY <1>5, <1>7, <3>2, <3>3
    <3>4. CASE i # at
      <4>1. i \in 1..(at - 1)
        BY <1>3, <3>4
      <4>2. read[Refs[i].comp][Refs[i].role] # NotRead
        BY <1>1, <1>6, <4>1 DEF HeldInv, ReadsRecorded
      <4> QED BY <1>5, <1>7, <3>2, <4>2
    <3> QED BY <3>3, <3>4
  <2> QED BY <1>2, <1>6, <2>1 DEF ReadsRecorded
<1>9. ReadsReferenced'
  BY <1>2, <1>3, <1>7 DEF HeldInv, ReadsReferenced
<1> QED BY <1>1, <1>8, <1>9 DEF HeldInv, InPass, URLWhenNeeded

\* A failed read takes the component's entries back.
LEMMA HeldReadSecretFails ==
  ASSUME Typed, HeldInv, ReadSecretFails
  PROVE  HeldInv'
<1>1. /\ pc = "secrets" /\ pc' = "status" /\ UNCHANGED <<base, release>>
      /\ read' = [read EXCEPT ![Refs[at].comp] = NoEntries]
  BY DEF ReadSecretFails
<1>2. Refs' = Refs
  BY <1>1 DEF Refs
<1>3. \A c \in ComponentSet, r \in Roles : read'[c][r] \in {read[c][r], NotRead}
  BY <1>1 DEF NoEntries, Typed, TypeOK
<1>4. ReadsReferenced'
  BY <1>2, <1>3 DEF HeldInv, ReadsReferenced
<1> QED BY <1>1, <1>4 DEF HeldInv, InPass, ReadsRecorded, URLWhenNeeded

\* Discovery finds a key endpoint, or the pass has failed.
LEMMA HeldResolve ==
  ASSUME Typed, HeldInv, ResolveJWKSURL
  PROVE  HeldInv'
<1>1. /\ pc = "discover" /\ UNCHANGED <<base, release, read>>
      /\ pc' \in {"apply", "status"}
      /\ pc' = "apply" => (url' # NoURI <=> NeedsDiscovery(base.spec))
  BY DEF ResolveJWKSURL, outside, HeldInv, URLWhenNeeded
<1>2. Refs' = Refs
  BY <1>1 DEF Refs
<1>3. ReadSoFar' = ReadSoFar
  BY <1>1, <1>2 DEF ReadSoFar
<1> QED BY <1>1, <1>2, <1>3 DEF HeldInv, InPass, ReadsRecorded, ReadsReferenced, URLWhenNeeded

\* While it applies, a pass keeps what it holds.
LEMMA HeldApplying ==
  ASSUME HeldInv, UNCHANGED <<base, release, read, url>>,
         pc \in {"apply", "refresh"}, pc' \in {"apply", "refresh", "status"}
  PROVE  HeldInv'
<1>1. Refs' = Refs
  BY DEF Refs
<1>2. ReadSoFar' = ReadSoFar
  BY <1>1 DEF ReadSoFar
<1> QED BY <1>1, <1>2 DEF HeldInv, InPass, ReadsRecorded, ReadsReferenced, URLWhenNeeded

\* What others do leaves it alone.
LEMMA HeldFrame ==
  ASSUME HeldInv, UNCHANGED <<base, release, read, url, pc, at>>
  PROVE  HeldInv'
<1>1. Refs' = Refs
  BY DEF Refs
<1>2. ReadSoFar' = ReadSoFar
  BY <1>1 DEF ReadSoFar
<1> QED BY <1>1, <1>2 DEF HeldInv, InPass, ReadsRecorded, ReadsReferenced, URLWhenNeeded

\* The invariant is inductive.
LEMMA HeldStep ==
  ASSUME Typed, Forgotten, HeldInv, [Next]_vars
  PROVE  HeldInv'
<1> USE DEF outside, locals, server, operatorState
<1>1. CASE Begin
  BY <1>1, HeldBegin
<1>2. CASE ReadSecret
  BY <1>2, HeldReadSecret
<1>3. CASE ReadSecretFails
  BY <1>3, HeldReadSecretFails
<1>4. CASE ResolveJWKSURL
  BY <1>4, HeldResolve
<1>5. CASE ApplyOperand \/ Refresh \/ RefreshNotFound \/ ApplyFails \/ ApplyTimesOut
             \/ RefreshFails
  BY <1>5, HeldApplying DEF ApplyOperand, Refresh, RefreshNotFound, ApplyFails,
       ApplyTimesOut, Delay, RefreshFails, AbortRefresh
<1>6. CASE UpdateStatus \/ UpdateStatusFails \/ Crash \/ CrashInApply
  BY <1>6, HeldOutside DEF UpdateStatus, UpdateStatusFails, EndPass, ForgetPass, Crash,
       CrashInApply, Die
<1>7. CASE Restart
  <2>1. read = NothingRead
    BY <1>7 DEF Restart, Forgotten, InPass
  <2> QED BY <1>7, <2>1, HeldOutside DEF Restart
<1>8. CASE GetFails \/ DeliverConfig \/ (\E s \in SecretNames : DeliverSecret(s))
             \/ DeliverOwned \/ Resync \/ (\E w \in late : Land(w))
             \/ (\E o \in Operands : CollectGarbage(o)) \/ UNCHANGED vars
  BY <1>8, HeldFrame DEF GetFails, DeliverConfig, DeliverSecret, DeliverOwned, Resync,
       Land, CollectGarbage, vars
<1>9. CASE Users
  BY <1>9, HeldFrame DEF Users, CreateConfig, EditConfig, DeleteConfig, WriteSecret,
       ChangeIdP, ReportHealth, EditOperand, DeleteOperand
<1> QED BY <1>1, <1>2, <1>3, <1>4, <1>5, <1>6, <1>7, <1>8, <1>9 DEF Next, Pass, Faults

-----------------------------------------------------------------------------
(***************************************************************************)
(* What moves the windows.                                                 *)
(***************************************************************************)

\* A watch stream holds nothing it did not hold before, but for its new end.
StreamMoves(old, new) ==
  \A i \in DOMAIN new : new[i] = Live(new) \/ \E j \in DOMAIN old : new[i] = old[j]

StreamsMove ==
  /\ StreamMoves(cr, cr')
  /\ \A n \in SecretNames : StreamMoves(secret[n], secret'[n])

\* The pass and the discovery cache hold what was in the windows.
HoldsOld ==
  /\ PassGoal' \subseteq ConfigWindow
  /\ \A n \in SecretNames : PassRead(n)' \subseteq SecretWindow(n)
  /\ \A i \in Issuers : KnownURL(i)' \subseteq IssuerWindow(i)

\* That is all there is in a window.
LEMMA MovesOnlyShrink ==
  ASSUME StreamsMove, HoldsOld
  PROVE  OnlyShrinks
<1>1. ConfigWindow' \subseteq ConfigWindow \cup {Goal(Live(cr'))}
  <2> SUFFICES ASSUME NEW x \in ConfigWindow', x # Goal(Live(cr'))
               PROVE  x \in ConfigWindow
    OBVIOUS
  <2>1. CASE x \in PassGoal'
    BY <2>1 DEF HoldsOld
  <2>2. ASSUME NEW i \in DOMAIN cr', x = Goal(cr'[i]) PROVE x \in ConfigWindow
    <3>1. PICK j \in DOMAIN cr : cr'[i] = cr[j]
      BY <2>2 DEF StreamsMove, StreamMoves
    <3> QED BY <2>2, <3>1 DEF ConfigWindow
  <2> QED BY <2>1, <2>2 DEF ConfigWindow
<1>2. ASSUME NEW n \in SecretNames
      PROVE  SecretWindow(n)' \subseteq SecretWindow(n) \cup {Live(secret'[n])}
  <2> SUFFICES ASSUME NEW x \in SecretWindow(n)', x # Live(secret'[n])
               PROVE  x \in SecretWindow(n)
    OBVIOUS
  <2>1. CASE x \in PassRead(n)'
    BY <2>1 DEF HoldsOld
  <2>2. ASSUME NEW i \in DOMAIN secret'[n], x = secret'[n][i] PROVE x \in SecretWindow(n)
    <3>1. PICK j \in DOMAIN secret[n] : secret'[n][i] = secret[n][j]
      BY <2>2 DEF StreamsMove, StreamMoves
    <3> QED BY <2>2, <3>1 DEF SecretWindow
  <2> QED BY <2>1, <2>2 DEF SecretWindow
<1>3. \A i \in Issuers : IssuerWindow(i)' \subseteq IssuerWindow(i) \cup {idp'[i]}
  BY DEF HoldsOld, IssuerWindow
<1> QED BY <1>1, <1>2, <1>3 DEF OnlyShrinks

\* A stream that is left alone, written to, delivered from, or listed anew.
LEMMA StreamKept ==
  ASSUME NEW s
  PROVE  StreamMoves(s, s)
BY DEF StreamMoves

\* A write adds the new end.
LEMMA StreamWritten ==
  ASSUME NEW S, NEW s \in Seq(S) \ {<<>>}, NEW x \in S
  PROVE  StreamMoves(s, Append(s, x))
<1> DEFINE t == Append(s, x)
<1>1. /\ t \in Seq(S) /\ Live(t) = x /\ Len(t) = Len(s) + 1
      /\ \A i \in 1..Len(s) : t[i] = s[i]
      /\ t[Len(s) + 1] = x
      /\ Len(s) \in Nat
  BY StreamAppend, StreamEnds
<1>2. DOMAIN t = 1..Len(t) /\ DOMAIN s = 1..Len(s)
  BY <1>1, LenProperties
<1> HIDE DEF t
<1>3. \A n \in Nat : \A i \in 1..(n + 1) : i \in 1..n \/ i = n + 1
  OBVIOUS
<1>4. ASSUME NEW i \in DOMAIN t
      PROVE  t[i] = Live(t) \/ \E j \in DOMAIN s : t[i] = s[j]
  BY <1>1, <1>2, <1>3
<1>5. StreamMoves(s, t)
  BY <1>4 DEF StreamMoves
<1> QED BY <1>5 DEF t

\* A delivery drops the start.
LEMMA StreamDelivered ==
  ASSUME NEW S, NEW s \in Seq(S) \ {<<>>}, Len(s) > 1
  PROVE  StreamMoves(s, Tail(s))
<1> DEFINE t == Tail(s)
<1>1. /\ t \in Seq(S) /\ Len(t) = Len(s) - 1
      /\ \A i \in 1..Len(t) : t[i] = s[i + 1]
      /\ Len(s) \in Nat
  BY StreamTail, StreamEnds
<1>2. DOMAIN t = 1..Len(t) /\ DOMAIN s = 1..Len(s)
  BY <1>1, LenProperties
<1> HIDE DEF t
<1>3. \A n \in Nat : \A i \in 1..(n - 1) : i + 1 \in 1..n
  OBVIOUS
<1>4. ASSUME NEW i \in DOMAIN t
      PROVE  \E j \in DOMAIN s : t[i] = s[j]
  BY <1>1, <1>2, <1>3
<1>5. StreamMoves(s, t)
  BY <1>4 DEF StreamMoves
<1> QED BY <1>5 DEF t

\* A listing keeps the end only.
LEMMA StreamListed ==
  ASSUME NEW s, NEW x
  PROVE  StreamMoves(s, <<x>>)
BY DEF StreamMoves, Live

\* The other streams stay.
LEMMA StreamsKept ==
  ASSUME UNCHANGED <<cr, secret>>
  PROVE  StreamsMove
BY StreamKept DEF StreamsMove

\* Only the CR is written or delivered.
LEMMA ConfigMoves ==
  ASSUME StreamMoves(cr, cr'), secret' = secret
  PROVE  StreamsMove
BY StreamKept DEF StreamsMove

\* A step during which pass and cache hold on to what they have.
LEMMA HoldsSame ==
  ASSUME UNCHANGED <<base, read, url, release, discovered>>, InPass' => InPass
  PROVE  HoldsOld
<1>1. PassGoal' \subseteq PassGoal
  BY DEF PassGoal, InPass
<1>2. \A n \in SecretNames : PassRead(n)' = PassRead(n)
  BY DEF PassRead, Refs
<1>3. \A i \in Issuers : KnownURL(i)' = KnownURL(i)
  BY DEF KnownURL
<1> QED BY <1>1, <1>2, <1>3 DEF HoldsOld, ConfigWindow, SecretWindow, IssuerWindow

\* A pass that has read nothing holds nothing.
LEMMA NothingHeld ==
  ASSUME TypeOK', read' = NothingRead, url' = NoURI,
         \A i \in Issuers : discovered'[i] \in {discovered[i], NoURI}
  PROVE  /\ \A n \in SecretNames : PassRead(n)' = {}
         /\ \A i \in Issuers : KnownURL(i)' \subseteq KnownURL(i)
<1>1. /\ DOMAIN Refs' = 1..Len(Refs')
      /\ \A i \in 1..Len(Refs') :
           Refs'[i].comp \in ComponentSet /\ Refs'[i].role \in Roles
  <2>1. base'.spec \in ConfigSpec /\ release' \in Release
    BY SpecsAssumption, ReleasesAssumption DEF TypeOK, CR
  <2>2. Refs' \in Seq(SecretRef)
    BY <2>1, ReferencedSecretsType DEF Refs
  <2>3. DOMAIN Refs' = 1..Len(Refs') /\ \A i \in 1..Len(Refs') : Refs'[i] \in SecretRef
    BY <2>2, LenProperties, ElementOfSeq
  <2> QED BY <2>3 DEF SecretRef
<1>2. \A c \in ComponentSet, r \in Roles : read'[c][r] = NotRead
  BY DEF NothingRead, NoEntries
<1>3. \A n \in SecretNames : PassRead(n)' = {}
  BY <1>1, <1>2 DEF PassRead
<1>4. \A i \in Issuers : KnownURL(i)' \subseteq KnownURL(i)
  BY DEF KnownURL
<1> QED BY <1>3, <1>4

\* The end of a pass, a crash and a restart.
LEMMA HoldsNothing ==
  ASSUME TypeOK', pc' \in {"idle", "down"}, read' = NothingRead, url' = NoURI,
         \A i \in Issuers : discovered'[i] \in {discovered[i], NoURI}
  PROVE  HoldsOld
<1>1. PassGoal' = {}
  BY DEF PassGoal
<1> QED BY <1>1, NothingHeld DEF HoldsOld, IssuerWindow

\* A new pass holds the cached CR.
LEMMA HoldsBegin ==
  ASSUME Typed, TypeOK', Forgotten, Begin
  PROVE  HoldsOld
<1>1. read = NothingRead /\ url = NoURI /\ UNCHANGED <<read, url, discovered>>
  BY DEF Forgotten, InPass, Begin, locals
<1>2. PassGoal' \subseteq ConfigWindow
  <2>1. CASE Cached(cr).uid = 0
    BY <2>1 DEF Begin, PassGoal
  <2>2. CASE Cached(cr).uid # 0
    <3>1. base' = Cached(cr)
      BY <2>2 DEF Begin
    <3>2. cr \in Seq(CR) \ {<<>>}
      BY DEF Typed, TypeOK
    <3>3. Cached(cr) = cr[1] /\ 1 \in DOMAIN cr
      BY <3>2, StreamEnds, LenProperties
    <3> QED BY <3>1, <3>3 DEF PassGoal, ConfigWindow
  <2> QED BY <2>1, <2>2
<1> QED BY <1>1, <1>2, NothingHeld DEF HoldsOld, IssuerWindow

\* A Secret version is taken from the cache, for one reference only.
LEMMA HoldsReadSecret ==
  ASSUME Typed, ReadSecret
  PROVE  HoldsOld
<1> DEFINE c0 == Refs[at].comp
<1> DEFINE r0 == Refs[at].role
<1> DEFINE v0 == Cached(secret[Refs[at].name])
<1>1. /\ pc = "secrets" /\ UNCHANGED <<base, release, url, discovered>>
      /\ read' = [read EXCEPT ![c0][r0] = v0]
  BY DEF ReadSecret, outside
<1>2. Refs' = Refs
  BY <1>1 DEF Refs
<1>3. at \in 1..Len(Refs) /\ DOMAIN Refs = 1..Len(Refs)
  BY <1>1, RefsDistinct DEF Typed, InRange
<1>4. c0 \in ComponentSet /\ r0 \in Roles /\ secret[Refs[at].name] \in Seq(Nat) \ {<<>>}
  BY <1>3, RefsDistinct DEF Typed, TypeOK
<1>5. v0 \in {secret[Refs[at].name][i] : i \in DOMAIN secret[Refs[at].name]}
  <2>1. v0 = secret[Refs[at].name][1] /\ 1 \in DOMAIN secret[Refs[at].name]
    BY <1>4, StreamEnds, LenProperties
  <2> QED BY <2>1
<1>6. \A c \in ComponentSet, r \in Roles :
        read'[c][r] = IF c = c0 /\ r = r0 THEN v0 ELSE read[c][r]
  <2>1. read \in [ComponentSet -> [Roles -> Entry]]
    BY DEF Typed, TypeOK, Entries
  <2> HIDE DEF c0, r0, v0
  <2> QED BY <1>1, <1>4, <2>1
<1> HIDE DEF v0
<1>7. ASSUME NEW n \in SecretNames, NEW x \in PassRead(n)'
      PROVE  x \in SecretWindow(n)
  <2>1. PICK i \in 1..Len(Refs) : /\ Refs[i].name = n
                                  /\ x = read'[Refs[i].comp][Refs[i].role]
                                  /\ x # NotRead
    BY <1>2, <1>3 DEF PassRead
  <2>2. Refs[i].comp \in ComponentSet /\ Refs[i].role \in Roles
    BY RefsDistinct DEF Typed
  <2>3. CASE i = at
    BY <1>5, <1>6, <2>1, <2>2, <2>3 DEF SecretWindow
  <2>4. CASE i # at
    <3>1. ~(Refs[i].comp = c0 /\ Refs[i].role = r0)
      BY <1>3, <2>4, RefsDistinct DEF Typed, Distinct
    <3>2. x = read[Refs[i].comp][Refs[i].role]
      BY <1>6, <2>1, <2>2, <3>1
    <3> QED BY <1>3, <2>1, <3>2 DEF SecretWindow, PassRead
  <2> QED BY <2>3, <2>4
<1>8. PassGoal' = PassGoal
  BY <1>1 DEF PassGoal, ReadSecret
<1>9. \A i \in Issuers : KnownURL(i)' = KnownURL(i)
  BY <1>1 DEF KnownURL
<1> QED BY <1>7, <1>8, <1>9 DEF HoldsOld, ConfigWindow, IssuerWindow

\* A failed read gives back what was read for the component.
LEMMA HoldsReadSecretFails ==
  ASSUME Typed, ReadSecretFails
  PROVE  HoldsOld
<1>1. /\ pc = "secrets" /\ pc' = "status" /\ UNCHANGED <<base, release, url, discovered>>
      /\ read' = [read EXCEPT ![Refs[at].comp] = NoEntries]
  BY DEF ReadSecretFails
<1>2. Refs' = Refs
  BY <1>1 DEF Refs
<1>3. \A c \in ComponentSet, r \in Roles : read'[c][r] \in {read[c][r], NotRead}
  BY <1>1 DEF NoEntries, Typed, TypeOK
<1>4. ASSUME NEW n \in SecretNames, NEW x \in PassRead(n)'
      PROVE  x \in PassRead(n)
  <2>1. PICK i \in DOMAIN Refs : /\ Refs[i].name = n
                                 /\ x = read'[Refs[i].comp][Refs[i].role]
                                 /\ x # NotRead
    BY <1>2 DEF PassRead
  <2>2. Refs[i].comp \in ComponentSet /\ Refs[i].role \in Roles
    BY RefsDistinct DEF Typed
  <2>3. x = read[Refs[i].comp][Refs[i].role]
    BY <1>3, <2>1, <2>2
  <2> QED BY <2>1, <2>3 DEF PassRead
<1>5. PassGoal' = PassGoal
  BY <1>1 DEF PassGoal
<1>6. \A i \in Issuers : KnownURL(i)' = KnownURL(i)
  BY <1>1 DEF KnownURL
<1> QED BY <1>4, <1>5, <1>6 DEF HoldsOld, ConfigWindow, SecretWindow, IssuerWindow

\* Discovery takes the live key endpoint, or the one in the cache.
LEMMA HoldsResolve ==
  ASSUME Typed, ResolveJWKSURL
  PROVE  HoldsOld
<1> DEFINE i0 == base.spec.issuer
<1>1. /\ pc = "discover" /\ UNCHANGED <<base, release, read>>
      /\ pc' \in {"apply", "status"}
      /\ \/ UNCHANGED <<url, discovered>>
         \/ url' = idp[i0] /\ discovered' = [discovered EXCEPT ![i0] = idp[i0]]
         \/ url' = discovered[i0] /\ discovered' = discovered
  BY DEF ResolveJWKSURL, Fallback, outside
<1>2. PassGoal' = PassGoal
  BY <1>1 DEF PassGoal
<1>3. \A n \in SecretNames : PassRead(n)' = PassRead(n)
  BY <1>1 DEF PassRead, Refs
<1>4. discovered \in [Issuers -> URIs \cup {NoURI}]
  BY DEF Typed, TypeOK
<1>5. \A i \in Issuers : KnownURL(i)' \subseteq IssuerWindow(i)
  BY <1>1, <1>4 DEF KnownURL, IssuerWindow
<1> QED BY <1>2, <1>3, <1>5 DEF HoldsOld, ConfigWindow, SecretWindow

-----------------------------------------------------------------------------
(***************************************************************************)
(* What an apply sends.                                                    *)
(***************************************************************************)
Windows == [s \in SourceNames |-> WindowOf(s)]

\* It is rendered from what the pass holds, and that is in the windows.
LEMMA DesiredRendered ==
  ASSUME Typed, HeldInv, pc = "apply", NEW o \in Operands
  PROVE  RenderedFrom(o, Windows, Desired(o))
<1> DEFINE goal == Goal(base)
<1> DEFINE u == IF NeedsDiscovery(base.spec) THEN url ELSE NoURI
<1>1. /\ ConfigSource \in SourceNames /\ ReleaseSource \in SourceNames
      /\ \A n \in SecretNames : SecretSource(n) \in SourceNames
      /\ \A i \in Issuers : IssuerSource(i) \in SourceNames
  BY DEF SourceNames
<1>2. /\ Windows[ConfigSource] = ConfigWindow
      /\ Windows[ReleaseSource] = {release}
      /\ \A n \in SecretNames : Windows[SecretSource(n)] = SecretWindow(n)
      /\ \A i \in Issuers : Windows[IssuerSource(i)] = IssuerWindow(i)
  BY <1>1, WindowsNow DEF Windows, WindowsAre
<1>3. goal \in Windows[ConfigSource] /\ release \in Windows[ReleaseSource]
  BY <1>2 DEF ConfigWindow, PassGoal
<1>4. goal.uid # 0 /\ goal.uid = base.uid /\ goal.spec = base.spec
  BY DEF Goal, HeldInv, InPass
<1>5. base.spec.issuer \in Issuers
  BY SpecsAssumption DEF Typed, TypeOK, CR, ConfigSpec
<1>6. u \in IF NeedsDiscovery(goal.spec)
              THEN Windows[IssuerSource(goal.spec.issuer)] \ {NoURI}
              ELSE {NoURI}
  <2>1. CASE NeedsDiscovery(base.spec)
    <3>1. url # NoURI
      BY <2>1 DEF HeldInv, URLWhenNeeded
    <3>2. url \in IssuerWindow(base.spec.issuer)
      BY <3>1 DEF IssuerWindow, KnownURL
    <3> QED BY <1>2, <1>4, <1>5, <2>1, <3>1, <3>2
  <2>2. CASE ~NeedsDiscovery(base.spec)
    BY <1>4, <2>2
  <2> QED BY <2>1, <2>2
<1>7. \A e : Render(o, base.spec, url, release, e) = Render(o, base.spec, u, release, e)
  BY RenderWithoutDiscovery
<1>8. /\ Desired(o).owner = goal.uid
      /\ Desired(o).data = Render(o, goal.spec, u, release, read[o.comp])
  BY <1>4, <1>7 DEF Desired
<1>9. o.comp \in ComponentSet
  BY ApplyOrderType DEF Operand
<1>10. EntriesFrom(o.comp, goal, release, Windows, read[o.comp])
  <2>1. ReferencedSecrets(goal.spec, release) = Refs
    BY <1>4 DEF Refs
  <2> DEFINE of(r) == {Refs[i].name : i \in {j \in DOMAIN Refs :
                                               Refs[j].comp = o.comp /\ Refs[j].role = r}}
  <2>2. ASSUME NEW r \in Roles
        PROVE  IF of(r) = {} THEN read[o.comp][r] = NotRead
                 ELSE \E n \in of(r) : read[o.comp][r] \in Windows[SecretSource(n)]
    <3>1. CASE of(r) = {}
      <4>1. ~\E i \in DOMAIN Refs : Refs[i].comp = o.comp /\ Refs[i].role = r
        BY <3>1
      <4>2. DOMAIN Refs = 1..Len(Refs)
        BY RefsDistinct DEF Typed
      <4> QED BY <1>9, <4>1, <4>2 DEF HeldInv, ReadsReferenced
    <3>2. CASE of(r) # {}
      <4>1. PICK i \in DOMAIN Refs : Refs[i].comp = o.comp /\ Refs[i].role = r
        BY <3>2
      <4>2. i \in 1..ReadSoFar /\ Refs[i].name \in SecretNames
        BY RefsDistinct DEF Typed, ReadSoFar
      <4>3. read[o.comp][r] # NotRead
        BY <4>1, <4>2 DEF HeldInv, ReadsRecorded
      <4>4. read[o.comp][r] \in SecretWindow(Refs[i].name)
        BY <4>1, <4>3 DEF SecretWindow, PassRead
      <4> QED BY <1>2, <3>2, <4>1, <4>2, <4>4
    <3> QED BY <3>1, <3>2
  <2> QED BY <2>1, <2>2 DEF EntriesFrom
<1>11. IF o.kind # "deployment"
         THEN Desired(o).data = Render(o, goal.spec, u, release, NoEntries)
         ELSE /\ Desired(o).data.of = "deployment"
              /\ Desired(o).data =
                   Render(o, goal.spec, u, release, Desired(o).data.hash.secrets)
              /\ EntriesFrom(o.comp, goal, release, Windows, Desired(o).data.hash.secrets)
  <2>1. CASE o.kind # "deployment"
    BY <1>8, <2>1, RenderEntries
  <2>2. CASE o.kind = "deployment"
    <3>1. Desired(o).data.of = "deployment" /\ Desired(o).data.hash.secrets = read[o.comp]
      BY <1>8, <2>2, RenderEntries
    <3> QED BY <1>8, <1>10, <2>2, <3>1
  <2> QED BY <2>1, <2>2
<1> HIDE DEF goal, u
<1> QED BY <1>3, <1>4, <1>6, <1>8, <1>11 DEF RenderedFrom

-----------------------------------------------------------------------------
(***************************************************************************)
(* Every step is one of Convergence's.                                     *)
(***************************************************************************)
Lives == [s \in SourceNames |-> LiveValue(s)]

Sent(w) == [target |-> w.op, content |-> w.obj]

\* Nothing but the operands changes.
LEMMA WindowsKept ==
  ASSUME UNCHANGED <<cr, secret, idp, release, pc, base, read, url, discovered>>
  PROVE  Windows' = Windows /\ Lives' = Lives
<1>1. PassGoal' = PassGoal /\ Refs' = Refs
  BY DEF PassGoal, Refs
<1>2. \A n : PassRead(n)' = PassRead(n)
  BY <1>1 DEF PassRead
<1>3. \A i : KnownURL(i)' = KnownURL(i)
  BY DEF KnownURL
<1>4. \A s : LiveValue(s)' = LiveValue(s)
  BY DEF LiveValue
<1>5. \A s : WindowOf(s)' = WindowOf(s)
  BY <1>1, <1>2, <1>3, <1>4 DEF WindowOf
<1> QED BY <1>4, <1>5 DEF Windows, Lives

\* The sources keep their values.
LEMMA LivesKept ==
  ASSUME UNCHANGED <<cr, secret, idp, release>>
  PROVE  Lives' = Lives
<1>1. \A s : LiveValue(s)' = LiveValue(s)
  BY DEF LiveValue
<1> QED BY <1>1 DEF Lives

\* A step that neither writes nor sends.
LEMMA Observes ==
  ASSUME UNCHANGED <<operand, late>>, StreamsMove, HoldsOld
  PROVE  C!Next
<1>1. C!MoveOn
  BY MovesOnlyShrink, ShrinkingMovesOn
<1> QED BY <1>1 DEF C!Next, C!Observe

\* An apply that is carried out.
LEMMA Writes ==
  ASSUME Typed, HeldInv, pc = "apply", NEW o \in Operands, Upsert(o, Desired(o)),
         UNCHANGED <<late, cr, secret, idp, release, base, read, url, discovered>>
  PROVE  C!Next
<1>1. operand'[o] = Desired(o) /\ \A p \in Operands \ {o} : operand'[p] = operand[p]
  BY DEF Upsert, Typed, TypeOK
<1>2. StreamsMove /\ HoldsOld
  <2>1. InPass
    BY DEF InPass
  <2> QED BY <2>1, StreamsKept, HoldsSame
<1>3. C!MoveOn
  BY <1>2, MovesOnlyShrink, ShrinkingMovesOn
<1>4. RenderedFrom(o, Windows, operand'[o])
  BY <1>1, DesiredRendered
<1>5. Lives' = Lives
  BY LivesKept
<1>6. C!Write(o)
  BY <1>1, <1>3, <1>4, <1>5 DEF C!Write, C!Becomes, Windows, Lives
<1> QED BY <1>6 DEF C!Next

\* An apply that stays on its way.
LEMMA Sends ==
  ASSUME Typed, HeldInv, Delay, HoldsOld, UNCHANGED <<cr, secret, idp, release>>
  PROVE  C!Next
<1>1. pc = "apply" /\ operand' = operand
  BY DEF Delay
<1>2. PICK o \in Operands : o = ApplyOrder[at]
  BY <1>1, ApplyOrderType DEF Typed, InRange
<1> DEFINE w == [op |-> o, obj |-> Desired(o)]
<1>3. C!MoveOn
  BY StreamsKept, MovesOnlyShrink, ShrinkingMovesOn
<1>4. RenderedFrom(o, Windows, Desired(o))
  BY <1>1, DesiredRendered
<1>5. Lives' = Lives
  BY LivesKept
<1>6. /\ {Sent(x) : x \in late'} = {Sent(x) : x \in late} \cup {Sent(w)}
      /\ Sent(w) \in {Sent(x) : x \in late'}
      /\ Sent(w).target = o /\ Sent(w).content = Desired(o)
  <2>1. Sent(w).target = o /\ Sent(w).content = Desired(o)
    BY DEF Sent
  <2>2. late' = late \cup {w}
    BY <1>2 DEF Delay
  <2> HIDE DEF w
  <2> QED BY <2>1, <2>2
<1> HIDE DEF w
<1>7. C!Send(o)
  BY <1>1, <1>3, <1>4, <1>5, <1>6 DEF C!Send, Windows, Lives, Sent
<1> QED BY <1>7 DEF C!Next

\* An apply that arrives.
LEMMA Arrives ==
  ASSUME Typed, NEW w \in late, Land(w)
  PROVE  C!Next
<1>1. /\ w.op \in Operands /\ late \in SUBSET Write
      /\ operand \in [Operands -> Object]
  BY DEF Typed, TypeOK, Write
<1>2. operand'[w.op] = w.obj /\ \A p \in Operands \ {w.op} : operand'[p] = operand[p]
  BY <1>1 DEF Land, Upsert
<1>3. Windows' = Windows /\ Lives' = Lives
  BY WindowsKept DEF Land, outside, locals
<1>4. {Sent(x) : x \in late'} = {Sent(x) : x \in late} \ {Sent(w)}
  <2>1. \A x, y \in Write : Sent(x) = Sent(y) => x = y
    BY DEF Sent, Write
  <2>2. late' = late \ {w}
    BY DEF Land
  <2> QED BY <1>1, <2>1, <2>2
<1>5. C!Arrive(Sent(w))
  BY <1>2, <1>3, <1>4 DEF C!Arrive, C!Becomes, Windows, Lives, Sent
<1>6. Sent(w) \in {[target |-> x.op, content |-> x.obj] : x \in late}
  BY DEF Sent
<1> QED BY <1>5, <1>6 DEF C!Next

\* Somebody else's edit or removal.
LEMMA Meddles ==
  ASSUME Typed, NEW o \in Operands, NEW x, operand' = [operand EXCEPT ![o] = x],
         LeftByOthers(x),
         UNCHANGED <<late, cr, secret, idp, release, pc, base, read, url, discovered>>
  PROVE  C!Next
<1>1. operand'[o] = x /\ \A p \in Operands \ {o} : operand'[p] = operand[p]
  BY DEF Typed, TypeOK
<1>2. Windows' = Windows /\ Lives' = Lives
  BY WindowsKept
<1>3. C!Meddle(o)
  BY <1>1, <1>2 DEF C!Meddle, C!Becomes, Windows, Lives
<1> QED BY <1>3 DEF C!Next

\* A step of the operator that changes nothing but its own progress, or of the
\* others that changes no stream and no operand.
LEMMA ObservesOnly ==
  ASSUME UNCHANGED <<operand, late, cr, secret, base, read, url, release, discovered>>,
         InPass' => InPass
  PROVE  C!Next
BY StreamsKept, HoldsSame, Observes

\* Only one Secret is written or delivered.
LEMMA SecretMoves ==
  ASSUME TypeOK, NEW s \in SecretNames, NEW t, StreamMoves(secret[s], t),
         secret' = [secret EXCEPT ![s] = t], cr' = cr
  PROVE  StreamsMove
<1>1. ASSUME NEW n \in SecretNames PROVE StreamMoves(secret[n], secret'[n])
  <2>1. CASE n = s
    <3>1. secret'[n] = t
      BY <2>1 DEF TypeOK
    <3> QED BY <2>1, <3>1
  <2>2. CASE n # s
    <3>1. secret'[n] = secret[n]
      BY <2>2 DEF TypeOK
    <3> QED BY <3>1, StreamKept
  <2> QED BY <2>1, <2>2
<1> QED BY <1>1, StreamKept DEF StreamsMove

\* The applies of a pass.
LEMMA SimulatesApply ==
  ASSUME Typed, HeldInv, TypeOK',
         ApplyOperand \/ ApplyFails \/ ApplyTimesOut \/ CrashInApply
  PROVE  C!Next
<1> USE DEF outside, locals, server
<1>1. pc = "apply" /\ InPass
  BY DEF ApplyOperand, ApplyFails, ApplyTimesOut, CrashInApply, Delay, InPass
<1>2. PICK o \in Operands : o = ApplyOrder[at]
  BY <1>1, ApplyOrderType DEF Typed, InRange
<1>3. CASE ApplyOperand
  <2>1. Upsert(o, Desired(o))
    BY <1>2, <1>3 DEF ApplyOperand, Upsert
  <2> QED BY <1>1, <1>3, <2>1, Writes DEF ApplyOperand
<1>4. CASE ApplyFails
  <2>1. CASE UNCHANGED <<operand, late>>
    BY <1>1, <1>4, <2>1, ObservesOnly DEF ApplyFails
  <2>2. CASE Upsert(ApplyOrder[at], Desired(ApplyOrder[at])) /\ UNCHANGED late
    <3>1. Upsert(o, Desired(o))
      BY <1>2, <2>2 DEF Upsert
    <3> QED BY <1>1, <1>4, <2>2, <3>1, Writes DEF ApplyFails
  <2> QED BY <1>4, <2>1, <2>2 DEF ApplyFails
<1>5. CASE ApplyTimesOut
  <2>1. HoldsOld
    BY <1>1, <1>5, HoldsSame DEF ApplyTimesOut
  <2> QED BY <1>5, <2>1, Sends DEF ApplyTimesOut
<1>6. CASE CrashInApply
  <2>1. HoldsOld
    BY <1>6, HoldsNothing DEF CrashInApply, Die, ForgetPass
  <2> QED BY <1>6, <2>1, Sends DEF CrashInApply, Die
<1> QED BY <1>3, <1>4, <1>5, <1>6

\* The end of a pass and of the process.
LEMMA SimulatesEnd ==
  ASSUME Typed, Forgotten, TypeOK', UpdateStatus \/ UpdateStatusFails \/ Crash \/ Restart
  PROVE  C!Next
<1> USE DEF outside, locals, server
<1>0. cr \in Seq(CR) \ {<<>>} /\ Live(cr) \in CR
  BY StreamEnds DEF Typed, TypeOK
<1>1. CASE UpdateStatus \/ UpdateStatusFails
  <2>1. HoldsOld
    BY <1>1, HoldsNothing DEF UpdateStatus, UpdateStatusFails, EndPass, ForgetPass
  <2>2. CASE cr' = cr
    BY <1>1, <2>1, <2>2, StreamsKept, Observes DEF UpdateStatus, UpdateStatusFails
  <2>3. CASE cr' = Append(cr, [Live(cr) EXCEPT !.status = NewStatus])
    <3>1. [Live(cr) EXCEPT !.status = NewStatus] \in CR
      BY <1>0, NewStatusType DEF Typed, CR
    <3>2. StreamMoves(cr, cr')
      BY <1>0, <2>3, <3>1, StreamWritten
    <3>3. StreamsMove
      BY <1>1, <3>2, ConfigMoves DEF UpdateStatus, UpdateStatusFails
    <3> QED BY <1>1, <2>1, <3>3, Observes DEF UpdateStatus, UpdateStatusFails
  <2> QED BY <1>1, <2>2, <2>3 DEF UpdateStatus, UpdateStatusFails
<1>2. CASE Crash
  <2>1. HoldsOld
    BY <1>2, HoldsNothing DEF Crash, Die, ForgetPass
  <2> QED BY <1>2, <2>1, StreamsKept, Observes DEF Crash, Die
<1>3. CASE Restart
  <2>1. read = NothingRead /\ url = NoURI
    BY <1>3 DEF Restart, Forgotten, InPass
  <2>2. HoldsOld
    BY <1>3, <2>1, HoldsNothing DEF Restart
  <2>3. StreamMoves(cr, cr')
    BY <1>3, StreamListed DEF Restart
  <2>4. ASSUME NEW n \in SecretNames PROVE StreamMoves(secret[n], secret'[n])
    <3>1. secret'[n] = <<Live(secret[n])>>
      BY <1>3 DEF Restart
    <3> QED BY <3>1, StreamListed
  <2>5. StreamsMove
    BY <2>3, <2>4 DEF StreamsMove
  <2> QED BY <1>3, <2>2, <2>5, Observes DEF Restart
<1> QED BY <1>1, <1>2, <1>3

\* The watches and those who write the watched objects.
LEMMA SimulatesStreams ==
  ASSUME Typed,
         \/ DeliverConfig
         \/ \E s \in SecretNames : DeliverSecret(s)
         \/ \E s \in Specs : CreateConfig(s) \/ EditConfig(s)
         \/ DeleteConfig
         \/ \E s \in SecretNames : \E v \in {0, NewVersion} : WriteSecret(s, v)
  PROVE  C!Next
<1> USE DEF outside, locals, server, operatorState
<1>0. cr \in Seq(CR) \ {<<>>} /\ Live(cr) \in CR
  BY StreamEnds DEF Typed, TypeOK
<1>1. UNCHANGED <<operand, late>> /\ UNCHANGED <<pc, base, read, url, release, discovered>>
  BY DEF DeliverConfig, DeliverSecret, CreateConfig, EditConfig, DeleteConfig, WriteSecret
<1>2. HoldsOld
  BY <1>1, HoldsSame DEF InPass
<1>3. CASE DeliverConfig
  <2>1. StreamMoves(cr, cr')
    BY <1>0, <1>3, StreamDelivered DEF DeliverConfig
  <2> QED BY <1>1, <1>2, <1>3, <2>1, ConfigMoves, Observes DEF DeliverConfig
<1>4. ASSUME NEW x \in CR, cr' = Append(cr, x), secret' = secret
      PROVE  C!Next
  <2>1. StreamMoves(cr, cr')
    BY <1>0, <1>4, StreamWritten
  <2> QED BY <1>1, <1>2, <1>4, <2>1, ConfigMoves, Observes
<1>5. ASSUME NEW s \in Specs, CreateConfig(s) PROVE C!Next
  <2>1. [uid |-> spent["create"] + 1, gen |-> 1, spec |-> s, status |-> EmptyStatus] \in CR
    <3>1. spent["create"] \in Nat
      BY DEF Typed, TypeOK, Budgets
    <3> QED BY <3>1, EmptyStatusType DEF CR
  <2> QED BY <1>4, <1>5, <2>1 DEF CreateConfig, WriteConfig
<1>6. ASSUME NEW s \in Specs, EditConfig(s) PROVE C!Next
  <2>1. [Live(cr) EXCEPT !.spec = s, !.gen = @ + 1] \in CR
    BY <1>0, EditType
  <2> QED BY <1>4, <1>6, <2>1 DEF EditConfig, WriteConfig
<1>7. CASE DeleteConfig
  BY <1>4, <1>7, NoCRType DEF DeleteConfig, WriteConfig
<1>8. ASSUME NEW s \in SecretNames, DeliverSecret(s) PROVE C!Next
  <2>1. secret[s] \in Seq(Nat) \ {<<>>}
    BY DEF Typed, TypeOK
  <2>2. StreamMoves(secret[s], Tail(secret[s]))
    BY <1>8, <2>1, StreamDelivered DEF DeliverSecret
  <2>3. StreamsMove
    BY <1>8, <2>2, SecretMoves DEF DeliverSecret, Typed
  <2> QED BY <1>1, <1>2, <2>3, Observes
<1>9. ASSUME NEW s \in SecretNames, NEW v \in {0, NewVersion}, WriteSecret(s, v) PROVE C!Next
  <2>1. secret[s] \in Seq(Nat) \ {<<>>} /\ v \in Nat
    BY DEF Typed, TypeOK, NewVersion, Budgets
  <2>2. StreamMoves(secret[s], Append(secret[s], v))
    BY <2>1, StreamWritten
  <2>3. StreamsMove
    BY <1>9, <2>2, SecretMoves DEF WriteSecret, Typed
  <2> QED BY <1>1, <1>2, <2>3, Observes
<1> QED BY <1>3, <1>5, <1>6, <1>7, <1>8, <1>9

\* Every step of the reconciler.
LEMMA Simulates ==
  ASSUME Typed, Forgotten, HeldInv, [Next]_vars
  PROVE  C!Next
<1> USE DEF outside, locals, server, operatorState
<1>0. TypeOK'
  BY TypedStep DEF Typed
<1>1. CASE Begin \/ ReadSecret \/ ReadSecretFails \/ ResolveJWKSURL
  <2>1. HoldsOld
    BY <1>0, <1>1, HoldsBegin, HoldsReadSecret, HoldsReadSecretFails, HoldsResolve
  <2> QED BY <1>1, <2>1, StreamsKept, Observes DEF Begin, ReadSecret, ReadSecretFails,
            ResolveJWKSURL
<1>2. CASE ApplyOperand \/ ApplyFails \/ ApplyTimesOut \/ CrashInApply
  BY <1>0, <1>2, SimulatesApply
<1>3. CASE Refresh \/ RefreshNotFound \/ RefreshFails \/ GetFails \/ DeliverOwned \/ Resync
             \/ UNCHANGED vars
  BY <1>3, ObservesOnly DEF Refresh, RefreshNotFound, RefreshFails, AbortRefresh,
       GetFails, DeliverOwned, Resync, vars, InPass
<1>4. CASE UpdateStatus \/ UpdateStatusFails \/ Crash \/ Restart
  BY <1>0, <1>4, SimulatesEnd
<1>5. CASE DeliverConfig \/ \E s \in SecretNames : DeliverSecret(s)
  BY <1>5, SimulatesStreams
<1>6. ASSUME NEW w \in late, Land(w) PROVE C!Next
  BY <1>6, Arrives
<1>7. ASSUME NEW o \in Operands, CollectGarbage(o) \/ DeleteOperand(o) PROVE C!Next
  BY <1>7, Meddles DEF CollectGarbage, DeleteOperand, RemoveObject, NoObject, LeftByOthers
<1>8. ASSUME NEW o \in Operands, NEW n, EditOperand(o, n) PROVE C!Next
  <2>1. operand' = [operand EXCEPT ![o] = [operand[o] EXCEPT !.data = Drifted(n)]]
    BY <1>8 DEF EditOperand
  <2>2. LeftByOthers([operand[o] EXCEPT !.data = Drifted(n)])
    BY DEF LeftByOthers, Drifted, Typed, TypeOK, Object
  <2> QED BY <1>8, <2>1, <2>2, Meddles DEF EditOperand
<1>9. ASSUME NEW i \in Issuers, NEW u, ChangeIdP(i, u) PROVE C!Next
  BY <1>9, ObservesOnly DEF ChangeIdP, InPass
<1>10. ASSUME NEW c \in ComponentSet, NEW st, ReportHealth(c, st) PROVE C!Next
  BY <1>10, ObservesOnly DEF ReportHealth, InPass
<1>11. CASE Users
  BY <1>7, <1>8, <1>9, <1>10, <1>11, SimulatesStreams DEF Users
<1> QED BY <1>1, <1>2, <1>3, <1>4, <1>5, <1>6, <1>7, <1>11 DEF Next, Pass, Faults

\* At first nothing is written, and nothing is on its way.
LEMMA SimulatesInit == Init => C!Init
<1> SUFFICES ASSUME Init PROVE C!Init
  OBVIOUS
<1>1. \A s \in SourceNames : LiveValue(s) \in WindowOf(s)
  BY DEF WindowOf
<1>2. \A o \in Operands : LeftByOthers(operand[o])
  BY DEF Init, NoObject, LeftByOthers
<1>3. {[target |-> w.op, content |-> w.obj] : w \in late} = {}
  BY DEF Init
<1> QED BY <1>1, <1>2, <1>3 DEF C!Init

(***************************************************************************)
(* An operand is only ever written from one spec, key endpoint, release    *)
(* and set of Secret versions that the caches or the pass still held, and  *)
(* never from values moved past: Reconcile's reads and applies, with       *)
(* failures, crashes and late applies between them, implement Convergence. *)
(***************************************************************************)
THEOREM RefinesConvergence == Spec => ImplementsConvergence
<1>1. Typed /\ Forgotten /\ HeldInv /\ [Next]_vars => HeldInv'
  BY HeldStep
<1>2. Typed /\ Forgotten /\ HeldInv /\ [Next]_vars => C!Next
  BY Simulates
<1>3. Spec => []Typed
  BY TypeCorrect DEF Typed
<1>4. RestInv => Forgotten
  BY DEF RestInv
<1>5. Spec => []HeldInv
  BY <1>1, <1>3, <1>4, RestAlways, HeldInit, PTL DEF Spec
<1>6. Spec => [][C!Next]_(C!cvars)
  BY <1>2, <1>3, <1>4, <1>5, RestAlways, PTL DEF Spec
<1>7. Spec => C!Init
  BY SimulatesInit DEF Spec
<1> QED BY <1>6, <1>7, PTL DEF ImplementsConvergence, C!Spec
=============================================================================
