------------------------ MODULE ReconcilerRefinement ------------------------
(***************************************************************************)
(* Reconciler implements Convergence.                                      *)
(*                                                                         *)
(* The sources are the HyperFleetConfig, every Secret, every issuer and    *)
(* the release.  A source's window holds its values in the watch stream,   *)
(* from the cached to the live one, and what the pass in progress or the   *)
(* discovery cache holds of it.                                            *)
(***************************************************************************)
EXTENDS Reconciler

ConfigSource  == <<"config", "cluster">>
SecretSource(n) == <<"secret", n>>
IssuerSource(i) == <<"issuer", i>>
ReleaseSource == <<"release", "operator">>

SourceNames ==
  {ConfigSource, ReleaseSource}
  \cup {SecretSource(n) : n \in SecretNames}
  \cup {IssuerSource(i) : i \in Issuers}

\* Of the CR only the identity and the spec are acted on.
Goal(c) == [uid |-> c.uid, spec |-> c.spec]

LiveValue(s) ==
  CASE s[1] = "config"  -> Goal(Live(cr))
    [] s[1] = "secret"  -> Live(secret[s[2]])
    [] s[1] = "issuer"  -> idp[s[2]]
    [] s[1] = "release" -> release

\* The copy of the CR the pass in progress works from.
PassGoal == IF pc \in {"down", "idle"} THEN {} ELSE {Goal(base)}

\* What the pass in progress has read of a Secret.
PassRead(n) ==
  LET refs == Refs
  IN {read[refs[i].comp][refs[i].role] :
        i \in {j \in DOMAIN refs : refs[j].name = n}} \ {NotRead}

\* The key endpoint of an issuer in the pass or in the discovery cache.
KnownURL(i) ==
  ({discovered[i]} \cup (IF base.spec.issuer = i THEN {url} ELSE {})) \ {NoURI}

WindowOf(s) ==
  {LiveValue(s)} \cup
  CASE s[1] = "config"  -> {Goal(cr[i]) : i \in DOMAIN cr} \cup PassGoal
    [] s[1] = "secret"  -> {secret[s[2]][i] : i \in DOMAIN secret[s[2]]}
                           \cup PassRead(s[2])
    [] s[1] = "issuer"  -> KnownURL(s[2])
    [] s[1] = "release" -> {}

\* Hash entries of a component made from the Secret versions in window w.
EntriesFrom(c, goal, rel, w, entries) ==
  LET refs == ReferencedSecrets(goal.spec, rel)
      of(r) == {refs[i].name : i \in {j \in DOMAIN refs :
                                        refs[j].comp = c /\ refs[j].role = r}}
  IN \A r \in Roles :
       IF of(r) = {} THEN entries[r] = NotRead
                     ELSE \E n \in of(r) : entries[r] \in w[SecretSource(n)]

\* The operand was rendered from one spec, one key endpoint and one release of
\* the windows, with Secret versions of the windows, for that spec's owner.
RenderedFrom(o, w, obj) ==
  \E goal \in w[ConfigSource], rel \in w[ReleaseSource] :
    /\ goal.uid # 0
    /\ obj.owner = goal.uid
    /\ \E u \in IF NeedsDiscovery(goal.spec)
                  THEN w[IssuerSource(goal.spec.issuer)] \ {NoURI}
                  ELSE {NoURI} :
         IF o.kind # "deployment"
           THEN obj.data = Render(o, goal.spec, u, rel, NoEntries)
           ELSE /\ obj.data.of = "deployment"
                /\ obj.data = Render(o, goal.spec, u, rel, obj.data.hash.secrets)
                /\ EntriesFrom(o.comp, goal, rel, w, obj.data.hash.secrets)

\* A removed or an edited operand.
LeftByOthers(obj) == obj.data.of \in {"absent", "drifted"}

C == INSTANCE Convergence WITH
       Sources  <- SourceNames,
       Targets  <- Operands,
       Rendered <- RenderedFrom,
       Foreign  <- LeftByOthers,
       live     <- [s \in SourceNames |-> LiveValue(s)],
       window   <- [s \in SourceNames |-> WindowOf(s)],
       store    <- operand,
       pending  <- {[target |-> w.op, content |-> w.obj] : w \in late}

(***************************************************************************)
(* The reconciler implements Convergence: whatever the order of edits,     *)
(* rotations, issuer changes, failures, crashes and late applies, an       *)
(* operand is only written from one spec, key endpoint, release and Secret *)
(* version that the cache, the pass or the discovery cache still held, and *)
(* never from values already moved past.                                   *)
(***************************************************************************)
ImplementsConvergence == C!Spec
=============================================================================
