----------------------------- MODULE RolloutHash -----------------------------
(***************************************************************************)
(* The rollout hash of a component (hyperfleetconfig_rollout.go):          *)
(* stampConfigHash joins the rendered configuration texts and              *)
(* computeConfigHash serialises them with the Secret entries into the byte *)
(* string that is digested.  SHA-256 itself is taken to be injective, so   *)
(* the byte string stands for the annotation; whether different inputs     *)
(* give different byte strings is the question.                            *)
(***************************************************************************)
EXTENDS Naturals, Sequences, SequencesExt, TLC

CONSTANTS
  Texts,   \* rendered configuration texts, as sequences of bytes
  Files,   \* how many configuration texts the component has
  Roles,   \* the roles of its referenced Secrets, as sequences of bytes
  Values   \* resourceVersions, as sequences of bytes

Byte == 0..255

ASSUME RolloutHashAssumption ==
  /\ Files \in Nat
  /\ Texts \cup Roles \cup Values \subseteq Seq(Byte)
  /\ \A t \in Texts : 0 \notin Range(t)

\* hashEntry; a missing Secret has no value.
hashEntry == [id : Roles, present : {TRUE}, value : Values]
               \cup [id : Roles, present : {FALSE}, value : {<<>>}]

\* What the digest is computed from: the texts, and an entry for each
\* referenced Secret.
Inputs ==
  [texts : [1..Files -> Texts],
   entries : UNION {{{f[r] : r \in rs} :
                       f \in {g \in [rs -> hashEntry] : \A r \in rs : g[r].id = r}} :
                    rs \in SUBSET Roles}]

NoInput == [texts |-> <<>>, entries |-> {}]

VARIABLES
  input,    \* the rendered texts and the Secrets as they are now
  stamped,  \* history: the input of the last stamp
  hash      \* the annotation in the pod template

vars == <<input, stamped, hash>>

-----------------------------------------------------------------------------
\* strings.Compare(a, b) < 0.
Precedes(a, b) ==
  \/ Len(a) < Len(b) /\ SubSeq(b, 1, Len(a)) = a
  \/ \E i \in DOMAIN a \cap DOMAIN b :
       a[i] < b[i] /\ SubSeq(a, 1, i - 1) = SubSeq(b, 1, i - 1)

\* fmt.Sprintf("%d", n).
Decimal[n \in Nat] ==
  IF n < 10 THEN <<48 + n>> ELSE Decimal[n \div 10] \o <<48 + (n % 10)>>

\* writeField: length, ":", the bytes, NUL.
writeField(b) == Decimal[Len(b)] \o <<58>> \o b \o <<0>>

\* The id, then 1 and the value, or 0 for a missing Secret.
writeEntry(e) ==
  writeField(e.id) \o (IF e.present THEN <<1>> \o writeField(e.value) ELSE <<0>>)

\* Mutant: the entries are hashed in the order they come.
inGivenOrder(entries) == entries

\* slices.SortFunc by id.
sorted(entries) == SortSeq(entries, LAMBDA a, b : Precedes(a.id, b.id))

\* computeConfigHash, up to the digest.
computeConfigHash(configYAML, entries) ==
  writeField(configYAML) \o FoldLeft(LAMBDA bytes, e : bytes \o writeEntry(e),
                                     <<>>, sorted(entries))

\* strings.Join(configYAMLs, "\x00").
Join(texts) ==
  FoldLeft(LAMBDA bytes, t : bytes \o <<0>> \o t, Head(texts), Tail(texts))

\* stampConfigHash; the entries come in the order the component lists its
\* Secrets, which is none that the hash may depend on.
Stamp ==
  \E entries \in SetToSeqs(input.entries) :
    /\ hash' = computeConfigHash(Join(input.texts), entries)
    /\ stamped' = input
    /\ UNCHANGED input

\* Between two passes the configuration and the Secrets become anything else;
\* several changes in a row amount to one.
Change ==
  /\ stamped = input
  /\ input' \in Inputs
  /\ UNCHANGED <<stamped, hash>>

Init ==
  /\ input \in Inputs
  /\ stamped = NoInput
  /\ hash = <<>>

Next == Stamp \/ Change

Spec == Init /\ [][Next]_vars

-----------------------------------------------------------------------------
\* "A change in any input produces a new hash" and "distinct inputs cannot
\* collide by concatenation", and the same inputs in another order give the
\* same hash: over two passes the annotation changes, and the pods roll,
\* exactly when a text, a resourceVersion or the presence of a Secret changed
\* (computeConfigHash, stampConfigHash).
RollsExactlyOnChange ==
  [][Stamp /\ stamped # NoInput => (hash' = hash <=> input = stamped)]_vars
=============================================================================
