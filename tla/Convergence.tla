---------------------------- MODULE Convergence ----------------------------
(***************************************************************************)
(* What the operator promises about the objects it manages, apart from how *)
(* it works: a target is only ever written from values its sources really  *)
(* had, and no write is made from a value the operator has moved past.     *)
(*                                                                         *)
(* A source is something the operator reads: the HyperFleetConfig, a       *)
(* Secret, an issuer, its own release.  A source's window holds the values *)
(* the operator may still act on.  It takes in the source's value when     *)
(* that changes, and apart from that it only shrinks.                      *)
(***************************************************************************)
CONSTANTS
  Sources,         \* what the operator reads
  Targets,         \* the managed objects
  Rendered(_,_,_), \* Rendered(t, w, c): t may become c from values in w
  Foreign(_)       \* contents that others leave behind

VARIABLES
  live,     \* the value of every source
  window,   \* the values of every source that may still be acted on
  store,    \* the content of every target
  pending   \* writes sent that have not arrived: [target, content]

cvars == <<live, window, store, pending>>

Init ==
  /\ \A s \in Sources : live[s] \in window[s]
  /\ \A t \in Targets : Foreign(store[t])
  /\ pending = {}

Becomes(t, c) ==
  /\ store'[t] = c
  /\ \A u \in Targets \ {t} : store'[u] = store[u]

\* Sources change, and the operator moves on to newer values.
MoveOn ==
  LET before == window
      after  == window'
      now    == live'
  IN \A s \in Sources :
       /\ now[s] \in after[s]
       /\ after[s] \subseteq before[s] \cup {now[s]}

Observe == UNCHANGED <<store, pending>> /\ MoveOn

\* A target is written from one value of each window.
Write(t) ==
  /\ Becomes(t, store'[t])
  /\ UNCHANGED <<pending, live>>
  /\ Rendered(t, window, store'[t])
  /\ MoveOn

\* A write is sent; the operator does not wait for it any more.
Send(t) ==
  /\ UNCHANGED <<store, live>>
  /\ \E p \in pending' :
       /\ p.target = t
       /\ pending' = pending \cup {p}
       /\ Rendered(t, window, p.content)
  /\ MoveOn

\* A write that was sent arrives.
Arrive(p) ==
  /\ Becomes(p.target, p.content)
  /\ pending' = pending \ {p}
  /\ UNCHANGED <<live, window>>

\* Somebody else edits or removes a target.
Meddle(t) ==
  /\ Becomes(t, store'[t])
  /\ Foreign(store'[t])
  /\ UNCHANGED <<live, window, pending>>

Next ==
  \/ Observe
  \/ \E t \in Targets : Write(t) \/ Send(t) \/ Meddle(t)
  \/ \E p \in pending : Arrive(p)

Spec == Init /\ [][Next]_cvars
=============================================================================
