---------------------------- MODULE MCRolloutHash ----------------------------
(***************************************************************************)
(* A component with two configuration texts (as a Sentinel has) and two    *)
(* Secret roles.  The bytes of the texts are the digits and colons that    *)
(* the serialisation itself writes; one text and one role are long enough  *)
(* for a length of two digits.                                             *)
(***************************************************************************)
EXTENDS RolloutHash

MCTexts == UNION {[1..n -> {49, 58}] : n \in 0..2} \cup {[i \in 1..11 |-> 49]}
MCRoles == {<<100>>, <<100, 49>>}
MCValues == {<<49>>, <<49, 49>>}
=============================================================================
