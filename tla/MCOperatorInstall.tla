-------------------------- MODULE MCOperatorInstall --------------------------
(***************************************************************************)
(* Small instances of OperatorInstall.                                     *)
(***************************************************************************)
EXTENDS OperatorInstall

MCFlags(metrics, monitor, secure, trust, cert, broker, project) ==
  [metrics |-> metrics, monitor |-> monitor, secure |-> secure, trust |-> trust,
   cert |-> cert, broker |-> broker, project |-> project]

Plain  == MCFlags(TRUE, TRUE, FALSE, FALSE, "unset", Unset, Unset)
Secure == MCFlags(TRUE, TRUE, TRUE, TRUE, "good", "googlepubsub", "valid")

MCSeqs(S, n) == UNION {[1..k -> S] : k \in 0..n}
MCContainers(n) == [image : Images, env : MCSeqs(Env, n)]
MCCSVs(containers, flags) ==
  [containers : containers, relatedImages : MCSeqs(Images, 2), flags : flags]

\* A CSV whose images are in order.
GoodContainer ==
  [image |-> "one", env |-> <<[name |-> ApiEnv, value |-> "two"],
                              [name |-> SentinelEnv, value |-> "one"]>>]
Good(flags) ==
  [containers : {<<GoodContainer>>}, relatedImages : {<<"one", "two">>}, flags : flags]

\* Later releases: another endpoint, none, or one that cannot start.
MCUpgrades == Good({Plain, Secure, [Plain EXCEPT !.metrics = FALSE],
                    [Plain EXCEPT !.broker = "other"]})

\* Every arrangement of images in a manager and perhaps a sidecar, with plain
\* flags; and, with the images in order, every combination of metrics flags
\* and every combination of broker variables.
MCFlagSets ==
  {f \in Flags : \/ f.broker = Unset /\ f.project = Unset
                 \/ [f EXCEPT !.broker = Unset, !.project = Unset] = Plain}

MCDrafts ==
  MCCSVs([1..1 -> MCContainers(2)], {Plain})
    \cup MCCSVs([1..2 -> MCContainers(1)], {Plain})
    \cup Good(MCFlagSets) \cup MCUpgrades

MCLimit == [b \in Budgets |-> 1]

\* The images alone, nothing disturbed.
UnpinnedDrafts == MCCSVs([1..1 -> MCContainers(1)], {Plain})
NoUpgrades == {}
NoLimit == [b \in Budgets |-> 0]
=============================================================================
