---------------------------- MODULE MCReconciler ----------------------------
(***************************************************************************)
(* Small instances of Reconciler.                                          *)
(***************************************************************************)
EXTENDS ReconcilerRefinement

MCOneSentinel == <<[plural |-> "nodepools", parent |-> TRUE]>>
MCNoSentinel  == <<>>

MCSpec(bundle, tls, enabled, jwks) ==
  [bundle |-> bundle, db |-> "db", tls |-> tls, enabled |-> enabled,
   jwks |-> jwks, issuer |-> "issuer", audience |-> "aud", profile |-> "small"]

Plain    == MCSpec("cloud-capi", "none", "false", "none")
WithTLS  == MCSpec("cloud-capi", "tls", "false", "none")
Discover == MCSpec("cloud-capi", "none", "unset", "none")
OnPrem   == MCSpec("onprem-agent", "none", "false", "none")

MCRelease(v) == [apiImage |-> v, sentinelImage |-> v, broker |-> "rabbitmq"]
OneRelease  == {MCRelease("v1")}
TwoReleases == {MCRelease("v1"), MCRelease("v2")}

Rolling == [observed |-> TRUE, replicas |-> 2, updated |-> 1, available |-> 1]
Done    == [observed |-> TRUE, replicas |-> 1, updated |-> 1, available |-> 1]

NoBudget == [b \in Budgets |-> 0]

\* An edit, a rotation and a fault, in every order.
EditSpecs == {Plain, WithTLS}
EditLimit == [NoBudget EXCEPT !["create"] = 1, !["edit"] = 1, !["secret"] = 1,
                              !["fault"] = 1]

PlainSpec == {Plain}
MCDepStatuses == {Rolling, Done}

\* Health reports, an out-of-band change and a rotation, one spec.
HealthLimit == [NoBudget EXCEPT !["create"] = 1, !["secret"] = 1,
                                !["health"] = 2, !["drift"] = 1,
                                !["resync"] = 1]

\* The CR is deleted and recreated, perhaps with a bundle that cannot be
\* resolved, while a pass for the old one may still be running.
LifecycleSpecs == {Plain, OnPrem}
LifecycleLimit == [NoBudget EXCEPT !["create"] = 2, !["delete"] = 1,
                                   !["late"] = 1]

\* The issuer comes and goes while Secrets rotate and the operator restarts.
OutageSpecs == {Discover}
OutageLimit == [NoBudget EXCEPT !["create"] = 1, !["secret"] = 1,
                                !["idp"] = 2, !["crash"] = 1]
=============================================================================
