-------------------------- MODULE MCOperandMetrics --------------------------
(***************************************************************************)
(* Small instances of OperandMetrics.                                      *)
(***************************************************************************)
EXTENDS OperandMetrics

NoBudget == [b \in Budgets |-> 0]

\* A HyperFleetConfig and any few events after it, in every order.
AllLimit == [NoBudget EXCEPT !["create"] = 2, !["edit"] = 1, !["delete"] = 1,
                             !["health"] = 2, !["drift"] = 1, !["fault"] = 1,
                             !["read"] = 1]

\* One HyperFleetConfig is created and nothing else happens.
CreateLimit == [NoBudget EXCEPT !["create"] = 1]

\* One call of the operator fails.
FaultLimit == [NoBudget EXCEPT !["create"] = 1, !["fault"] = 1]

\* The HyperFleetConfig is deleted once its workload is ready.
DeleteLimit == [NoBudget EXCEPT !["create"] = 1, !["health"] = 1,
                                !["delete"] = 1]
=============================================================================
