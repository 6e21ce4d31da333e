--------------------------- MODULE MCMvLifecycle ---------------------------
(* Two queries, one build slot between them: "p" is pinned and maintained  *)
(* in place, "q" may be invalidated.                                       *)
EXTENDS MvLifecycle

Scenario(queries, churn, faults, pressure) ==
    [queries |-> queries, churn |-> churn, faults |-> faults, pressure |-> pressure]
MCScenarios ==
    {Scenario({"q"}, TRUE, TRUE, FALSE), Scenario({"p"}, TRUE, TRUE, FALSE), Scenario({"q"}, FALSE, TRUE, TRUE),
     Scenario({"p", "q"}, FALSE, FALSE, FALSE)}
MCSizes == {[source |-> 4, result |-> 4], [source |-> 10, result |-> 10], [source |-> 4, result |-> 1]}
=============================================================================
