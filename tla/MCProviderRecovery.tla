------------------------- MODULE MCProviderRecovery -------------------------
(***************************************************************************)
(* Three Work Items, two provider scopes. A plan bounds one behaviour: how *)
(* many Agent Turns fail on an outage and which other calls and faults     *)
(* occur beside them.                                                      *)
(***************************************************************************)
EXTENDS ProviderRecovery

Plan(fails, others) ==
    [c \in Calls |-> CASE c = "fail" -> fails
                       [] c \in others -> IF c = "gate" THEN 2 ELSE 1
                       [] OTHER -> 0]

MCPlans ==
    {Plan(3, {"leave"}), Plan(3, {"other"}), Plan(3, {"orphan"}), Plan(2, {"postpone", "finish"}),
     Plan(3, {"gate"}), Plan(2, {"retry", "gate"}), Plan(2, {"retry", "pause"}),
     Plan(2, {"retry", "orphan"}), Plan(2, {"retry", "other"}),
     Plan(2, {"floor"}), Plan(1, {"floor", "crash"}), Plan(2, {"crash"}), Plan(1, {"crash", "gate"}),
     [Plan(1, {}) EXCEPT !["crash"] = 2]}
=============================================================================
