------------------------- MODULE MCAgentTurnLimiter -------------------------
(* Two repositories contend with three callers: one has two Step Runs. *)
EXTENDS AgentTurnLimiter

CONSTANTS a1, a2, b1

MCRepositories == {"A", "B"}
MCCallers == {a1, a2, b1}
MCRepositoryOf == [c \in MCCallers |-> IF c = b1 THEN "B" ELSE "A"]
OneGuarantee == [r \in MCRepositories |-> IF r = "A" THEN {1} ELSE {0}]
=============================================================================
