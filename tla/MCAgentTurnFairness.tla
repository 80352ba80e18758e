------------------------ MODULE MCAgentTurnFairness ------------------------
(* Two repositories contend with three callers: one has two Step Runs. *)
EXTENDS AgentTurnFairness, TLC

CONSTANTS a1, a2, b1

MCRepositories == {"A", "B"}
MCCallers == {a1, a2, b1}
MCRepositoryOf == [c \in MCCallers |-> IF c = b1 THEN "B" ELSE "A"]
EitherMin == [r \in MCRepositories |-> IF r = "A" THEN {0, 1} ELSE {0}]
NoGuarantees == [r \in MCRepositories |-> {0}]
CallerSymmetry == Permutations({a1, a2})
=============================================================================
