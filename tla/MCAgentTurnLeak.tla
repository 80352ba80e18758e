--------------------------- MODULE MCAgentTurnLeak ---------------------------
(* One repository, two callers: the smallest instance in which a permit leaks. *)
EXTENDS AgentTurnLeak

CONSTANTS a1, a2

MCRepositories == {"A"}
MCCallers == {a1, a2}
MCRepositoryOf == [c \in MCCallers |-> "A"]
NoGuarantees == [r \in MCRepositories |-> {0}]
=============================================================================
