--------------------------- MODULE MCIssuePolling ---------------------------
(* Small instances of IssuePolling: a plan bounds one behaviour. *)
EXTENDS IssuePolling

Row(attempts, due, lock) == [attempts |-> attempts, limit |-> Limit, due |-> due, lock |-> lock]

Scheduled(r, row) == [lane |-> "poll", about |-> r, keyed |-> TRUE, row |-> row]

Manual(lane, r) == [lane |-> lane, about |-> r, keyed |-> FALSE, row |-> Row(0, TRUE, "none")]

Basic == [budget |-> [b \in Budgets |-> IF b = "start" THEN 1 ELSE 0], keepsUp |-> FALSE,
          world |-> [stored |-> {"a"}, removed |-> {}, linear |-> {}, secrets |-> {"a"}],
          jobs |-> <<>>]

\* What earlier processes left: an exhausted entry, an orphan and a job of before
\* the poll queue; then a crash or an error, and another start.
Leftovers == [Basic EXCEPT !.budget["start"] = 2, !.budget["crash"] = 1, !.budget["break"] = 1,
                           !.budget["throttle"] = 1, !.keepsUp = TRUE,
                           !.world.removed = {"b"},
                           !.jobs = <<Scheduled("a", Row(2, TRUE, "expired")),
                                      Scheduled("b", Row(0, FALSE, "none")), Manual("jobs", "a")>>]

\* Two Repositories, nothing scheduled yet, credentials that come and go.
Credentials == [Basic EXCEPT !.budget["outside"] = 1, !.budget["break"] = 1,
                             !.budget["start"] = 2, !.keepsUp = TRUE,
                             !.world.stored = {"a", "b"}]

\* A worker that a reload leaves behind.
Reloads == [Basic EXCEPT !.budget["reload"] = 1, !.budget["outside"] = 1, !.budget["outlive"] = 1,
                         !.jobs = <<Scheduled("a", Row(0, TRUE, "none"))>>]

\* The same, where the credential is still to come.
LateCredential == [Reloads EXCEPT !.world.secrets = {}]

\* Calls that cross each other and the worker.
Requested(kinds) ==
    [Basic EXCEPT !.budget = [b \in Budgets |-> IF b \in kinds \union {"start"} THEN 1 ELSE 0]]

LinearKeys == [Requested({"linear"}) EXCEPT !.world.linear = {"a", "b"},
                                           !.world.stored = {"a", "b"}, !.world.secrets = {}]

LinearErrors == [LinearKeys EXCEPT !.budget["start"] = 0, !.budget["break"] = 1]

Removals == [Requested({"remove", "refresh", "throttle"}) EXCEPT
                !.jobs = <<Scheduled("a", Row(0, TRUE, "none"))>>]

Saves == [Requested({"settings", "token"}) EXCEPT
             !.jobs = <<Scheduled("a", Row(0, TRUE, "none"))>>]

Additions == [Requested({"add", "misread", "break"}) EXCEPT !.world.stored = {}]

MCPlans == {Leftovers, Credentials, Reloads, LateCredential, LinearKeys, LinearErrors, Removals, Saves, Additions}
=============================================================================
