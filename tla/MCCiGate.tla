------------------------------ MODULE MCCiGate ------------------------------
(* Small instances of CiGate: a plan bounds one behaviour. *)
EXTENDS CiGate

Quiet == [c \in Calls |-> 0]

Run(id, status) == [id |-> id, attempt |-> 1, status |-> status, branch |-> "main"]

Basic == [calls |-> Quiet, definitions |-> {1}, observers |-> {"refresh"}, items |-> {},
          fresh |-> {"pending"}, outcomes |-> {"failed", "passed"}, auto |-> TRUE,
          branch |-> "main", runs |-> [d \in Definitions |-> {}]]

\* A long history, read page by page.
History == [Basic EXCEPT !.calls["begin"] = 3, !.calls["append"] = 6, !.calls["delete"] = 1,
                         !.fresh = {"passed"}, !.auto = FALSE,
                         !.runs[1] = {Run(1, "passed")}]

\* Runs that end, fail early and start again.
Results == [Basic EXCEPT !.calls["begin"] = 2, !.calls["append"] = 1, !.calls["decide"] = 2,
                         !.calls["rerun"] = 1, !.fresh = {"pending"},
                         !.outcomes = {"red", "failed", "passed", "cancelled"}, !.auto = FALSE,
                         !.runs[1] = {Run(1, "passed"), Run(2, "failed"), Run(3, "pending")}]

\* Two observations that overlap, two definitions, a settings change.
Overlap == [Basic EXCEPT !.calls["begin"] = 3, !.calls["append"] = 1, !.calls["select"] = 1,
                         !.observers = {"refresh", "settings"},
                         !.items = {"i"}, !.calls["authorize"] = 1,
                         !.fresh = {"failed", "passed"}, !.auto = FALSE,
                         !.runs[1] = {Run(1, "failed")}]

\* CI Repairs that start and end while failures go on.
Repairs == [Basic EXCEPT !.calls["begin"] = 3, !.calls["append"] = 3, !.calls["manual"] = 1,
                         !.calls["end"] = 2, !.calls["fault"] = 1,
                         !.fresh = {"failed", "passed"}]

\* Work Items that are held, and a crash.
Holds == [Basic EXCEPT !.calls["begin"] = 3, !.calls["append"] = 3, !.calls["crash"] = 1,
                       !.calls["authorize"] = 1, !.calls["fail"] = 1, !.calls["fault"] = 1,
                       !.items = {"i"},
                       !.fresh = {"failed", "passed"}, !.auto = FALSE]

\* Another default branch, and another selection of definitions.
Settings == [Basic EXCEPT !.calls["begin"] = 3, !.calls["append"] = 1, !.calls["branch"] = 1,
                          !.calls["select"] = 2, !.calls["fail"] = 1, !.definitions = {1, 2},
                          !.fresh = {"failed", "passed"}, !.runs[1] = {Run(1, "failed")}]

MCPlans == {History, Results, Overlap, Repairs, Holds, Settings}
=============================================================================
