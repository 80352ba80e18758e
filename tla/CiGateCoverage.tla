--------------------------- MODULE CiGateCoverage ---------------------------
(***************************************************************************)
(* Historical coverage of a CI Gate Definition: which part of the default  *)
(* branch's runs has been read, one provider page at a time                *)
(* (packages/forge-contract/src/lib/ci-gate-coverage.ts).                  *)
(*                                                                         *)
(* A run is a record [key, status]; its key orders the runs as the forge   *)
(* does: by run id, then by attempt. A bound is a key, None where there is *)
(* none. Wording and the count of pages are left out; every run has a key. *)
(***************************************************************************)
EXTENDS Integers, FiniteSetsExt

CONSTANTS
    Branches, NoBranch,
    MaxAttempts     \* bound: attempts of a run, 0 included

ASSUME CoverageAssumption == NoBranch \notin Branches /\ MaxAttempts \in Nat \ {0, 1}

None == 0

\* ciGateRunOrderKey
Key(id, attempt) == id * MaxAttempts + attempt

RunOf(key) == key \div MaxAttempts

SameRun(k, l) == RunOf(k) = RunOf(l)

Keys(page) == {r.key : r \in page}

Newest(keys) == IF keys = {} THEN None ELSE Max(keys)

\* "red" is a run that is not finished, with a job that has failed.
Failing == {"failed", "red"}

\* pendingFromRuns: a run that has ended in any way is not pending.
Pending(page) == {r.key : r \in {q \in page : q.status = "pending"}}

\* mergePending: whatever attempt of a run is read replaces what was pending of it.
MergePending(pending, page) ==
    {k \in pending : \A l \in Keys(page) : ~SameRun(k, l)} \union Pending(page)

\* reachedBound
Reached(keys, target) == \E k \in keys : SameRun(k, target) \/ k <= target

\* passedWithoutIdentity
Passed(keys, target) ==
    /\ \A k \in keys : ~SameRun(k, target)
    /\ \E k \in keys : k < target

\* emptyCiGateHistoricalCoverage
NoCoverage(branch) ==
    [state |-> "complete", branch |-> branch, check |-> None, upper |-> None, progress |-> None,
     stop |-> None, floor |-> None, pending |-> {}]

\* truncated
Truncated(cov, branch) ==
    [cov EXCEPT !.state = "truncated", !.branch = branch, !.upper = None, !.progress = None]

\* chooseStop: a repair baseline above the checkpoint, if the failure at hand
\* does not need the runs below it.
ChooseStop(check, baseline, irrelevant) ==
    IF irrelevant /\ baseline > check THEN baseline ELSE check

\* Mutant: the hole that a newest page leaves above the gap is not noticed.
LatestKeepsFloor(cov, oldest, connected, merged, branch) ==
    [cov EXCEPT !.branch = branch, !.pending = merged]

\* Mutant: the floor follows the newest page, even down into the gap.
LatestMovesFloor(cov, oldest, connected, merged, branch) ==
    [cov EXCEPT !.branch = branch, !.pending = merged, !.floor = oldest]

\* applyLatestHistoricalCoverage, inside a gap: its upper end stays where it is.
LatestInGap(cov, oldest, connected, merged, branch) ==
    [cov EXCEPT !.branch = branch, !.pending = merged,
                !.floor = IF connected THEN cov.floor ELSE oldest]

\* applyLatestHistoricalCoverage
ApplyLatest(stored, branch, page, exhausted, baseline, irrelevant) ==
    LET cov       == IF stored.branch \in {NoBranch, branch} THEN stored ELSE NoCoverage(NoBranch)
        keys      == Keys(page)
        oldest    == Min(keys)
        saw       == \E k \in keys : SameRun(k, cov.check)
        connected == cov.floor = None \/ Reached(keys, cov.floor)
        merged    == MergePending(cov.pending, page)
        lost      == [cov EXCEPT !.floor = oldest, !.pending = merged]
        walk      == [state |-> "gap", branch |-> branch, check |-> cov.check, upper |-> oldest,
                      progress |-> oldest, stop |-> ChooseStop(cov.check, baseline, irrelevant),
                      floor |-> oldest, pending |-> Pending(page)]
        whole     == [walk EXCEPT !.state = "complete", !.check = oldest, !.upper = None,
                                  !.stop = None]
    IN  IF page = {}
        THEN IF exhausted /\ cov.check # None THEN Truncated(cov, branch)
             ELSE [cov EXCEPT !.branch = branch]
        ELSE IF cov.check # None /\ Passed(keys, cov.check) THEN Truncated(lost, branch)
        ELSE IF cov.state = "gap" /\ cov.upper # None
        THEN LatestInGap(cov, oldest, connected, merged, branch)
        ELSE IF ~saw /\ ~exhausted THEN walk
        ELSE IF ~saw /\ cov.check # None THEN Truncated(lost, branch)
        ELSE whole

\* nextCiGateCatchUpBound: a hole above the gap comes before the gap.
CatchUpBound(cov) ==
    IF cov.state # "gap" THEN None
    ELSE IF cov.upper # None /\ cov.floor > cov.upper THEN cov.floor
    ELSE IF cov.progress # None THEN cov.progress ELSE cov.upper

\* pendingRunAboveFrontier
Revisit(cov, bound) == Newest({k \in cov.pending : k > bound})

\* applyCatchUpHistoricalCoverage
ApplyCatchUp(cov, page, exhausted) ==
    LET bound  == CatchUpBound(cov)
        keys   == {k \in Keys(page) : k <= bound}
        oldest == Min(keys)
        stop   == IF cov.stop # None THEN cov.stop ELSE cov.check
        next   == [cov EXCEPT !.pending = MergePending(cov.pending, page)]
        top    == IF cov.upper # None THEN cov.upper ELSE cov.floor
        saw    == stop # None /\ Reached(keys, stop)
        missed == stop # None /\ (Passed(keys, stop) \/ (exhausted /\ ~saw))
        filling == cov.upper # None /\ cov.floor > cov.upper
    IN  IF bound = None THEN cov
        ELSE IF missed THEN Truncated(next, cov.branch)
        ELSE IF saw \/ (exhausted /\ stop = None)
        THEN [next EXCEPT !.state = "complete", !.upper = None, !.stop = None, !.floor = top,
                          !.check = IF keys = {} THEN cov.check ELSE oldest,
                          !.progress = IF keys = {} THEN cov.progress ELSE oldest]
        ELSE IF keys = {} THEN next
        ELSE IF filling /\ oldest > cov.upper THEN [next EXCEPT !.floor = oldest]
        ELSE [next EXCEPT !.floor = top,
                          !.progress = IF cov.progress = None \/ oldest < cov.progress
                                       THEN oldest ELSE cov.progress]
=============================================================================
