-------------------------- MODULE ProviderRecovery --------------------------
(***************************************************************************)
(* Provider Recovery: Work Items whose agent turn failed on a provider     *)
(* outage wait, one of them probes the provider, the others follow         *)
(* (provider-recovery.ts, provider-recovery-cooldown.ts and their callers  *)
(* in work-item-lifecycle.ts, packages/work-item-lifecycle/src/lib).       *)
(*                                                                         *)
(* A transaction is one action; the statements inside it are operators     *)
(* from a database db to a database, applied in the order of the code.     *)
(*                                                                         *)
(* Data abstraction: a tick of the clock is longer than the jitter of a    *)
(* deadline and the stagger of followers; a back-off is a member of        *)
(* Delays. A scope key is a member of Scopes. Whether a Worker Slot is     *)
(* free is decided by Work Items that are not modelled: either may be the  *)
(* case whenever the code asks.                                            *)
(***************************************************************************)
EXTENDS Integers, FiniteSets

CONSTANTS
    Items,          \* Work Items, ordered like their ids
    NoItem,
    Scopes, NoScope,
    Gated,          \* the Work Items of the repository whose CI gate may close
    Delays,         \* back-off of a failed attempt, in ticks
    Floors,         \* how far ahead a provider's own retry time may be
    MaxWaits,       \* values of provider_recovery_max_wait_ms
    NoLimit,        \* its null
    Plans,          \* bound: how often each call and fault occurs
    MaxTime         \* bound: ticks

Calls == {"fail", "floor", "other", "finish", "postpone", "orphan", "pause", "retry", "leave", "gate",
          "crash"}

ASSUME RecoveryAssumption ==
    /\ Items \subseteq Nat /\ IsFiniteSet(Items) /\ NoItem \notin Items
    /\ NoScope \notin Scopes
    /\ Gated \subseteq Items
    /\ Delays \subseteq Nat \ {0} /\ Floors \subseteq Nat
    /\ MaxWaits \subseteq Nat \union {NoLimit} /\ NoLimit \notin Nat
    /\ Plans \subseteq [Calls -> Nat] /\ MaxTime \in Nat

VARIABLES
    now,
    maxWait,
    closed,         \* the CI gate of the repository of Gated is closed
    work,           \* work_item and the latest step_run of a Work Item
    db,             \* provider_recovery_episode, provider_recovery_cooldown
                    \* and the wake jobs in job_queue
    worker,         \* "up", "down" or, during the start-up repair, "starting"
    todo,           \* cooldowns the start-up repair has not come to
    auto,           \* history: attempts begun by a wake
    spent,          \* history: generations whose wake a crash has cost
    may             \* bound: the calls and faults that are left of the plan

vars == <<now, maxWait, closed, work, db, worker, todo, auto, spent, may>>

Null == -1

NoWork == [paused |-> FALSE, held |-> FALSE, waiting |-> FALSE, run |-> "active", over |-> FALSE]

NoEpisode == [status |-> "none", scope |-> NoScope, at |-> Null, gen |-> 0, started |-> 0]

NoCooldown == [exists |-> FALSE, at |-> Null, probe |-> NoItem]

Open(e) == e.status \in {"scheduled", "in_attempt"}

TooLong(from, to) == maxWait # NoLimit /\ to - from >= maxWait

Latest(a, b) == IF a >= b THEN a ELSE b

-----------------------------------------------------------------------------
(* Statements. *)

\* enqueueRecoveryWake: retryLimit 1 allows two deliveries. Rows of the same
\* content are told apart by copy.
Wake(s, w, gen, at) ==
    LET same == {j.copy : j \in {k \in s.jobs : k.item = w /\ k.gen = gen /\ k.at = at}}
    IN  [item |-> w, gen |-> gen, at |-> at, left |-> 2, lock |-> FALSE,
         copy |-> CHOOSE n \in 0..Cardinality(same) : n \notin same]

\* Mutant: an attempt that waits for a Worker Slot does not keep the lease.
ValidRunning(wk, s, w) ==
    /\ w # NoItem
    /\ ~wk[w].paused /\ ~wk[w].held /\ ~wk[w].over
    /\ s.ep[w].status = "scheduled" \/ (s.ep[w].status = "in_attempt" /\ wk[w].run = "active")

\* isValidProbeOwner
Valid(wk, s, w) ==
    /\ w # NoItem
    /\ ~wk[w].paused /\ ~wk[w].held /\ ~wk[w].over
    /\ \/ s.ep[w].status = "scheduled"
       \/ /\ s.ep[w].status = "in_attempt"
          /\ wk[w].run = "active" \/ wk[w].waiting

Probe(s, c) == s.cd[c].probe

Unowned(s, c) == [s EXCEPT !.cd[c].probe = NoItem]

\* UPDATE provider_recovery_cooldown SET probe_work_item_id = NULL ...
\* WHERE probe_work_item_id = ?
Dropped(s, c, w) == IF Probe(s, c) = w THEN Unowned(s, c) ELSE s

\* clearAbandonedProbe
Cleared(wk, s, c) == IF Valid(wk, s, Probe(s, c)) THEN s ELSE Unowned(s, c)

\* loadOpenEpisodes
OpenIn(s, c) == {w \in Items : s.ep[w].scope = c /\ Open(s.ep[w])}

WaitingIn(s, c) == {w \in OpenIn(s, c) : s.ep[w].status = "scheduled"}

\* exhaustEpisode, and the closing UPDATE of closeOpenProviderRecovery
Ended(s, w, status) ==
    IF Open(s.ep[w])
    THEN LET e == s.ep[w]
         IN  [s EXCEPT !.ep[w] = [e EXCEPT !.status = status, !.at = Null, !.gen = e.gen + 1]]
    ELSE s

\* DELETE FROM provider_recovery_cooldown; cooldown_id is ON DELETE SET NULL.
Deleted(s, c) ==
    [s EXCEPT !.cd[c] = NoCooldown,
              !.ep = [w \in Items |-> IF s.ep[w].scope = c
                                      THEN [s.ep[w] EXCEPT !.scope = NoScope] ELSE s.ep[w]]]

\* deleteCooldownIfIdle
DeletedIfIdle(s, c) == IF OpenIn(s, c) = {} THEN Deleted(s, c) ELSE s

\* Mutant: nobody is exhausted when a deadline moves.
RescheduledAll(s, W, at) ==
    [s EXCEPT !.ep = [w \in Items |->
                        IF w \notin W THEN s.ep[w]
                        ELSE [s.ep[w] EXCEPT !.status = "scheduled", !.at = at[w], !.gen = @ + 1]],
              !.jobs = @ \union {Wake(s, w, s.ep[w].gen + 1, at[w]) : w \in W}]

\* The members of W get the deadline at, with a wake each, or are exhausted by
\* their own limit: scheduleEpisode and exhaustEpisode.
Rescheduled(s, W, at) ==
    LET F == {w \in W : ~TooLong(s.ep[w].started, Latest(now, at[w]))}
    IN  [s EXCEPT !.ep = [w \in Items |->
                            LET e == s.ep[w]
                            IN  IF w \notin W THEN e
                                ELSE IF w \in F
                                THEN [e EXCEPT !.status = "scheduled", !.at = at[w], !.gen = e.gen + 1]
                                ELSE [e EXCEPT !.status = "exhausted", !.at = Null, !.gen = e.gen + 1]],
                  !.jobs = @ \union {Wake(s, w, s.ep[w].gen + 1, at[w]) : w \in F}]

\* Mutant: a failure moves the shared deadline and tells nobody.
NotRealigned(s, c, shared, w) == s

\* realignOpenEpisodes: w has just failed, its scope waits until shared.
Realigned(s, c, shared, w) ==
    LET probe == Probe(s, c)
        W     == WaitingIn(s, c) \ {w, probe}
        s1    == Rescheduled(s, W, [v \in W |-> Latest(s.ep[v].at, shared)])
        late  == probe \in WaitingIn(s, c) \ {w}
        s2    == Rescheduled(s1, {probe}, [v \in {probe} |-> shared])
    IN  IF ~late THEN s1
        ELSE IF TooLong(s.ep[probe].started, Latest(now, shared)) THEN Unowned(s2, c)
        ELSE IF s.ep[probe].at # shared THEN s2
        ELSE s1

\* The choice of the next probe, once an abandoned lease is cleared. Candidates
\* in the order of their deadlines, then ids: those before the one that is
\* promoted have run out of time.
PromotedFrom(wk, s, c, excluded) ==
    LET deadline == Latest(now, s.cd[c].at)
        before(v, u) == s.ep[v].at < s.ep[u].at \/ (s.ep[v].at = s.ep[u].at /\ v < u)
        eligible == {v \in WaitingIn(s, c) \ {excluded} : Valid(wk, s, v)}
        inTime   == {v \in eligible : ~TooLong(s.ep[v].started, deadline)}
        next     == CHOOSE v \in inTime : \A u \in inTime \ {v} : before(v, u)
        lost     == IF inTime = {} THEN eligible ELSE {v \in eligible \ inTime : before(v, next)}
        s1       == Rescheduled(s, lost, [v \in lost |-> deadline])
    IN  IF Probe(s, c) \notin {NoItem, excluded} THEN s
        ELSE IF inTime = {} THEN DeletedIfIdle(s1, c)
        ELSE Rescheduled([s1 EXCEPT !.cd[c].at = deadline, !.cd[c].probe = next],
                         {next}, [v \in {next} |-> deadline])

\* promoteNextProbe
Promoted(wk, s, c, excluded) ==
    IF s.cd[c].exists THEN PromotedFrom(wk, Cleared(wk, s, c), c, excluded) ELSE s

\* releaseFollowers
Released(s, c) ==
    LET W == WaitingIn(s, c)
    IN  Deleted(Rescheduled(s, W, [v \in W |-> now]), c)

\* Mutant: a probe that is paused or removed is not replaced.
SettledAlone(wk, s, w, outcome) ==
    LET c == s.ep[w].scope
    IN  IF c = NoScope THEN s
        ELSE IF outcome = "recovered" /\ Probe(s, c) = w THEN Released(s, c)
        ELSE DeletedIfIdle(Dropped(s, c, w), c)

\* settleProviderRecoveryCooldown
Settled(wk, s, w, outcome) ==
    LET c == s.ep[w].scope
    IN  IF c = NoScope THEN s
        ELSE IF outcome = "recovered"
        THEN IF Probe(s, c) = w THEN Released(s, c) ELSE DeletedIfIdle(s, c)
        ELSE DeletedIfIdle(Promoted(wk, Dropped(s, c, w), c, w), c)

\* closeOpenProviderRecovery
Closed(wk, s, w, outcome) == Settled(wk, Ended(s, w, "closed"), w, outcome)

\* Mutant: the item keeps the lease of the scope it leaves.
JoiningOnly(wk, s, w, c) ==
    Cleared(wk, IF s.cd[c].exists THEN s
                ELSE [s EXCEPT !.cd[c] = [exists |-> TRUE, at |-> Null, probe |-> NoItem]], c)

\* coordinateProviderRecoverySchedule, up to the point where the new failure is
\* written: the item leaves the cooldown of another scope; a lease nobody has
\* a right to is cleared.
Joining(wk, s, w, c) ==
    LET p  == s.ep[w].scope
        s1 == IF s.cd[c].exists THEN s
              ELSE [s EXCEPT !.cd[c] = [exists |-> TRUE, at |-> Null, probe |-> NoItem]]
        s2 == IF p \in {NoScope, c} THEN s1
              ELSE DeletedIfIdle(Promoted(wk, Dropped(s1, p, w), p, w), p)
    IN  Cleared(wk, s2, c)

\* planTransientProviderFailure: the episode continues, or begins now.
Started(s, w) == IF Open(s.ep[w]) THEN s.ep[w].started ELSE now

Generation(s, w) == IF Open(s.ep[w]) THEN s.ep[w].gen + 1 ELSE 1

\* upsertEpisode
Episode(s, w, status, c, at, gen) ==
    [s EXCEPT !.ep[w] = [status |-> status, scope |-> c, at |-> at, gen |-> gen,
                         started |-> Started(s, w)]]

\* The item has run out of time: exhausted, and another probe instead of it.
GaveUp(wk, s, w, c, gen) ==
    DeletedIfIdle(Promoted(wk, Dropped(Episode(s, w, "exhausted", c, Null, gen), c, w), c, w), c)

\* The last lines of coordinateProviderRecoverySchedule.
Manned(wk, s, c) == IF Probe(s, c) = NoItem THEN Promoted(wk, s, c, NoItem) ELSE s

\* The rest of coordinateProviderRecoverySchedule: plan is the deadline of the
\* item's own schedule, floor the retry time the provider gave, or Null.
Planned(wk, s, w, c, plan, floor) ==
    LET cool     == s.cd[c]
        follows  == cool.probe \notin {NoItem, w}
        standing == IF cool.at > now THEN cool.at ELSE Null
        shared   == IF follows
                    THEN Latest(IF cool.at = Null THEN now ELSE cool.at, floor)
                    ELSE Latest(plan, floor)
        deadline == Latest(plan, shared)
        s1       == Episode(s, w, "scheduled", c, deadline, Generation(s, w))
        s2       == [s1 EXCEPT !.cd[c].at = shared,
                               !.cd[c].probe = IF follows THEN cool.probe ELSE w,
                               !.jobs = @ \union {Wake(s1, w, Generation(s, w), deadline)}]
    IN  IF TooLong(Started(s, w), now) \/ TooLong(Started(s, w), plan) THEN GaveUp(wk, s, w, c, 0)
        ELSE IF TooLong(Started(s, w), deadline) THEN GaveUp(wk, s, w, c, Generation(s, w))
        ELSE IF standing = shared /\ cool.probe # w THEN s2
        ELSE Manned(wk, Realigned(s2, c, shared, w), c)

\* coordinateProviderRecoverySchedule
Coordinated(wk, s, w, c, plan, floor) == Planned(wk, Joining(wk, s, w, c), w, c, plan, floor)

\* Mutant: the repair puts an abandoned attempt back and forgets its deadline.
ParkedBare(wk, s, w) ==
    IF s.ep[w].status # "in_attempt" \/ wk[w].run = "active" THEN s
    ELSE [s EXCEPT !.ep[w].status = "scheduled"]

\* parkClaimedProbeForCiHold
Parked(wk, s, w) ==
    LET e  == s.ep[w]
        s1 == [s EXCEPT !.ep[w] = [e EXCEPT !.status = "scheduled",
                                            !.at = IF e.at = Null THEN now ELSE e.at],
                        !.cd = [c \in Scopes |-> IF s.cd[c].probe = w
                                                 THEN [s.cd[c] EXCEPT !.probe = NoItem] ELSE s.cd[c]]]
    IN  IF e.status # "in_attempt" \/ wk[w].run = "active" THEN s
        ELSE IF e.scope = NoScope THEN s1
        ELSE Promoted(wk, s1, e.scope, w)

\* resumeProviderRecoveryAfterCiHold, for an item that it does not leave alone.
Resumed(s, w) ==
    LET e  == s.ep[w]
        at == Latest(e.at, now)
        same == e.status = "scheduled" /\ e.at = at
        gen  == IF same THEN e.gen ELSE e.gen + 1
    IN  [s EXCEPT !.ep[w] = [e EXCEPT !.status = "scheduled", !.at = at, !.gen = gen],
                  !.jobs = @ \union {Wake(s, w, gen, at)}]

\* supersedeProviderRecoveryWake
Superseded(s, w) ==
    LET e == s.ep[w]
    IN  IF e.status = "scheduled"
        THEN [s EXCEPT !.ep[w] = [e EXCEPT !.status = "in_attempt", !.at = Null, !.gen = e.gen + 1]]
        ELSE s

\* noteManualRecoveryProbe
Noted(wk, s, w) ==
    LET c == s.ep[w].scope
    IN  IF c = NoScope THEN s
        ELSE IF /\ Probe(s, c) \notin {NoItem, w}
                /\ Valid(wk, s, Probe(s, c))
                /\ s.ep[Probe(s, c)].status = "in_attempt"
        THEN s
        ELSE [s EXCEPT !.cd[c].probe = w]

\* hasPendingRecoveryJob: any wake of the item that can still be delivered, of
\* whatever generation.
HasPending(s, w) == \E j \in s.jobs : j.item = w /\ ~j.lock

\* reconcileAbandonedProviderRecoveryProbes, for the cooldown of one scope.
Stuck(wk, s, w) ==
    /\ w # NoItem
    /\ s.ep[w].status = "in_attempt"
    /\ ~wk[w].paused /\ ~wk[w].waiting /\ ~wk[w].held /\ wk[w].run # "active"

\* Mutant: the repair believes whoever holds the lease.
ReconciledIdle(wk, s, c) == IF Probe(s, c) = NoItem THEN Promoted(wk, s, c, NoItem) ELSE s

\* The last lines of its loop: a due probe that nothing will wake gets a wake.
Requeued(s, c) ==
    LET p == Probe(s, c)
        e == s.ep[p]
    IN  IF /\ s.cd[c].exists /\ p # NoItem
           /\ s.cd[c].at # Null /\ s.cd[c].at <= now
           /\ ~HasPending(s, p)
           /\ e.status = "scheduled" /\ e.at <= now
        THEN [s EXCEPT !.jobs = @ \union {Wake(s, p, e.gen, e.at)}]
        ELSE s

ReconciledScope(wk, s, c) ==
    LET p  == Probe(s, c)
        at == Latest(now, s.cd[c].at)
        e  == s.ep[p]
    IN  Requeued(
            IF p = NoItem THEN Promoted(wk, s, c, NoItem)
            ELSE IF Stuck(wk, s, p)
            THEN [s EXCEPT !.ep[p] = [e EXCEPT !.status = "scheduled", !.at = at, !.gen = e.gen + 1],
                           !.jobs = @ \union {Wake(s, p, e.gen + 1, at)}]
            ELSE IF ~Valid(wk, s, p) THEN Promoted(wk, Unowned(s, c), c, p)
            ELSE s,
            c)

\* That turn is no transaction: a crash leaves the statements before it. Unsent: the
\* rows are written, the wake is not enqueued. Weeded: the lease of an owner without
\* a right is cleared, and the first of those who ran out of time are exhausted.
\* LeaseOnly: the next probe has the lease and not yet its deadline.
Unsent(s, t) == [t EXCEPT !.jobs = s.jobs]

Weeded(wk, s, c) ==
    LET p  == Probe(s, c)
        at == Latest(now, s.cd[c].at)
        before(v, u) == s.ep[v].at < s.ep[u].at \/ (s.ep[v].at = s.ep[u].at /\ v < u)
        others == {v \in WaitingIn(s, c) \ {p} : Valid(wk, s, v)}
        first  == {L \in SUBSET {v \in others : TooLong(s.ep[v].started, at)} :
                      \A v \in L, u \in others \ L : before(v, u)}
    IN  IF Valid(wk, s, p) \/ Stuck(wk, s, p) THEN {}
        ELSE {Rescheduled(Unowned(s, c), L, [v \in L |-> at]) : L \in first}

LeaseOnly(s, t, c) ==
    LET p == Probe(t, c)
        e == s.ep[p]
    IN  IF p = NoItem THEN {}
        ELSE {[t EXCEPT !.ep[p].status = e.status, !.ep[p].at = e.at, !.ep[p].gen = e.gen]}

Torn(wk, s, c) ==
    LET t == Unsent(s, ReconciledScope(wk, s, c))
    IN  {t} \union Weeded(wk, s, c) \union LeaseOnly(s, t, c)

-----------------------------------------------------------------------------
(* Actions. *)

World == <<now, maxWait, closed>>
Engine == <<worker, todo, spent>>

\* One of the calls and faults that the bounds allow.
Once(call) ==
    /\ may[call] > 0
    /\ may' = [may EXCEPT ![call] = @ - 1]

\* The process is up: operators' calls and Step Runs.
Serving == worker = "up"

\* shouldHoldOrdinaryRemoteWorkForCiRepair
GateHolds(w) == closed /\ w \in Gated

\* tryAcquireWorkerSlot and, on success, enqueueStepRunForWorkItem: the rows
\* that row may become.
Acquired(w, row) ==
    IF row.held THEN {row}
    ELSE IF GateHolds(w) THEN {[row EXCEPT !.held = TRUE, !.waiting = FALSE]}
    ELSE {[row EXCEPT !.waiting = FALSE, !.run = "active"], [row EXCEPT !.waiting = TRUE]}

Init ==
    /\ now = 0
    /\ maxWait \in MaxWaits
    /\ closed = FALSE
    /\ work = [w \in Items |-> NoWork]
    /\ db = [ep |-> [w \in Items |-> NoEpisode], cd |-> [c \in Scopes |-> NoCooldown], jobs |-> {}]
    /\ worker = "up"
    /\ todo = {}
    /\ auto = {}
    /\ spent = {}
    /\ may \in Plans

Tick ==
    /\ now < MaxTime
    /\ now' = now + 1
    /\ UNCHANGED <<maxWait, closed, work, db, Engine, auto, may>>

\* completeFailedStep of a classified transient failure.
FailTransient(w, c, delay, floor) ==
    LET wk    == [work EXCEPT ![w].run = "failed", ![w].waiting = FALSE]
        retry == IF floor = 0 THEN Null ELSE now + floor
        plan  == Latest(now + delay, retry)
    IN  /\ Serving /\ work[w].run = "active"
        /\ Once(IF floor = 0 THEN "fail" ELSE "floor") /\ plan <= MaxTime
        /\ work' = wk
        /\ db' = IF work[w].paused THEN Closed(wk, db, w, "cancelled")
                 ELSE Coordinated(wk, db, w, c, plan, retry)
        /\ auto' = auto \ {w}
        /\ UNCHANGED <<World, Engine>>

\* completeFailedStep of any other failure.
FailOther(w) ==
    LET wk == [work EXCEPT ![w].run = "failed", ![w].waiting = FALSE]
    IN  /\ Once("other")
        /\ Serving /\ work[w].run = "active"
        /\ work' = wk
        /\ db' = Closed(wk, db, w, "exited")
        /\ auto' = auto \ {w}
        /\ UNCHANGED <<World, Engine>>

\* completeSuccessfulStep: the next step follows at once, unless the Work Item
\* is paused (Succeed) or has reached a terminal state (Finish): complete, or one
\* in which it needs a human or has failed.
Succeed(w) ==
    /\ Serving /\ work[w].run = "active"
    /\ work' = [work EXCEPT ![w].run = IF work[w].paused THEN "none" ELSE "active"]
    /\ db' = Closed([work EXCEPT ![w].run = "none"], db, w, "recovered")
    /\ auto' = auto \ {w}
    /\ UNCHANGED <<World, Engine, may>>

Finish(w) ==
    LET wk == [work EXCEPT ![w].run = "none", ![w].over = TRUE]
    IN  /\ Serving /\ work[w].run = "active"
        /\ Once("finish")
        /\ work' = wk
        /\ \E outcome \in {"recovered", "cancelled"} : db' = Closed(wk, db, w, outcome)
        /\ auto' = auto \ {w}
        /\ UNCHANGED <<World, Engine>>

\* completePostponedStep: GitHub's throttle; the episode stays as it is.
Postpone(w) ==
    /\ Once("postpone")
    /\ Serving /\ work[w].run = "active"
    /\ work' = [work EXCEPT ![w].run = "postponed", ![w].waiting = FALSE]
    /\ auto' = auto \ {w}
    /\ UNCHANGED <<World, Engine, db>>

\* wakePostponedStep
WakePostponed(w) ==
    LET row == work[w]
    IN  /\ Serving /\ row.run = "postponed" /\ ~row.paused /\ ~row.held
        /\ \E r \in Acquired(w, row) : work' = [work EXCEPT ![w] = r]
        /\ UNCHANGED <<World, Engine, db, auto, may>>

\* recoverOrphanedStepRuns: a Step Run whose delivery is gone.
OrphanInterrupt(w) ==
    /\ Once("orphan")
    /\ Serving /\ work[w].run = "active"
    /\ work' = [work EXCEPT ![w].run = "interrupted", ![w].waiting = FALSE]
    /\ auto' = auto \ {w}
    /\ UNCHANGED <<World, Engine, db>>

\* One round of admitWaitingWorkItems.
Admit(w) ==
    LET row == work[w]
    IN  /\ Serving /\ row.waiting /\ ~row.paused /\ ~row.held
        /\ \E r \in Acquired(w, row) : ~r.waiting /\ work' = [work EXCEPT ![w] = r]
        /\ UNCHANGED <<World, Engine, db, auto, may>>

Pause(w) ==
    LET row    == [work[w] EXCEPT !.paused = TRUE]
        queued == [row EXCEPT !.run = "none", !.waiting = FALSE]
        rows   == IF row.run = "active" THEN {row, queued} ELSE {[row EXCEPT !.waiting = FALSE]}
    IN  /\ Once("pause")
        /\ Serving /\ ~work[w].paused /\ ~work[w].over
        /\ \E r \in rows :
              /\ work' = [work EXCEPT ![w] = r]
              /\ db' = Closed([work EXCEPT ![w] = r], db, w, "cancelled")
        /\ UNCHANGED <<World, Engine, auto>>

Start(w) ==
    LET row == [work[w] EXCEPT !.paused = FALSE]
    IN  /\ Serving /\ work[w].paused /\ ~work[w].over
        /\ \E r \in IF row.run = "none" THEN Acquired(w, row) ELSE {row} :
              work' = [work EXCEPT ![w] = r]
        /\ UNCHANGED <<World, Engine, db, auto, may>>

\* interrupt: a paused Work Item whose Step Run is running.
Interrupt(w) ==
    LET wk == [work EXCEPT ![w].run = "interrupted", ![w].paused = FALSE, ![w].waiting = FALSE]
    IN  /\ Serving /\ work[w].paused /\ work[w].run = "active"
        /\ work' = wk
        /\ db' = Closed(wk, db, w, "cancelled")
        /\ auto' = auto \ {w}
        /\ UNCHANGED <<World, Engine, may>>

\* retry of the latest Step Run of the Work Item's state.
Retry(w) ==
    LET row == work[w]
    IN  /\ Once("retry")
        /\ Serving /\ ~row.paused /\ ~row.over /\ row.run \in {"failed", "interrupted"}
        /\ IF GateHolds(w) THEN db' = db ELSE db' = Noted(work, Superseded(db, w), w)
        /\ \E r \in Acquired(w, row) : work' = [work EXCEPT ![w] = r]
        /\ auto' = auto \ {w}
        /\ UNCHANGED <<World, Engine>>

\* reset: the cooldown is settled while the episode is still open, then the
\* rows are deleted. Abandon: the episode is closed, the row stays.
Leave(w, reset) ==
    LET wk == [work EXCEPT ![w] = [NoWork EXCEPT !.run = "none", !.over = TRUE]]
        s  == Settled(work, db, w, "cancelled")
        c  == s.ep[w].scope
    IN  /\ Once("leave")
        /\ Serving /\ ~work[w].over
        /\ work' = wk
        /\ db' = IF reset
                 THEN [s EXCEPT !.ep[w] = NoEpisode,
                                !.cd = [d \in Scopes |-> IF s.cd[d].probe = w
                                                         THEN [s.cd[d] EXCEPT !.probe = NoItem]
                                                         ELSE s.cd[d]]]
                 ELSE Closed(work, db, w, "cancelled")
        /\ auto' = auto \ {w}
        /\ UNCHANGED <<World, Engine>>

\* recordCiRepairGate: the gate of the repository.
MoveGate ==
    /\ Once("gate")
    /\ Serving
    /\ closed' = ~closed
    /\ UNCHANGED <<now, maxWait, work, db, Engine, auto>>

\* The turn of one Work Item in releaseWaitingForCiRepair.
ReleaseHeld(w) ==
    LET row == [work[w] EXCEPT !.held = FALSE]
        own == Open(db.ep[w]) /\ row.run # "active"
    IN  /\ Serving /\ ~closed /\ work[w].held /\ ~work[w].over
        /\ \E r \in IF row.paused \/ own \/ row.run = "active" THEN {row} ELSE Acquired(w, row) :
              work' = [work EXCEPT ![w] = r]
        /\ db' = IF own /\ ~row.paused THEN Resumed(db, w) ELSE db
        /\ auto' = auto \ {w}
        /\ UNCHANGED <<World, Engine, may>>

\* Mutant: the wake does not look at the deadline of the scope.
ClaimAtOnce(s, j) ==
    LET w  == j.item
        e  == s.ep[w]
    IN  IF e.status # "scheduled" \/ e.gen # j.gen THEN [is |-> "stale", db |-> s]
        ELSE [is |-> "claimed",
              db |-> [s EXCEPT !.ep[w] = [e EXCEPT !.status = "in_attempt", !.at = Null,
                                                   !.gen = e.gen + 1]]]

\* gateProviderRecoveryProbe and claimProviderRecoveryWake. The outcome, and
\* the database after them.
Claim(s, j) ==
    LET w    == j.item
        e    == s.ep[w]
        c    == e.scope
        s1   == IF c = NoScope THEN s ELSE Cleared(work, s, c)
        s2   == IF c = NoScope THEN s ELSE [s1 EXCEPT !.cd[c].probe = w]
        moved(status) ==
            [s2 EXCEPT !.ep[w] = [e EXCEPT !.status = status, !.at = Null, !.gen = e.gen + 1]]
    IN  IF e.status # "scheduled" \/ e.gen # j.gen \/ e.at # j.at
        THEN [is |-> "stale", db |-> s]
        ELSE IF c # NoScope /\ s1.cd[c].at > now THEN [is |-> "not_due", db |-> s1]
        ELSE IF c # NoScope /\ Probe(s1, c) \notin {NoItem, w} THEN [is |-> "deferred", db |-> s1]
        ELSE IF TooLong(e.started, now)
        THEN [is |-> "exhausted", db |-> Settled(work, moved("exhausted"), w, "exhausted")]
        ELSE [is |-> "claimed", db |-> moved("in_attempt")]

\* The delivery of a due wake: the worker claims the job, wakeProviderRecovery
\* runs its transaction, the worker acknowledges the job unless the answer was
\* not_due. Between the three nothing but hasPendingRecoveryJob, at start-up,
\* looks at the job: they are one step, that a crash may cut short. A row
\* without another delivery is invisible to every query and leaves the table.
Handled(j, row, r) ==
    LET w    == j.item
        hold == [work EXCEPT ![w].held = TRUE, ![w].waiting = FALSE]
    IN  IF r.is # "claimed" THEN {<<work, r.db, auto>>}
        ELSE IF row.paused \/ row.over \/ row.run = "active"
        THEN {<<work, Closed(work, r.db, w, IF row.paused THEN "cancelled" ELSE "exited"), auto>>}
        ELSE IF GateHolds(w) THEN {<<hold, Parked(hold, r.db, w), auto>>}
        ELSE {<<[work EXCEPT ![w] = n], r.db, auto \union {w}>> : n \in Acquired(w, row)}

Deliver(j, dies) ==
    LET left   == j.left - 1
        locked == IF left = 0 THEN {} ELSE {[j EXCEPT !.left = left, !.lock = TRUE]}
        claimed == [db EXCEPT !.jobs = (@ \ {j}) \union locked]
        r      == Claim(claimed, j)
        acked  == [r EXCEPT !.db.jobs = @ \ locked]
        result == CASE dies = "claimed" -> {<<work, claimed, auto>>}
                    [] dies = "handled" \/ r.is = "not_due" -> Handled(j, work[j.item], r)
                    [] OTHER -> Handled(j, work[j.item], acked)
    IN  /\ Serving /\ ~j.lock /\ j.at <= now
        /\ \E h \in result : work' = h[1] /\ db' = h[2] /\ auto' = h[3]
        /\ IF dies = "no" THEN UNCHANGED <<worker, may>> ELSE Once("crash") /\ worker' = "down"
        /\ spent' = IF dies # "no" /\ left = 0 THEN spent \union {<<j.item, j.gen>>} ELSE spent
        /\ UNCHANGED <<World, todo>>

\* The lease of a wake nobody works on runs out.
LeaseExpires(j) ==
    /\ j.lock
    /\ db' = [db EXCEPT !.jobs = (@ \ {j}) \union {[j EXCEPT !.lock = FALSE]}]
    /\ UNCHANGED <<World, work, Engine, auto, may>>

Crash ==
    /\ Once("crash")
    /\ Serving
    /\ worker' = "down"
    /\ UNCHANGED <<World, work, db, todo, auto, spent>>

\* interruptRunningStepRunsFromPriorWorker: running Step Runs are interrupted
\* in one transaction. A queued one is not: its job is delivered.
Restart(stopped) ==
    /\ worker = "down"
    /\ \A w \in stopped : work[w].run = "active"
    /\ work' = [w \in Items |-> IF w \in stopped
                                THEN [work[w] EXCEPT !.run = "interrupted", !.waiting = FALSE]
                                ELSE work[w]]
    /\ todo' = {c \in Scopes : db.cd[c].exists}
    /\ worker' = IF todo' = {} THEN "up" ELSE "starting"
    /\ auto' = auto \ stopped
    /\ UNCHANGED <<World, db, spent, may>>

\* The turn of one cooldown in reconcileAbandonedProviderRecoveryProbes.
Reconcile(c) ==
    /\ worker = "starting" /\ c \in todo
    /\ db' = ReconciledScope(work, db, c)
    /\ todo' = todo \ {c}
    /\ worker' = IF todo' = {} THEN "up" ELSE "starting"
    /\ UNCHANGED <<World, work, auto, spent, may>>

CrashReconcile ==
    /\ Once("crash")
    /\ worker = "starting"
    /\ worker' = "down"
    /\ todo' = {}
    /\ db' \in {db} \union UNION {Torn(work, db, c) : c \in todo}
    /\ spent' = spent \union
          {<<w, db'.ep[w].gen>> : w \in {v \in Items :
              db'.ep[v].gen # db.ep[v].gen \/ \E c \in Scopes : Probe(db', c) = v /\ Probe(db, c) # v}}
    /\ UNCHANGED <<World, work, auto>>

Next ==
    \/ Tick \/ MoveGate
    \/ \E w \in Items :
          \/ \E c \in Scopes, d \in Delays, f \in Floors : FailTransient(w, c, d, f)
          \/ Succeed(w) \/ Finish(w) \/ \E b \in BOOLEAN : Leave(w, b)
          \/ FailOther(w) \/ Postpone(w) \/ WakePostponed(w) \/ OrphanInterrupt(w)
          \/ Admit(w) \/ ReleaseHeld(w)
          \/ Pause(w) \/ Start(w) \/ Interrupt(w) \/ Retry(w)
    \/ \E j \in db.jobs :
          \/ \E dies \in {"no", "claimed", "handled"} : Deliver(j, dies)
          \/ LeaseExpires(j)
    \/ Crash \/ CrashReconcile
    \/ \E stopped \in SUBSET Items : Restart(stopped)
    \/ \E c \in Scopes : Reconcile(c)

Spec == Init /\ [][Next]_vars
-----------------------------------------------------------------------------
(* Properties. *)

TypeOK ==
    /\ now \in 0..MaxTime
    /\ maxWait \in MaxWaits
    /\ closed \in BOOLEAN
    /\ work \in [Items -> [paused : BOOLEAN, held : BOOLEAN, waiting : BOOLEAN, over : BOOLEAN,
                           run : {"none", "active", "failed", "postponed", "interrupted"}]]
    /\ db.cd \in [Scopes -> [exists : BOOLEAN, at : 0..MaxTime \union {Null},
                             probe : Items \union {NoItem}]]
    /\ db.ep \in [Items -> [status : {"none", "scheduled", "in_attempt", "exhausted", "closed"},
                            scope : Scopes \union {NoScope}, at : 0..MaxTime \union {Null},
                            gen : Nat, started : 0..MaxTime]]
    /\ \A w \in Items : db.ep[w].status = "scheduled" <=> db.ep[w].at # Null
    /\ \A j \in db.jobs : j \in [item : Items, gen : Nat, at : 0..MaxTime, left : {1, 2},
                                 lock : BOOLEAN, copy : Nat]
    /\ worker \in {"up", "down", "starting"}
    /\ todo \subseteq Scopes /\ auto \subseteq Items /\ spent \subseteq Items \X Nat
    /\ may \in [Calls -> Nat]

Attempting(w) == work[w].run = "active" \/ work[w].waiting

\* A wake that will be delivered for the present deadline of w.
Expected(w) ==
    \E j \in db.jobs : j.item = w /\ j.gen = db.ep[w].gen /\ j.at = db.ep[w].at

\* A Step Run of v is queued or running, or will be: it waits for a Worker Slot or
\* for the end of a throttle.
AtWork(v) == Attempting(v) \/ work[v].run = "postponed"

\* The lease of v leads nowhere until somebody retries v, takes it out of the
\* scope or, in the first case, starts the process again. Orphan recovery has ended
\* its attempt and settled nothing; or a crash has cost its wake: both deliveries of
\* it, or the one that the start-up repair was about to enqueue.
Spent(v) == <<v, db.ep[v].gen>> \in spent

Stranded(v) == Spent(v) \/ (db.ep[v].status = "in_attempt" /\ work[v].run = "interrupted")

\* A wake that finds the probe taken is acknowledged and not enqueued again
\* (deferred). Whoever waits without a wake of its own therefore waits for a
\* member of its scope that a wake will come for, or for the holder of the lease,
\* who is at work, or is stranded. What the hold of a closed CI gate does to a
\* probe is left out: there the code may strand it too.
WaitsForSomebody ==
    \A w \in Items \ Gated :
        LET c == db.ep[w].scope
            p == Probe(db, c)
        IN  worker = "up" /\ db.ep[w].status = "scheduled" /\ ~Expected(w) /\ ~Spent(w)
                => /\ c # NoScope
                   /\ \/ \E v \in OpenIn(db, c) : Expected(v)
                      \/ p # NoItem /\ (AtWork(p) \/ Stranded(p) \/ p \in Gated)

\* The lease of a scope is held by a Work Item whose episode belongs to that
\* scope: the settling of an episode finds the lease by the episode's scope
\* alone, and would leave any other behind.
ProbeBelongsToScope ==
    \A c \in Scopes : Probe(db, c) # NoItem => db.ep[Probe(db, c)].scope = c

\* Of the Work Items of a scope at most one is in an attempt that a wake began:
\* the single recovery attempt admitted for a cooling scope, across a restart too. An
\* attempt that GitHub postpones or an operator retries no longer counts as begun by
\* a wake: when the throttle ends, it may run beside the next probe.
SoleProbe ==
    \A v, w \in auto :
        /\ v # w /\ db.ep[v].status = "in_attempt" /\ db.ep[w].status = "in_attempt"
        /\ db.ep[v].scope = db.ep[w].scope /\ db.ep[v].scope # NoScope
        => ~(Attempting(v) /\ Attempting(w))

\* The next attempt shown for a Work Item is not earlier than the deadline of
\* its scope, while that is to come. A released CI hold is left out: its item
\* shows the moment of the release.
DeadlineShown ==
    \A w \in Items \ Gated, c \in Scopes :
        db.ep[w].status = "scheduled" /\ db.ep[w].scope = c /\ db.cd[c].at > now
            => db.ep[w].at >= db.cd[c].at

\* No next attempt is put past the Work Item's own elapsed-time limit: it is
\* exhausted instead, also when somebody else's failure moves the deadline. The
\* start-up repair is left out: it gives an interrupted probe the deadline of
\* the scope, whatever its limit.
LimitShown ==
    [][worker # "starting" =>
          \A w \in Items :
             LET e == db'.ep[w]
             IN  e.status = "scheduled" /\ e.at > now /\ e.at # db.ep[w].at
                    => ~TooLong(e.started, e.at)]_vars

\* No wake begins an attempt before the deadline of the scope, however old the
\* wake is and whatever moved the deadline since.
NoAttemptInCooldown ==
    [][\A w \in auto' \ auto : \A c \in Scopes :
          db.ep[w].scope = c => db.cd[c].at <= now]_vars

\* The start-up repair leaves each cooldown with a lease its owner has a right
\* to, or with nobody who could take it.
RepairedAtRestart ==
    [][worker = "starting" /\ worker' = "up" =>
          \A c \in Scopes : db'.cd[c].exists =>
             IF Probe(db', c) = NoItem
             THEN \A w \in WaitingIn(db', c) : ~Valid(work', db', w)
             ELSE Valid(work', db', Probe(db', c))]_vars
=============================================================================
