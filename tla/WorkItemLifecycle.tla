------------------------- MODULE WorkItemLifecycle -------------------------
(***************************************************************************)
(* Work Items, their Step Runs and the Worker Slots they hold              *)
(* (packages/work-item-lifecycle/src/lib/work-item-lifecycle.ts), with the *)
(* lifecycle worker that delivers their jobs                               *)
(* (apps/harness/src/server/job-worker.ts).                                *)
(*                                                                         *)
(* A transaction is one action. What a caller reads before its transaction *)
(* and still relies on inside it is kept in calls or pass: the step that   *)
(* retry is going to enqueue, the waiters an admission pass has listed.    *)
(*                                                                         *)
(* Data abstraction: a Work Item keeps its latest Step Run and that run's  *)
(* job (the wake job of a postponed run); the unique index on active Step  *)
(* Runs makes every older run a finished one. Its lifecycle step is any    *)
(* member of Steps, whichever the transition relation allows next.         *)
(***************************************************************************)
EXTENDS JobRows, WaitingLine, FiniteSets

CONSTANTS
    Items, NoItem,
    Steps,          \* operational states
    FirstStep,      \* create_worktree
    Limits,         \* values of maxConcurrentWorkItems
    Passes,         \* fibers that can be in an admission pass
    NoJob,
    Allowed,        \* bound: the calls and faults that occur
    MaxCalls        \* bound: calls between their reads and their transaction

ASSUME LifecycleAssumption ==
    /\ IsFiniteSet(Items) /\ NoItem \notin Items
    /\ FirstStep \in Steps
    /\ Steps \intersect {"complete", "failed", "abandoned", "needs_human", "absent"} = {}
    /\ Limits \subseteq Nat \ {0}
    /\ NoJob \notin Rows
    /\ MaxCalls \in Nat

VARIABLES
    limit,          \* maxConcurrentWorkItems
    item,           \* the rows of work_item, step_run and job_queue, by Work Item
    line,           \* Work Items with waiting_since, in its order
    handler,        \* the execution of the latest Step Run, in this process
    late,           \* an execution of an older one
    calls,          \* operator calls between reading and committing
    pass,           \* admission passes
    owed            \* some handler is about to begin an admission pass

vars == <<limit, item, line, handler, late, calls, pass, owed>>

Terminal == {"complete", "failed", "abandoned"}
Settled == Terminal \union {"needs_human"}

Statuses == {"none", "queued", "running", "postponed", "succeeded", "failed",
             "interrupted", "cancelled"}

WorkItems == [state : Steps \union Settled \union {"absent"},
              paused : BOOLEAN, holds : BOOLEAN,
              step : Steps, status : Statuses, due : BOOLEAN,
              job : Rows \union {NoJob}]

NewItem == [state |-> "absent", paused |-> FALSE, holds |-> FALSE,
            step |-> FirstStep, status |-> "none", due |-> FALSE, job |-> NoJob]

IdlePass == [phase |-> "idle", free |-> 0, todo |-> {}, short |-> FALSE, any |-> FALSE,
             wake |-> NoItem]

-----------------------------------------------------------------------------
(* Operators on Work Item rows. *)

Active(w) == w.status \in {"queued", "running"}

Occupied == Cardinality({i \in Items : item[i].holds})

InLine == line.in

\* enqueueStepRunForWorkItem: retryLimit 1 allows two deliveries.
Enqueued(w, step) ==
    [w EXCEPT !.step = step, !.status = "queued", !.due = FALSE, !.job = NewRow(2, TRUE)]

\* UPDATE step_run ... WHERE status = 'running'.
Finished(w, status) == IF w.status = "running" THEN [w EXCEPT !.status = status] ELSE w

\* Pause and Abandon cancel a queued run and acknowledge its job.
Cancelled(w) ==
    IF w.status = "queued" THEN [w EXCEPT !.status = "cancelled", !.job = NoJob] ELSE w

Acknowledged(w) == [w EXCEPT !.job = NoJob]

\* Mutant: the slot is not given back.
ParkKeepsSlot(i, w) ==
    /\ item' = [item EXCEPT ![i] = w]
    /\ line' = Without(line, {i})

\* A Work Item's row changes to w, gives back its slot and leaves the line.
Park(i, w) ==
    /\ item' = [item EXCEPT ![i] = [w EXCEPT !.holds = FALSE]]
    /\ line' = Without(line, {i})

\* An interrupt in flight keeps the id of the run it found; rest are the calls
\* that go on once i has a new run.
Overtaken(rest, i) ==
    {IF c.kind = "interrupt" /\ c.item = i /\ c.about = "latest"
        THEN [c EXCEPT !.about = item[i].status] ELSE c : c \in rest}

\* A new run makes an execution that is still busy with the previous one late.
\* Bound: one late execution for each Work Item.
Supersede(i) ==
    IF handler[i] \in {"running", "cancelling"}
    THEN /\ late[i] = "none"
         /\ late' = [late EXCEPT ![i] = handler[i]]
         /\ handler' = [handler EXCEPT ![i] = "none"]
    ELSE /\ handler' = [handler EXCEPT ![i] = "none"]
         /\ UNCHANGED late

\* Mutant: one admission too many.
RoomForOneMore(w) == w.holds \/ Occupied <= limit

\* tryAcquireWorkerSlot: whether w, the row of a Work Item, gets a slot.
Room(w) == w.holds \/ Occupied < limit

\* Mutant: who waits already joins the line once more.
WaitAgain(i, w) ==
    /\ ~Room(w)
    /\ item' = [item EXCEPT ![i] = w]
    /\ line' = Joined(line, i)

\* The waiting branch of tryAcquireWorkerSlot; waiting_since is set once.
Wait(i, w) ==
    /\ ~Room(w)
    /\ item' = [item EXCEPT ![i] = w]
    /\ line' = IF i \in InLine THEN line ELSE Joined(line, i)

\* tryAcquireWorkerSlot and, when it succeeds, enqueueStepRunForWorkItem.
Admit(i, w, step, rest) ==
    \/ /\ Room(w)
       /\ item' = [item EXCEPT ![i] = Enqueued([w EXCEPT !.holds = TRUE], step)]
       /\ line' = Without(line, {i})
       /\ Supersede(i)
       /\ calls' = Overtaken(rest, i)
    \/ /\ Wait(i, w)
       /\ calls' = rest
       /\ UNCHANGED <<handler, late>>

-----------------------------------------------------------------------------
Init ==
    /\ limit \in Limits
    /\ item = [i \in Items |-> NewItem]
    /\ line = NoLine
    /\ handler = [i \in Items |-> "none"]
    /\ late = [i \in Items |-> "none"]
    /\ calls = {}
    /\ pass = [p \in Passes |-> IdlePass]
    /\ owed = FALSE

(* The worker delivers a job and runs its step. *)

\* Mutant: a job is delivered once more than its limit.
DeliverAgain(i) ==
    /\ item[i].job # NoJob /\ item[i].status # "postponed"
    /\ ClaimableAgain(item[i].job)
    /\ item' = [item EXCEPT ![i].job = ClaimedRow(@)]
    /\ handler' = [handler EXCEPT ![i] = IF @ = "none" THEN "delivered" ELSE @]
    /\ UNCHANGED <<limit, line, late, calls, pass, owed>>

\* Claim and extendVisibility; an execution already registered makes the
\* delivery a no-op.
Deliver(i) ==
    /\ item[i].job # NoJob /\ item[i].status # "postponed"
    /\ Claimable(item[i].job)
    /\ item' = [item EXCEPT ![i].job = ClaimedRow(@)]
    /\ handler' = [handler EXCEPT ![i] = IF @ = "none" THEN "delivered" ELSE @]
    /\ UNCHANGED <<limit, line, late, calls, pass, owed>>

Startable(w) == w.status = "queued" /\ w.state = w.step /\ ~w.paused

StartStep(i) ==
    /\ handler[i] = "delivered"
    /\ Startable(item[i])
    /\ item' = [item EXCEPT ![i].status = "running"]
    /\ handler' = [handler EXCEPT ![i] = "running"]
    /\ UNCHANGED <<limit, line, late, calls, pass, owed>>

\* Mutant: whatever is not started is done with.
SkipAnyStep(i) ==
    /\ handler[i] = "delivered"
    /\ ~Startable(item[i])
    /\ item' = [item EXCEPT ![i] = Acknowledged(@)]
    /\ handler' = [handler EXCEPT ![i] = "none"]
    /\ UNCHANGED <<limit, line, late, calls, pass, owed>>

\* Not startable: a finished run's job is acknowledged, a queued one stays.
SkipStep(i) ==
    /\ handler[i] = "delivered"
    /\ ~Startable(item[i])
    /\ item' = [item EXCEPT ![i] =
          IF @.status \in {"queued", "running", "postponed"} THEN @ ELSE Acknowledged(@)]
    /\ handler' = [handler EXCEPT ![i] = "none"]
    /\ UNCHANGED <<limit, line, late, calls, pass, owed>>

\* A run left running by a stopped process, its time used up: interrupted, or
\* failed for Review.
ExpireStep(i) ==
    /\ handler[i] = "delivered"
    /\ item[i].status = "running"
    /\ \/ Park(i, Acknowledged(Finished(item[i], "interrupted")))
       \/ Park(i, [Finished(item[i], "failed") EXCEPT !.job = DeadLetteredRow(@)])
    /\ handler' = [handler EXCEPT ![i] = "none"]
    /\ owed' = TRUE
    /\ UNCHANGED <<limit, late, calls, pass>>

-----------------------------------------------------------------------------
(* The outcomes of a step. The transaction that reports success or failure  *)
(* also acknowledges or dead-letters the job; a job that is gone undoes it.  *)

Working(i) == handler[i] \in {"running", "cancelling"}

EndHandler(i) == handler' = [handler EXCEPT ![i] = "none"]

Succeeded(w) == Acknowledged(Finished(w, "succeeded"))

\* Mutant: a success is reported although the job is gone.
Unfenced(i) == Working(i)

HoldsJob(i) == Working(i) /\ item[i].job # NoJob

Advance(i) ==
    /\ HoldsJob(i)
    /\ ~item[i].paused
    /\ \E next \in Steps :
          item' = [item EXCEPT ![i] = Enqueued([Succeeded(@) EXCEPT !.state = next], next)]
    /\ EndHandler(i)
    /\ owed' = (owed \/ ~item[i].holds)
    /\ UNCHANGED <<limit, line, late, calls, pass>>

\* Success that goes no further: the operator paused meanwhile, pause_before_step
\* names the next step, or the Issue was closed while its pull request is owned.
AdvancePaused(i) ==
    /\ HoldsJob(i)
    /\ \E next \in Steps :
          Park(i, [Succeeded(item[i]) EXCEPT !.state = next, !.paused = TRUE])
    /\ EndHandler(i)
    /\ owed' = TRUE
    /\ UNCHANGED <<limit, late, calls, pass>>

\* complete, needs_human, or failed because revalidation stops the Issue.
Settle(i) ==
    /\ HoldsJob(i)
    /\ \E state \in {"complete", "needs_human", "failed"} :
          Park(i, [Succeeded(item[i]) EXCEPT !.state = state])
    /\ EndHandler(i)
    /\ owed' = TRUE
    /\ UNCHANGED <<limit, late, calls, pass>>

\* The owned pull request was merged: straight to clean-up, paused or not.
AdvanceMerged(i) ==
    /\ HoldsJob(i)
    /\ EndHandler(i)
    /\ \E next \in Steps :
          LET w == [Succeeded(item[i]) EXCEPT !.state = next, !.paused = FALSE] IN
          \/ /\ Room(w)
             /\ item' = [item EXCEPT ![i] = Enqueued([w EXCEPT !.holds = TRUE], next)]
             /\ line' = Without(line, {i})
          \/ /\ ~Room(w)      \* waiting_since was cleared first
             /\ item' = [item EXCEPT ![i] = w]
             /\ line' = Joined(Without(line, {i}), i)
    /\ owed' = (owed \/ ~item'[i].holds)
    /\ UNCHANGED <<limit, late, calls, pass>>

FailStep(i) ==
    /\ HoldsJob(i)
    /\ LET w == [Finished(item[i], "failed") EXCEPT !.job = DeadLetteredRow(@)] IN
       \/ Park(i, w)
       \/ Park(i, [w EXCEPT !.state = "failed"])
    /\ EndHandler(i)
    /\ owed' = TRUE
    /\ UNCHANGED <<limit, late, calls, pass>>

\* GitHub throttled the step; the wake job is due when the deadline passes.
PostponeStep(i) ==
    /\ HoldsJob(i)
    /\ item[i].status = "running"
    /\ Park(i, [item[i] EXCEPT !.status = "postponed", !.due = FALSE, !.job = NewRow(2, FALSE)])
    /\ EndHandler(i)
    /\ owed' = TRUE
    /\ UNCHANGED <<limit, late, calls, pass>>

\* completeInterruptedStep releases the slot whatever became of the run, and does
\* not mind a missing job.
StopStep(i) ==
    /\ handler[i] = "cancelling"
    /\ Park(i, Acknowledged(Finished(item[i], "interrupted")))
    /\ EndHandler(i)
    /\ owed' = TRUE
    /\ UNCHANGED <<limit, late, calls, pass>>

\* The job is gone: the report is rolled back.
FenceOff(i) ==
    /\ Working(i)
    /\ item[i].job = NoJob
    /\ EndHandler(i)
    /\ UNCHANGED <<limit, item, line, late, calls, pass, owed>>

\* The same for a late execution, whose job is gone for certain.
FenceOffLate(i) ==
    /\ late[i] \in {"running", "cancelling"}
    /\ late' = [late EXCEPT ![i] = "none"]
    /\ UNCHANGED <<limit, item, line, handler, calls, pass, owed>>

StopLate(i) ==
    /\ late[i] = "cancelling"
    /\ Park(i, item[i])
    /\ late' = [late EXCEPT ![i] = "none"]
    /\ owed' = TRUE
    /\ UNCHANGED <<limit, handler, calls, pass>>

-----------------------------------------------------------------------------
(* Time and faults. *)

\* Without the fault "outlive" no execution lasts longer than its lease.
LockExpires(i) ==
    /\ item[i].job # NoJob
    /\ item[i].job.lock = "live"
    /\ "outlive" \in Allowed \/ (handler[i] = "none" /\ \A p \in Passes : pass[p].wake # i)
    /\ item' = [item EXCEPT ![i].job = ExpiredRow(@)]
    /\ UNCHANGED <<limit, line, handler, late, calls, pass, owed>>

\* postponed_until passes, and with it the wake job's available_at.
DeadlinePasses(i) ==
    /\ item[i].status = "postponed" /\ ~item[i].due
    /\ item' = [item EXCEPT ![i].due = TRUE,
                            ![i].job = IF @ = NoJob THEN NoJob ELSE DueRow(@)]
    /\ UNCHANGED <<limit, line, handler, late, calls, pass, owed>>

\* Mutant: the slots of the interrupted runs are forgotten.
InterruptedKeepsSlot(S) ==
    /\ item' = [i \in Items |->
          IF i \in S THEN [item[i] EXCEPT !.status = "interrupted", !.job = NoJob] ELSE item[i]]
    /\ line' = Without(line, S)

Interrupted(S) ==
    /\ item' = [i \in Items |->
          IF i \in S THEN [item[i] EXCEPT !.status = "interrupted", !.job = NoJob, !.holds = FALSE]
                     ELSE item[i]]
    /\ line' = Without(line, S)

\* Mutant: a job that used up its deliveries is not looked for.
OrphansWithoutJob == {i \in Items : item[i].status = "running" /\ item[i].job = NoJob}

\* recoverOrphanedStepRuns: running, and nobody will deliver the job again.
Orphans ==
    {i \in Items : /\ item[i].status = "running"
                   /\ \/ item[i].job = NoJob
                      \/ Exhausted(item[i].job) /\ item[i].job.lock # "live"}

\* Those its first query lists, without those that become orphans before its
\* transaction. In between an orphan stays one until its run ends (OrphansStay),
\* and the transaction skips a run that ended.
RecoverOrphans ==
    /\ \E found \in SUBSET Orphans : found # {} /\ Interrupted(found)
    /\ owed' = TRUE
    /\ UNCHANGED <<limit, handler, late, calls, pass>>

\* The process dies. The next one interrupts every running Step Run before it
\* accepts claims; when that fails it logs the error and goes on.
Restart ==
    /\ "restart" \in Allowed
    /\ handler' = [i \in Items |-> "none"]
    /\ late' = [i \in Items |-> "none"]
    /\ calls' = {}
    /\ pass' = [p \in Passes |-> IdlePass]
    /\ UNCHANGED limit
    /\ \/ LET running == {i \in Items : item[i].status = "running"} IN
          Interrupted(running) /\ owed' = (running # {})
       \/ UNCHANGED <<item, line>> /\ owed' = FALSE

-----------------------------------------------------------------------------
(* Operator calls of one transaction. *)

\* Mutant: nobody is admitted when the limit changes.
SetLimitQuietly ==
    /\ "limit" \in Allowed
    /\ limit' \in Limits \ {limit}
    /\ UNCHANGED <<item, line, handler, late, calls, pass, owed>>

SetLimit ==
    /\ "limit" \in Allowed
    /\ limit' \in Limits \ {limit}
    /\ owed' = TRUE
    /\ UNCHANGED <<item, line, handler, late, calls, pass>>

Create(i) ==
    /\ item[i].state = "absent"
    /\ Admit(i, [item[i] EXCEPT !.state = FirstStep], FirstStep, calls)
    /\ UNCHANGED <<limit, pass, owed>>

\* Mutant: the slot goes at once, although the step is running.
PauseAtOnce(i) ==
    /\ "pause" \in Allowed
    /\ item[i].state \in Steps /\ ~item[i].paused
    /\ Park(i, [Cancelled(item[i]) EXCEPT !.paused = TRUE])
    /\ owed' = TRUE
    /\ UNCHANGED <<limit, handler, late, calls, pass>>

Pause(i) ==
    /\ "pause" \in Allowed
    /\ item[i].state \in Steps /\ ~item[i].paused
    /\ LET w == [Cancelled(item[i]) EXCEPT !.paused = TRUE] IN
       \/ w.status # "running" /\ Park(i, w) /\ owed' = TRUE
       \/ /\ w.status = "running"
          /\ item' = [item EXCEPT ![i] = w]
          /\ owed' = (owed \/ ~w.holds)
          /\ UNCHANGED line
    /\ UNCHANGED <<limit, handler, late, calls, pass>>

\* The latest run of the current step asks for Retry, or for its deadline.
NeedsRetry(w) == w.step = w.state /\ w.status \in {"failed", "interrupted"}
NotDue(w) == w.step = w.state /\ w.status = "postponed" /\ ~w.due

Start(i) ==
    /\ "pause" \in Allowed
    /\ item[i].state \in Steps
    /\ item[i].paused \/ (item[i].step = item[i].state /\ item[i].status = "postponed" /\ item[i].due)
    /\ LET w == [item[i] EXCEPT !.paused = FALSE] IN
       \/ /\ Active(w) \/ NeedsRetry(w) \/ NotDue(w)
          /\ item' = [item EXCEPT ![i] = w]
          /\ UNCHANGED <<line, handler, late, calls>>
       \/ /\ ~(Active(w) \/ NeedsRetry(w) \/ NotDue(w))
          /\ Admit(i, w, w.state, calls)
    /\ UNCHANGED <<limit, pass, owed>>

\* resume of a Decision needed handoff.
Resume(i) ==
    /\ "human" \in Allowed
    /\ item[i].state = "needs_human" /\ ~Active(item[i])
    /\ Admit(i, [item[i] EXCEPT !.state = FirstStep, !.paused = FALSE], FirstStep, calls)
    /\ UNCHANGED <<limit, pass, owed>>

Abandon(i) ==
    /\ "abandon" \in Allowed
    /\ item[i].state \in Steps /\ item[i].status # "running"
    /\ Park(i, [Cancelled(item[i]) EXCEPT !.state = "abandoned"])
    /\ owed' = TRUE
    /\ UNCHANGED <<limit, handler, late, calls, pass>>

-----------------------------------------------------------------------------
(* Operator calls that rely in their transaction on what they read before. *)

Call(kind, i, about) == [kind |-> kind, item |-> i, about |-> about]

Begin(c) ==
    /\ Cardinality(calls) < MaxCalls /\ c \notin calls
    /\ calls' = calls \union {c}

\* retry reads that the Work Item is eligible and which step it will enqueue.
ReadForRetry(i) ==
    /\ "retry" \in Allowed
    /\ ~item[i].paused /\ ~Active(item[i])
    /\ item[i].state \in Steps /\ NeedsRetry(item[i])
    /\ Begin(Call("retry", i, item[i].state))
    /\ UNCHANGED <<limit, item, line, handler, late, pass, owed>>

\* The same for a retryable handoff or a failure whose Issue is open again: the
\* transaction moves the Work Item back to an operational step.
ReadForRestore(i) ==
    /\ "restore" \in Allowed
    /\ ~Active(item[i])
    /\ \/ item[i].state = "needs_human" /\ item[i].status = "succeeded"
       \/ item[i].state = "failed" /\ ~item[i].paused
    /\ \E step \in Steps : Begin(Call("restore", i, step))
    /\ UNCHANGED <<limit, item, line, handler, late, pass, owed>>

\* Only the absence of an active run is looked at again.
CommitRetry(c) ==
    /\ c.kind \in {"retry", "restore"}
    /\ LET w == item[c.item] IN
       \/ /\ Active(w)
          /\ calls' = calls \ {c}
          /\ UNCHANGED <<item, line, handler, late>>
       \/ /\ ~Active(w) /\ c.kind = "retry"
          /\ Admit(c.item, w, c.about, calls \ {c})
       \/ /\ ~Active(w) /\ c.kind = "restore"
          /\ Admit(c.item, [w EXCEPT !.state = c.about, !.paused = FALSE], c.about, calls \ {c})
    /\ UNCHANGED <<limit, pass, owed>>

\* abandon of a Needs Human item takes a slot for the clean-up, or waits.
AbandonNeedsHuman(i) ==
    /\ "human" \in Allowed
    /\ item[i].state = "needs_human"
    /\ \/ /\ Room(item[i])
          /\ Begin(Call("cleanup", i, "latest"))
          /\ item' = [item EXCEPT ![i].holds = TRUE]
          /\ line' = Without(line, {i})
       \/ Wait(i, item[i]) /\ UNCHANGED calls
    /\ UNCHANGED <<limit, handler, late, pass, owed>>

CommitAbandon(c) ==
    /\ c.kind = "cleanup"
    /\ calls' = calls \ {c}
    /\ LET w == item[c.item] IN
       \/ /\ w.state = "needs_human" /\ w.status # "running"
          /\ Park(c.item, [Cancelled(w) EXCEPT !.state = "abandoned"])
          /\ owed' = TRUE
       \/ /\ w.state # "needs_human" \/ w.status = "running"
          /\ UNCHANGED <<item, line, owed>>
    /\ UNCHANGED <<limit, handler, late, pass>>

\* A failed clean-up leaves the slot with the item.
CleanupFails(c) ==
    /\ c.kind = "cleanup"
    /\ calls' = calls \ {c}
    /\ UNCHANGED <<limit, item, line, handler, late, pass, owed>>

\* interrupt cancels the executions of the Work Item and awaits their end.
ReadForInterrupt(i) ==
    /\ "interrupt" \in Allowed
    /\ item[i].state \in Steps /\ item[i].paused /\ item[i].status = "running"
    /\ Begin(Call("interrupt", i, "latest"))
    /\ handler' = [handler EXCEPT ![i] = IF @ = "running" THEN "cancelling" ELSE @]
    /\ late' = [late EXCEPT ![i] = IF @ = "running" THEN "cancelling" ELSE @]
    /\ UNCHANGED <<limit, item, line, pass, owed>>

CommitInterrupt(c) ==
    /\ c.kind = "interrupt"
    /\ handler[c.item] # "cancelling" /\ late[c.item] # "cancelling"
    /\ calls' = calls \ {c}
    /\ LET w == item[c.item]
           status == IF c.about = "latest" THEN w.status ELSE c.about
           stopped == IF c.about = "latest" THEN Acknowledged(Finished(w, "interrupted")) ELSE w
       IN
       \/ /\ w.state \in Settled
          /\ UNCHANGED <<item, line, owed>>
       \/ /\ w.state \notin Settled /\ status \in {"running", "interrupted"}
          /\ Park(c.item, [stopped EXCEPT !.paused = FALSE])
          /\ owed' = TRUE
       \/ /\ w.state \notin Settled /\ status \notin {"running", "interrupted"}
          /\ owed' = TRUE
          /\ UNCHANGED <<item, line>>
    /\ UNCHANGED <<limit, handler, late, pass>>

-----------------------------------------------------------------------------
(* admitWaitingWorkItems: list as many waiters as slots are free, admit them *)
(* one transaction each, and list again. A due wake first makes a pass.      *)

Waiter(i) == ~item[i].holds /\ ~item[i].paused /\ item[i].state \notin Terminal

\* The first n waiters of the line, with the state they are in.
Listed(n) ==
    LET waiting == {i \in InLine : Waiter(i)}
        rank(i) == Cardinality({j \in waiting : <<j, i>> \in line.before})
    IN  {[item |-> i, state |-> item[i].state, rank |-> rank(i)] :
            i \in {j \in waiting : rank(j) < n}}

\* The round in which p is: a wake goes on to its own transaction.
Round(p, phase) == [IdlePass EXCEPT !.phase = phase, !.wake = pass[p].wake]

PassEnds(p) ==
    pass' = [pass EXCEPT ![p] = IF @.wake = NoItem THEN IdlePass ELSE Round(p, "wake")]

BeginPass(p) ==
    /\ owed /\ pass[p].phase = "idle"
    /\ owed' = FALSE
    /\ pass' = [pass EXCEPT ![p].phase = "count"]
    /\ UNCHANGED <<limit, item, line, handler, late, calls>>

CountFree(p) ==
    /\ pass[p].phase = "count"
    /\ IF Occupied >= limit
       THEN PassEnds(p)
       ELSE pass' = [pass EXCEPT ![p] = [@ EXCEPT !.phase = "list", !.free = limit - Occupied]]
    /\ UNCHANGED <<limit, item, line, handler, late, calls, owed>>

ListWaiters(p) ==
    /\ pass[p].phase = "list"
    /\ LET waiters == Listed(pass[p].free) IN
       IF waiters = {}
       THEN PassEnds(p)
       ELSE pass' = [pass EXCEPT ![p] =
               [@ EXCEPT !.phase = "admit", !.free = 0, !.todo = waiters,
                         !.short = Cardinality(waiters) < pass[p].free]]
    /\ UNCHANGED <<limit, item, line, handler, late, calls, owed>>

Skip(p, w) == pass' = [pass EXCEPT ![p].todo = @ \ {w}]
Took(p, w) == pass' = [pass EXCEPT ![p].todo = @ \ {w}, ![p].any = TRUE]

\* The waiter is admitted on the strength of the list: neither the pause nor the
\* state it got since then is looked at.
AdmitWaiter(p) ==
    /\ pass[p].phase = "admit"
    /\ \E w \in pass[p].todo :
          /\ \A v \in pass[p].todo : w.rank <= v.rank
          /\ \/ /\ Occupied >= limit      \* no slot is free any more
                /\ pass' = [pass EXCEPT ![p].todo = {}]
                /\ UNCHANGED <<item, line, handler, late, calls>>
             \/ /\ w.state = "needs_human"
                /\ Skip(p, w)
                /\ UNCHANGED <<item, line, handler, late, calls>>
             \/ /\ w.state # "needs_human" /\ ~Room(item[w.item])   \* taken after the look
                /\ Wait(w.item, item[w.item])
                /\ Skip(p, w)
                /\ UNCHANGED <<handler, late, calls>>
             \/ /\ w.state # "needs_human" /\ Room(item[w.item]) /\ Active(item[w.item])
                /\ item' = [item EXCEPT ![w.item].holds = TRUE]
                /\ line' = Without(line, {w.item})
                /\ Took(p, w)
                /\ UNCHANGED <<handler, late, calls>>
             \/ /\ w.state # "needs_human" /\ Room(item[w.item]) /\ ~Active(item[w.item])
                /\ Admit(w.item, item[w.item], w.state, calls)
                /\ Took(p, w)
    /\ UNCHANGED <<limit, owed>>

EndRound(p) ==
    /\ pass[p].phase = "admit" /\ pass[p].todo = {}
    /\ IF pass[p].short \/ ~pass[p].any
       THEN PassEnds(p)
       ELSE pass' = [pass EXCEPT ![p] = Round(p, "count")]
    /\ UNCHANGED <<limit, item, line, handler, late, calls, owed>>

\* The wake job of a postponed run is delivered.
BeginWake(i, p) ==
    /\ pass[p].phase = "idle"
    /\ item[i].status = "postponed" /\ item[i].job # NoJob
    /\ Claimable(item[i].job)
    /\ item' = [item EXCEPT ![i].job = ClaimedRow(@)]
    /\ pass' = [pass EXCEPT ![p] = [@ EXCEPT !.phase = "count", !.wake = i]]
    /\ UNCHANGED <<limit, line, handler, late, calls, owed>>

\* The wake is stale when its run is no longer the latest, and when the Work Item
\* is paused or has moved on.
CommitWake(p) ==
    /\ pass[p].phase = "wake"
    /\ LET i == pass[p].wake
           w == item[i]
           current == w.status = "postponed" /\ w.due /\ w.job # NoJob /\ Locked(w.job)
           wanted == w.state = w.step /\ ~w.paused
       IN
       \/ /\ current /\ wanted
          /\ Admit(i, w, w.step, calls)
       \/ /\ ~(current /\ wanted)
          /\ UNCHANGED <<item, line, handler, late, calls>>
    /\ pass' = [pass EXCEPT ![p] = Round(p, "ack")]
    /\ UNCHANGED <<limit, owed>>

\* Whatever became of the wake, the worker then acknowledges its job, unless the
\* statement fails: a wake that waits in line may be delivered again. (A newer
\* wake job is not claimed yet, for one pass.)
AckWake(p) ==
    /\ pass[p].phase = "ack"
    /\ LET i == pass[p].wake
           w == item[i]
       IN
       \/ /\ w.status = "postponed" /\ w.job # NoJob /\ Locked(w.job)
          /\ item' = [item EXCEPT ![i] = Acknowledged(w)]
       \/ UNCHANGED item
    /\ pass' = [pass EXCEPT ![p] = IdlePass]
    /\ UNCHANGED <<limit, line, handler, late, calls, owed>>

-----------------------------------------------------------------------------
Handler(i) ==
    \/ StartStep(i) \/ SkipStep(i) \/ ExpireStep(i)
    \/ Advance(i) \/ AdvancePaused(i) \/ Settle(i) \/ AdvanceMerged(i)
    \/ FailStep(i) \/ PostponeStep(i) \/ StopStep(i) \/ FenceOff(i)
    \/ FenceOffLate(i) \/ StopLate(i)

Operator(i) ==
    \/ Create(i) \/ Pause(i) \/ Start(i) \/ Resume(i) \/ Abandon(i)
    \/ ReadForRetry(i) \/ ReadForRestore(i) \/ AbandonNeedsHuman(i) \/ ReadForInterrupt(i)

Commit(c) == CommitRetry(c) \/ CommitAbandon(c) \/ CleanupFails(c) \/ CommitInterrupt(c)

Pass(p) ==
    \/ BeginPass(p) \/ CountFree(p) \/ ListWaiters(p) \/ AdmitWaiter(p) \/ EndRound(p)
    \/ CommitWake(p) \/ AckWake(p)
    \/ \E i \in Items : BeginWake(i, p)

Next ==
    \/ SetLimit \/ Restart \/ RecoverOrphans
    \/ \E i \in Items : \/ Deliver(i) \/ Handler(i) \/ Operator(i)
                        \/ LockExpires(i) \/ DeadlinePasses(i)
    \/ \E c \in calls : Commit(c)
    \/ \E p \in Passes : Pass(p)

Spec == Init /\ [][Next]_vars

\* Fairness: a handler ends (its step has a time limit), leases run out, the claim
\* loop delivers what can be claimed and looks for orphans.
Fairness ==
    /\ \A i \in Items : WF_vars(Handler(i)) /\ WF_vars(Deliver(i)) /\ WF_vars(LockExpires(i))
    /\ WF_vars(RecoverOrphans)

FairSpec == Spec /\ Fairness

-----------------------------------------------------------------------------
(* Properties. *)

Calls ==
    [kind : {"retry", "restore"}, item : Items, about : Steps] \union
    [kind : {"cleanup", "interrupt"}, item : Items, about : Statuses \union {"latest"}]

PassStates ==
    [phase : {"idle", "count", "list", "admit", "wake", "ack"}, free : Nat,
     todo : SUBSET [item : Items, state : Steps \union {"needs_human"}, rank : Nat],
     short : BOOLEAN, any : BOOLEAN, wake : Items \union {NoItem}]

\* The rows hold values their columns can; nobody is twice in the line, which is
\* waiting_since set once and cleared on admission.
TypeOK ==
    /\ limit \in Limits
    /\ item \in [Items -> WorkItems]
    /\ line \in Lines(Items)
    /\ handler \in [Items -> {"none", "delivered", "running", "cancelling"}]
    /\ late \in [Items -> {"none", "running", "cancelling"}]
    /\ calls \subseteq Calls
    /\ pass \in [Passes -> PassStates]
    /\ owed \in BOOLEAN

\* Slots are handed out as the abstract specification says, whatever mixture of
\* calls, wakes, passes and completions asks for them.
Slots == INSTANCE WorkerSlots WITH admitted <- {i \in Items : item[i].holds}

RefinesWorkerSlots == Slots!Spec

\* A queued or running Step Run has a job, so that somebody delivers it again or
\* orphan recovery finds it; no late report takes the job of a run that goes on.
ActiveHasJob == \A i \in Items : Active(item[i]) => item[i].job # NoJob

\* A slot is held for a queued or running Step Run, whatever the Work Item's state
\* (a retry may give one to an abandoned item), or by a Needs Human item whose
\* abandonment took it.
SlotHasReason ==
    \A i \in Items : item[i].holds => Active(item[i]) \/ item[i].state = "needs_human"

Stranded == {i \in InLine : Waiter(i) /\ item[i].state \in Steps}

Looking == owed \/ \E p \in Passes : pass[p].phase \in {"count", "list", "admit"}

HandoffsInLine == {i \in InLine : Waiter(i) /\ item[i].state = "needs_human"}

\* No lost wake-up: while a slot is free and an operational Work Item waits for
\* it, an admission pass is on its way, unless as many Needs Human items wait as
\* slots are free, which a pass lists and does not admit.
FreeSlotIsOffered ==
    Occupied < limit /\ Stranded # {} =>
        Looking \/ limit - Occupied <= Cardinality(HandoffsInLine)

\* A step that was interrupted or failed is not reported as done afterwards by an
\* execution that outlived its lease: only an operator's call moves the item on,
\* an abandonment or the commit of a restore.
InterruptedStaysPut ==
    [][\A i \in Items :
          /\ NeedsRetry(item[i])
          /\ item'[i].state # item[i].state
          => \/ item'[i].state = "abandoned"
             \/ \E c \in calls \ calls' : c.kind = "restore" /\ c.item = i]_vars

\* The two transactions that take the slot of a step they do not stop: an
\* execution that was cancelled late, when the Work Item already has a new run
\* (completeInterruptedStep clears holds_worker_slot of the Work Item, whatever
\* its step), and the last transaction of an interrupt whose run was superseded
\* while it awaited the executions.
StopsAnOlderRun(i) ==
    \/ StopLate(i)
    \/ \E c \in calls \ calls' : c.kind = "interrupt" /\ c.item = i /\ c.about # "latest"

\* Whoever has a step queued or running keeps the slot for it, and no step is
\* queued without one: not by the report, failure or stop of its own execution, by
\* a pause, a wake, a pass or a recovery. The code has the two exceptions above,
\* after which the step goes on beside the one that is admitted to its slot.
ActiveHoldsSlot ==
    [][\A i \in Items :
          /\ Active(item[i]) => item[i].holds
          /\ Active(item'[i]) /\ ~item'[i].holds
          => StopsAnOlderRun(i)]_vars

\* What orphan recovery reads before its transaction still holds in it: a run that
\* nobody will deliver again stays so until it ends, by its late execution or as
\* interrupted; no delivery or renewed lease brings its job back.
OrphansStay ==
    [][\A i \in Orphans : item'[i].status = "running" => i \in Orphans']_vars

\* No run is left running for ever, even if the process dies again and again and
\* the new one cannot mark the runs of the old one.
RunEnds == \A i \in Items : item[i].status = "running" ~> item[i].status # "running"

-----------------------------------------------------------------------------
(* What the documents say and the code does not do. *)

\* docs/adr/0022: terminal Work Items do not occupy slots.
TerminalHoldsNoSlot == \A i \in Items : item[i].state \in Terminal => ~item[i].holds

\* CONTEXT.md: a Work Item becomes Admitted when it is the next waiter and a slot
\* frees.
WaiterIsOffered == Occupied < limit /\ Stranded # {} => Looking
=============================================================================
