# A TLA+ model of ready-for-agent

Ready-for-agent is a harness that turns tracker Issues into pull requests. It
keeps *Work Items* in a SQLite database, moves each of them through *lifecycle
steps* that call git, a forge and a coding agent, and limits how many of them
are in progress and how many *Agent Turns* run at once. This directory holds
TLA+ modules for the parts of it in which several fibers, operators, leases and
processes meet, the TLC configurations that check small instances of them, and
TLAPS proofs about each of those parts.

All names below are those of the source. Paths are relative to the repository.

## 1. Inventory

### The parts and how they interact

    operator ──GraphQL──▶ lifecycle service ──enqueue/acknowledge──▶ durable queue
                             ▲     │  tryAcquireWorkerSlot                │ claim
    tracker ──polling──▶ reconciler │                                     ▼
                             │      └── admission pass ◀── job worker (claim loop,
                             ▼                              orphan recovery, wake)
                        intake, CI gate                         │ runs a step
                                                                ▼
                                      step handlers ──▶ Agent Turn limiter ──▶ agent CLI
                                           │
                                           └──▶ GitHub operation coordinator ──▶ forge

One process runs everything. Effect fibers interleave at every asynchronous
operation. Database transactions are serialised by a semaphore with one permit
(`packages/db-service/src/lib/db-service.ts`), so a transaction is atomic in
every model; what a fiber read *before* its transaction is not.

| Component | State it keeps | Operations | What is hard | Correct when |
|---|---|---|---|---|
| Agent Turn limiter | one `Ref`: capacity, active permits, grant order, demand and guarantees by Repository; `step_run.waiting_for_agent_turn` | `withPermit`: refresh settings, `tryAdmit`, register demand, mark the row, release, clean up | interruption at any yield point, settings that change under way, pruning | permits and demand are conserved, the limit holds, no Repository is starved |
| Durable queue | `job_queue` rows: attempts, `available_at`, `locked_until`, key | enqueue, ensure, claim, acknowledge, fail, postpone, extend, revive, move | no claim token: late claimants, redelivery, keyed recurrences | limits hold, dead letters stay dead, leases exclude |
| Work Item lifecycle | `work_item`, `step_run` rows; the line of waiters | create, pause, start, interrupt, retry, resume, reset, abandon, `runStep`, admission passes, recovery | reads before transactions, last slot races, crash between transactions, late executions | slots are within the limit, not lost, not kept for nothing, offered to waiters |
| Job worker | registered executions of this process | claim loop, delivery, lease extension, startup recovery, orphan recovery | death at any point, leases that run out under a live handler | every run ends; stopped work is not reported done |
| Provider recovery | recovery episodes, shared cooldown with one probe | fail, probe, recover, follow, cancel | several Work Items of one scope at once, wakes of an earlier generation | one probe in a scope, every follower woken, no attempt before the shared deadline, no deadline past an item's own limit |
| CI gate, CI Repair | gate definitions and observations with their coverage, latches and incidents; baselines of CI Repairs; held Work Items | observe (newest page, catch-up page), open, close, resolve, hold, release, authorize, start a CI Repair | history is read backwards a page at a time while it grows; observers overlap; the gate moves between a read and the write that relies on it | complete coverage was read, a closed gate has one open incident, CI Repairs start for new failures only, an open gate holds nobody |
| Issue polling, auto-heal | one keyed entry for each credentialed Repository, one-shot refresh jobs, the generation of the worker | boot, heal, refresh, reschedule, activate, suspend | credentials read before, entry written after; a worker left behind by a reload; deliveries used up by crashes | the schedule of a credentialed Repository ends by a stale view only, a heal makes the entries exact, each start brings polling back |
| Review and status-check loops | rounds and budgets of one step | review, fix, push, wait | bounded loops with agent and forge failures | budgets hold, the loop ends in one of its outcomes |
| Issue reconciler | `issue` rows against a snapshot | reconcile | partial snapshots, reopened Issues | rows equal the snapshot |
| Active agent backend | active backend, inspections, model catalogue | activate, inspect, list | single flight, replaced backends | a stale inspection never wins |
| GitHub operation coordinator | throttling deadlines | run, throttle, wait | concurrent operations under one deadline | no operation starts before the deadline |
| Others: step handlers, CLI runner, adapters, forge and tracker clients, credentials, git, GraphQL projection, interface, release tooling | little or none of their own | calls to other programs | — | input and output, outside these models |

`PROJECT.json` lists every component with its sources and its state of
modelling, and the hazards line by line with the properties that cover them.

### Hazards in one paragraph

The lifecycle decides from rows it read before its transaction (`retry`,
`abandon` of a Needs Human item, `interrupt`, the admission pass, the wake of a
postponed run). The queue gives out no claim token, so who lost a lease can
still report. A visibility lease is extended once, after the claim; a handler
may outlive it. A slot is given back in one transaction and offered in another
one. The limiter's fibers are interrupted anywhere, in the middle of the
acquisition too. The process dies at any point and the next one has the rows
only.

## 2. Plan

1. `AgentTurnLimiter` and its proofs — done.
2. `JobRows`, `JobQueue` and its proofs — done.
3. `WorkItemLifecycle` on top of `JobRows`, implementing `WorkerSlots` — done for
   creation, admission, steps, postponement, operator calls and recovery.
4. Proofs about it: types, slots with a reason, jobs of active runs, that each
   step is a step or a stutter of `WorkerSlots`, who moves an interrupted step on,
   and that free slots are offered — done. Open: the last one with pauses and
   restarts, where it is not true (section 7).
5. `ProviderRecovery` and its proofs: episodes with generations, the shared
   cooldown, its probe and its followers, wakes, the start-up repair — done. Open:
   a proof of `WaitsForSomebody`, which is model-checked (section 6).
6. `CiGateCoverage` and `CiGate`: observations page by page, latches, incidents,
   the hold of Work Items, CI Repairs and their baselines — done, with proofs. Open:
   the rerun of failed checks, runs without an order key, what coverage means when
   pages of two branches went into it.
7. `IssuePolling` on top of `JobRows`: the keyed recurrence of a Repository,
   credentials, auto-heal, reloads; liveness of the recurrence — done, with proofs
   of its safety.
8. `IssueReconciler`, `GithubCoordinator`, `ActiveBackend`, and the Review loop,
   as small modules of their own; the remaining operations of the lifecycle
   (blockers, reset, supersede by merge, autonomous retry permits).

Theorems worth having: the conservation laws of the limiter (done), the delivery
limit, the exclusion of leases and the end of dead letters of the queue (done), the implementation of `WorkerSlots` by the lifecycle and the offer of free
slots (done), the bound on overtaking (done), ownership of the probe, its single attempt and the two deadlines
of provider recovery (done), who may end the schedule of a Repository (done), the
incident, the release and the repair of a gate (done), what a complete coverage has
read (done).

## 3. Modules

| Module | Models | Composes |
|---|---|---|
| `AgentTurnLimiter` | `agent-turn-limiter.ts`: `withPermit`, step by step | |
| `AgentTurnFairness` | the same with two history variables: the true order of grants and who overtook whom | `AgentTurnLimiter` |
| `AgentTurnLeak` | the same on a runtime that suspends a fiber inside the masked region | `AgentTurnLimiter` |
| `AgentTurnLimiterProofs` | theorems | `AgentTurnLimiter` |
| `AgentTurnFairnessProofs` | theorem on overtaking | `AgentTurnFairness`, `AgentTurnLimiterProofs` |
| `JobRows` | what each queue statement does to one row | |
| `JobQueue` | `sqlite-queue-service.ts`: claimants, leases, keys | `JobRows` |
| `JobQueueProofs` | theorems | `JobQueue` |
| `WaitingLine` | the order of `waiting_since`: joining and leaving | |
| `WorkerSlots` | abstract: who may be admitted, who joins the line, who leaves | `WaitingLine` |
| `WorkItemLifecycle` | the slots, Step Runs and operator calls of `work-item-lifecycle.ts` with the claims, wakes and recoveries of `job-worker.ts` | `JobRows`, `WaitingLine`; implements `WorkerSlots` |
| `WorkItemLifecycleProofs` | theorems | `WorkItemLifecycle` |
| `ProviderRecovery` | `provider-recovery.ts`, `provider-recovery-cooldown.ts`, and what `work-item-lifecycle.ts` does with them | |
| `ProviderRecoveryProofs` | theorems on the deadlines of one Work Item and the leases | `ProviderRecovery` |
| `ProviderRecoveryShareProofs` | theorems on what the Work Items of a scope owe each other | `ProviderRecoveryProofs` |
| `CiGateCoverage` | `ci-gate-coverage.ts`: operators on the coverage of one definition | |
| `CiGate` | `observe-repository-ci-gate.ts`, the CI Repair modules, the CI Gate tables | `CiGateCoverage` |
| `CiGateProofs` | theorems | `CiGate` |
| `IssuePolling` | `job-worker.ts` (the polling worker), `issue-polling.ts`, `repository-credentials.ts` and the resolvers that use them | `JobRows` |
| `IssuePollingProofs` | theorems | `IssuePolling` |
| `MC…` | the instances that TLC checks | |

### The limiter

A caller is the fiber of one Step Run. `pc` is the point of `withPermit` it has
reached; one action is what runs between two points where the runtime may
suspend the fiber. `gate` is the content of the `Ref`. The two locals
`registeredWaiting` and `markedWaiting` are `registered` and `marked`;
`shownWaiting` is the column of the Step Run, written by SQL that may fail
(`DbMayFail`) and whose failure is only logged. `cut` remembers that the caller
was interrupted, because its Step Run, and with it the row, then ends.
Capacity and guarantee are re-read in each round and may be any configured
value. Sequence numbers are only compared, so `lastGranted` is a strict order.

### The queue

A row keeps attempts, limit, whether it is due, and whether its lock is absent,
live or expired; the clock's only effects are `BecomeDue`, `LockExpires` and
`LeaseExpires`. `claim` and `lease` are what each claimant believes, `disturbed`
the jobs somebody acted on without a live lease. Job ids are used again once no
row and no claimant has them, which bounds the state without bounding the
history. That a key names one entry is the table's unique index, which the guard
of `EnsureKeyed` restates; no property is about it. A dead letter is what
`getStats` counts as one: a row without deliveries left that is not being
processed, its lock absent or expired.

### The lifecycle

`item[i]` joins the rows of a Work Item: its state, pause, slot
(`holds_worker_slot`), latest Step Run and that run's job. `line` is who
has a `waiting_since`, and who is before whom in its order. `handler[i]` is the execution registered in this process,
`late[i]` one that still works on an older run. A call whose transaction relies
on an earlier read is two actions: `ReadFor…` puts what it read into `calls`,
`Commit…` uses it. `admitWaitingWorkItems` is a small process, `pass[p]`: it
counts the free slots, lists that many waiters, admits one for each transaction,
and counts again while it makes progress; `owed` says that some handler is about to begin one. A wake of a
postponed run makes such a pass before its own transaction, and its job is
acknowledged by a statement of its own after it (`AckWake`), which may fail: the
wake is then delivered again.

Orphan recovery lists its candidates before its transaction, which looks at the
status of each run again. `RecoverOrphans` joins the two and takes any part of the
orphans; what it relies on, that an orphan found stays one until its run ends, is a
property (`OrphansStay`). A claim and the extension of its lease, which follows at
once, are one action (`Deliver`).

Outcomes of steps are chosen freely among those the code distinguishes
(advance, paused, settled, merged, failed, postponed, interrupted), and the next
step is any: the generated transition relation only logs what it does not know.

### Provider recovery

`work[w]` joins the Work Item's row with its latest Step Run (`run = "active"` is
queued or running); `db` holds the episodes, the cooldowns and the wake jobs. The
statements of a transaction are operators from a database to a database, composed
in the order of the code, so that an action is one transaction and reads like it:
`Coordinated` is `coordinateProviderRecoverySchedule`, `Promoted`
`promoteNextProbe`, `Settled` `settleProviderRecoveryCooldown`, `Claim`
`claimProviderRecoveryWake` after `gateProviderRecoveryProbe`, `ReconciledScope`
one round of the start-up repair. That repair is the one call here that runs outside
any transaction: a crash in it leaves the statements made so far (`Torn`). `spent`
remembers the generations of episodes whose wake a crash has cost. A wake names item, generation and deadline and
can be delivered twice; `Deliver` joins its claim, its transaction and its
acknowledgement, and `dies` says after which of them the process dies, if it does.
The rest of the Worker Slots is not modelled: whoever asks for a slot may get it
or have to wait. A CI gate that opens and closes holds the items of `Gated`, since
holding and releasing park and resume probes.

### The CI gate

`CiGateCoverage` gives the pure functions of the coverage of a definition: a
checkpoint, the newest run seen, and a gap between the two that is read backwards.
`CiGate` adds the observers (the periodic refresh and the saving of settings), each
a small process: it asks the forge for one page, applies what it got to the rows it
read, commits, resolves or opens incidents, releases or reads the rest, and does
the same again for one older page. The start of a CI Repair may fail (`StartFails`,
`ManualFails`), and so may a release, which leaves any part of the held Work Items as
they are (`left` in `Settle`); the observation goes on, as the code only logs it. `forge` is the environment: runs are added, end,
start again, are deleted, and the default branch changes; ids of runs grow, and that of a
deleted run is not given again. `hist` records what was
read and settled, for the properties only.

### Issue polling

`turn` is the program of a worker: boot (move old jobs, revive both queues, ensure
the Auto-heal, take the next generation), then claims, first from the refresh queue,
then from the poll queue. An Auto-heal lists the Repositories, probes each
credential, removes, lists again and adds; a scheduled refresh looks at its
Repository before and again after the refresh, and what it sees the second time
decides about its entry. `call` holds the operator's calls: adding a token or the
Linear key, adding, removing and changing a Repository, and asking for a refresh.
`world` is the Repository table and the vault. Two workers exist after a reload: the
old one goes on until its scope closes or it sees that its generation is over.
`hist` collects, for a worker that is about to decide, which Repositories and which
entries others changed since it looked; `calm` says that no call and no fault
followed the last start.

## 4. Runs

| Run | Instance | Checks | Shows |
|---|---|---|---|
| `turn_gate` | 2 Repositories, 3 callers, capacity 1 or 2, guarantee 0 or 1, failing SQL, interruptions anywhere | `TypeOK`, `PermitsAreHeld`, `DemandIsReal`, `IdleRepositoriesAreForgotten`, `AdmissionRespectsLimit`, `OvertakenAtMostOnce` | permits and demand are conserved; lowering the limit admits nobody above it; a Repository that does not go idle overtakes a waiting one at most once unless its guarantee is unmet |
| `turn_progress` | capacity 1, a guarantee for one Repository, fair fibers | `SomebodyIsAdmitted`, `RunningTurnIsNotShownQueued` | the choice of the next Repository never blocks everybody; clocks are not left frozen while a turn runs |
| `turn_least_recent` | capacity 1 | `LeastRecentlyGrantedFirst` violated | pruning forgets the grant of a Repository between its turns, so the documented order does not hold |
| `turn_leak` | 2 callers | `NoPermitLeaks` violated | the release is attached inside `restore`, after the admission |
| `job_queue` | 2 ids, 2 queues, 1 key, 2 claimants, limits 1 and 2 | `TypeOK`, `LeaseIsExclusive`, `DeadLettersStayDead` | what the contract promises, that exclusion rests on claimants that stop with their lease, and which late calls bring a dead letter back |
| `worker_retries` | 2 Work Items, limit 1 or 2, changing | `TypeOK`, `SlotHasReason`, `FreeSlotIsOffered`, `RefinesWorkerSlots` | no lost wake-up, no slot kept for nothing, the abstract specification implemented |
| `worker_faults` | 1 Work Item, 2 steps, crashes, leases outlived, interrupts | `SlotHasReason`, `ActiveHasJob`, `InterruptedStaysPut`, `ActiveHoldsSlot`, `OrphansStay`, `RunEnds` | recovery ends every run, none loses its job on the way, two transactions only take the slot of a step they do not stop, and nothing reports on a run that was ended |
| `worker_terminal` | 2 Work Items, retry and abandon | `TerminalHoldsNoSlot` violated | a retry that read before an abandonment gives the abandoned item a slot for good |
| `worker_waiter` | 3 Work Items, Needs Human | `WaiterIsOffered` violated | a Needs Human item at the head of the line hides a free slot from the one behind it |
| `provider_recovery` | 3 Work Items, 2 scopes, 14 plans of failures, faults and calls | `TypeOK`, `WaitsForSomebody`, `ProbeBelongsToScope`, `SoleProbe`, `DeadlineShown`, `LimitShown`, `NoAttemptInCooldown`, `RepairedAtRestart` | whoever waits without a wake of its own waits for somebody who has one or is at work, or whom orphan recovery or a crash has stranded; leases, deadlines and limits of a scope agree, after a restart too |
| `ci_gate` | 2 definitions, 2 branches, pages of 2 runs, 2 observers, 6 plans | `TypeOK`, `IncidentMatchesGate`, `CompleteMeansRead`, `CatchUpRespectsNewest`, `NoRepairForHandledFailure`, `NewFailureIsRepaired`, `ReleasedAfterOpening` | what the history says is read before it counts as read, and the gate, its incident, the holds and the repairs follow it |
| `issue_polling` | 2 Repositories, 2 workers, 2 calls at a time, 9 plans | `TypeOK`, `HealIsExact`, `SchedulesSurvive`, `PollingRecovers` | schedules end only by a worker with a stale view or by a settings save, the Auto-heal makes them exact, and each undisturbed start brings polling back |

### Bounds, and why they are enough

* Two Repositories and three callers are the least in which demand within a
  Repository differs from demand between Repositories; capacity 1 and 2 give
  contention and a limit that is lowered below the permits in use.
* `turn_progress` uses fixed settings and SQL that does not fail. With a failed
  write `RunningTurnIsNotShownQueued` is false, as the code accepts: the failure
  is logged and the turn goes on with frozen clocks.
* Two jobs and two claimants are enough for one claimant to hold what another
  one lost, and for two entries to compete for a key.
* The lifecycle runs use two Work Items because every property relates one that
  has a slot to one that wants it; `worker_waiter` needs a third behind the head
  of the line.
* `Allowed` says which calls and faults happen in a run. They are kept apart for
  the size of the state space, and because some properties do not survive all of
  them, which is itself a result (section 7).
* `Passes`: one admission pass at a time. `MaxCalls`: one or two operator calls
  between read and transaction. One late execution for each Work Item.
* One or two steps: the lifecycle's decisions compare a run's step with the
  Work Item's, so two tell the same apart from different.
* `provider_recovery`: three Work Items are a probe and two followers, of which one
  may move, run out of time or be promoted; two scopes let an item change its
  provider. A *plan* says which calls and faults occur in one behaviour besides
  two or three failures; the initial state chooses the plan, so that all of them
  are one run. Deadlines come from back-offs and from retry times of the provider
  (`Floors`); the limit is absent or short enough to be met. Ticks are capped by
  `MaxTime`.
* `ci_gate`: pages of two runs make a gap that takes several observations to close
  (plan `History`, up to seven runs); `Results` has runs that end, fail early or
  start again; `Overlap` two observers at once; `Repairs` CI Repairs that end while
  failures go on, and one start that fails; `Holds` a crash between a commit and its
  release, and one release that fails; `Settings`
  another branch and another selection of definitions.
* `issue_polling`: two Repositories let an Auto-heal remove one entry and add another;
  two workers are what a reload leaves. The plans: what earlier processes left
  behind, with a crash or an error (`Leftovers`); missing entries and changing
  secrets (`Credentials`); reloads with a lock that runs out under its holder
  (`Reloads`, `LateCredential`); and the operator's calls in pairs that cross.
* Symmetry over callers, jobs, claimants and items in runs without liveness.

### Deadlock

The lifecycle runs switch deadlock checking off: a system in which every Work
Item is settled and no operator calls may stop. So do `provider_recovery`,
`ci_gate` and `issue_polling`, whose plans run out. The limiter and the queue are checked for deadlock.

## 5. Fairness

* Limiter: `WF` of each fiber's next step. The runtime schedules fibers fairly,
  the poll is a sleep, and a turn has a productive timeout. Asking for a turn and
  interrupting one are nobody's obligation; `SomebodyIsAdmitted` assumes that
  interruptions end.
* Lifecycle: `WF` of the handler of each item (each step has a time limit, after
  which it fails), of delivery and of `RecoverOrphans` (the claim loop of
  `job-worker.ts` does the former on each iteration and the latter at its start and
  then once in 30 seconds), and of leases running out. No
  fairness is claimed for operators, for restarts or for admission passes.
* The queue has no liveness property: whether anybody claims is up to its users.
* Issue polling: `WF` of the workers' next step together (a process that runs makes
  progress) and of locks running out; `SF` of each keyed entry becoming due, since a
  due time is a moment the clock reaches. In the plans liveness is about, `keepsUp`
  holds: the worker has finished what is due before the next entry becomes due.
  Without it neither priority of the code is fair: manual refreshes go before all
  scheduled ones, and of those an entry with one delivery used goes behind every
  fresh one (`ORDER BY job_attempts`). ADR 0019 accepts the former.
* Provider recovery and the CI gate have no liveness property: what must eventually happen
  is stated as what may never be missing. `WaitsForSomebody` says that the wake
  that will end the waiting exists, or that its scope has somebody at work; `ReleasedAfterOpening` and
  `NewFailureIsRepaired` say what must have happened when an observation ends.
  Without a bound on the failures of a provider nothing stronger is true.

## 6. Proofs

The theorems hold for all values of the constants under the assumptions stated
in the modules: finitely many callers and Work Items, positive limits, plans that
start from histories a forge can have, and names of steps, settled states and absent
values that do not collide. `Allowed`,
the calls and faults that happen, is arbitrary: what is proved of the lifecycle
holds with all of them together, which no run could cover.

### The limiter (`AgentTurnLimiterProofs`)

* `TypeCorrect`: `Spec => []TypeOK`, including that the remembered grants stay a
  strict order;
* `PermitsConserved`: `Spec => []PermitsAreHeld`;
* `DemandConserved`: `Spec => []DemandIsReal`;
* `LimitRespected`: `Spec => AdmissionRespectsLimit`;
* `IdleForgotten`: `Spec => []IdleRepositoriesAreForgotten`;
* `TurnNotShownQueued`: `Spec => []RunningTurnIsNotShownQueued` if SQL does not fail.

None of the counting invariants is inductive alone: giving a permit back
subtracts with a floor at zero (`Less1`), so that the floor is never reached
must be known, and it follows only from the count being the number of holders.
Withdrawing demand is guarded by `waiting > 0` for the same reason. The
inductive invariant is `Conservation == TypeOK /\ PermitsAreHeld /\ DemandIsReal`.
The argument has three layers: how a caller that joins or leaves a set changes
the counts in total and by Repository (`Joining`, `Leaving`), what each kind of
step does to the sets `Holding` and `Registered` (`HoldersOfStep`,
`RegisteredOfStep`, `QuietStep`, `UnregisterStep`, `AdmitStep`, `ReleaseStep`,
`RefuseStep`), and one case for each action (`ConservationStep`).
`LimitRespected` follows because only `Admit` increases the count, and it does
so below the capacity of that moment. `IdleForgotten` rests on the conservation laws:
whoever is the last to leave finds the counts at zero, because they are the numbers of
those who are there, and so prunes (`LastToLeavePrunes`). `TurnNotShownQueued` follows
the local `markedWaiting` (`MarkTracked`): the row is marked only where the fiber
knows it, or is about to note it.

The bound on overtaking (`AgentTurnFairnessProofs`): `OvertakingBounded` is
`HSpec => OvertakenAtMostOnce`. Its invariant is that whoever overtook a waiting
Repository is above it in the remembered order of grants. A grant puts its Repository
on top, forgetting keeps the others in order, and whoever goes idle leaves the
history as it leaves the order; `tryAdmit` takes the least recent one, unless a
guarantee is unmet.

### The queue (`JobQueueProofs`)

* `QueueTypeCorrect`: `Spec => []TypeOK`, and with it that no row is delivered
  more often than its limit allows;
* `LeasesExclude`: `Spec => []LeaseIsExclusive`;
* `DeadLettersAreFinal`: `Spec => DeadLettersStayDead`.

Exclusion of leases is not inductive: a claim is granted because the row is not
locked, so the proof needs that a claimant with a lease shows in the row unless
somebody disturbed it. The strengthening is
`Leases == LeaseIsExclusive /\ Sound /\ LeaseShows`.

`DeadLettersStayDead` covers rows whose lock has expired, as `getStats` does, and
names the two ways back: the revival of keyed entries, and a claimant of the job that
postpones or extends it after its lease ran out, while the expired lock is still in
the row. That such a claimant has no lease is not in the row; the proof has it from
`LeasesEnd`: who has a lease finds no expired lock.

### The lifecycle (`WorkItemLifecycleProofs`)

* `LifecycleTypeCorrect`: `Spec => []TypeOK`;
* `LifecycleHandsOutSlots`: `Spec => RefinesWorkerSlots`, the implementation of
  the abstract specification;
* `NoSlotLeaks`: `Spec => []SlotHasReason`;
* `NoStepWithoutJob`: `Spec => []ActiveHasJob`;
* `ActiveStepKeepsSlot`: `Spec => ActiveHoldsSlot`, with the two transactions of
  `StopsAnOlderRun` as the only exceptions;
* `NeverAboveGreatestLimit`: if no limit exceeds `n`, `Spec => [](Occupied <= n)`;
* `InterruptedIsFinal`: `Spec => InterruptedStaysPut`;
* `FreeSlotsAreOffered`: `Spec => []FreeSlotIsOffered` if there are no pauses and no
  restarts.

The inductive invariant `IInv` says three things. The rows (`RowsSound`): an
active run has a job, a slot has a reason, and who waits exists and has no slot.
Without the last part an admission could happen in the model of the slots a
second time. The fibers (`FibersSound`, `PassesSound`): what is being cancelled is
awaited by an interrupt, without which a late report could take the slot of a
running step; a pass on its way to a wake knows which. The relation of the two
(`Known`, `Listeds`, `AtWork`): whoever is called for or listed exists, and a step
at work is running as long as its job is there, so that its outcome ends a run and
neither strands a new one nor starts another without a slot.

The argument follows the code's own structure. Five lemmas say what the five
ways to change a row do to rows, line and slots: `KeepRow`, `ParkRow`, `TakeSlot`,
`StandInLine`, `InterruptedRows`. `RowStep` is what each of them yields: sound
rows, a step of `WorkerSlots` or a stutter, no Work Item lost, no active step left
without a slot (`SlotsKept`). Then each action is shown to be one of them (`DeliveryRows`,
`OutcomeRows`, `StopRows`, `FaultRows`, `CallRows`, `ReadRows`, `CommitRows`,
`AdmitWaiterRows`, `PassRows`), and apart from that what it does to calls, passes
and executions (`StepCalls`, `StepPasses`, `StepAtWork`).
`NeverAboveGreatestLimit` counts holders along the steps of `WorkerSlots` alone.
`InterruptedIsFinal` sorts the actions by who writes which row (`HandlerMoves`,
`OperatorMoves`, `CommitMoves`, `OthersKeepState`): a report needs the job, and where
the job is there the run is running (`AtWork`), neither interrupted nor failed.

That no wake-up is lost takes an invariant of its own, since a pass acts on what it
counted and listed before. `Offered` says that while a slot is free and somebody
operational waits, a pass is owed, or enough handoffs are in line, or some pass has
promised the slot (`Promises`): it has not counted yet; or it counted at least what is
free now; or its list was short, so it has everybody who waits; or it has admitted
somebody and will count again; or of those listed, and the handoffs, as many are in
line as slots are free (`Enough`), since whoever leaves the line takes a slot or owes a
pass. A list of `n` waiters is indeed `n` long or complete (`ListedEnough`):
this rests on the line being an order (`Ordered`), in which the first outside the
list has all before it listed (`FirstWaiters`). All other actions either take a slot
and leave the line (`Eased`), which costs each promise one waiter and one slot, or
find no slot free, or owe a pass (`HandlerOffers`, `OperatorOffers`, `CommitOffers`,
`TimeOffers`); the steps of a pass hand the promise on.

### Provider recovery (`ProviderRecoveryProofs`)

* `TypeCorrect`: `Spec => []TypeOK`, including that a deadline is stored exactly
  where a Work Item waits;
* `LeaseInsideScope`: `Spec => []ProbeBelongsToScope`;
* `NoEarlyAttempt`: `Spec => NoAttemptInCooldown`;
* `LimitKept`: `Spec => LimitShown`.

They hold for any finite set of Work Items, any scopes, back-offs, retry times,
limits and plans. The inductive invariant is `Types /\ Sound(db)`. `Sound` says that
the wakes are finitely many, that deadlines are where somebody waits and that each
lease is inside its scope. The two facts need each other: the choice of the next
probe compares deadlines, so it is only defined because every candidate has one
(`FirstExists`), and a candidate takes the lease of the scope its episode names.
The proof follows the composition of the statements: `Safe(s, t)`, which says that
`t` is sound and each deadline that is new in it is within its item's limit, is
transitive, so each statement is shown safe once (`RescheduledSafe`,
`PromotedSafe`, `SettledSafe`, `JoiningSafe`, `PlannedSafe`, ...) and a transaction
by chaining them. What chaining alone does not give is that an item that joins a
scope has left the lease of its previous one although somebody else was promoted on
the way: `NoNewLease` carries that through. The start-up repair is sound but not
timely, which is why `LimitShown` exempts it (section 7).

What the Work Items of a scope owe each other (`ProviderRecoveryShareProofs`):

* `OneAttempt`: `Spec => []SoleProbe`;
* `DeadlineNotBefore`: `Spec => []DeadlineShown`;
* `RepairComplete`: `Spec => RepairedAtRestart`.

`SoleProbe` is not inductive: that two attempts never meet follows from each of them
having the lease, which is one. The invariant adds `Share`. Of the rows it says that
no deadline is before that of its scope (`Aligned`) and that the scope of an episode
has a cooldown (`Existing`); of an item whose attempt a wake began, that the lease is
its own unless it is held by the gate, or neither running nor waiting (`Holds`); of
the start-up repair, that the scopes it has passed are as they shall be
(`Repairing`). A call of one Work Item writes the rows of others, since it promotes,
postpones and settles for a whole scope. So each statement is shown to take nothing
from the others: it leaves the status of their episodes or ends them (`Steady`), and
whoever is in an attempt keeps its lease (`Spared`). Both are transitive (`Calm`), so
a transaction is again a chain, and each call has one lemma on the item it is for and
one on all others.

### Issue polling (`IssuePollingProofs`)

* `TypeCorrect`: `Spec => []TypeOK`, including that a key has one row in a queue;
* `HealExact`: `Spec => []HealIsExact`;
* `SchedulesKept`: `Spec => SchedulesSurvive`.

They hold for any Repositories and calls, finitely many workers, any rows that a
previous process can have left and any plan. The inductive invariant adds to the
types what the programs of the workers have in hand. `JobKnown(w)`: as long as the
row of w's job exists, it is still the job that was claimed, so an acknowledgement
deletes no other entry; it needs that an id is never given twice (`FreshId`).
`Know(w)`, phase by phase: for the Repositories that nobody changed since w looked
(`Sure`), what w collected is what the vault says; for the entries that nobody else
changed (`Own`), which of them w has still to remove or to add. The properties are
what `Know` says of the last phase of a repair and of the phase before a deletion.
`CallsKnown` says that a removal that suspends an entry has removed the Repository
before. The statements of the queue are shown once to keep rows and keys in order and
to touch no other entry (`Rewritten`, `Inserted`, `Deleted`), each phase of a worker
is a lemma (`HealRemoveStep`, `PollConfirmStep`, ...), and `Framed` covers every step
of everybody else: it adds to what w is unsure of and leaves the rest.

### The CI gate (`CiGateProofs`)

* `TypeCorrect`: `Spec => []TypeOK`;
* `GateMatches`: `Spec => []IncidentMatchesGate`;
* `ReleaseComplete`: `Spec => ReleasedAfterOpening`;
* `NewFailureRepaired`: `Spec => NewFailureIsRepaired`;
* `OlderPagesYield`: `Spec => CatchUpRespectsNewest`;
* `CoverageComplete`: `Spec => []CompleteMeansRead`.

They hold for any definitions, branches, observers, Work Items and plans, and for
runs that the forge may list in any number and any state. Under all of them are the
types (`Types`), which include what an observer has read when it uses it: the tables
since it began, the newest page of each definition in its second phase, and that a
page is one of a definition it observes. The type of a coverage (`Shaped`) says that
the bounds of a gap are in order and that its walk has a next place; that each page
keeps it is shown once for each function of `ci-gate-coverage.ts`. Each of the others
has one invariant about the observers' programs and what they rely on:

* `Sequential`: as long as observations have not overlapped, only one observer is at
  work, what it has read is what the tables hold (`InStep`), and a closed gate has one
  incident (`Single`). The new incident therefore is written exactly when the gate
  that is committed is closed and none is open.
* `Freed`: an observer's list of whom to let go is empty if it committed a closed gate,
  and otherwise, once it has released, none of them is held. A hold that comes after
  finds the gate as it is, and is not on the list; nor is, from then on, whom a failed
  release left behind.
* `Settled`: no bound of an automatic start is above what ended CI Repairs have
  settled, so that a failure above that passes all of them. A start that fails settles
  nothing; `NewFailureIsRepaired` exempts the observation whose own last start failed,
  and no other.
* `Heeded`: what an observer remembers of the newest page agrees with the latch
  (`Agrees`), and a page is compared with it only once. The comparison itself is two
  lemmas about `applyObservedRuns`: a newest page leaves a latch that agrees with it
  (`NewestAgrees`), and an older page can change such a latch only by a result at
  least as new (`Overruled`).
* `Accounted`: every coverage, in the tables and in each observer's hands, stands for
  what was read. Complete coverage with a checkpoint stands for the runs from there up
  to the newest place it knows (`Claims`, `Places`: its bounds, its unfinished runs and
  the latest run); a gap stands for the runs above its floor, and for those between
  its upper end and the place its walk has reached. The statement about gaps is what
  completion needs at the last page, and why the hole above a gap must be noticed. It
  is inductive only together with two facts. A page in flight leaves out no run that
  the forge had when it was listed, down to its oldest one (`NewestCovers`,
  `OlderCovers`, shown of the adapter's pages by `LatestPageCovers` and
  `CatchUpPageCovers`). And no place known is at or above the next id (`Fresh`): runs
  are added above all that is known, a rerun keeps its id, and a deleted run's id is
  not given again (`Grows`, `RunsGrow`), so that neither claim nor page ever comes to
  mean more (`SoundGrows`, `TurnGrows`). What one page makes of the claim is
  `LatestReads` and `OlderReads`, pure lemmas about `ci-gate-coverage.ts`. Overlapping
  observers need no exception: whichever coverage is written back last was sound when
  it was read, and stays so.

### Only model-checked

* `WaitsForSomebody`, in all plans of the run and, in single checks apart from it, with
  two failures and two crashes, with two failures, a retry and a crash, and with three
  failures beside a retry or an orphan recovery. Its exceptions are those the code has: a probe or a waiter whose wake a
  crash has cost (`Spent`), a probe whose run orphan recovery ended (`Stranded`), and
  what the hold of a closed CI gate does to a probe (`Gated`).
* `OrphansStay`.
* `NoRepairForHandledFailure` holds of the run's histories only: a change of the
  branch and back, a deleted run or an overlap can bring back a lower floor.
* All liveness, which is outside the prover.

## 7. What the checks found

The four violations are real disagreements between the code and what a comment
or a document of the repository says of it; `PROJECT.json` quotes them.

Some properties hold only while certain calls do not occur. They are stated as
limits of the runs rather than weakened:

* `FreeSlotIsOffered` does not survive pauses: a retry or a pass that crosses a
  pause leaves a paused item in line, and `start` clears the pause without asking
  for the free slot. It does not survive a restart either: a process that dies
  between giving a slot back and its admission pass leaves nobody to make one.
  With neither it is proved, whatever else happens. It leaves out the case that
  as many Needs Human items are in line as slots are free: a pass lists as many
  waiters as it counted, skips those, and ends if it admitted nobody, though an
  operational one stands behind them (the finding on `WaiterIsOffered`).
* `InterruptedStaysPut` exempts the commit of a restore: of two that crossed, the
  second moves on what the first one enqueued if that has been interrupted
  meanwhile.
* `ActiveHoldsSlot` exempts two transactions, each of which clears the slot of a new
  run on the strength of an older one; the new run then goes on without a slot, beside
  whoever is admitted to it. One is the last transaction of `interrupt`, if a new run
  superseded the one it found first. The other is `completeInterruptedStep`
  (`work-item-lifecycle.ts:5747`) of an execution cancelled late: its update names the
  Work Item and not the run. That nothing else does so is proved, for every mixture of
  calls and faults.
* `DeadLettersStayDead`: `postpone` and `extend` ask that the row has a lock, not that
  the lock is live. A claimant that comes late, before anybody else claimed or
  released the job, makes deliverable again what the queue already counted as dead.
* `SlotHasReason` admits a Needs Human item with a slot, which a failed clean-up
  of `abandon` leaves behind.

Provider recovery. The properties name what is left out; each was found because the
property failed without the exemption.

* The gate of CI. A claimed probe that waits for a slot and is then held by an
  admission pass or a retry is not parked, contrary to the comment at
  `provider-recovery-cooldown.ts:830`: its followers wait until the gate opens
  (`WaitsForSomebody` leaves `Gated` out). An item released from a hold shows the
  moment of its release although the shared deadline is later; its wake is not due,
  and after two such deliveries it is lost (`DeadlineShown` leaves `Gated` out).
* A probe whose step GitHub throttles loses the lease when its wake settles another
  one; its continuation then runs beside the next probe (`auto` counts attempts a
  wake began, and a postponed one no longer).
* The start-up repair gives an interrupted probe the deadline of the scope, whatever
  its own limit (`LimitShown`).
* `retry` of an item that has run out of time makes it the probe. Orphan recovery
  interrupts a probe without settling: its lease stays, nobody is at work, and a
  follower whose wake was deferred to it has none, until the next start or until
  somebody acts on the probe (`Stranded`). The comment at
  `work-item-lifecycle.ts:6119` counts on the settlement.
* Two crashes use up both deliveries of a released follower's wake. And the start-up
  repair is no transaction: if the process dies between the update of an episode and
  its wake (`provider-recovery-cooldown.ts:1178`, `:1194`), the deadline is to come, the
  wake is missing, and the next start enqueues none since it looks at deadlines that
  have passed (`Spent`).

The CI gate.

* With pages of two, runs failed, passed, cancelled, cancelled (oldest first): one
  observation latches the success of the catch-up page, a later one reads the failed
  run alone and latches it. The gate is closed by a failure older than a success
  already read, which the comment above `NewestPageLatchContext` in
  `observe-repository-ci-gate.ts` means to exclude. `CatchUpRespectsNewest` states
  what the code does keep: the context of the same observation. It leaves overlaps
  out: there an observation may write an older latch back, and the older page of
  another one then corrects it, by a result older than the newest.
* The walk through a gap starts again when each observation brings new runs, and
  after completion the next newest page opens a gap that was closed.
* Overlapping observers commit all observations they read at their start: an older
  one brings back a closed gate, removed definitions and a second open incident
  (`IncidentMatchesGate` is about observations that follow one another).
* After a change of the default branch, a definition that could not be observed keeps
  the latch of the old branch, and a catch-up page of the new one can be taken into
  the coverage of the old one (`CompleteMeansRead` leaves out a definition to which
  this has happened).
* An automatic CI Repair that could not be started is logged and no more
  (`ci-repair-work-item-creation.ts:493`): the failure is without a repair until a later
  observation starts one, which nothing left behind prevents. A release that fails is
  logged likewise (`observe-repository-ci-gate.ts:271`), and who was held stays held
  until the next observation.
* An automatic CI Repair is decided from a read; a manual one that starts and ends in
  between is not seen (`known`). A hold written after the gate was read may
  come after it opened, and lasts until the next observation (`due`).

Issue polling.

* `SchedulesSurvive` names what ends the schedule of a credentialed Repository: a
  scheduled refresh, or an Auto-heal, that looked before the credential came back.
  Adding the token found the entry in place and added none; the late
  acknowledgement then removes it, and nothing adds it before the next start.
* The Linear key activates a Repository whose Issues are Linear's, but the worker and
  the Auto-heal ask for the credential of the forge: without one, the first scheduled
  refresh, or the next start, ends the schedule.
* "Only one scheduled or manual Refresh Job executes at a time" (`CONTEXT.md:147`)
  holds within one generation of the worker. After a reload the old worker finishes
  its job beside the new one, and `reviveExhaustedKeyed` unlocks an entry the old one
  is at work on. A worker that outlives its lock may give the lock of another away.
* `activateRepositoryPolling` ensures the entry before it enqueues the first refresh,
  so that a failure in between leaves the refresh out; the Auto-heal does it in the
  other order, for the reason its comment gives.
* Two errors around a scheduled refresh use up its deliveries; until the next start
  the Repository is not polled, and adding its token again changes nothing.

## 8. Not modelled, and why

* In the lifecycle: Waiting for blockers, reset, supersede by merge, competing pull
  requests, continuation after a human's outcome, parked attention, autonomous retry
  permits. The hold for CI Repair is in `CiGate` and `ProviderRecovery`.
* In provider recovery: the classification of provider errors and the arithmetic of
  back-off and jitter, which are the choice of a delay; the authorization of a held
  item as CI Repair while its episode is open.
* In the CI gate: `ci-repair-rerun.ts`; runs without an order key; pauses and provider
  recovery of the held items; the reasons recorded with incidents; a gate whose default
  branch is not known; the admission pass at the beginning of a release. The
  transactions of a release, one for each held item, and the observer's reload of the
  tables are one action. Ids of runs are not shared by two definitions, although
  `ci-repair-baseline.ts:402` allows for it; so `Evidence` has one entry for each latched
  definition, where `loadCiRepairGate` drops the second of two with the same run.
* The delay of a postponed status watch is late delivery of its job; the
  preference of the line for `ci_repair` items is left out, since no property is
  about who is first.
* In issue polling: the delays, and the count of failures in a row that lengthens
  them; what a refresh does; payloads that cannot be decoded; a token entered for a
  project path that a settings save replaced in the meantime.
* Reconciler, coordinator, active backend: planned, see section 2.
* Step handlers, agent adapters, forge clients, git, credentials: calls to other
  programs. The lifecycle sees their outcome only, which the model leaves open.
* The transition relation is a generated table that production code consults for
  logging alone.
