---------------------------- MODULE IssuePolling ----------------------------
(***************************************************************************)
(* Issue Polling: one keyed entry of the issue-poll queue per credentialed *)
(* Repository, the worker that refreshes Repositories in turn, the Polling *)
(* Auto-heal that repairs the entries after each start, and the operator's *)
(* calls that add and remove them (job-worker.ts of apps/harness,          *)
(* issue-polling.ts, repository-credentials.ts and resolvers of            *)
(* packages/graphql-api).                                                  *)
(*                                                                         *)
(* A statement of the queue, a read of the Repositories, a probe of the    *)
(* vault and a refresh are one action each. The second worker is one that  *)
(* a reload leaves behind.                                                 *)
(*                                                                         *)
(* Data abstraction: delays say only that an entry is not due, so the      *)
(* counts of consecutive failures, which lengthen them, are left out; what *)
(* a refresh does to Issues is left out; an ambient credential is a secret *)
(* like one of the vault.                                                  *)
(***************************************************************************)
EXTENDS JobRows, FiniteSets

CONSTANTS
    Repositories,
    Heal,           \* POLLING_AUTO_HEAL_KEY
    LinearKey,      \* the Linear API key, among the secrets
    Workers,
    Nobody,
    Callers,        \* GraphQL calls under way
    Plans           \* bounds of one behaviour

Requests == {"token", "linear", "add", "remove", "settings", "refresh"}

Faults == {"reload", "crash", "break", "misread", "outside"}

Budgets == Requests \union Faults \union {"start", "outlive", "throttle"}

Limit == 2          \* JOB_RECOVERY_RETRY_LIMIT + 1

Lanes == {"jobs", "refresh", "poll"}

Jobs == [lane : Lanes, about : Repositories \union {Heal}, keyed : BOOLEAN,
         row : [attempts : 0 .. Limit, limit : {Limit}, due : BOOLEAN, lock : Locks]]

Worlds == [stored : SUBSET Repositories, removed : SUBSET Repositories,
           linear : SUBSET Repositories, secrets : SUBSET (Repositories \union {LinearKey})]

\* Before the refresh queue there were no keys.
ASSUME PollingAssumption ==
    /\ IsFiniteSet(Workers) /\ Nobody \notin Workers
    /\ Heal \notin Repositories /\ LinearKey \notin Repositories
    /\ \A p \in Plans :
          /\ p.budget \in [Budgets -> Nat] /\ p.keepsUp \in BOOLEAN
          /\ p.world \in Worlds /\ p.world.stored \intersect p.world.removed = {}
          /\ DOMAIN p.jobs \subseteq Nat /\ IsFiniteSet(DOMAIN p.jobs)
          /\ p.jobs \in [DOMAIN p.jobs -> Jobs]
          /\ \A i \in DOMAIN p.jobs : p.jobs[i].keyed =>
                /\ p.jobs[i].lane # "jobs"
                /\ \A k \in DOMAIN p.jobs :
                      p.jobs[k].keyed /\ p.jobs[k].lane = p.jobs[i].lane
                         /\ p.jobs[k].about = p.jobs[i].about => k = i

VARIABLES
    plan, may,      \* bound: the plan, and what is left of it
    world,          \* the repository table, and external: the secrets
    jobs,           \* rows of the queues, by id
    generation,     \* the worker whose generation is current
    turn,           \* workers
    call,           \* the operator's calls
    hist,           \* history: what others changed since a worker looked
    calm            \* history: no call, and no fault except of the Auto-heal, since the
                    \* last start

vars == <<plan, may, world, jobs, generation, turn, call, hist, calm>>

Idle == [pc |-> "off", job |-> 0, repo |-> Heal, todo |-> {}, good |-> {},
         verdict |-> "done", misread |-> {}]

NoCall == [pc |-> "none", kind |-> "none", repo |-> Heal, linear |-> FALSE, todo |-> {}]

Unchanging == [world |-> {}, entries |-> {}]

Once(thing) == may[thing] > 0 /\ may' = [may EXCEPT ![thing] = @ - 1]

\* What the worker and the Auto-heal keep entries for.
Wanted(r) == r \in world.stored /\ r \in world.secrets

-----------------------------------------------------------------------------
(* Statements of the queue. *)

Under(lane, key) ==
    {i \in DOMAIN jobs : jobs[i].lane = lane /\ jobs[i].keyed /\ jobs[i].about = key}

Polling(r) == Under("poll", r)

\* makeJobId: an id that neither the table nor a worker knows.
NewId ==
    CHOOSE i \in 1 .. Cardinality(DOMAIN jobs) + Cardinality(Workers) + 1 :
       i \notin DOMAIN jobs \union {turn[w].job : w \in Workers}

Put(i, job) == jobs' = [k \in DOMAIN jobs \union {i} |-> IF k = i THEN job ELSE jobs[k]]

Delete(S) == jobs' = [k \in DOMAIN jobs \ S |-> jobs[k]]

Write(i, row) == Put(i, [jobs[i] EXCEPT !.row = row])

Enqueue(r) ==
    Put(NewId, [lane |-> "refresh", about |-> r, keyed |-> FALSE, row |-> NewRow(Limit, TRUE)])

EnsureKeyed(lane, key, due) ==
    IF Under(lane, key) # {} THEN UNCHANGED jobs
    ELSE Put(NewId, [lane |-> lane, about |-> key, keyed |-> TRUE, row |-> NewRow(Limit, due)])

\* postpone and postponeKeyed, which fail on a row that is gone or not locked.
Postpone(i) ==
    IF i \in DOMAIN jobs /\ Locked(jobs[i].row)
    THEN Write(i, RenewedRow(jobs[i].row, FALSE))
    ELSE UNCHANGED jobs

ReviveExhaustedKeyed(lane) ==
    jobs' = [i \in DOMAIN jobs |->
               IF jobs[i].lane = lane /\ jobs[i].keyed /\ Exhausted(jobs[i].row)
               THEN [jobs[i] EXCEPT !.row = RenewedRow(@, TRUE)] ELSE jobs[i]]

\* The rows rawClaim chooses from: claimable, of the fewest deliveries. Of those
\* it takes the one due first; due times are not modelled.
Front(lane) ==
    LET open == {i \in DOMAIN jobs : jobs[i].lane = lane /\ Claimable(jobs[i].row)}
    IN  {i \in open : \A k \in open : jobs[i].row.attempts <= jobs[k].row.attempts}

\* The clock reaches available_at. keepsUp: the worker finishes what is due before.
BecomeDue(i) ==
    /\ ~jobs[i].row.due
    /\ plan.keepsUp => Front("refresh") \union Front("poll") = {}
    /\ Write(i, DueRow(jobs[i].row))
    /\ UNCHANGED <<plan, may, world, generation, turn, call>>

LockExpires(i) ==
    /\ jobs[i].row.lock = "live"
    /\ IF \E w \in Workers : turn[w].job = i THEN Once("outlive") ELSE UNCHANGED may
    /\ Write(i, ExpiredRow(jobs[i].row))
    /\ UNCHANGED <<plan, world, generation, turn, call>>

-----------------------------------------------------------------------------
(* Starts and ends of workers. *)

At(w, pc) == turn[w].pc = pc

On(w) == ~At(w, "off")

Goto(w, pc) == turn' = [turn EXCEPT ![w].pc = pc]

Rest(w) == turn' = [turn EXCEPT ![w] = [Idle EXCEPT !.pc = "claim"]]

\* startJobWorker
Start(w) ==
    /\ \A v \in Workers : ~On(v)
    /\ w = CHOOSE v \in Workers : TRUE
    /\ Once("start")
    /\ Goto(w, "transfer")
    /\ UNCHANGED <<plan, world, jobs, generation, call>>

\* A runtime reload starts a worker in the same process.
Reload(w) ==
    /\ ~On(w) /\ generation # w /\ generation \in Workers /\ On(generation)
    /\ Once("reload")
    /\ Goto(w, "transfer")
    /\ UNCHANGED <<plan, world, jobs, generation, call>>

Booting == {"transfer", "revive_refresh", "revive_poll", "ensure_heal"}

\* transferPersistedRefreshJobs
Transfer(w) ==
    /\ At(w, "transfer")
    /\ jobs' = [i \in DOMAIN jobs |->
                  IF jobs[i].lane = "jobs" THEN [jobs[i] EXCEPT !.lane = "refresh"] ELSE jobs[i]]
    /\ Goto(w, "revive_refresh")
    /\ UNCHANGED <<may, generation>>

\* Mutant: exhausted entries of the poll queue are left alone.
ReviveRefresh(w) ==
    /\ \/ At(w, "revive_refresh") /\ ReviveExhaustedKeyed("refresh") /\ Goto(w, "revive_poll")
       \/ At(w, "revive_poll") /\ UNCHANGED jobs /\ Goto(w, "ensure_heal")
    /\ UNCHANGED <<may, generation>>

\* reviveExhaustedKeyed of both queues
Revive(w) ==
    /\ \/ At(w, "revive_refresh") /\ ReviveExhaustedKeyed("refresh") /\ Goto(w, "revive_poll")
       \/ At(w, "revive_poll") /\ ReviveExhaustedKeyed("poll") /\ Goto(w, "ensure_heal")
    /\ UNCHANGED <<may, generation>>

\* enqueuePollingAutoHealJob, and the next generation of workers.
EnsureHeal(w) ==
    /\ At(w, "ensure_heal")
    /\ EnsureKeyed("refresh", Heal, TRUE)
    /\ generation' = w
    /\ Goto(w, "claim")
    /\ UNCHANGED may

\* The head of runQueuePollLoop.
Retire(w) ==
    /\ At(w, "claim") /\ generation # w
    /\ Goto(w, "off")
    /\ UNCHANGED <<may, jobs, generation>>

\* The scope of the old runtime closes once another worker starts.
Interrupt(w) ==
    /\ On(w)
    /\ \E v \in Workers \ {w} : \/ generation = w /\ turn[v].pc \in Booting
                                \/ generation = v /\ On(v) /\ turn[w].pc \notin Booting
    /\ turn' = [turn EXCEPT ![w] = Idle]
    /\ UNCHANGED <<plan, may, world, jobs, generation, call>>

\* The process ends.
Crash ==
    /\ \E w \in Workers : On(w)
    /\ Once("crash")
    /\ turn' = [w \in Workers |-> Idle]
    /\ call' = [c \in Callers |-> NoCall]
    /\ generation' = Nobody
    /\ UNCHANGED <<plan, world, jobs>>

-----------------------------------------------------------------------------
(* claimAndRunRefreshJob: the refresh queue before the poll queue. *)

Take(w, i, pc) ==
    /\ Write(i, ClaimedRow(jobs[i].row))
    /\ turn' = [turn EXCEPT ![w] = [Idle EXCEPT !.pc = pc, !.job = i, !.repo = jobs[i].about]]
    /\ UNCHANGED <<may, generation>>

Claim(w) ==
    /\ At(w, "claim") /\ generation = w
    /\ \E i \in Front("refresh") :
          Take(w, i, IF jobs[i].about = Heal THEN "heal_list" ELSE "refresh")

NothingUrgent(w) ==
    /\ At(w, "claim") /\ generation = w /\ Front("refresh") = {}
    /\ Goto(w, "claim_poll")
    /\ UNCHANGED <<may, jobs, generation>>

ClaimPoll(w) == At(w, "claim_poll") /\ \E i \in Front("poll") : Take(w, i, "poll_list")

NothingDue(w) ==
    /\ At(w, "claim_poll") /\ Front("poll") = {}
    /\ Goto(w, "claim")
    /\ UNCHANGED <<may, jobs, generation>>

\* repositoryHasCredential: a vault that does not answer reads as a credential,
\* an ambient one, or one asked for the Linear key, as none.
Reads(r, has) ==
    IF has = (r \in world.secrets) THEN UNCHANGED may
    ELSE Once("misread") /\ ~(has /\ r = LinearKey)

Misread(w, r, has) ==
    turn[w].misread \union IF has = (r \in world.secrets) THEN {} ELSE {r}

-----------------------------------------------------------------------------
(* runPollingAutoHeal and repairPollingSchedules. *)

Proceed(w, todo, next, done) ==
    turn' = [turn EXCEPT ![w].todo = todo, ![w].pc = IF todo = {} THEN done ELSE next]

HealList(w) ==
    /\ At(w, "heal_list")
    /\ Proceed(w, world.stored, "heal_credentials", "heal_entries")
    /\ UNCHANGED <<may, jobs, generation>>

HealCredential(w) ==
    /\ At(w, "heal_credentials")
    /\ \E r \in turn[w].todo, has \in BOOLEAN :
          /\ Reads(r, has)
          /\ turn' = [turn EXCEPT
                ![w].todo = @ \ {r}, ![w].misread = Misread(w, r, has),
                ![w].good = @ \union IF has THEN {r} ELSE {},
                ![w].pc = IF turn[w].todo = {r} THEN "heal_entries" ELSE @]
    /\ UNCHANGED <<jobs, generation>>

\* Mutant: only entries of Repositories that still exist are looked at.
HealListedEntries(w) ==
    /\ At(w, "heal_entries")
    /\ Proceed(w, {r \in world.stored \ turn[w].good : Polling(r) # {}},
               "heal_remove", "heal_missing")
    /\ UNCHANGED <<may, jobs, generation>>

HealEntries(w) ==
    /\ At(w, "heal_entries")
    /\ Proceed(w, {r \in Repositories \ turn[w].good : Polling(r) # {}},
               "heal_remove", "heal_missing")
    /\ UNCHANGED <<may, jobs, generation>>

HealRemove(w) ==
    /\ At(w, "heal_remove")
    /\ \E r \in turn[w].todo :
          /\ Delete(Polling(r))
          /\ Proceed(w, turn[w].todo \ {r}, "heal_remove", "heal_missing")
    /\ UNCHANGED <<may, generation>>

HealMissing(w) ==
    /\ At(w, "heal_missing")
    /\ Proceed(w, {r \in turn[w].good : Polling(r) = {}}, "heal_enqueue", "heal_end")
    /\ UNCHANGED <<may, jobs, generation>>

HealEnqueue(w) ==
    /\ At(w, "heal_enqueue")
    /\ \E r \in turn[w].todo :
          /\ Enqueue(r)
          /\ turn' = [turn EXCEPT ![w].repo = r, ![w].pc = "heal_ensure"]
    /\ UNCHANGED <<may, generation>>

HealEnsure(w) ==
    /\ At(w, "heal_ensure")
    /\ EnsureKeyed("poll", turn[w].repo, FALSE)
    /\ Proceed(w, turn[w].todo \ {turn[w].repo}, "heal_enqueue", "heal_end")
    /\ UNCHANGED <<may, generation>>

Healing == {"heal_list", "heal_credentials", "heal_entries", "heal_remove", "heal_missing",
            "heal_enqueue", "heal_ensure"}

\* finalizePollingAutoHeal
HealEnd(w) ==
    /\ \/ At(w, "heal_end") /\ Delete({turn[w].job})
       \/ At(w, "heal_postpone") /\ Postpone(turn[w].job)
    /\ Rest(w)
    /\ UNCHANGED <<may, generation>>

-----------------------------------------------------------------------------
(* A scheduled refresh, and a manual one. *)

PollList(w) ==
    /\ At(w, "poll_list")
    /\ Goto(w, IF turn[w].repo \in world.stored THEN "poll_credential" ELSE "poll_again")
    /\ UNCHANGED <<may, jobs, generation>>

PollCredential(w) ==
    /\ At(w, "poll_credential")
    /\ \E has \in BOOLEAN :
          Reads(turn[w].repo, has) /\ Goto(w, IF has THEN "poll_refresh" ELSE "poll_again")
    /\ UNCHANGED <<jobs, generation>>

\* refreshRepository
Refresh(w) ==
    /\ turn[w].pc \in {"refresh", "poll_refresh"}
    /\ \E verdict \in {"done", "failed", "throttled"} :
          /\ verdict = "failed" \/ turn[w].repo \in world.stored
          /\ turn' = [turn EXCEPT ![w].verdict = verdict,
                        ![w].pc = IF @ = "refresh" THEN "manual_end" ELSE "poll_again"]
          /\ IF verdict = "throttled" THEN Once("throttle") ELSE UNCHANGED may
    /\ UNCHANGED <<jobs, generation>>

\* finalizeScheduledRefresh
PollAgain(w) ==
    /\ At(w, "poll_again")
    /\ Goto(w, IF turn[w].repo \in world.stored THEN "poll_confirm" ELSE "poll_drop")
    /\ UNCHANGED <<may, jobs, generation>>

PollConfirm(w) ==
    /\ At(w, "poll_confirm")
    /\ \E has \in BOOLEAN :
          /\ Reads(turn[w].repo, has)
          /\ turn' = [turn EXCEPT ![w].misread = Misread(w, turn[w].repo, has),
                                  ![w].pc = IF has THEN "poll_keep" ELSE "poll_drop"]
    /\ UNCHANGED <<jobs, generation>>

\* Mutant: a refresh that failed ends the schedule.
PollEndOnFailure(w) ==
    /\ \/ At(w, "poll_drop") /\ Delete({turn[w].job})
       \/ At(w, "poll_keep") /\ IF turn[w].verdict = "failed" THEN Delete({turn[w].job})
                                ELSE Postpone(turn[w].job)
    /\ Rest(w)
    /\ UNCHANGED <<may, generation>>

PollEnd(w) ==
    /\ \/ At(w, "poll_drop") /\ Delete({turn[w].job})
       \/ At(w, "poll_keep") /\ Postpone(turn[w].job)
    /\ Rest(w)
    /\ UNCHANGED <<may, generation>>

\* finalizeManualRefresh
ManualEnd(w) ==
    /\ At(w, "manual_end")
    /\ LET i == turn[w].job
       IN  \/ turn[w].verdict = "done" /\ Delete({i})
           \/ turn[w].verdict = "throttled" /\ Postpone(i)
           \/ /\ turn[w].verdict = "failed"
              /\ IF i \in DOMAIN jobs THEN Write(i, DeadLetteredRow(jobs[i].row))
                 ELSE UNCHANGED jobs
    /\ Rest(w)
    /\ UNCHANGED <<may, generation>>

Ends == {"heal_end", "heal_postpone", "manual_end", "poll_list", "poll_credential", "poll_again",
         "poll_confirm", "poll_keep", "poll_drop"}

\* An error ends a start, makes the Auto-heal try again, and leaves any other
\* job with its lock.
Break(w) ==
    /\ Once("break")
    /\ \/ turn[w].pc \in Booting /\ turn' = [turn EXCEPT ![w] = Idle]
       \/ turn[w].pc \in Healing /\ Goto(w, "heal_postpone")
       \/ turn[w].pc \in Ends /\ Rest(w)
    /\ UNCHANGED <<plan, world, jobs, generation, call>>

Step(w) ==
    /\ \/ Transfer(w) \/ Revive(w) \/ EnsureHeal(w) \/ Retire(w)
       \/ Claim(w) \/ NothingUrgent(w) \/ ClaimPoll(w) \/ NothingDue(w)
       \/ HealList(w) \/ HealCredential(w) \/ HealEntries(w) \/ HealRemove(w)
       \/ HealMissing(w) \/ HealEnqueue(w) \/ HealEnsure(w) \/ HealEnd(w)
       \/ PollList(w) \/ PollCredential(w) \/ Refresh(w) \/ PollAgain(w)
       \/ PollConfirm(w) \/ PollEnd(w) \/ ManualEnd(w)
    /\ UNCHANGED <<plan, world, call>>

-----------------------------------------------------------------------------
(* The operator's calls. *)

\* Calls are alike: the next one takes a free place.
Free(c) == c = CHOOSE d \in Callers : call[d].pc = "none"

Begin(c, kind, r, pc) ==
    /\ call[c].pc = "none" /\ Free(c)
    /\ Once(kind)
    /\ call' = [call EXCEPT ![c] = [NoCall EXCEPT !.pc = pc, !.kind = kind, !.repo = r]]
    /\ UNCHANGED <<plan, jobs, generation, turn>>

\* tokenProvisioning has one permit.
Provisioning == \E c \in Callers : call[c].kind \in {"token", "linear"}

AddToken(c, r) ==
    /\ ~Provisioning /\ r \in world.stored
    /\ Begin(c, "token", r, "secret")
    /\ UNCHANGED world

AddLinearKey(c) ==
    /\ ~Provisioning
    /\ Begin(c, "linear", LinearKey, "secret")
    /\ UNCHANGED world

AddRepository(c, r) ==
    /\ r \notin world.stored \union world.removed
    /\ Begin(c, "add", r, "check")
    /\ world' = [world EXCEPT !.stored = @ \union {r}]

RemoveRepository(c, r) ==
    /\ r \in world.stored
    /\ Begin(c, "remove", r, "suspend")
    /\ world' = [world EXCEPT !.stored = @ \ {r}, !.removed = @ \union {r}]

RefreshRepository(c, r) ==
    /\ r \in world.stored
    /\ Begin(c, "refresh", r, "enqueue")
    /\ UNCHANGED world

\* Another project path looks up another secret.
UpdateRepositorySettings(c, r) ==
    /\ call[c].pc = "none" /\ Free(c) /\ r \in world.stored
    /\ Once("settings")
    /\ \E linear, has \in BOOLEAN :
          /\ world' = [world EXCEPT
                !.linear = (@ \ {r}) \union IF linear THEN {r} ELSE {},
                !.secrets = (@ \ {r}) \union IF has THEN {r} ELSE {}]
          /\ call' = [call EXCEPT ![c] = [NoCall EXCEPT !.pc = "suspend", !.kind = "settings",
                                                        !.repo = r, !.linear = linear]]
    /\ UNCHANGED <<plan, jobs, generation, turn>>

AddSecret(c) ==
    /\ call[c].pc = "secret"
    /\ world' = [world EXCEPT !.secrets = @ \union {call[c].repo}]
    /\ call' = [call EXCEPT ![c].pc = IF call[c].kind = "linear" THEN "list" ELSE "ensure"]
    /\ UNCHANGED <<may, jobs>>

\* The next Repository of addLinearApiKey, or the end of a call.
NextOf(c, todo) ==
    \/ todo = {} /\ call' = [call EXCEPT ![c] = NoCall]
    \/ \E r \in todo : call' = [call EXCEPT ![c].repo = r, ![c].todo = todo \ {r},
                                            ![c].pc = "ensure"]

ListLinear(c) ==
    /\ call[c].pc = "list"
    /\ NextOf(c, world.stored \intersect world.linear)
    /\ UNCHANGED <<may, world, jobs>>

\* suspendRepositoryPolling
Suspend(c) ==
    /\ call[c].pc = "suspend"
    /\ Delete(Polling(call[c].repo))
    /\ call' = [call EXCEPT ![c] = IF @.kind = "remove" THEN NoCall ELSE [@ EXCEPT !.pc = "check"]]
    /\ UNCHANGED <<may, world>>

\* activatePollingIfCredentialed
Check(c) ==
    /\ call[c].pc = "check"
    /\ \E has \in BOOLEAN :
          /\ Reads(IF call[c].linear THEN LinearKey ELSE call[c].repo, has)
          /\ call' = [call EXCEPT ![c] = IF has THEN [@ EXCEPT !.pc = "ensure"] ELSE NoCall]
    /\ UNCHANGED <<world, jobs>>

\* activateRepositoryPolling
Ensure(c) ==
    /\ call[c].pc = "ensure"
    /\ EnsureKeyed("poll", call[c].repo, FALSE)
    /\ call' = [call EXCEPT ![c].pc = "enqueue"]
    /\ UNCHANGED <<may, world>>

EnqueueRefresh(c) ==
    /\ call[c].pc = "enqueue"
    /\ Enqueue(call[c].repo)
    /\ NextOf(c, call[c].todo)
    /\ UNCHANGED <<may, world>>

\* An error is logged, and the call ends or goes on to its next Repository.
CallBreaks(c) ==
    /\ call[c].pc # "none"
    /\ Once("break")
    /\ NextOf(c, call[c].todo)
    /\ UNCHANGED <<world, jobs>>

Advance(c) ==
    /\ \/ AddSecret(c) \/ ListLinear(c) \/ Suspend(c) \/ Check(c) \/ Ensure(c)
       \/ EnqueueRefresh(c) \/ CallBreaks(c)
    /\ UNCHANGED <<plan, generation, turn>>

\* The vault, or the environment, changes (external).
Outside(r) ==
    /\ Once("outside")
    /\ world' = [world EXCEPT !.secrets = IF r \in @ THEN @ \ {r} ELSE @ \union {r}]
    /\ UNCHANGED <<plan, jobs, generation, turn, call>>

-----------------------------------------------------------------------------
\* A worker looks at the Repositories before it decides about entries.
Looks(w) == turn'[w].pc # turn[w].pc /\ turn[w].pc \in {"heal_list", "poll_again"}

Deciding == (Healing \ {"heal_list"})
              \union {"heal_end", "poll_confirm", "poll_keep", "poll_drop"}

Record(r) == <<r \in world.stored, r \in world.secrets>>

History(actor) ==
    /\ hist' = [w \in Workers |->
          IF Looks(w) \/ turn'[w].pc \notin Deciding THEN Unchanging
          ELSE [world   |-> hist[w].world \union {r \in Repositories : Record(r)' # Record(r)},
                entries |-> hist[w].entries
                              \union IF w = actor THEN {}
                                     ELSE {r \in Repositories : Polling(r)' # Polling(r)}]]
    /\ calm' = IF may'["start"] # may["start"] THEN \A c \in Callers : call[c].pc = "none"
               ELSE /\ calm
                    /\ \/ \A b \in Requests \union Faults : may'[b] = may[b]
                       \/ \E w \in Workers : At(w, "heal_postpone")' /\ turn[w].pc \in Healing

Init ==
    /\ plan \in Plans
    /\ may = plan.budget
    /\ world = plan.world
    /\ jobs = plan.jobs
    /\ generation = Nobody
    /\ turn = [w \in Workers |-> Idle]
    /\ call = [c \in Callers |-> NoCall]
    /\ hist = [w \in Workers |-> Unchanging]
    /\ calm = FALSE

Working(w) == Step(w) /\ History(w)

Time == \E i \in DOMAIN jobs : (BecomeDue(i) \/ LockExpires(i)) /\ History(Nobody)

Operator ==
    /\ \/ \E c \in Callers :
             \/ Advance(c) \/ AddLinearKey(c)
             \/ \E r \in Repositories :
                   \/ AddToken(c, r) \/ AddRepository(c, r) \/ RemoveRepository(c, r)
                   \/ RefreshRepository(c, r) \/ UpdateRepositorySettings(c, r)
       \/ \E r \in Repositories : Outside(r)
    /\ History(Nobody)

Next ==
    \/ \E w \in Workers :
          \/ Working(w)
          \/ (Start(w) \/ Reload(w) \/ Interrupt(w) \/ Break(w)) /\ History(w)
    \/ Crash /\ History(Nobody)
    \/ Time
    \/ Operator

\* A due time and the end of a lock are moments the clock reaches, whatever the
\* worker does in between; a worker runs until its process ends.
Fairness ==
    /\ WF_vars(\E w \in Workers : Working(w))
    /\ \A key \in Repositories \union {Heal} :
          SF_vars(\E i \in DOMAIN jobs : jobs[i].keyed /\ jobs[i].about = key /\ BecomeDue(i)
                                            /\ History(Nobody))
    /\ WF_vars(\E i \in DOMAIN jobs : LockExpires(i) /\ UNCHANGED may /\ History(Nobody))

Spec == Init /\ [][Next]_vars /\ Fairness

-----------------------------------------------------------------------------
(* Properties. *)

Phases == Booting \union Healing \union Ends
            \union {"off", "claim", "claim_poll", "refresh", "poll_refresh"}

Turns == [pc : Phases, job : Nat, repo : Repositories \union {Heal}, todo : SUBSET Repositories,
          good : SUBSET Repositories, verdict : {"done", "failed", "throttled"},
          misread : SUBSET Repositories]

CallsUnderWay ==
    [pc : {"none", "secret", "list", "suspend", "check", "ensure", "enqueue"},
     kind : Requests \union {"none"}, repo : Repositories \union {Heal, LinearKey},
     linear : BOOLEAN, todo : SUBSET Repositories]

\* A key has one row in a queue (ensureKeyed).
JobsOK ==
    /\ DOMAIN jobs \subseteq Nat /\ IsFiniteSet(DOMAIN jobs)
    /\ jobs \in [DOMAIN jobs -> Jobs]
    /\ \A i \in DOMAIN jobs : jobs[i].keyed => jobs[i].lane # "jobs"
    /\ \A lane \in Lanes, key \in Repositories \union {Heal} :
          \A i, k \in Under(lane, key) : i = k

CallsOK ==
    /\ call \in [Callers -> CallsUnderWay]
    /\ \A c \in Callers :
          call[c].pc \in {"suspend", "check", "ensure", "enqueue"} => call[c].repo \in Repositories

\* The variables have their types; a row is delivered no more often than its
\* limit allows (rawClaim).
TypeOK ==
    /\ plan \in Plans /\ may \in [Budgets -> Nat] /\ calm \in BOOLEAN
    /\ world \in Worlds /\ world.stored \intersect world.removed = {}
    /\ generation \in Workers \union {Nobody}
    /\ turn \in [Workers -> Turns]
    /\ hist \in [Workers -> [world : SUBSET Repositories, entries : SUBSET Repositories]]
    /\ JobsOK /\ CallsOK

\* The schedule of a credentialed Repository ends only by a settings save, which
\* goes on to activate it again, or by a worker that looked at the Repository
\* before its record changed, or misread its credential: a failed, throttled or
\* repeated refresh, a crash or a second worker never ends it
\* (finalizeScheduledRefresh, repairPollingSchedules, suspendRepositoryPolling).
SchedulesSurvive ==
    [][\A r \in Repositories :
          Wanted(r) /\ Polling(r) # {} /\ Polling(r)' = {} =>
             \/ \E c \in Callers : call[c].pc = "suspend" /\ call[c].kind = "settings"
                                      /\ call'[c] # call[c]
             \/ \E w \in Workers : /\ turn'[w] # turn[w]
                                   /\ r \in hist[w].world \union turn[w].misread]_vars

\* An Auto-heal that comes to its end has made the entries exactly match the
\* credentialed Repositories, except those that somebody else changed, or whose
\* credential was misread, since it looked (repairPollingSchedules).
HealIsExact ==
    \A w \in Workers : At(w, "heal_end") =>
       \A r \in Repositories \ (hist[w].world \union hist[w].entries \union turn[w].misread) :
          (Polling(r) # {}) = Wanted(r)

\* Every start repairs whatever faults left behind: if none follows it but errors of
\* the Auto-heal, which tries again, each credentialed Repository is polled again
\* and again, and each other one loses its entry (startJobWorker,
\* reviveExhaustedKeyed, repairPollingSchedules, finalizeScheduledRefresh).
PollingRecovers ==
    \A r \in Repositories :
       /\ <>[](plan.keepsUp /\ calm /\ Wanted(r)) =>
             []<>(\E w \in Workers : At(w, "poll_refresh") /\ turn[w].repo = r)
       /\ <>[](plan.keepsUp /\ calm /\ ~Wanted(r)) => <>[](Polling(r) = {})
=============================================================================
