------------------------------ MODULE JobQueue ------------------------------
(***************************************************************************)
(* The durable job queue (packages/sqlite-queue-service, contract in       *)
(* packages/queue-service): named queues of rows, claimed for a visibility *)
(* timeout, delivered at least once, at most job_retry_limit times.        *)
(*                                                                         *)
(* A claim hands out a job id and no token, so a claimant whose lease ran  *)
(* out can still acknowledge, fail, postpone or extend the job. lease and  *)
(* disturbed are history: what each claimant was promised, and which jobs  *)
(* somebody touched without a live lease of his own.                       *)
(***************************************************************************)
EXTENDS JobRows, FiniteSets

CONSTANTS
    JobIds, NoJob,  \* ids makeJobId hands out, reused once nobody knows them
    Queues, Keys, NoKey,
    Claimants,      \* fibers of this process or of one it replaced
    Limits          \* values of job_retry_limit

ASSUME QueueAssumption ==
    /\ NoKey \notin Keys
    /\ NoJob \notin JobIds
    /\ Limits \subseteq Nat \ {0}

VARIABLES
    jobs,           \* the rows of job_queue, by id
    claim,          \* the job each claimant works on
    lease,          \* whether the claimant's lease is still running
    disturbed       \* jobs touched without a live lease

vars == <<jobs, claim, lease, disturbed>>

Entries == {row \in [queue : Queues, key : Keys \union {NoKey}, attempts : Nat,
                     limit : Nat, due : BOOLEAN, lock : Locks] : row.limit \in Limits}

Stored == DOMAIN jobs

Fresh == JobIds \ (Stored \union {claim[c] : c \in Claimants})

Put(id, row) == jobs' = [j \in Stored \union {id} |-> IF j = id THEN row ELSE jobs[j]]

Delete(ids) == jobs' = [j \in Stored \ ids |-> jobs[j]]

Entry(queue, key, limit, due) ==
    [queue |-> queue, key |-> key, attempts |-> 0, limit |-> limit,
     due |-> due, lock |-> "none"]

\* Rows of a queue under a key; the unique index admits one.
Under(queue, key) == {j \in Stored : jobs[j].queue = queue /\ jobs[j].key = key}

\* A claimant with a live lease on id, or nobody, acts; anybody else disturbs.
Touch(c, id) ==
    disturbed' = IF claim[c] = id /\ lease[c] THEN disturbed ELSE disturbed \union {id}

Idle(c) == claim[c] = NoJob

Finish(c) ==
    /\ claim' = [claim EXCEPT ![c] = NoJob]
    /\ lease' = [lease EXCEPT ![c] = FALSE]

-----------------------------------------------------------------------------
Init ==
    /\ jobs = <<>>
    /\ claim = [c \in Claimants |-> NoJob]
    /\ lease = [c \in Claimants |-> FALSE]
    /\ disturbed = {}

\* enqueue (due at once) and enqueueWithDelay.
Enqueue ==
    \E id \in Fresh, queue \in Queues, limit \in Limits, due \in BOOLEAN :
        /\ Put(id, Entry(queue, NoKey, limit, due))
        /\ disturbed' = disturbed \ {id}
        /\ UNCHANGED <<claim, lease>>

\* ensureKeyed inserts, and does nothing on a conflict of the unique index of
\* queue and key: the guard is that index, so no property is about it here.
EnsureKeyed ==
    \E id \in Fresh, queue \in Queues, key \in Keys, limit \in Limits, due \in BOOLEAN :
        /\ Under(queue, key) = {}
        /\ Put(id, Entry(queue, key, limit, due))
        /\ disturbed' = disturbed \ {id}
        /\ UNCHANGED <<claim, lease>>

RemoveKeyed ==
    \E queue \in Queues, key \in Keys :
        /\ Under(queue, key) # {}
        /\ Delete(Under(queue, key))
        /\ UNCHANGED <<claim, lease, disturbed>>

\* Mutant: a locked row is claimed as well.
ClaimLocked(c) ==
    /\ Idle(c)
    /\ \E id \in Stored :
          /\ jobs[id].due /\ ~Exhausted(jobs[id])
          /\ Put(id, ClaimedRow(jobs[id]))
          /\ claim' = [claim EXCEPT ![c] = id]
          /\ lease' = [lease EXCEPT ![c] = TRUE]
    /\ UNCHANGED disturbed

\* rawClaim takes a claimable row with the fewest attempts; among these the
\* order of available_at and id is left open.
Claim(c) ==
    /\ Idle(c)
    /\ \E id \in Stored :
          /\ Claimable(jobs[id])
          /\ \A j \in Stored : jobs[j].queue = jobs[id].queue /\ Claimable(jobs[j])
                                  => jobs[id].attempts <= jobs[j].attempts
          /\ Put(id, ClaimedRow(jobs[id]))
          /\ claim' = [claim EXCEPT ![c] = id]
          /\ lease' = [lease EXCEPT ![c] = TRUE]
    /\ UNCHANGED disturbed

\* The claimant reports on its job, whose row may be gone or claimed by another:
\* an absent row is JobNotFound and changes nothing.
Acknowledge(c) ==
    /\ ~Idle(c)
    /\ Delete({claim[c]})
    /\ Touch(c, claim[c])
    /\ Finish(c)

Report(c, row) ==
    /\ Put(claim[c], row)
    /\ Touch(c, claim[c])
    /\ Finish(c)

Fail(c) ==
    /\ claim[c] \in Stored
    /\ \/ Report(c, DeadLetteredRow(jobs[claim[c]]))
       \/ Report(c, ReleasedRow(jobs[claim[c]]))
       \/ Finish(c) /\ UNCHANGED <<jobs, disturbed>>

\* Mutant: any row is postponed, locked or not.
PostponeAny(c) ==
    /\ claim[c] \in Stored
    /\ \E due \in BOOLEAN : Report(c, RenewedRow(jobs[claim[c]], due))

\* postpone and postponeKeyed want a locked row, whoever locked it.
Postpone(c) ==
    /\ claim[c] \in Stored
    /\ Locked(jobs[claim[c]])
    /\ \E due \in BOOLEAN : Report(c, RenewedRow(jobs[claim[c]], due))

\* extendVisibility likewise; the claimant goes on.
Extend(c) ==
    /\ claim[c] \in Stored
    /\ Locked(jobs[claim[c]])
    /\ Put(claim[c], ExtendedRow(jobs[claim[c]]))
    /\ Touch(c, claim[c])
    /\ lease' = [lease EXCEPT ![c] = TRUE]
    /\ UNCHANGED claim

\* The claimant dies, or learns that its row is gone or unlocked.
Forget(c) ==
    /\ ~Idle(c)
    /\ Finish(c)
    /\ UNCHANGED <<jobs, disturbed>>

\* reviveExhaustedKeyed, at the start of a worker: exhausted keyed rows of a
\* queue are due again, also one an older process still works on.
ReviveExhaustedKeyed ==
    \E queue \in Queues :
        LET revived == {j \in Stored : /\ jobs[j].queue = queue
                                       /\ jobs[j].key # NoKey
                                       /\ Exhausted(jobs[j])}
        IN
        /\ revived # {}
        /\ jobs' = [j \in Stored |-> IF j \in revived THEN RenewedRow(jobs[j], TRUE) ELSE jobs[j]]
        /\ disturbed' = disturbed \union revived
        /\ UNCHANGED <<claim, lease>>

\* requeueByPayloadTag moves the rows of a tag; a key taken in the other queue
\* fails the whole statement.
RequeueByPayloadTag ==
    \E from, to \in Queues : \E moved \in SUBSET {j \in Stored : jobs[j].queue = from} :
        /\ from # to /\ moved # {}
        /\ \A j \in moved : jobs[j].key # NoKey => Under(to, jobs[j].key) = {}
        /\ jobs' = [j \in Stored |-> IF j \in moved THEN [jobs[j] EXCEPT !.queue = to] ELSE jobs[j]]
        /\ UNCHANGED <<claim, lease, disturbed>>

\* Time passes a row's available_at or locked_until. The leases that end with
\* the lock are those of every claimant of the row that nobody disturbed.
BecomeDue(id) ==
    /\ ~jobs[id].due
    /\ Put(id, DueRow(jobs[id]))
    /\ UNCHANGED <<claim, lease, disturbed>>

LockExpires(id) ==
    /\ jobs[id].lock = "live"
    /\ Put(id, ExpiredRow(jobs[id]))
    /\ lease' = [c \in Claimants |-> lease[c] /\ claim[c] # id]
    /\ UNCHANGED <<claim, disturbed>>

LeaseExpires(c) ==
    /\ lease[c] /\ claim[c] \in disturbed
    /\ lease' = [lease EXCEPT ![c] = FALSE]
    /\ UNCHANGED <<jobs, claim, disturbed>>

Next ==
    \/ Enqueue \/ EnsureKeyed \/ RemoveKeyed \/ ReviveExhaustedKeyed \/ RequeueByPayloadTag
    \/ \E c \in Claimants : \/ Claim(c) \/ Acknowledge(c) \/ Fail(c) \/ Postpone(c)
                            \/ Extend(c) \/ Forget(c) \/ LeaseExpires(c)
    \/ \E id \in Stored : BecomeDue(id) \/ LockExpires(id)

Spec == Init /\ [][Next]_vars

-----------------------------------------------------------------------------
(* Properties. *)

\* Typing; no row was delivered more often than its limit.
TypeOK ==
    /\ Stored \subseteq JobIds
    /\ \A j \in Stored : jobs[j] \in Entries /\ jobs[j].attempts <= jobs[j].limit
    /\ claim \in [Claimants -> JobIds \union {NoJob}]
    /\ lease \in [Claimants -> BOOLEAN]
    /\ disturbed \subseteq JobIds

\* What getStats counts as a dead letter and not as being processed.
DeadLettered(row) == Exhausted(row) /\ row.lock # "live"

\* A dead letter comes back to life in two ways only. The revival of keyed
\* entries brings it back. So does a claimant of this very job, late because its
\* lease ran out, that postpones or extends it while the row still shows the
\* expired lock: the guard locked_until IS NOT NULL asks for no time. Once the
\* job was released or dead-lettered by its claimant no late call revives it, and
\* no delivery ever does.
DeadLettersStayDead ==
    [][\A j \in Stored \intersect DOMAIN jobs' :
          DeadLettered(jobs[j]) /\ ~DeadLettered(jobs'[j]) =>
             \/ ReviveExhaustedKeyed
             \/ /\ jobs[j].lock = "expired"
                /\ \E c \in Claimants : /\ claim[c] = j /\ ~lease[c]
                                        /\ Postpone(c) \/ Extend(c)]_vars

\* While a claimant's lease runs it has the job to itself, unless somebody acted
\* on the job without a lease of his own: the queue has no claim token, so the
\* exclusion rests on claimants that stop when their lease ends.
LeaseIsExclusive ==
    \A c, d \in Claimants :
        c # d /\ lease[c] /\ lease[d] /\ claim[c] = claim[d] => claim[c] \in disturbed
=============================================================================
