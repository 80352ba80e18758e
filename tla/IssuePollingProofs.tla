------------------------- MODULE IssuePollingProofs -------------------------
(***************************************************************************)
(* Proofs about Issue Polling, for any number of Repositories, workers,    *)
(* calls and rows: types and one row per key, the Auto-heal is exact, and  *)
(* only those who may end a schedule do.                                   *)
(***************************************************************************)
EXTENDS IssuePolling, FiniteSetTheorems, TLAPS

-----------------------------------------------------------------------------
(* Rows.                                                                    *)

RowsOfJobs == [attempts : 0 .. Limit, limit : {Limit}, due : BOOLEAN, lock : Locks]

LEMMA JobsAreRows ==
    ASSUME NEW job \in Jobs
    PROVE  /\ job.row \in RowsOfJobs /\ job.lane \in Lanes /\ job.keyed \in BOOLEAN
           /\ job.about \in Repositories \union {Heal}
           /\ \A row \in RowsOfJobs : /\ [job EXCEPT !.row = row] \in Jobs
                                      /\ [job EXCEPT !.row = row].lane = job.lane
                                      /\ [job EXCEPT !.row = row].about = job.about
                                      /\ [job EXCEPT !.row = row].keyed = job.keyed
BY DEF Jobs, RowsOfJobs

LEMMA RowStatements ==
    ASSUME NEW row \in RowsOfJobs
    PROVE  /\ Claimable(row) => ClaimedRow(row) \in RowsOfJobs
           /\ \A due \in BOOLEAN : RenewedRow(row, due) \in RowsOfJobs
           /\ DeadLetteredRow(row) \in RowsOfJobs
           /\ DueRow(row) \in RowsOfJobs /\ ExpiredRow(row) \in RowsOfJobs
<1> DEFINE Remade(attempts, lock, due) ==
              [row EXCEPT !.lock = lock, !.attempts = attempts, !.due = due]
<1>a. /\ row.attempts \in 0 .. Limit /\ row.limit = Limit /\ Limit = 2
      /\ 0 \in 0 .. Limit /\ Limit \in 0 .. Limit
  BY DEF RowsOfJobs, Limit
<1>b. \A attempts \in 0 .. Limit, lock \in Locks, due \in BOOLEAN :
         Remade(attempts, lock, due) \in RowsOfJobs
  BY DEF RowsOfJobs
<1>c. "none" \in Locks /\ "live" \in Locks /\ row.due \in BOOLEAN
  BY DEF Locks, RowsOfJobs
<1>1. ASSUME Claimable(row) PROVE ClaimedRow(row) \in RowsOfJobs
  <2>1. row.attempts + 1 \in 0 .. Limit
    BY <1>1, <1>a DEF Claimable, Exhausted
  <2>2. ClaimedRow(row)
          = Remade(row.attempts + 1, "live", row.due)
    BY DEF ClaimedRow, RowsOfJobs
  <2> HIDE DEF Remade
  <2> QED BY <2>1, <2>2, <1>b, <1>c
<1>2. ASSUME NEW due \in BOOLEAN PROVE RenewedRow(row, due) \in RowsOfJobs
  BY <1>a, <1>b, <1>c DEF RenewedRow
<1>3. DeadLetteredRow(row) \in RowsOfJobs
  <2>1. DeadLetteredRow(row)
          = Remade(row.limit, "none", row.due)
    BY DEF DeadLetteredRow, RowsOfJobs
  <2> HIDE DEF Remade
  <2> QED BY <2>1, <1>a, <1>b, <1>c
<1>4. DueRow(row) \in RowsOfJobs /\ ExpiredRow(row) \in RowsOfJobs
  BY DEF RowsOfJobs, Limit, Locks, DueRow, ExpiredRow
<1> QED BY <1>1, <1>2, <1>3, <1>4

LEMMA NewRows ==
    ASSUME NEW lane \in Lanes, NEW key \in Repositories \union {Heal}, NEW keyed \in BOOLEAN,
           NEW due \in BOOLEAN
    PROVE  [lane |-> lane, about |-> key, keyed |-> keyed, row |-> NewRow(Limit, due)] \in Jobs
BY DEF Jobs, NewRow, Limit, Locks

\* makeJobId finds an id that neither the table nor a worker knows.
LEMMA FreshId ==
    ASSUME JobsOK, turn \in [Workers -> Turns]
    PROVE  /\ NewId \in Nat /\ NewId \notin DOMAIN jobs
           /\ \A w \in Workers : turn[w].job # NewId
<1> DEFINE known == {turn[w].job : w \in Workers}
           named == [w \in Workers |-> turn[w].job]
           D == DOMAIN jobs
           n == Cardinality(D) + Cardinality(Workers) + 1
<1>1. IsFiniteSet(Workers) /\ IsFiniteSet(D)
  BY PollingAssumption DEF PollingAssumption, JobsOK
<1>2. Cardinality(D) \in Nat /\ Cardinality(Workers) \in Nat /\ n \in Nat
  BY <1>1, FS_CardinalityType
<1>3. named \in Surjection(Workers, known)
  BY DEF Surjection
<1>4. IsFiniteSet(known) /\ Cardinality(known) <= Cardinality(Workers)
  BY <1>1, <1>3, FS_Surjection
<1>5. Cardinality(known) \in Nat
  BY <1>4, FS_CardinalityType
<1>6. IsFiniteSet(D \union known) /\ IsFiniteSet(D \intersect known)
  BY <1>1, <1>4, FS_Union, FS_Intersection
<1>7. Cardinality(D \union known) \in Nat /\ Cardinality(D \intersect known) \in Nat
  BY <1>6, FS_CardinalityType
<1>8. Cardinality(D \union known) < n
  <2>1. Cardinality(D \union known)
           = Cardinality(D) + Cardinality(known) - Cardinality(D \intersect known)
    BY <1>1, <1>4, FS_Union
  <2> HIDE DEF D, known
  <2> QED BY <2>1, <1>2, <1>4, <1>5, <1>7
<1>9. Cardinality(1 .. n) = n
  <2> HIDE DEF n
  <2> QED BY <1>2, FS_Interval
<1>10. ~(1 .. n \subseteq D \union known)
  <2> SUFFICES ASSUME 1 .. n \subseteq D \union known PROVE FALSE
    OBVIOUS
  <2>1. Cardinality(1 .. n) <= Cardinality(D \union known)
    <3> HIDE DEF D, known, n
    <3> QED BY <1>6, FS_Subset
  <2> HIDE DEF D, known, n
  <2> QED BY <2>1, <1>2, <1>7, <1>8, <1>9
<1>11. \E i \in 1 .. n : i \notin D \union known
  BY <1>10
<1>12. NewId \in 1 .. n /\ NewId \notin D \union known
  BY <1>11 DEF NewId
<1> QED BY <1>12, <1>2

-----------------------------------------------------------------------------
(* Statements of the queue. *)

\* No row comes to be another job, or one for the poll queue.
Alike(i) ==
    /\ i \in DOMAIN jobs
    /\ jobs'[i].about = jobs[i].about
    /\ jobs'[i].lane = "poll" <=> jobs[i].lane = "poll"

Stable == \A w \in Workers : turn[w].job \in DOMAIN jobs' => Alike(turn[w].job)

Steady(S) == \A r \in Repositories \ S : Polling(r)' = Polling(r)

\* A statement that writes rows without their key and queue.
LEMMA Rewritten ==
    ASSUME JobsOK, DOMAIN jobs' = DOMAIN jobs, jobs' \in [DOMAIN jobs -> Jobs],
           \A i \in DOMAIN jobs : /\ jobs'[i].keyed = jobs[i].keyed
                                  /\ jobs'[i].about = jobs[i].about
                                  /\ jobs[i].keyed => jobs'[i].lane = jobs[i].lane
                                  /\ jobs'[i].lane = "poll" <=> jobs[i].lane = "poll"
    PROVE  JobsOK' /\ Stable /\ Steady({})
<1>1. ASSUME NEW lane, NEW key PROVE Under(lane, key)' = Under(lane, key)
  BY DEF Under
<1>2. Steady({})
  BY <1>1 DEF Steady, Polling
<1>3. JobsOK'
  BY <1>1 DEF JobsOK
<1>4. Stable
  BY DEF Stable, Alike
<1> QED BY <1>2, <1>3, <1>4

LEMMA Same == ASSUME JobsOK, UNCHANGED jobs PROVE JobsOK' /\ Stable /\ Steady({})
BY DEF JobsOK, Stable, Steady, Alike, Polling, Under

LEMMA Written ==
    ASSUME JobsOK, NEW i \in DOMAIN jobs, NEW row \in RowsOfJobs, Write(i, row)
    PROVE  JobsOK' /\ Stable /\ Steady({})
<1>1. jobs[i] \in Jobs
  BY DEF JobsOK
<1>2. jobs' = [k \in DOMAIN jobs |-> IF k = i THEN [jobs[i] EXCEPT !.row = row] ELSE jobs[k]]
  BY DEF Write, Put
<1>3. jobs' \in [DOMAIN jobs -> Jobs] /\ DOMAIN jobs' = DOMAIN jobs
  BY <1>1, <1>2, JobsAreRows DEF JobsOK
<1>4. \A k \in DOMAIN jobs : /\ jobs'[k].keyed = jobs[k].keyed /\ jobs'[k].about = jobs[k].about
                             /\ jobs'[k].lane = jobs[k].lane
  BY <1>1, <1>2, JobsAreRows
<1> QED BY <1>3, <1>4, Rewritten

LEMMA Postponed ==
    ASSUME JobsOK, NEW i, Postpone(i) PROVE JobsOK' /\ Stable /\ Steady({})
<1>1. CASE i \in DOMAIN jobs /\ Locked(jobs[i].row)
  <2>1. jobs[i].row \in RowsOfJobs
    BY <1>1, JobsAreRows DEF JobsOK
  <2>2. RenewedRow(jobs[i].row, FALSE) \in RowsOfJobs
    BY <2>1, RowStatements
  <2> QED BY <1>1, <2>2, Written DEF Postpone
<1>2. CASE ~(i \in DOMAIN jobs /\ Locked(jobs[i].row))
  BY <1>2, Same DEF Postpone
<1> QED BY <1>1, <1>2

LEMMA Revived ==
    ASSUME JobsOK, NEW lane, ReviveExhaustedKeyed(lane) PROVE JobsOK' /\ Stable /\ Steady({})
<1> DEFINE Renewed(i) == [jobs[i] EXCEPT !.row = RenewedRow(@, TRUE)]
<1>1. \A i \in DOMAIN jobs : /\ Renewed(i) \in Jobs
                             /\ Renewed(i).lane = jobs[i].lane /\ Renewed(i).about = jobs[i].about
                             /\ Renewed(i).keyed = jobs[i].keyed
  BY JobsAreRows, RowStatements DEF JobsOK
<1>2. DOMAIN jobs' = DOMAIN jobs
      /\ \A i \in DOMAIN jobs : jobs'[i] = jobs[i] \/ jobs'[i] = Renewed(i)
  BY DEF ReviveExhaustedKeyed
<1>3. jobs' \in [DOMAIN jobs -> Jobs]
  BY <1>1 DEF ReviveExhaustedKeyed, JobsOK
<1> HIDE DEF Renewed
<1> QED BY <1>1, <1>2, <1>3, Rewritten

LEMMA Transferred ==
    ASSUME JobsOK, NEW w, Transfer(w) PROVE JobsOK' /\ Stable /\ Steady({})
<1> DEFINE Moved(i) == [jobs[i] EXCEPT !.lane = "refresh"]
<1>1. \A i \in DOMAIN jobs : /\ Moved(i) \in Jobs /\ Moved(i).lane = "refresh"
                             /\ Moved(i).about = jobs[i].about /\ Moved(i).keyed = jobs[i].keyed
  BY DEF JobsOK, Jobs, Lanes
<1>2. DOMAIN jobs' = DOMAIN jobs
      /\ \A i \in DOMAIN jobs : jobs'[i] = IF jobs[i].lane = "jobs" THEN Moved(i) ELSE jobs[i]
  BY DEF Transfer
<1>3. jobs' \in [DOMAIN jobs -> Jobs]
  BY <1>1 DEF Transfer, JobsOK
<1> HIDE DEF Moved
<1>4. \A i \in DOMAIN jobs : jobs[i].keyed => jobs[i].lane # "jobs"
  BY DEF JobsOK
<1> QED BY <1>1, <1>2, <1>3, <1>4, Rewritten

LEMMA Deleted ==
    ASSUME JobsOK, NEW S, Delete(S)
    PROVE  /\ JobsOK' /\ Stable
           /\ \A r \in Repositories : Polling(r)' = Polling(r) \ S
<1>1. DOMAIN jobs' = DOMAIN jobs \ S /\ \A i \in DOMAIN jobs' : jobs'[i] = jobs[i]
  BY DEF Delete
<1>2. \A lane, key : Under(lane, key)' = Under(lane, key) \ S
  BY <1>1 DEF Under
<1>3. IsFiniteSet(DOMAIN jobs') /\ DOMAIN jobs' \subseteq Nat
  BY <1>1, FS_Subset DEF JobsOK
<1>4. jobs' \in [DOMAIN jobs' -> Jobs]
  BY <1>1 DEF Delete, JobsOK
<1>5. \A i \in DOMAIN jobs' : jobs'[i].keyed => jobs'[i].lane # "jobs"
  BY <1>1 DEF JobsOK
<1>6. JobsOK'
  BY <1>2, <1>3, <1>4, <1>5 DEF JobsOK
<1>7. Stable
  BY <1>1 DEF Stable, Alike
<1> QED BY <1>2, <1>6, <1>7 DEF Polling

\* A row with a new id.
LEMMA Inserted ==
    ASSUME JobsOK, turn \in [Workers -> Turns], NEW job \in Jobs, Put(NewId, job),
           job.keyed => job.lane # "jobs" /\ Under(job.lane, job.about) = {}
    PROVE  /\ JobsOK' /\ Stable
           /\ \A lane, key : Under(lane, key)' =
                 Under(lane, key) \union
                    IF job.keyed /\ job.lane = lane /\ job.about = key THEN {NewId} ELSE {}
<1>1. NewId \in Nat /\ NewId \notin DOMAIN jobs /\ \A w \in Workers : turn[w].job # NewId
  BY FreshId
<1> DEFINE n == NewId
<1>2. /\ DOMAIN jobs' = DOMAIN jobs \union {n} /\ jobs'[n] = job
      /\ \A i \in DOMAIN jobs : jobs'[i] = jobs[i]
  BY <1>1 DEF Put
<1>3. jobs' \in [DOMAIN jobs' -> Jobs]
  BY <1>2 DEF Put, JobsOK
<1> HIDE DEF n
<1>4. \A lane, key : Under(lane, key)' =
         Under(lane, key) \union
            IF job.keyed /\ job.lane = lane /\ job.about = key THEN {n} ELSE {}
  BY <1>2 DEF Under
<1>5. n \in Nat /\ n \notin DOMAIN jobs
  BY <1>1 DEF n
<1>6. IsFiniteSet(DOMAIN jobs') /\ DOMAIN jobs' \subseteq Nat
  BY <1>2, <1>5, FS_AddElement DEF JobsOK
<1>7. \A i \in DOMAIN jobs' : jobs'[i].keyed => jobs'[i].lane # "jobs"
  BY <1>2 DEF JobsOK
<1>8. JobsOK'
  <2>1. ASSUME NEW lane \in Lanes, NEW key \in Repositories \union {Heal},
               NEW i \in Under(lane, key)', NEW k \in Under(lane, key)'
        PROVE  i = k
    BY <1>4 DEF JobsOK
  <2> QED BY <2>1, <1>3, <1>6, <1>7 DEF JobsOK
<1>9. Stable
  BY <1>1, <1>2 DEF Stable, Alike, n
<1> QED BY <1>4, <1>8, <1>9 DEF n

LEMMA Enqueued ==
    ASSUME JobsOK, turn \in [Workers -> Turns], NEW r \in Repositories, Enqueue(r)
    PROVE  JobsOK' /\ Stable /\ Steady({})
<1> DEFINE job == [lane |-> "refresh", about |-> r, keyed |-> FALSE, row |-> NewRow(Limit, TRUE)]
<1>1. job \in Jobs
  BY NewRows DEF Lanes
<1>2. Put(NewId, job) /\ ~job.keyed
  BY DEF Enqueue
<1> HIDE DEF job
<1>3. /\ JobsOK' /\ Stable
      /\ \A lane, key : Under(lane, key)' = Under(lane, key)
            \union IF job.keyed /\ job.lane = lane /\ job.about = key THEN {NewId} ELSE {}
  BY <1>1, <1>2, Inserted
<1>4. \A lane, key : Under(lane, key)' = Under(lane, key)
  BY <1>2, <1>3
<1> QED BY <1>3, <1>4 DEF Steady, Polling

LEMMA Ensured ==
    ASSUME JobsOK, turn \in [Workers -> Turns], NEW lane \in {"refresh", "poll"},
           NEW key \in Repositories \union {Heal}, NEW due \in BOOLEAN,
           EnsureKeyed(lane, key, due)
    PROVE  /\ JobsOK' /\ Stable /\ Steady({key})
           /\ Under(lane, key)' # {}
           /\ lane = "refresh" \/ key = Heal => Steady({})
<1>1. CASE Under(lane, key) # {}
  <2>1. UNCHANGED jobs
    BY <1>1 DEF EnsureKeyed
  <2>2. Under(lane, key)' = Under(lane, key)
    BY <2>1 DEF Under
  <2> QED BY <1>1, <2>1, <2>2, Same DEF Steady
<1>2. CASE Under(lane, key) = {}
  <2> DEFINE job == [lane |-> lane, about |-> key, keyed |-> TRUE, row |-> NewRow(Limit, due)]
  <2>1. job \in Jobs
    BY NewRows DEF Lanes
  <2>2. Put(NewId, job) /\ job.keyed /\ job.lane = lane /\ job.about = key
    BY <1>2 DEF EnsureKeyed
  <2> HIDE DEF job
  <2>5. job.keyed => job.lane # "jobs" /\ Under(job.lane, job.about) = {}
    BY <1>2, <2>2
  <2>6. /\ JobsOK' /\ Stable
        /\ \A q, k : Under(q, k)' = Under(q, k)
              \union IF job.keyed /\ job.lane = q /\ job.about = k THEN {NewId} ELSE {}
    BY <2>1, <2>2, <2>5, Inserted
  <2>3. \A q, k : Under(q, k)' = Under(q, k) \union IF lane = q /\ key = k THEN {NewId} ELSE {}
    BY <2>2, <2>6
  <2>4. Steady({key}) /\ (lane = "refresh" \/ key = Heal => Steady({}))
    BY <2>3, PollingAssumption DEF Steady, Polling, PollingAssumption
  <2> QED BY <2>3, <2>4, <2>6
<1> QED BY <1>1, <1>2

-----------------------------------------------------------------------------
(* What a worker knows is changed by its own steps only. *)

\* Worker w comes to know t.
Becomes(w, t) ==
    /\ turn' \in [Workers -> Turns]
    /\ turn'[w] = t
    /\ \A v \in Workers \ {w} : turn'[v] = turn[v]

LEMMA Updated ==
    ASSUME turn \in [Workers -> Turns], NEW w \in Workers, NEW t \in Turns,
           turn' = [turn EXCEPT ![w] = t]
    PROVE  Becomes(w, t)
BY DEF Becomes

LEMMA TurnTypes ==
    ASSUME NEW t \in Turns
    PROVE  /\ t.pc \in Phases /\ t.job \in Nat /\ t.repo \in Repositories \union {Heal}
           /\ t.todo \subseteq Repositories /\ t.good \subseteq Repositories
           /\ t.misread \subseteq Repositories
BY DEF Turns

LEMMA PhaseNames ==
    {"off", "claim", "claim_poll", "refresh", "transfer", "revive_refresh", "revive_poll",
     "ensure_heal", "heal_list", "heal_credentials", "heal_entries", "heal_remove",
     "heal_missing", "heal_enqueue", "heal_ensure", "heal_end", "heal_postpone", "manual_end",
     "poll_list", "poll_credential", "poll_refresh", "poll_again", "poll_confirm", "poll_keep",
     "poll_drop"} \subseteq Phases
BY DEF Phases, Booting, Healing, Ends

LEMMA IdleTurn ==
    /\ Idle \in Turns
    /\ \A pc \in Phases, i \in Nat, r \in Repositories \union {Heal} :
          [Idle EXCEPT !.pc = pc, !.job = i, !.repo = r] \in Turns
    /\ [Idle EXCEPT !.pc = "claim"] \in Turns
BY DEF Idle, Turns, Phases, Booting, Healing, Ends

LEMMA Went ==
    ASSUME turn \in [Workers -> Turns], NEW w \in Workers, NEW pc \in Phases, Goto(w, pc)
    PROVE  Becomes(w, [turn[w] EXCEPT !.pc = pc])
<1>1. [turn[w] EXCEPT !.pc = pc] \in Turns
  BY DEF Turns
<1>2. turn' = [turn EXCEPT ![w] = [turn[w] EXCEPT !.pc = pc]]
  BY DEF Goto
<1> QED BY <1>1, <1>2, Updated

LEMMA Rested ==
    ASSUME turn \in [Workers -> Turns], NEW w \in Workers, Rest(w)
    PROVE  Becomes(w, [Idle EXCEPT !.pc = "claim"])
BY IdleTurn, Updated DEF Rest

LEMMA Proceeded ==
    ASSUME turn \in [Workers -> Turns], NEW w \in Workers, NEW todo \in SUBSET Repositories,
           NEW next \in Phases, NEW done \in Phases, Proceed(w, todo, next, done)
    PROVE  Becomes(w, [turn[w] EXCEPT !.todo = todo, !.pc = IF todo = {} THEN done ELSE next])
<1> DEFINE t == [turn[w] EXCEPT !.todo = todo, !.pc = IF todo = {} THEN done ELSE next]
<1>1. t \in Turns
  BY DEF Turns
<1>2. turn' = [turn EXCEPT ![w] = t]
  BY DEF Proceed
<1> QED BY <1>1, <1>2, Updated

LEMMA Budgeted ==
    ASSUME may \in [Budgets -> Nat], NEW thing \in Budgets, Once(thing)
    PROVE  may' \in [Budgets -> Nat]
BY DEF Once

BudgetNames == {"token", "linear", "add", "remove", "settings", "refresh", "reload", "crash",
                "break", "misread", "outside", "start", "outlive", "throttle"}

LEMMA Names == BudgetNames \subseteq Budgets
BY DEF BudgetNames, Budgets, Requests, Faults

LEMMA ReadTypes ==
    ASSUME may \in [Budgets -> Nat], NEW r, NEW has, Reads(r, has)
    PROVE  may' \in [Budgets -> Nat]
BY Budgeted, Names DEF Reads, BudgetNames

LEMMA MisreadTypes ==
    ASSUME turn \in [Workers -> Turns], NEW w \in Workers, NEW has, NEW r \in Repositories
    PROVE  Misread(w, r, has) \subseteq Repositories
BY TurnTypes DEF Misread

-----------------------------------------------------------------------------
(* Types are kept by the steps of a worker. *)

\* The types that a worker's step could break.
WorkerTypes ==
    /\ may \in [Budgets -> Nat] /\ generation \in Workers \union {Nobody}
    /\ turn \in [Workers -> Turns] /\ JobsOK

Moves(w) == WorkerTypes' /\ Stable /\ \A v \in Workers \ {w} : turn'[v] = turn[v]

LEMMA MovesIf ==
    ASSUME WorkerTypes, NEW w \in Workers, NEW t, Becomes(w, t), JobsOK', Stable,
           may' \in [Budgets -> Nat], generation' \in Workers \union {Nobody}
    PROVE  Moves(w)
BY DEF Moves, WorkerTypes, Becomes

LEMMA TakeMoves ==
    ASSUME WorkerTypes, NEW w \in Workers, NEW lane, NEW i \in Front(lane), NEW pc \in Phases,
           Take(w, i, pc)
    PROVE  /\ Moves(w) /\ Steady({}) /\ jobs[i].lane = lane /\ i \in DOMAIN jobs
           /\ Becomes(w, [Idle EXCEPT !.pc = pc, !.job = i, !.repo = jobs[i].about])
<1>1. i \in DOMAIN jobs /\ jobs[i].lane = lane /\ Claimable(jobs[i].row)
  BY DEF Front
<1>2. jobs[i] \in Jobs /\ i \in Nat
  BY <1>1 DEF WorkerTypes, JobsOK
<1>3. ClaimedRow(jobs[i].row) \in RowsOfJobs /\ jobs[i].about \in Repositories \union {Heal}
  BY <1>1, <1>2, JobsAreRows, RowStatements
<1>4. JobsOK' /\ Stable /\ Steady({})
  BY <1>1, <1>3, Written DEF WorkerTypes, Take
<1> DEFINE t == [Idle EXCEPT !.pc = pc, !.job = i, !.repo = jobs[i].about]
<1>5. t \in Turns
  BY <1>2, <1>3, IdleTurn
<1>6. turn' = [turn EXCEPT ![w] = t]
  BY DEF Take
<1> HIDE DEF t
<1>7. Becomes(w, t)
  BY <1>5, <1>6, Updated DEF WorkerTypes
<1>8. Moves(w)
  BY <1>4, <1>7, MovesIf DEF WorkerTypes, Take
<1> QED BY <1>1, <1>4, <1>7, <1>8 DEF t

LEMMA BootMoves ==
    ASSUME WorkerTypes, NEW w \in Workers, Transfer(w) \/ Revive(w) \/ EnsureHeal(w) \/ Retire(w)
    PROVE  Moves(w) /\ Steady({})
<1>1. CASE Transfer(w)
  <2>1. Becomes(w, [turn[w] EXCEPT !.pc = "revive_refresh"])
    BY <1>1, Went, PhaseNames DEF Transfer, WorkerTypes
  <2>2. JobsOK' /\ Stable /\ Steady({})
    BY <1>1, Transferred DEF WorkerTypes
  <2> QED BY <1>1, <2>1, <2>2, MovesIf DEF Transfer, WorkerTypes
<1>2. CASE Revive(w)
  <2>1. PICK pc \in {"revive_poll", "ensure_heal"} : Goto(w, pc)
    BY <1>2 DEF Revive
  <2>2. Becomes(w, [turn[w] EXCEPT !.pc = pc])
    BY <2>1, Went, PhaseNames DEF WorkerTypes
  <2>3. JobsOK' /\ Stable /\ Steady({})
    BY <1>2, Revived DEF Revive, WorkerTypes
  <2> QED BY <1>2, <2>2, <2>3, MovesIf DEF Revive, WorkerTypes
<1>3. CASE EnsureHeal(w)
  <2>1. Becomes(w, [turn[w] EXCEPT !.pc = "claim"])
    BY <1>3, Went, PhaseNames DEF EnsureHeal, WorkerTypes
  <2>2. JobsOK' /\ Stable /\ Steady({})
    BY <1>3, Ensured DEF EnsureHeal, WorkerTypes
  <2> QED BY <1>3, <2>1, <2>2, MovesIf DEF EnsureHeal, WorkerTypes
<1>4. CASE Retire(w)
  <2>1. Becomes(w, [turn[w] EXCEPT !.pc = "off"])
    BY <1>4, Went, PhaseNames DEF Retire, WorkerTypes
  <2>2. JobsOK' /\ Stable /\ Steady({})
    BY <1>4, Same DEF Retire, WorkerTypes
  <2> QED BY <1>4, <2>1, <2>2, MovesIf DEF Retire, WorkerTypes
<1> QED BY <1>1, <1>2, <1>3, <1>4

-----------------------------------------------------------------------------
(* What a worker knows. *)

\* What the worker may be wrong about: what changed, or was misread, since it looked.
Changed(w) == hist[w].world \union turn[w].misread
Sure(w) == Repositories \ Changed(w)

\* Repositories whose entries only the worker changed since it looked.
Own(w) == Repositories \ hist[w].entries

AfterCredentials ==
    {"heal_entries", "heal_remove", "heal_missing", "heal_enqueue", "heal_ensure", "heal_end"}

Know(w) ==
    LET t == turn[w]
    IN  /\ t.pc = "heal_list" => t.good = {}
        /\ t.pc = "heal_credentials" =>
              \A r \in Sure(w) : /\ r \in t.good => Wanted(r)
                                 /\ r \in t.todo => r \in world.stored
                                 /\ r \notin t.good \union t.todo => ~Wanted(r)
        /\ t.pc \in AfterCredentials => \A r \in Sure(w) : r \in t.good <=> Wanted(r)
        /\ t.pc = "heal_remove" =>
              /\ t.todo \intersect t.good = {}
              /\ \A r \in Own(w) : Polling(r) # {} => r \in t.good \union t.todo
        /\ t.pc = "heal_missing" => \A r \in Own(w) : Polling(r) # {} => r \in t.good
        /\ t.pc \in {"heal_enqueue", "heal_ensure"} =>
              /\ t.todo \subseteq t.good
              /\ \A r \in Own(w) : /\ Polling(r) # {} => r \in t.good
                                   /\ r \in t.good \ t.todo => Polling(r) # {}
        /\ t.pc = "heal_ensure" => t.repo \in t.todo
        /\ t.pc = "heal_end" => \A r \in Own(w) : r \in t.good <=> Polling(r) # {}
        /\ t.pc = "poll_confirm" => t.repo \in Repositories
        /\ t.pc = "poll_drop" => (Wanted(t.repo) => t.repo \in Changed(w))

Urgent == Healing \union {"heal_end", "heal_postpone", "refresh", "manual_end"}

Scheduled == {"poll_list", "poll_credential", "poll_refresh", "poll_again", "poll_confirm",
              "poll_keep", "poll_drop"}

\* The job that a worker has in hand, as long as its row exists.
JobKnown(w) ==
    LET t == turn[w]
    IN  t.job \in DOMAIN jobs =>
           /\ t.pc \in Urgent => jobs[t.job].lane # "poll"
           /\ t.pc \in Scheduled => jobs[t.job].about = t.repo

\* A step of w ends a wanted schedule only where it knew no better.
Spares(w) ==
    \A r \in Repositories :
       Wanted(r) /\ Polling(r) # {} /\ Polling(r)' = {} =>
          turn'[w] # turn[w] /\ r \in Changed(w)

LEMMA SteadySpares == ASSUME Steady({}), NEW w PROVE Spares(w)
BY DEF Steady, Spares

LEMMA JobKept ==
    ASSUME NEW w \in Workers, JobKnown(w), Stable, turn'[w].job = turn[w].job,
           turn'[w].pc \in Urgent => turn[w].pc \in Urgent,
           turn'[w].pc \in Scheduled => turn[w].pc \in Scheduled /\ turn'[w].repo = turn[w].repo
    PROVE  JobKnown(w)'
BY DEF JobKnown, Stable, Alike

LEMMA JobForgotten ==
    ASSUME NEW w \in Workers, turn'[w].pc \notin Urgent \union Scheduled
    PROVE  JobKnown(w)'
BY DEF JobKnown

\* The phases in which there is nothing to know.
LEMMA NothingToKnow ==
    ASSUME NEW w \in Workers,
           turn'[w].pc \notin AfterCredentials
              \union {"heal_list", "heal_credentials", "poll_confirm", "poll_drop"}
    PROVE  Know(w)'
BY DEF Know, AfterCredentials

LEMMA OwnHistory ==
    ASSUME NEW w \in Workers,
           hist[w] \in [world : SUBSET Repositories, entries : SUBSET Repositories],
           UNCHANGED world, History(w), ~Looks(w), turn'[w].pc \in Deciding
    PROVE  hist'[w] = hist[w]
<1>1. {r \in Repositories : Record(r)' # Record(r)} = {}
  BY DEF Record
<1> QED BY <1>1 DEF History

Steps(w) == Moves(w) /\ JobKnown(w)' /\ Know(w)' /\ Spares(w)

-----------------------------------------------------------------------------
(* Starts, claims, refreshes. *)

LEMMA BootStep ==
    ASSUME WorkerTypes, NEW w \in Workers, Transfer(w) \/ Revive(w) \/ EnsureHeal(w) \/ Retire(w)
    PROVE  Steps(w)
<1>1. Moves(w) /\ Steady({})
  BY BootMoves
<1>2. PICK pc \in {"revive_refresh", "revive_poll", "ensure_heal", "claim", "off"} : Goto(w, pc)
  BY DEF Transfer, Revive, EnsureHeal, Retire
<1>3. Becomes(w, [turn[w] EXCEPT !.pc = pc])
  BY <1>2, Went, PhaseNames DEF WorkerTypes
<1>4. turn'[w].pc = pc
  BY <1>3 DEF WorkerTypes, Becomes, Turns
<1> QED BY <1>1, <1>4, SteadySpares, JobForgotten, NothingToKnow
        DEF Steps, Urgent, Scheduled, AfterCredentials, Healing

LEMMA ClaimStep ==
    ASSUME WorkerTypes, NEW w \in Workers,
           Claim(w) \/ NothingUrgent(w) \/ ClaimPoll(w) \/ NothingDue(w)
    PROVE  Steps(w)
<1>1. CASE Claim(w)
  <2>1. PICK i \in Front("refresh") :
           Take(w, i, IF jobs[i].about = Heal THEN "heal_list" ELSE "refresh")
    BY <1>1 DEF Claim
  <2> DEFINE pc == IF jobs[i].about = Heal THEN "heal_list" ELSE "refresh"
  <2>2. pc \in Phases /\ pc \in {"heal_list", "refresh"}
    BY PhaseNames
  <2> HIDE DEF pc
  <2>3. /\ Moves(w) /\ Steady({}) /\ jobs[i].lane = "refresh" /\ i \in DOMAIN jobs
        /\ Becomes(w, [Idle EXCEPT !.pc = pc, !.job = i, !.repo = jobs[i].about])
    BY <2>1, <2>2, TakeMoves DEF pc
  <2>4. turn'[w].pc = pc /\ turn'[w].job = i /\ turn'[w].good = {}
    BY <2>3 DEF Becomes, Idle
  <2>5. JobKnown(w)'
    <3>1. jobs'[i].lane = jobs[i].lane
      BY <2>1, <2>3 DEF Take, Write, Put, WorkerTypes, JobsOK, Jobs
    <3> QED BY <3>1, <2>2, <2>3, <2>4 DEF JobKnown, Scheduled
  <2>6. Know(w)'
    BY <2>2, <2>4 DEF Know, AfterCredentials
  <2> QED BY <2>3, <2>5, <2>6, SteadySpares DEF Steps
<1>2. CASE ClaimPoll(w)
  <2>1. PICK i \in Front("poll") : Take(w, i, "poll_list")
    BY <1>2 DEF ClaimPoll
  <2>3. /\ Moves(w) /\ Steady({}) /\ jobs[i].lane = "poll" /\ i \in DOMAIN jobs
        /\ Becomes(w, [Idle EXCEPT !.pc = "poll_list", !.job = i, !.repo = jobs[i].about])
    BY <2>1, TakeMoves, PhaseNames
  <2>4. turn'[w].pc = "poll_list" /\ turn'[w].job = i /\ turn'[w].repo = jobs[i].about
    BY <2>3 DEF Becomes, Idle
  <2>5. JobKnown(w)'
    <3>1. jobs'[i].about = jobs[i].about
      BY <2>1, <2>3 DEF Take, Write, Put, WorkerTypes, JobsOK, Jobs
    <3> QED BY <3>1, <2>3, <2>4 DEF JobKnown, Urgent, Healing
  <2>6. Know(w)'
    BY <2>4, NothingToKnow DEF AfterCredentials
  <2> QED BY <2>3, <2>5, <2>6, SteadySpares DEF Steps
<1>3. CASE NothingUrgent(w) \/ NothingDue(w)
  <2>1. PICK pc \in {"claim", "claim_poll"} : Goto(w, pc)
    BY <1>3 DEF NothingUrgent, NothingDue
  <2>2. Becomes(w, [turn[w] EXCEPT !.pc = pc])
    BY <2>1, Went, PhaseNames DEF WorkerTypes
  <2>3. turn'[w].pc = pc
    BY <2>2 DEF Becomes, WorkerTypes, Turns
  <2>4. JobsOK' /\ Stable /\ Steady({})
    BY <1>3, Same DEF NothingUrgent, NothingDue, WorkerTypes
  <2>5. Moves(w)
    BY <1>3, <2>2, <2>4, MovesIf DEF NothingUrgent, NothingDue, WorkerTypes
  <2> QED BY <2>3, <2>4, <2>5, SteadySpares, JobForgotten, NothingToKnow
          DEF Steps, Urgent, Scheduled, AfterCredentials, Healing
<1> QED BY <1>1, <1>2, <1>3

\* What the steps have in common that leave the rows alone.
LEMMA LookingStep ==
    ASSUME WorkerTypes, NEW w \in Workers, JobKnown(w), UNCHANGED jobs, NEW t, Becomes(w, t),
           t.job = turn[w].job,
           t.pc \in Urgent => turn[w].pc \in Urgent,
           t.pc \in Scheduled => turn[w].pc \in Scheduled /\ t.repo = turn[w].repo,
           may' \in [Budgets -> Nat], generation' \in Workers \union {Nobody}
    PROVE  Moves(w) /\ JobKnown(w)' /\ Spares(w) /\ Steady({})
<1>1. JobsOK' /\ Stable /\ Steady({})
  BY Same DEF WorkerTypes
<1>2. Moves(w)
  BY <1>1, MovesIf
<1>3. JobKnown(w)'
  BY <1>1, JobKept DEF Becomes
<1> QED BY <1>1, <1>2, <1>3, SteadySpares

LEMMA RefreshStep ==
    ASSUME WorkerTypes, NEW w \in Workers, JobKnown(w),
           PollList(w) \/ PollCredential(w) \/ Refresh(w)
    PROVE  Steps(w)
<1>0. turn[w] \in Turns
  BY DEF WorkerTypes
<1>1. CASE PollList(w) \/ PollCredential(w)
  <2>1. PICK pc \in {"poll_credential", "poll_refresh", "poll_again"} : Goto(w, pc)
    BY <1>1 DEF PollList, PollCredential
  <2>2. Becomes(w, [turn[w] EXCEPT !.pc = pc])
    BY <2>1, Went, PhaseNames DEF WorkerTypes
  <2>3. may' \in [Budgets -> Nat]
    BY <1>1, ReadTypes DEF PollList, PollCredential, WorkerTypes
  <2>4. /\ [turn[w] EXCEPT !.pc = pc].pc = pc
        /\ [turn[w] EXCEPT !.pc = pc].job = turn[w].job
        /\ [turn[w] EXCEPT !.pc = pc].repo = turn[w].repo
    BY <1>0 DEF Turns
  <2>5. turn[w].pc \in Scheduled
    BY <1>1 DEF PollList, PollCredential, At, Scheduled
  <2>6. pc \notin Urgent
    BY DEF Urgent, Healing
  <2>7. Moves(w) /\ JobKnown(w)' /\ Spares(w)
    BY <1>1, <2>2, <2>3, <2>4, <2>5, <2>6, LookingStep DEF PollList, PollCredential, WorkerTypes
  <2>8. Know(w)'
    BY <2>2, <2>4, NothingToKnow DEF Becomes, AfterCredentials
  <2> QED BY <2>7, <2>8 DEF Steps
<1>2. CASE Refresh(w)
  <2>1. PICK verdict \in {"done", "failed", "throttled"} :
           /\ turn' = [turn EXCEPT ![w].verdict = verdict,
                         ![w].pc = IF @ = "refresh" THEN "manual_end" ELSE "poll_again"]
           /\ IF verdict = "throttled" THEN Once("throttle") ELSE UNCHANGED may
    BY <1>2 DEF Refresh
  <2> DEFINE t == [turn[w] EXCEPT !.verdict = verdict,
                     !.pc = IF turn[w].pc = "refresh" THEN "manual_end" ELSE "poll_again"]
  <2>2. t \in Turns
    BY <1>0, PhaseNames DEF Turns
  <2>3. turn' = [turn EXCEPT ![w] = t]
    BY <2>1, <1>0 DEF WorkerTypes
  <2>4. /\ t.pc = IF turn[w].pc = "refresh" THEN "manual_end" ELSE "poll_again"
        /\ t.job = turn[w].job /\ t.repo = turn[w].repo
    BY <1>0 DEF Turns
  <2> HIDE DEF t
  <2>5. Becomes(w, t)
    BY <2>2, <2>3, Updated DEF WorkerTypes
  <2>6. may' \in [Budgets -> Nat]
    BY <2>1, Budgeted, Names DEF WorkerTypes, BudgetNames
  <2>7. turn[w].pc \in {"refresh", "poll_refresh"} /\ UNCHANGED <<jobs, generation>>
    BY <1>2 DEF Refresh
  <2>8. /\ t.pc \in Urgent => turn[w].pc \in Urgent
        /\ t.pc \in Scheduled => turn[w].pc \in Scheduled
    BY <2>4, <2>7 DEF Urgent, Scheduled, Healing
  <2>9. Moves(w) /\ JobKnown(w)' /\ Spares(w)
    BY <2>4, <2>5, <2>6, <2>7, <2>8, LookingStep DEF WorkerTypes
  <2>10. Know(w)'
    BY <2>4, <2>5, NothingToKnow DEF Becomes, AfterCredentials
  <2> QED BY <2>9, <2>10 DEF Steps
<1> QED BY <1>1, <1>2

-----------------------------------------------------------------------------
(* The Auto-heal. *)

\* What Proceed leaves alone.
LEMMA ProceededTurn ==
    ASSUME turn \in [Workers -> Turns], NEW w \in Workers, NEW todo \in SUBSET Repositories,
           NEW next \in Phases, NEW done \in Phases, Proceed(w, todo, next, done)
    PROVE  \E t \in Turns :
              /\ Becomes(w, t)
              /\ t.pc = (IF todo = {} THEN done ELSE next) /\ t.todo = todo
              /\ t.good = turn[w].good /\ t.job = turn[w].job /\ t.repo = turn[w].repo
              /\ t.misread = turn[w].misread
<1> DEFINE t == [turn[w] EXCEPT !.todo = todo, !.pc = IF todo = {} THEN done ELSE next]
<1>1. /\ t.pc = (IF todo = {} THEN done ELSE next) /\ t.todo = todo
      /\ t.good = turn[w].good /\ t.job = turn[w].job /\ t.repo = turn[w].repo
      /\ t.misread = turn[w].misread /\ t \in Turns
  BY DEF Turns
<1>2. Becomes(w, t)
  BY Proceeded
<1> HIDE DEF t
<1> QED BY <1>1, <1>2

\* The situation in which a worker takes a step.
Situation(w) ==
    /\ WorkerTypes /\ JobKnown(w) /\ Know(w) /\ world \in Worlds
    /\ hist[w] \in [world : SUBSET Repositories, entries : SUBSET Repositories]
    /\ UNCHANGED world /\ History(w)

LEMMA Continued ==
    ASSUME NEW w \in Workers, Situation(w), turn[w].pc \notin {"heal_list", "poll_again"},
           turn'[w].pc \in Deciding
    PROVE  hist'[w] = hist[w] /\ Own(w)' = Own(w)
<1>1. hist'[w] = hist[w]
  BY OwnHistory DEF Looks, Situation
<1> QED BY <1>1 DEF Own

LEMMA HealListStep ==
    ASSUME NEW w \in Workers, Situation(w), HealList(w) PROVE Steps(w)
<1>1. turn[w].pc = "heal_list" /\ turn[w].good = {}
  BY DEF HealList, At, Situation, Know
<1>2. world.stored \in SUBSET Repositories
  BY DEF Situation, Worlds
<1>3. PICK t \in Turns :
         /\ Becomes(w, t)
         /\ t.pc = (IF world.stored = {} THEN "heal_entries" ELSE "heal_credentials")
         /\ t.todo = world.stored /\ t.good = {} /\ t.job = turn[w].job
  BY <1>1, <1>2, ProceededTurn, PhaseNames DEF HealList, Situation, WorkerTypes
<1>4. turn'[w] = t
  BY <1>3 DEF Becomes
<1>5. Moves(w) /\ JobKnown(w)' /\ Spares(w)
  <2>1. turn[w].pc \in Urgent /\ t.pc \notin Scheduled
    BY <1>1, <1>3 DEF Urgent, Scheduled, Healing
  <2> QED BY <1>3, <2>1, LookingStep DEF HealList, Situation, WorkerTypes
<1>6. \A r \in Repositories \ world.stored : ~Wanted(r)'
  BY DEF Wanted, Situation
<1>7. Know(w)'
  <2>1. Sure(w)' \subseteq Repositories
    BY DEF Sure
  <2>2. world' = world
    BY DEF Situation
  <2> QED BY <1>3, <1>4, <1>6, <2>1, <2>2 DEF Know, AfterCredentials
<1> QED BY <1>5, <1>7 DEF Steps

LEMMA HealCredentialStep ==
    ASSUME NEW w \in Workers, Situation(w), HealCredential(w) PROVE Steps(w)
<1>1. turn[w].pc = "heal_credentials" /\ turn[w] \in Turns /\ UNCHANGED <<jobs, generation>>
  BY DEF HealCredential, At, Situation, WorkerTypes
<1>2. PICK r \in turn[w].todo, has \in BOOLEAN :
         /\ Reads(r, has)
         /\ turn' = [turn EXCEPT
                ![w].todo = @ \ {r}, ![w].misread = Misread(w, r, has),
                ![w].good = @ \union IF has THEN {r} ELSE {},
                ![w].pc = IF turn[w].todo = {r} THEN "heal_entries" ELSE @]
  BY DEF HealCredential
<1> DEFINE t == [turn[w] EXCEPT
                   !.todo = turn[w].todo \ {r}, !.misread = Misread(w, r, has),
                   !.good = turn[w].good \union IF has THEN {r} ELSE {},
                   !.pc = IF turn[w].todo = {r} THEN "heal_entries" ELSE "heal_credentials"]
<1>3. r \in Repositories /\ turn[w].good \subseteq Repositories
  BY <1>1, <1>2, TurnTypes
<1>4. Misread(w, r, has) \subseteq Repositories
  BY <1>3, MisreadTypes DEF Situation, WorkerTypes
<1>5. t \in Turns
  BY <1>1, <1>3, <1>4, PhaseNames DEF Turns
<1>6. /\ t.todo = turn[w].todo \ {r} /\ t.misread = Misread(w, r, has)
      /\ t.good = turn[w].good \union IF has THEN {r} ELSE {}
      /\ t.pc = (IF turn[w].todo = {r} THEN "heal_entries" ELSE "heal_credentials")
      /\ t.job = turn[w].job
  BY <1>1 DEF Turns
<1>7. turn' = [turn EXCEPT ![w] = t]
  BY <1>1, <1>2 DEF Situation, WorkerTypes
<1> HIDE DEF t
<1>8. Becomes(w, t)
  BY <1>5, <1>7, Updated DEF Situation, WorkerTypes
<1>9. turn'[w] = t
  BY <1>8 DEF Becomes
<1>10. Moves(w) /\ JobKnown(w)' /\ Spares(w)
  <2>1. turn[w].pc \in Urgent /\ t.pc \notin Scheduled
    BY <1>1, <1>6 DEF Urgent, Scheduled, Healing
  <2>2. may' \in [Budgets -> Nat]
    BY <1>2, ReadTypes DEF Situation, WorkerTypes
  <2> QED BY <1>1, <1>6, <1>8, <2>1, <2>2, LookingStep DEF Situation, WorkerTypes
<1>11. hist'[w] = hist[w]
  BY <1>1, <1>6, <1>9, Continued DEF Deciding, Healing
<1>12. \A q \in Sure(w)' : q \in Sure(w) /\ (q = r => has = (r \in world.secrets))
  BY <1>6, <1>9, <1>11 DEF Sure, Changed, Misread
<1>13. /\ world' = world
       /\ \A q \in Sure(w) : /\ q \in turn[w].good => Wanted(q)
                             /\ q \in turn[w].todo => q \in world.stored
                             /\ q \notin turn[w].good \union turn[w].todo => ~Wanted(q)
  BY <1>1 DEF Situation, Know
<1>14. \A q \in Sure(w)' : /\ q \in t.good => Wanted(q)'
                           /\ q \in t.todo => q \in world'.stored
                           /\ q \notin t.good \union t.todo => ~Wanted(q)'
  BY <1>2, <1>6, <1>12, <1>13 DEF Wanted
<1>15. Know(w)'
  <2>1. t.pc = "heal_entries" => t.todo = {}
    BY <1>6
  <2>2. t.pc \in {"heal_entries", "heal_credentials"}
    BY <1>6
  <2> QED BY <1>9, <1>14, <2>1, <2>2 DEF Know, AfterCredentials
<1> QED BY <1>10, <1>15 DEF Steps

\* The credentials stay known from one phase to the next.
LEMMA CredentialsKept ==
    ASSUME NEW w \in Workers, Situation(w), turn[w].pc \in AfterCredentials,
           turn'[w].pc \in AfterCredentials, turn'[w].good = turn[w].good,
           turn'[w].misread = turn[w].misread
    PROVE  /\ \A r \in Sure(w)' : r \in turn'[w].good <=> Wanted(r)'
           /\ Own(w)' = Own(w) /\ Own(w) \subseteq Repositories
<1>1. hist'[w] = hist[w] /\ Own(w)' = Own(w)
  <2>1. AfterCredentials \subseteq Deciding
    BY DEF AfterCredentials, Deciding, Healing
  <2>2. turn[w].pc \notin {"heal_list", "poll_again"}
    BY DEF AfterCredentials
  <2> QED BY <2>1, <2>2, Continued
<1>2. Sure(w)' = Sure(w)
  BY <1>1 DEF Sure, Changed
<1>3. \A r \in Sure(w) : r \in turn[w].good <=> Wanted(r)
  BY DEF Situation, Know
<1>4. \A r : Wanted(r)' = Wanted(r)
  BY DEF Situation, Wanted
<1> QED BY <1>1, <1>2, <1>3, <1>4 DEF Own

LEMMA HealEntriesStep ==
    ASSUME NEW w \in Workers, Situation(w), HealEntries(w) PROVE Steps(w)
<1> DEFINE todo == {r \in Repositories \ turn[w].good : Polling(r) # {}}
<1>1. turn[w].pc = "heal_entries" /\ UNCHANGED <<may, jobs, generation>>
  BY DEF HealEntries, At
<1>2. PICK t \in Turns :
         /\ Becomes(w, t)
         /\ t.pc = (IF todo = {} THEN "heal_missing" ELSE "heal_remove")
         /\ t.todo = todo /\ t.good = turn[w].good /\ t.job = turn[w].job
         /\ t.misread = turn[w].misread
  BY ProceededTurn, PhaseNames DEF HealEntries, Situation, WorkerTypes
<1>3. turn'[w] = t
  BY <1>2 DEF Becomes
<1>4. Moves(w) /\ JobKnown(w)' /\ Spares(w) /\ Steady({})
  <2>1. turn[w].pc \in Urgent /\ t.pc \notin Scheduled
    BY <1>1, <1>2 DEF Urgent, Scheduled, Healing
  <2> QED BY <1>1, <1>2, <2>1, LookingStep DEF Situation, WorkerTypes
<1>5. /\ \A r \in Sure(w)' : r \in t.good <=> Wanted(r)'
      /\ Own(w)' = Own(w) /\ Own(w) \subseteq Repositories
  BY <1>1, <1>2, <1>3, CredentialsKept DEF AfterCredentials
<1>6. \A r \in Own(w)' : Polling(r)' # {} => r \in t.good \union t.todo
  BY <1>2, <1>4, <1>5 DEF Steady
<1>7. t.todo \intersect t.good = {} /\ (t.pc = "heal_missing" => t.todo = {})
  BY <1>2
<1>8. Know(w)'
  BY <1>2, <1>3, <1>5, <1>6, <1>7 DEF Know, AfterCredentials
<1> QED BY <1>4, <1>8 DEF Steps

LEMMA HealRemoveStep ==
    ASSUME NEW w \in Workers, Situation(w), HealRemove(w) PROVE Steps(w)
<1>1. turn[w].pc = "heal_remove" /\ UNCHANGED <<may, generation>> /\ turn[w] \in Turns
  BY DEF HealRemove, At, Situation, WorkerTypes
<1>2. PICK r \in turn[w].todo :
         Delete(Polling(r)) /\ Proceed(w, turn[w].todo \ {r}, "heal_remove", "heal_missing")
  BY DEF HealRemove
<1>3. r \in Repositories /\ turn[w].todo \ {r} \in SUBSET Repositories
  BY <1>1, TurnTypes
<1>4. PICK t \in Turns :
         /\ Becomes(w, t)
         /\ t.pc = (IF turn[w].todo \ {r} = {} THEN "heal_missing" ELSE "heal_remove")
         /\ t.todo = turn[w].todo \ {r} /\ t.good = turn[w].good /\ t.job = turn[w].job
         /\ t.misread = turn[w].misread
  <2> DEFINE rest == turn[w].todo \ {r}
  <2>1. rest \in SUBSET Repositories /\ Proceed(w, rest, "heal_remove", "heal_missing")
    BY <1>2, <1>3
  <2>2. turn \in [Workers -> Turns]
    BY DEF Situation, WorkerTypes
  <2> HIDE DEF rest
  <2>3. \E t \in Turns :
           /\ Becomes(w, t)
           /\ t.pc = (IF rest = {} THEN "heal_missing" ELSE "heal_remove")
           /\ t.todo = rest /\ t.good = turn[w].good /\ t.job = turn[w].job
           /\ t.misread = turn[w].misread
    BY <2>1, <2>2, ProceededTurn, PhaseNames
  <2> QED BY <2>3 DEF rest
<1>5. turn'[w] = t
  BY <1>4 DEF Becomes
<1>6. JobsOK' /\ Stable /\ \A q \in Repositories : Polling(q)' = Polling(q) \ Polling(r)
  BY <1>2, Deleted DEF Situation, WorkerTypes
<1>7. \A q \in Repositories \ {r} : Polling(q) \intersect Polling(r) = {}
  BY DEF Polling, Under
<1>8. Polling(r)' = {} /\ Steady({r})
  BY <1>3, <1>6, <1>7 DEF Steady
<1>9. Moves(w)
  BY <1>1, <1>4, <1>6, MovesIf DEF Situation, WorkerTypes
<1>10. JobKnown(w)'
  <2>1. turn[w].pc \in Urgent /\ t.pc \notin Scheduled
    BY <1>1, <1>4 DEF Urgent, Scheduled, Healing
  <2> QED BY <1>4, <1>5, <1>6, <2>1, JobKept DEF Situation
<1>11. /\ turn[w].todo \intersect turn[w].good = {}
       /\ \A q \in Own(w) : Polling(q) # {} => q \in turn[w].good \union turn[w].todo
       /\ \A q \in Sure(w) : q \in turn[w].good <=> Wanted(q)
  BY <1>1 DEF Situation, Know, AfterCredentials
<1>12. Spares(w)
  <2>1. t # turn[w]
    BY <1>4
  <2>2. \A q \in Repositories \ {r} : Polling(q)' = Polling(q)
    BY <1>8 DEF Steady
  <2>3. r \notin turn[w].good
    BY <1>11
  <2>4. Wanted(r) => r \in Changed(w)
    BY <1>3, <1>11, <2>3 DEF Sure
  <2> QED BY <1>5, <2>1, <2>2, <2>4 DEF Spares
<1>13. /\ \A q \in Sure(w)' : q \in t.good <=> Wanted(q)'
       /\ Own(w)' = Own(w) /\ Own(w) \subseteq Repositories
  BY <1>1, <1>4, <1>5, CredentialsKept DEF AfterCredentials
<1>14. \A q \in Own(w)' : Polling(q)' # {} => q \in t.good \union t.todo
  BY <1>4, <1>8, <1>11, <1>13 DEF Steady
<1>15. t.todo \intersect t.good = {} /\ (t.pc = "heal_missing" => t.todo = {})
  BY <1>4, <1>11
<1>16. Know(w)'
  BY <1>4, <1>5, <1>13, <1>14, <1>15 DEF Know, AfterCredentials
<1> QED BY <1>9, <1>10, <1>12, <1>16 DEF Steps

LEMMA HealMissingStep ==
    ASSUME NEW w \in Workers, Situation(w), HealMissing(w) PROVE Steps(w)
<1> DEFINE todo == {r \in turn[w].good : Polling(r) = {}}
<1>1. turn[w].pc = "heal_missing" /\ UNCHANGED <<may, jobs, generation>> /\ turn[w] \in Turns
  BY DEF HealMissing, At, Situation, WorkerTypes
<1>2. todo \in SUBSET Repositories
  BY <1>1, TurnTypes
<1>3. PICK t \in Turns :
         /\ Becomes(w, t)
         /\ t.pc = (IF todo = {} THEN "heal_end" ELSE "heal_enqueue")
         /\ t.todo = todo /\ t.good = turn[w].good /\ t.job = turn[w].job
         /\ t.misread = turn[w].misread
  <2>1. Proceed(w, todo, "heal_enqueue", "heal_end") /\ turn \in [Workers -> Turns]
    BY DEF HealMissing, Situation, WorkerTypes
  <2> HIDE DEF todo
  <2> QED BY <1>2, <2>1, ProceededTurn, PhaseNames
<1>4. turn'[w] = t
  BY <1>3 DEF Becomes
<1>5. Moves(w) /\ JobKnown(w)' /\ Spares(w) /\ Steady({})
  <2>1. turn[w].pc \in Urgent /\ t.pc \notin Scheduled
    BY <1>1, <1>3 DEF Urgent, Scheduled, Healing
  <2> QED BY <1>1, <1>3, <2>1, LookingStep DEF Situation, WorkerTypes
<1>6. /\ \A r \in Sure(w)' : r \in t.good <=> Wanted(r)'
      /\ Own(w)' = Own(w) /\ Own(w) \subseteq Repositories
  BY <1>1, <1>3, <1>4, CredentialsKept DEF AfterCredentials
<1>7. \A r \in Own(w) : Polling(r) # {} => r \in turn[w].good
  BY <1>1 DEF Situation, Know
<1>8. /\ t.todo \subseteq t.good
      /\ \A r \in Own(w)' : /\ Polling(r)' # {} => r \in t.good
                            /\ r \in t.good \ t.todo => Polling(r)' # {}
  BY <1>3, <1>5, <1>6, <1>7 DEF Steady
<1>9. t.pc = "heal_end" => \A r \in Own(w)' : r \in t.good <=> Polling(r)' # {}
  BY <1>3, <1>8
<1>10. Know(w)'
  BY <1>3, <1>4, <1>6, <1>8, <1>9 DEF Know, AfterCredentials
<1> QED BY <1>5, <1>10 DEF Steps

LEMMA HealEnqueueStep ==
    ASSUME NEW w \in Workers, Situation(w), HealEnqueue(w) PROVE Steps(w)
<1>1. turn[w].pc = "heal_enqueue" /\ UNCHANGED <<may, generation>> /\ turn[w] \in Turns
  BY DEF HealEnqueue, At, Situation, WorkerTypes
<1>2. PICK r \in turn[w].todo :
         Enqueue(r) /\ turn' = [turn EXCEPT ![w].repo = r, ![w].pc = "heal_ensure"]
  BY DEF HealEnqueue
<1>3. r \in Repositories
  BY <1>1, <1>2, TurnTypes
<1> DEFINE t == [turn[w] EXCEPT !.repo = r, !.pc = "heal_ensure"]
<1>4. t \in Turns
  BY <1>1, <1>3, PhaseNames DEF Turns
<1>5. /\ t.pc = "heal_ensure" /\ t.repo = r /\ t.todo = turn[w].todo /\ t.good = turn[w].good
      /\ t.job = turn[w].job /\ t.misread = turn[w].misread
  BY <1>1 DEF Turns
<1>6. turn' = [turn EXCEPT ![w] = t]
  BY <1>1, <1>2 DEF Situation, WorkerTypes
<1> HIDE DEF t
<1>7. Becomes(w, t) /\ turn'[w] = t
  BY <1>4, <1>6, Updated DEF Becomes, Situation, WorkerTypes
<1>8. JobsOK' /\ Stable /\ Steady({})
  BY <1>2, <1>3, Enqueued DEF Situation, WorkerTypes
<1>9. Moves(w)
  BY <1>1, <1>7, <1>8, MovesIf DEF Situation, WorkerTypes
<1>10. JobKnown(w)'
  <2>1. turn[w].pc \in Urgent /\ t.pc \notin Scheduled
    BY <1>1, <1>5 DEF Urgent, Scheduled, Healing
  <2> QED BY <1>5, <1>7, <1>8, <2>1, JobKept DEF Situation
<1>11. /\ \A q \in Sure(w)' : q \in t.good <=> Wanted(q)'
       /\ Own(w)' = Own(w) /\ Own(w) \subseteq Repositories
  BY <1>1, <1>5, <1>7, CredentialsKept DEF AfterCredentials
<1>12. /\ turn[w].todo \subseteq turn[w].good
       /\ \A q \in Own(w) : /\ Polling(q) # {} => q \in turn[w].good
                            /\ q \in turn[w].good \ turn[w].todo => Polling(q) # {}
  BY <1>1 DEF Situation, Know
<1>13. /\ t.todo \subseteq t.good /\ t.repo \in t.todo
       /\ \A q \in Own(w)' : /\ Polling(q)' # {} => q \in t.good
                             /\ q \in t.good \ t.todo => Polling(q)' # {}
  BY <1>2, <1>5, <1>8, <1>11, <1>12 DEF Steady
<1>14. Know(w)'
  BY <1>5, <1>7, <1>11, <1>13 DEF Know, AfterCredentials
<1> QED BY <1>8, <1>9, <1>10, <1>14, SteadySpares DEF Steps

LEMMA HealEnsureStep ==
    ASSUME NEW w \in Workers, Situation(w), HealEnsure(w) PROVE Steps(w)
<1>0. PICK r : r = turn[w].repo
  OBVIOUS
<1> DEFINE rest == turn[w].todo \ {r}
<1>1. /\ turn[w].pc = "heal_ensure" /\ UNCHANGED <<may, generation>> /\ turn[w] \in Turns
      /\ EnsureKeyed("poll", r, FALSE) /\ Proceed(w, rest, "heal_enqueue", "heal_end")
  BY <1>0 DEF HealEnsure, At, Situation, WorkerTypes
<1>2. /\ turn[w].todo \subseteq turn[w].good
      /\ \A q \in Own(w) : /\ Polling(q) # {} => q \in turn[w].good
                           /\ q \in turn[w].good \ turn[w].todo => Polling(q) # {}
      /\ r \in turn[w].todo
  BY <1>0, <1>1 DEF Situation, Know
<1>3. r \in Repositories /\ rest \in SUBSET Repositories
  BY <1>1, <1>2, TurnTypes
<1>4. rest # turn[w].todo
  BY <1>2
<1>5. turn \in [Workers -> Turns] /\ JobsOK
  BY DEF Situation, WorkerTypes
<1>6. rest = turn[w].todo \ {r}
  OBVIOUS
<1> HIDE DEF rest
<1>7. PICK t \in Turns :
         /\ Becomes(w, t)
         /\ t.pc = (IF rest = {} THEN "heal_end" ELSE "heal_enqueue")
         /\ t.todo = rest /\ t.good = turn[w].good /\ t.job = turn[w].job
         /\ t.misread = turn[w].misread
  BY <1>1, <1>3, <1>5, ProceededTurn, PhaseNames
<1>8. turn'[w] = t
  BY <1>7 DEF Becomes
<1>9. JobsOK' /\ Stable /\ Steady({r}) /\ Under("poll", r)' # {}
  BY <1>1, <1>3, <1>5, Ensured
<1>10. Polling(r)' # {}
  BY <1>9 DEF Polling
<1>11. Moves(w)
  BY <1>1, <1>7, <1>9, MovesIf DEF Situation, WorkerTypes
<1>12. JobKnown(w)'
  <2>1. turn[w].pc \in Urgent /\ t.pc \notin Scheduled
    BY <1>1, <1>7 DEF Urgent, Scheduled, Healing
  <2> QED BY <1>7, <1>8, <1>9, <2>1, JobKept DEF Situation
<1>13. Spares(w)
  BY <1>9, <1>10 DEF Spares, Steady
<1>14. /\ \A q \in Sure(w)' : q \in t.good <=> Wanted(q)'
       /\ Own(w)' = Own(w) /\ Own(w) \subseteq Repositories
  BY <1>1, <1>7, <1>8, CredentialsKept DEF AfterCredentials
<1>15. /\ t.todo \subseteq t.good
       /\ \A q \in Own(w)' : /\ Polling(q)' # {} => q \in t.good
                             /\ q \in t.good \ t.todo => Polling(q)' # {}
  BY <1>2, <1>6, <1>7, <1>9, <1>10, <1>14 DEF Steady
<1>16. t.pc = "heal_end" => \A q \in Own(w)' : q \in t.good <=> Polling(q)' # {}
  BY <1>7, <1>15
<1>17. Know(w)'
  BY <1>7, <1>8, <1>14, <1>15, <1>16 DEF Know, AfterCredentials
<1> QED BY <1>11, <1>12, <1>13, <1>17 DEF Steps

-----------------------------------------------------------------------------
(* Ends of jobs. *)

\* A worker that rests has nothing in hand.
LEMMA RestingStep ==
    ASSUME WorkerTypes, NEW w \in Workers, Rest(w), JobsOK', Stable, UNCHANGED <<may, generation>>
    PROVE  Moves(w) /\ JobKnown(w)' /\ Know(w)' /\ turn'[w].pc = "claim"
<1>1. Becomes(w, [Idle EXCEPT !.pc = "claim"])
  BY Rested DEF WorkerTypes
<1>2. turn'[w].pc = "claim"
  BY <1>1 DEF Becomes, Idle
<1>3. Moves(w)
  BY <1>1, MovesIf DEF WorkerTypes
<1> QED BY <1>2, <1>3, JobForgotten, NothingToKnow
        DEF Urgent, Scheduled, AfterCredentials, Healing

\* A row that is not of the poll queue is not the entry of a Repository.
LEMMA OtherRow ==
    ASSUME NEW i, i \in DOMAIN jobs => jobs[i].lane # "poll",
           \A r \in Repositories : Polling(r)' = Polling(r) \ {i}
    PROVE  Steady({})
BY DEF Steady, Polling, Under

LEMMA UrgentEndStep ==
    ASSUME NEW w \in Workers, Situation(w), HealEnd(w) \/ ManualEnd(w) PROVE Steps(w)
<1> DEFINE i == turn[w].job
<1>1. Rest(w) /\ UNCHANGED <<may, generation>>
  BY DEF HealEnd, ManualEnd
<1>2. i \in DOMAIN jobs => jobs[i].lane # "poll"
  BY DEF Situation, JobKnown, HealEnd, ManualEnd, At, Urgent
<1>3. \/ Delete({i}) \/ Postpone(i) \/ UNCHANGED jobs
      \/ i \in DOMAIN jobs /\ Write(i, DeadLetteredRow(jobs[i].row))
  BY DEF HealEnd, ManualEnd
<1> HIDE DEF i
<1>4. JobsOK' /\ Stable /\ Steady({})
  <2>1. CASE Delete({i})
    <3>1. JobsOK' /\ Stable /\ \A r \in Repositories : Polling(r)' = Polling(r) \ {i}
      BY <2>1, Deleted DEF Situation, WorkerTypes
    <3> QED BY <3>1, <1>2, OtherRow
  <2>2. CASE Postpone(i)
    BY <2>2, Postponed DEF Situation, WorkerTypes
  <2>3. CASE UNCHANGED jobs
    BY <2>3, Same DEF Situation, WorkerTypes
  <2>4. CASE i \in DOMAIN jobs /\ Write(i, DeadLetteredRow(jobs[i].row))
    <3>1. jobs[i].row \in RowsOfJobs
      BY <2>4, JobsAreRows DEF Situation, WorkerTypes, JobsOK
    <3> QED BY <2>4, <3>1, RowStatements, Written DEF Situation, WorkerTypes
  <2> QED BY <1>3, <2>1, <2>2, <2>3, <2>4
<1> QED BY <1>1, <1>4, RestingStep, SteadySpares DEF Steps, Situation

LEMMA PollEndStep ==
    ASSUME NEW w \in Workers, Situation(w), PollEnd(w) PROVE Steps(w)
<1> DEFINE i == turn[w].job
<1>1. Rest(w) /\ UNCHANGED <<may, generation>> /\ turn[w].pc \in {"poll_keep", "poll_drop"}
  BY DEF PollEnd, At
<1>2. i \in DOMAIN jobs => jobs[i].about = turn[w].repo
  BY <1>1 DEF Situation, JobKnown, Scheduled
<1>3. \/ Postpone(i)
      \/ turn[w].pc = "poll_drop" /\ Delete({i})
  BY DEF PollEnd, At
<1> HIDE DEF i
<1>4. CASE Postpone(i)
  <2>1. JobsOK' /\ Stable /\ Steady({})
    BY <1>4, Postponed DEF Situation, WorkerTypes
  <2> QED BY <1>1, <2>1, RestingStep, SteadySpares DEF Steps, Situation
<1>5. CASE turn[w].pc = "poll_drop" /\ Delete({i})
  <2>1. JobsOK' /\ Stable /\ \A r \in Repositories : Polling(r)' = Polling(r) \ {i}
    BY <1>5, Deleted DEF Situation, WorkerTypes
  <2>2. Moves(w) /\ JobKnown(w)' /\ Know(w)' /\ turn'[w].pc = "claim"
    BY <1>1, <2>1, RestingStep DEF Situation
  <2>3. ASSUME NEW r \in Repositories, Polling(r) # {}, Polling(r)' = {} PROVE r = turn[w].repo
    BY <2>1, <2>3, <1>2 DEF Polling, Under
  <2>4. Wanted(turn[w].repo) => turn[w].repo \in Changed(w)
    BY <1>5 DEF Situation, Know
  <2>5. turn'[w] # turn[w]
    BY <1>5, <2>2
  <2>6. Spares(w)
    BY <2>3, <2>4, <2>5 DEF Spares
  <2> QED BY <2>2, <2>6 DEF Steps
<1> QED BY <1>3, <1>4, <1>5

LEMMA PollAgainStep ==
    ASSUME NEW w \in Workers, Situation(w), PollAgain(w) PROVE Steps(w)
<1>1. turn[w].pc = "poll_again" /\ UNCHANGED <<may, jobs, generation>> /\ turn[w] \in Turns
  BY DEF PollAgain, At, Situation, WorkerTypes
<1>2. PICK pc \in {"poll_confirm", "poll_drop"} :
         /\ Goto(w, pc)
         /\ pc = "poll_drop" => turn[w].repo \notin world.stored
         /\ pc = "poll_confirm" => turn[w].repo \in world.stored
  BY DEF PollAgain
<1> DEFINE t == [turn[w] EXCEPT !.pc = pc]
<1>3. Becomes(w, t)
  BY <1>2, Went, PhaseNames DEF Situation, WorkerTypes
<1>4. t.pc = pc /\ t.job = turn[w].job /\ t.repo = turn[w].repo
  BY <1>1 DEF Turns
<1> HIDE DEF t
<1>5. turn'[w] = t
  BY <1>3 DEF Becomes
<1>6. Moves(w) /\ JobKnown(w)' /\ Spares(w)
  <2>1. turn[w].pc \in Scheduled /\ t.pc \notin Urgent
    BY <1>1, <1>2, <1>4 DEF Urgent, Scheduled, Healing
  <2> QED BY <1>1, <1>3, <1>4, <2>1, LookingStep DEF Situation, WorkerTypes
<1>7. ASSUME NEW r, r = turn[w].repo, pc = "poll_drop" PROVE ~Wanted(r)'
  BY <1>2, <1>7 DEF Situation, Wanted
<1>8. Know(w)'
  <2>1. PICK r : r = turn[w].repo
    OBVIOUS
  <2>2. turn'[w].repo = r /\ turn'[w].pc = pc
    BY <1>4, <1>5, <2>1
  <2>3. pc = "poll_drop" => ~Wanted(r)'
    BY <1>7, <2>1
  <2>4. pc = "poll_confirm" => r \in Repositories
    BY <1>2, <2>1 DEF Situation, Worlds
  <2> QED BY <2>2, <2>3, <2>4 DEF Know, AfterCredentials
<1> QED BY <1>6, <1>8 DEF Steps

LEMMA PollConfirmStep ==
    ASSUME NEW w \in Workers, Situation(w), PollConfirm(w) PROVE Steps(w)
<1>1. turn[w].pc = "poll_confirm" /\ UNCHANGED <<jobs, generation>> /\ turn[w] \in Turns
      /\ turn[w].repo \in Repositories
  BY DEF PollConfirm, At, Situation, WorkerTypes, Know
<1>2. PICK has \in BOOLEAN :
         /\ Reads(turn[w].repo, has)
         /\ turn' = [turn EXCEPT ![w].misread = Misread(w, turn[w].repo, has),
                                 ![w].pc = IF has THEN "poll_keep" ELSE "poll_drop"]
  BY DEF PollConfirm
<1>0. PICK r : r = turn[w].repo
  OBVIOUS
<1> DEFINE misread == Misread(w, r, has)
           t == [turn[w] EXCEPT !.misread = misread,
                                !.pc = IF has THEN "poll_keep" ELSE "poll_drop"]
<1>3. misread \subseteq Repositories
  BY <1>0, <1>1, MisreadTypes DEF Situation, WorkerTypes
<1>4. ~has /\ Wanted(r) => r \in misread
  BY DEF Misread, Wanted
<1>5. turn' = [turn EXCEPT ![w] = t]
  BY <1>0, <1>1, <1>2 DEF Situation, WorkerTypes
<1> HIDE DEF misread
<1>6. t \in Turns
  BY <1>1, <1>3, PhaseNames DEF Turns
<1>7. /\ t.pc = (IF has THEN "poll_keep" ELSE "poll_drop") /\ t.misread = misread
      /\ t.job = turn[w].job /\ t.repo = turn[w].repo
  BY <1>1 DEF Turns
<1> HIDE DEF t
<1>8. Becomes(w, t) /\ turn'[w] = t
  BY <1>5, <1>6, Updated DEF Becomes, Situation, WorkerTypes
<1>9. Moves(w) /\ JobKnown(w)' /\ Spares(w)
  <2>1. turn[w].pc \in Scheduled /\ t.pc \notin Urgent
    BY <1>1, <1>7 DEF Urgent, Scheduled, Healing
  <2>2. may' \in [Budgets -> Nat]
    BY <1>2, ReadTypes DEF Situation, WorkerTypes
  <2> QED BY <1>1, <1>7, <1>8, <2>1, <2>2, LookingStep DEF Situation, WorkerTypes
<1>10. t.pc = "poll_drop" => (Wanted(r)' => r \in Changed(w)')
  BY <1>4, <1>7, <1>8 DEF Situation, Wanted, Changed
<1>11. Know(w)'
  <2>1. turn'[w].repo = r /\ turn'[w].pc = t.pc
    BY <1>0, <1>7, <1>8
  <2> QED BY <1>7, <1>10, <2>1 DEF Know, AfterCredentials
<1> QED BY <1>9, <1>11 DEF Steps

-----------------------------------------------------------------------------
(* The invariant. *)

CallSound(k) ==
    /\ k.pc \in {"suspend", "check", "ensure", "enqueue"} => k.repo \in Repositories
    /\ k.pc = "secret" => /\ k.repo \in Repositories \union {LinearKey}
                          /\ k.kind # "linear" => k.repo \in Repositories
    /\ k.pc = "suspend" => /\ k.kind \in {"remove", "settings"}
                           /\ k.kind = "remove" => k.repo \in world.removed

CallsKnown == \A c \in Callers : CallSound(call[c])

Inv ==
    /\ TypeOK /\ CallsKnown
    /\ \A w \in Workers : JobKnown(w) /\ Know(w)

LEMMA HistoryTypes ==
    ASSUME NEW actor, History(actor), calm \in BOOLEAN,
           hist \in [Workers -> [world : SUBSET Repositories, entries : SUBSET Repositories]]
    PROVE  /\ hist' \in [Workers -> [world : SUBSET Repositories, entries : SUBSET Repositories]]
           /\ calm' \in BOOLEAN
<1>1. calm' \in BOOLEAN
  BY DEF History
<1>2. ASSUME NEW w \in Workers, NEW S \in SUBSET Repositories, NEW T \in SUBSET Repositories
      PROVE  [world |-> hist[w].world \union S, entries |-> hist[w].entries \union T]
                \in [world : SUBSET Repositories, entries : SUBSET Repositories]
  OBVIOUS
<1>3. Unchanging \in [world : SUBSET Repositories, entries : SUBSET Repositories]
  BY DEF Unchanging
<1> DEFINE S == {r \in Repositories : Record(r)' # Record(r)}
           T(w) == IF w = actor THEN {} ELSE {r \in Repositories : Polling(r)' # Polling(r)}
<1>4. S \in SUBSET Repositories /\ \A w \in Workers : T(w) \in SUBSET Repositories
  OBVIOUS
<1>5. hist' = [w \in Workers |->
         IF Looks(w) \/ turn'[w].pc \notin Deciding THEN Unchanging
         ELSE [world |-> hist[w].world \union S, entries |-> hist[w].entries \union T(w)]]
  BY DEF History
<1> HIDE DEF S, T
<1> QED BY <1>1, <1>2, <1>3, <1>4, <1>5

\* Another's step adds to what a worker does not know, and leaves the rest as it was.
LEMMA Framed ==
    ASSUME NEW w \in Workers, NEW actor, actor # w, History(actor), turn'[w] = turn[w],
           hist \in [Workers -> [world : SUBSET Repositories, entries : SUBSET Repositories]],
           Stable, world' \in Worlds, JobKnown(w), Know(w)
    PROVE  JobKnown(w)' /\ Know(w)'
<1>1. JobKnown(w)'
  BY DEF JobKnown, Stable, Alike
<1>2. ASSUME turn[w].pc \in Deciding
      PROVE  /\ \A r \in Sure(w)' : r \in Sure(w) /\ Record(r)' = Record(r)
             /\ \A r \in Own(w)' : r \in Own(w) /\ Polling(r)' = Polling(r)
  <2> DEFINE S == {r \in Repositories : Record(r)' # Record(r)}
             T == {r \in Repositories : Polling(r)' # Polling(r)}
  <2>1. hist'[w] = [world |-> hist[w].world \union S, entries |-> hist[w].entries \union T]
    BY <1>2 DEF History, Looks
  <2>2. hist'[w].world = hist[w].world \union S /\ hist'[w].entries = hist[w].entries \union T
    BY <2>1
  <2>3. \A r \in Repositories \ S : Record(r)' = Record(r)
    OBVIOUS
  <2>4. \A r \in Repositories \ T : Polling(r)' = Polling(r)
    OBVIOUS
  <2> HIDE DEF S, T
  <2>5. Sure(w)' = Sure(w) \ S /\ Own(w)' = Own(w) \ T
    BY <2>2 DEF Sure, Own, Changed
  <2>6. Sure(w) \subseteq Repositories /\ Own(w) \subseteq Repositories
    BY DEF Sure, Own
  <2> QED BY <2>3, <2>4, <2>5, <2>6
<1>3. \A r : Record(r)' = Record(r) =>
         (r \in world'.stored <=> r \in world.stored) /\ (Wanted(r)' <=> Wanted(r))
  BY DEF Record, Wanted
<1>4. ASSUME turn[w].pc \in Deciding
      PROVE  /\ \A r \in Sure(w)' : /\ r \in Sure(w)
                                    /\ r \in world'.stored <=> r \in world.stored
                                    /\ Wanted(r)' <=> Wanted(r)
             /\ \A r \in Own(w)' : r \in Own(w) /\ Polling(r)' = Polling(r)
  BY <1>2, <1>3, <1>4
<1>5. Know(w)'
  <2>1. PICK t : t = turn[w] /\ t = turn'[w]
    OBVIOUS
  <2>2. CASE t.pc \notin Deciding
    BY <2>1, <2>2 DEF Know, Deciding, Healing, AfterCredentials
  <2>3. CASE t.pc = "poll_drop"
    <3>1. PICK r : r = t.repo
      OBVIOUS
    <3>2. Wanted(r) => r \in Changed(w)
      BY <2>1, <2>3, <3>1 DEF Know
    <3>3. Wanted(r)' => r \in Changed(w)'
      <4>1. SUFFICES ASSUME Wanted(r)', r \notin Changed(w)' PROVE FALSE
        OBVIOUS
      <4>2. r \in Sure(w)'
        BY <4>1 DEF Wanted, Worlds, Sure
      <4>3. Wanted(r) /\ r \in Sure(w)
        BY <4>1, <4>2, <1>4, <2>1, <2>3 DEF Deciding
      <4> QED BY <4>3, <3>2 DEF Sure
    <3> QED BY <2>1, <2>3, <3>1, <3>3 DEF Know, AfterCredentials
  <2>4. CASE t.pc = "heal_credentials"
    BY <2>1, <2>4, <1>4 DEF Know, Deciding, Healing, AfterCredentials
  <2>5. CASE t.pc \in AfterCredentials
    <3>1. /\ \A r \in Sure(w)' : r \in t.good <=> Wanted(r)'
          /\ \A r \in Own(w)' : r \in Own(w) /\ Polling(r)' = Polling(r)
      BY <2>1, <2>5, <1>4 DEF Know, Deciding, Healing, AfterCredentials
    <3>2. CASE t.pc \in {"heal_entries", "heal_remove"}
      BY <3>1, <3>2, <2>1 DEF Know, AfterCredentials
    <3>3. CASE t.pc \in {"heal_missing", "heal_end"}
      BY <3>1, <3>3, <2>1 DEF Know, AfterCredentials
    <3>4. CASE t.pc \in {"heal_enqueue", "heal_ensure"}
      BY <3>1, <3>4, <2>1 DEF Know, AfterCredentials
    <3> QED BY <2>5, <3>2, <3>3, <3>4 DEF AfterCredentials
  <2>6. CASE t.pc \in {"poll_confirm", "poll_keep"}
    BY <2>1, <2>6 DEF Know, AfterCredentials
  <2> QED BY <2>2, <2>3, <2>4, <2>5, <2>6 DEF Deciding, Healing, AfterCredentials
<1> QED BY <1>1, <1>5

-----------------------------------------------------------------------------
(* Steps of a worker. *)

LEMMA WorkingStep ==
    ASSUME Inv, NEW w \in Workers, Working(w) PROVE Inv' /\ Spares(w)
<1>1. Situation(w)
  BY DEF Situation, WorkerTypes, Inv, TypeOK, Working, Step
<1>2. UNCHANGED <<plan, world, call>> /\ History(w)
  BY DEF Working, Step
<1>3. Steps(w)
  <2>1. CASE \/ HealList(w) \/ HealCredential(w) \/ HealEntries(w) \/ HealRemove(w)
             \/ HealMissing(w) \/ HealEnqueue(w) \/ HealEnsure(w)
    BY <1>1, <2>1, HealListStep, HealCredentialStep, HealEntriesStep, HealRemoveStep,
       HealMissingStep, HealEnqueueStep, HealEnsureStep
  <2>2. CASE \/ Transfer(w) \/ Revive(w) \/ EnsureHeal(w) \/ Retire(w)
             \/ Claim(w) \/ NothingUrgent(w) \/ ClaimPoll(w) \/ NothingDue(w)
    BY <1>1, <2>2, BootStep, ClaimStep DEF Situation
  <2>3. CASE \/ PollList(w) \/ PollCredential(w) \/ Refresh(w)
    BY <1>1, <2>3, RefreshStep DEF Situation
  <2>4. CASE HealEnd(w) \/ ManualEnd(w) \/ PollEnd(w) \/ PollAgain(w) \/ PollConfirm(w)
    BY <1>1, <2>4, UrgentEndStep, PollEndStep, PollAgainStep, PollConfirmStep
  <2> QED BY <2>1, <2>2, <2>3, <2>4 DEF Working, Step
<1>4. WorkerTypes' /\ Stable /\ \A v \in Workers \ {w} : turn'[v] = turn[v]
  BY <1>3 DEF Steps, Moves
<1>5. \A v \in Workers : JobKnown(v)' /\ Know(v)'
  <2>1. ASSUME NEW v \in Workers \ {w} PROVE JobKnown(v)' /\ Know(v)'
    BY <1>2, <1>4, Framed DEF Inv, TypeOK
  <2> QED BY <2>1, <1>3 DEF Steps
<1>6. hist' \in [Workers -> [world : SUBSET Repositories, entries : SUBSET Repositories]]
      /\ calm' \in BOOLEAN
  BY <1>2, HistoryTypes DEF Inv, TypeOK
<1>7. TypeOK'
  BY <1>2, <1>4, <1>6 DEF Inv, TypeOK, WorkerTypes, CallsOK
<1>8. CallsKnown'
  BY <1>2 DEF Inv, CallsKnown, CallSound
<1> QED BY <1>3, <1>5, <1>7, <1>8 DEF Inv, Steps

\* Steps after which some workers have nothing in hand, and the others what they had.
LEMMA QuietStep ==
    ASSUME Inv, NEW actor, History(actor), UNCHANGED <<plan, world, jobs>>,
           may' \in [Budgets -> Nat], generation' \in Workers \union {Nobody},
           turn' \in [Workers -> Turns],
           \A w \in Workers :
              \/ turn'[w].pc \in {"off", "claim", "transfer"}
              \/ turn'[w] = turn[w] /\ w # actor
              \/ /\ turn'[w].pc = "heal_postpone" /\ turn[w].pc \in Healing
                 /\ turn'[w].job = turn[w].job,
           \/ UNCHANGED call
           \/ call' = [c \in Callers |-> NoCall]
    PROVE  Inv' /\ Steady({})
<1>1. JobsOK' /\ Stable /\ Steady({})
  BY Same DEF Inv, TypeOK
<1>2. hist' \in [Workers -> [world : SUBSET Repositories, entries : SUBSET Repositories]]
      /\ calm' \in BOOLEAN
  BY HistoryTypes DEF Inv, TypeOK
<1>3. CallsOK' /\ CallsKnown'
  <2>1. CASE UNCHANGED call
    BY <2>1 DEF Inv, TypeOK, CallsOK, CallsKnown, CallSound
  <2>2. CASE call' = [c \in Callers |-> NoCall]
    BY <2>2 DEF CallsOK, CallsKnown, CallSound, NoCall, CallsUnderWay
  <2> QED BY <2>1, <2>2
<1>4. TypeOK'
  BY <1>1, <1>2, <1>3 DEF Inv, TypeOK
<1>5. ASSUME NEW w \in Workers PROVE JobKnown(w)' /\ Know(w)'
  <2>1. CASE turn'[w].pc \in {"off", "claim", "transfer"}
    BY <2>1, JobForgotten, NothingToKnow DEF Urgent, Scheduled, Healing, AfterCredentials
  <2>2. CASE turn'[w] = turn[w] /\ w # actor
    BY <1>1, <1>4, <2>2, Framed DEF Inv, TypeOK
  <2>3. CASE /\ turn'[w].pc = "heal_postpone" /\ turn[w].pc \in Healing
             /\ turn'[w].job = turn[w].job
    <3>1. Know(w)'
      BY <2>3, NothingToKnow DEF AfterCredentials
    <3>2. JobKnown(w)
      BY DEF Inv
    <3>3. turn[w].pc \in Urgent /\ turn'[w].pc \notin Scheduled
      BY <2>3 DEF Urgent, Scheduled
    <3> QED BY <1>1, <2>3, <3>1, <3>2, <3>3, JobKept
  <2> QED BY <2>1, <2>2, <2>3
<1> QED BY <1>1, <1>3, <1>4, <1>5 DEF Inv

LEMMA FaultStep ==
    ASSUME Inv, NEW w \in Workers, Start(w) \/ Reload(w) \/ Interrupt(w) \/ Break(w), History(w)
    PROVE  Inv' /\ Steady({})
<1>1. may \in [Budgets -> Nat] /\ turn \in [Workers -> Turns] /\ turn[w] \in Turns
      /\ generation \in Workers \union {Nobody}
  BY DEF Inv, TypeOK
<1>2. UNCHANGED <<plan, world, jobs, generation, call>> /\ may' \in [Budgets -> Nat]
  BY <1>1, Budgeted, Names DEF Start, Reload, Interrupt, Break, BudgetNames
<1>3. \/ Goto(w, "transfer")
      \/ turn' = [turn EXCEPT ![w] = Idle]
      \/ turn[w].pc \in Healing /\ Goto(w, "heal_postpone")
      \/ Rest(w)
  BY DEF Start, Reload, Interrupt, Break
<1>4. \E t \in Turns : /\ Becomes(w, t)
                       /\ \/ t.pc \in {"off", "claim", "transfer"}
                          \/ /\ t.pc = "heal_postpone" /\ turn[w].pc \in Healing
                             /\ t.job = turn[w].job
  <2>1. ASSUME NEW pc \in Phases
        PROVE  /\ [turn[w] EXCEPT !.pc = pc] \in Turns
               /\ [turn[w] EXCEPT !.pc = pc].pc = pc
               /\ [turn[w] EXCEPT !.pc = pc].job = turn[w].job
    BY <1>1 DEF Turns
  <2>2. CASE Goto(w, "transfer")
    BY <1>1, <2>1, <2>2, Went, PhaseNames
  <2>3. CASE turn[w].pc \in Healing /\ Goto(w, "heal_postpone")
    BY <1>1, <2>1, <2>3, Went, PhaseNames
  <2>4. CASE turn' = [turn EXCEPT ![w] = Idle]
    <3>1. Idle \in Turns /\ Idle.pc = "off"
      BY IdleTurn DEF Idle
    <3> QED BY <1>1, <2>4, <3>1, Updated
  <2>5. CASE Rest(w)
    <3>1. [Idle EXCEPT !.pc = "claim"] \in Turns /\ [Idle EXCEPT !.pc = "claim"].pc = "claim"
      BY IdleTurn DEF Idle
    <3> QED BY <1>1, <2>5, <3>1, Rested
  <2> QED BY <1>3, <2>2, <2>3, <2>4, <2>5
<1>5. turn' \in [Workers -> Turns]
      /\ \A v \in Workers :
            \/ turn'[v].pc \in {"off", "claim", "transfer"}
            \/ turn'[v] = turn[v] /\ v # w
            \/ /\ turn'[v].pc = "heal_postpone" /\ turn[v].pc \in Healing
               /\ turn'[v].job = turn[v].job
  BY <1>4 DEF Becomes
<1> QED BY <1>1, <1>2, <1>5, QuietStep

LEMMA CrashStep ==
    ASSUME Inv, Crash, History(Nobody) PROVE Inv' /\ Steady({})
<1>1. turn' \in [Workers -> Turns] /\ \A w \in Workers : turn'[w].pc = "off"
  BY IdleTurn DEF Crash, Idle
<1>2. may' \in [Budgets -> Nat] /\ generation' = Nobody /\ UNCHANGED <<plan, world, jobs>>
      /\ call' = [c \in Callers |-> NoCall]
  BY Budgeted, Names DEF Crash, BudgetNames, Inv, TypeOK
<1> QED BY <1>1, <1>2, QuietStep

-----------------------------------------------------------------------------
(* Time, and the operator. *)

\* Steps of others that leave the workers alone.
LEMMA OutsideStep ==
    ASSUME Inv, History(Nobody), UNCHANGED <<plan, generation, turn>>, JobsOK', Stable,
           may' \in [Budgets -> Nat], world' \in Worlds,
           world'.stored \intersect world'.removed = {}, CallsOK', CallsKnown'
    PROVE  Inv'
<1>1. hist' \in [Workers -> [world : SUBSET Repositories, entries : SUBSET Repositories]]
      /\ calm' \in BOOLEAN
  BY HistoryTypes DEF Inv, TypeOK
<1>2. TypeOK'
  BY <1>1 DEF Inv, TypeOK
<1>3. ASSUME NEW w \in Workers PROVE JobKnown(w)' /\ Know(w)'
  <2>1. Nobody # w /\ turn'[w] = turn[w]
    BY PollingAssumption DEF PollingAssumption
  <2> QED BY <2>1, Framed DEF Inv, TypeOK
<1> QED BY <1>2, <1>3 DEF Inv

LEMMA TimeStep ==
    ASSUME Inv, Time PROVE Inv' /\ Steady({})
<1>1. PICK i \in DOMAIN jobs : (BecomeDue(i) \/ LockExpires(i)) /\ History(Nobody)
  BY DEF Time
<1>2. UNCHANGED <<plan, world, generation, turn, call>> /\ may' \in [Budgets -> Nat]
  BY <1>1, Budgeted, Names DEF BecomeDue, LockExpires, Inv, TypeOK, BudgetNames
<1>3. jobs[i].row \in RowsOfJobs
  BY JobsAreRows DEF Inv, TypeOK, JobsOK
<1>4. Write(i, DueRow(jobs[i].row)) \/ Write(i, ExpiredRow(jobs[i].row))
  BY <1>1 DEF BecomeDue, LockExpires
<1>5. JobsOK' /\ Stable /\ Steady({})
  BY <1>3, <1>4, RowStatements, Written DEF Inv, TypeOK
<1>6. /\ world' \in Worlds /\ world'.stored \intersect world'.removed = {}
      /\ CallsOK' /\ CallsKnown'
  BY <1>2 DEF Inv, TypeOK, CallsOK, CallsKnown, CallSound
<1> QED BY <1>1, <1>2, <1>5, <1>6, OutsideStep

LEMMA CallsKept ==
    ASSUME Inv, NEW c \in Callers, NEW x \in CallsUnderWay, call' = [call EXCEPT ![c] = x],
           world.removed \subseteq world'.removed, CallSound(x)'
    PROVE  CallsOK' /\ CallsKnown' /\ call'[c] = x
<1>1. call \in [Callers -> CallsUnderWay] /\ \A d \in Callers : CallSound(call[d])
  BY DEF Inv, TypeOK, CallsOK, CallsKnown
<1>2. /\ call' \in [Callers -> CallsUnderWay]
      /\ \A d \in Callers : call'[d] = IF d = c THEN x ELSE call[d]
  BY <1>1
<1>3. \A d \in Callers : CallSound(call[d])'
  BY <1>1, <1>2 DEF CallSound
<1> QED BY <1>2, <1>3 DEF CallsOK, CallsKnown, CallSound

LEMMA CallTypes ==
    /\ NoCall \in CallsUnderWay /\ NoCall.pc = "none"
    /\ \A pc \in {"none", "secret", "list", "suspend", "check", "ensure", "enqueue"},
          kind \in Requests \union {"none"}, r \in Repositories \union {LinearKey} :
          [NoCall EXCEPT !.pc = pc, !.kind = kind, !.repo = r] \in CallsUnderWay
BY DEF NoCall, CallsUnderWay

LEMMA BeginStep ==
    ASSUME Inv, NEW c \in Callers, NEW kind \in Requests,
           NEW r \in Repositories \union {LinearKey},
           NEW pc \in {"secret", "check", "suspend", "enqueue"}, Begin(c, kind, r, pc),
           pc \in {"suspend", "check", "enqueue"} => r \in Repositories,
           pc = "secret" /\ kind # "linear" => r \in Repositories,
           pc = "suspend" => kind = "remove" /\ r \in world'.removed,
           world' \in Worlds, world'.stored \intersect world'.removed = {},
           world.removed \subseteq world'.removed, History(Nobody)
    PROVE  Inv' /\ Steady({})
<1> DEFINE x == [NoCall EXCEPT !.pc = pc, !.kind = kind, !.repo = r]
<1>1. x \in CallsUnderWay
  BY CallTypes
<1>2. x.pc = pc /\ x.kind = kind /\ x.repo = r
  BY DEF NoCall
<1>3. call' = [call EXCEPT ![c] = x] /\ UNCHANGED <<plan, jobs, generation, turn>>
  BY DEF Begin
<1> HIDE DEF x
<1>4. CallSound(x)'
  BY <1>2 DEF CallSound
<1>5. CallsOK' /\ CallsKnown'
  BY <1>1, <1>3, <1>4, CallsKept
<1>6. JobsOK' /\ Stable /\ Steady({})
  BY <1>3, Same DEF Inv, TypeOK
<1>7. may' \in [Budgets -> Nat]
  BY Budgeted DEF Begin, Inv, TypeOK, Budgets
<1> QED BY <1>3, <1>5, <1>6, <1>7, OutsideStep

LEMMA RequestStep ==
    ASSUME Inv, NEW c \in Callers, History(Nobody),
           \/ AddLinearKey(c)
           \/ \E r \in Repositories : \/ AddToken(c, r) \/ AddRepository(c, r)
                                      \/ RemoveRepository(c, r) \/ RefreshRepository(c, r)
    PROVE  Inv' /\ Steady({})
<1>1. /\ world \in Worlds /\ world.stored \intersect world.removed = {}
      /\ {"token", "linear", "add", "remove", "refresh"} \subseteq Requests
  BY DEF Inv, TypeOK, Requests
<1>2. CASE AddLinearKey(c)
  BY <1>1, <1>2, BeginStep DEF AddLinearKey
<1>3. ASSUME NEW r \in Repositories, AddToken(c, r) PROVE Inv' /\ Steady({})
  BY <1>1, <1>3, BeginStep DEF AddToken
<1>4. ASSUME NEW r \in Repositories, RefreshRepository(c, r) PROVE Inv' /\ Steady({})
  BY <1>1, <1>4, BeginStep DEF RefreshRepository
<1>5. ASSUME NEW r \in Repositories, AddRepository(c, r) PROVE Inv' /\ Steady({})
  <2>1. /\ Begin(c, "add", r, "check") /\ r \notin world.removed
        /\ world' = [world EXCEPT !.stored = @ \union {r}]
    BY <1>5 DEF AddRepository
  <2>2. /\ world' \in Worlds /\ world'.stored \intersect world'.removed = {}
        /\ world'.removed = world.removed
    BY <2>1, <1>1 DEF Worlds
  <2> QED BY <1>1, <2>1, <2>2, BeginStep
<1>6. ASSUME NEW r \in Repositories, RemoveRepository(c, r) PROVE Inv' /\ Steady({})
  <2>1. /\ Begin(c, "remove", r, "suspend") /\ r \in world.stored
        /\ world' = [world EXCEPT !.stored = @ \ {r}, !.removed = @ \union {r}]
    BY <1>6 DEF RemoveRepository
  <2>2. /\ world' \in Worlds /\ world'.stored \intersect world'.removed = {}
        /\ world'.removed = world.removed \union {r}
    BY <2>1, <1>1 DEF Worlds
  <2> QED BY <1>1, <2>1, <2>2, BeginStep
<1> QED BY <1>2, <1>3, <1>4, <1>5, <1>6

LEMMA SettingsStep ==
    ASSUME Inv, NEW c \in Callers, NEW r \in Repositories, UpdateRepositorySettings(c, r),
           History(Nobody)
    PROVE  Inv' /\ Steady({})
<1>1. PICK linear \in BOOLEAN, has \in BOOLEAN :
         /\ world' = [world EXCEPT
                !.linear = (@ \ {r}) \union IF linear THEN {r} ELSE {},
                !.secrets = (@ \ {r}) \union IF has THEN {r} ELSE {}]
         /\ call' = [call EXCEPT ![c] = [NoCall EXCEPT !.pc = "suspend", !.kind = "settings",
                                                       !.repo = r, !.linear = linear]]
  BY DEF UpdateRepositorySettings
<1>2. /\ world' \in Worlds /\ world'.stored \intersect world'.removed = {}
      /\ world'.removed = world.removed
  BY <1>1 DEF Inv, TypeOK, Worlds
<1> DEFINE x == [NoCall EXCEPT !.pc = "suspend", !.kind = "settings", !.repo = r, !.linear = linear]
<1>3. x \in CallsUnderWay /\ x.pc = "suspend" /\ x.kind = "settings" /\ x.repo = r
  BY DEF NoCall, CallsUnderWay, Requests
<1>4. call' = [call EXCEPT ![c] = x]
  BY <1>1
<1> HIDE DEF x
<1>5. CallSound(x)'
  BY <1>3 DEF CallSound
<1>6. CallsOK' /\ CallsKnown'
  BY <1>2, <1>3, <1>4, <1>5, CallsKept
<1>7. UNCHANGED <<plan, jobs, generation, turn>> /\ may' \in [Budgets -> Nat]
  BY Budgeted, Names DEF UpdateRepositorySettings, Inv, TypeOK, BudgetNames
<1>8. JobsOK' /\ Stable /\ Steady({})
  BY <1>7, Same DEF Inv, TypeOK
<1> QED BY <1>2, <1>6, <1>7, <1>8, OutsideStep

LEMMA SecretsChange ==
    ASSUME Inv, NEW r \in Repositories, Outside(r), History(Nobody)
    PROVE  Inv' /\ Steady({})
<1>1. /\ UNCHANGED <<plan, jobs, generation, turn, call>>
      /\ world' = [world EXCEPT !.secrets = IF r \in @ THEN @ \ {r} ELSE @ \union {r}]
      /\ may' \in [Budgets -> Nat]
  BY Budgeted, Names DEF Outside, Inv, TypeOK, BudgetNames
<1>2. /\ world' \in Worlds /\ world'.stored \intersect world'.removed = {}
      /\ world'.removed = world.removed
  BY <1>1 DEF Inv, TypeOK, Worlds
<1>3. JobsOK' /\ Stable /\ Steady({})
  BY <1>1, Same DEF Inv, TypeOK
<1>4. CallsOK' /\ CallsKnown'
  BY <1>1, <1>2 DEF Inv, TypeOK, CallsOK, CallsKnown, CallSound
<1> QED BY <1>1, <1>2, <1>3, <1>4, OutsideStep

-----------------------------------------------------------------------------
(* The steps of a call. *)

\* The call goes on as x, and nothing else changes but budgets.
LEMMA CallStep ==
    ASSUME Inv, NEW c \in Callers, NEW x \in CallsUnderWay, call' = [call EXCEPT ![c] = x],
           CallSound(x), UNCHANGED <<plan, world, generation, turn>>, JobsOK', Stable,
           may' \in [Budgets -> Nat], History(Nobody)
    PROVE  Inv' /\ call'[c] = x
<1>1. CallsOK' /\ CallsKnown' /\ call'[c] = x
  <2>1. CallSound(x)'
    BY DEF CallSound
  <2> QED BY <2>1, CallsKept
<1>2. world' \in Worlds /\ world'.stored \intersect world'.removed = {}
  BY DEF Inv, TypeOK
<1> QED BY <1>1, <1>2, OutsideStep

LEMMA NextCall ==
    ASSUME call \in [Callers -> CallsUnderWay], NEW c \in Callers,
           NEW todo \in SUBSET Repositories, NextOf(c, todo)
    PROVE  \E x \in CallsUnderWay : call' = [call EXCEPT ![c] = x] /\ CallSound(x)
<1>1. CASE call' = [call EXCEPT ![c] = NoCall]
  <2>1. CallSound(NoCall)
    BY DEF CallSound, NoCall
  <2> QED BY <1>1, <2>1, CallTypes
<1>2. CASE \E r \in todo : call' = [call EXCEPT ![c].repo = r, ![c].todo = todo \ {r},
                                                ![c].pc = "ensure"]
  <2>1. PICK r \in todo : call' = [call EXCEPT ![c].repo = r, ![c].todo = todo \ {r},
                                               ![c].pc = "ensure"]
    BY <1>2
  <2> DEFINE x == [call[c] EXCEPT !.repo = r, !.todo = todo \ {r}, !.pc = "ensure"]
  <2>2. call[c] \in CallsUnderWay /\ r \in Repositories
    OBVIOUS
  <2>3. x \in CallsUnderWay /\ x.pc = "ensure" /\ x.repo = r
    BY <2>2 DEF CallsUnderWay
  <2>4. call' = [call EXCEPT ![c] = x]
    BY <2>1
  <2> HIDE DEF x
  <2>5. CallSound(x)
    BY <2>2, <2>3 DEF CallSound
  <2> QED BY <2>3, <2>4, <2>5
<1> QED BY <1>1, <1>2 DEF NextOf

\* A call that stays the same but for its place.
LEMMA CallGoesOn ==
    ASSUME call \in [Callers -> CallsUnderWay], NEW c \in Callers,
           NEW pc \in {"list", "check", "ensure", "enqueue"},
           call' = [call EXCEPT ![c].pc = pc] \/ call' = [call EXCEPT ![c] = [@ EXCEPT !.pc = pc]],
           pc # "list" => call[c].repo \in Repositories
    PROVE  \E x \in CallsUnderWay : /\ call' = [call EXCEPT ![c] = x] /\ CallSound(x)
                                    /\ x.pc = pc
<1> DEFINE x == [call[c] EXCEPT !.pc = pc]
<1>1. call[c] \in CallsUnderWay
  OBVIOUS
<1>2. x \in CallsUnderWay /\ x.pc = pc /\ x.repo = call[c].repo
  BY <1>1 DEF CallsUnderWay
<1>3. call' = [call EXCEPT ![c] = x]
  BY <1>1
<1> HIDE DEF x
<1>4. CallSound(x)
  BY <1>2 DEF CallSound
<1> QED BY <1>2, <1>3, <1>4

\* A step of a call ends a schedule only where a settings save suspends it.
Suspends(c) ==
    \A r \in Repositories :
       Wanted(r) /\ Polling(r) # {} /\ Polling(r)' = {} =>
          call[c].pc = "suspend" /\ call[c].kind = "settings" /\ call'[c] # call[c]

LEMMA AddSecretStep ==
    ASSUME Inv, NEW c \in Callers, AddSecret(c), UNCHANGED <<plan, generation, turn>>,
           History(Nobody)
    PROVE  Inv' /\ Steady({})
<1>1. call \in [Callers -> CallsUnderWay] /\ CallSound(call[c]) /\ world \in Worlds
      /\ world.stored \intersect world.removed = {} /\ may \in [Budgets -> Nat]
  BY DEF Inv, TypeOK, CallsOK, CallsKnown
<1>2. /\ call[c].pc = "secret" /\ UNCHANGED <<may, jobs>>
      /\ world' = [world EXCEPT !.secrets = @ \union {call[c].repo}]
      /\ call' = [call EXCEPT ![c].pc = IF call[c].kind = "linear" THEN "list" ELSE "ensure"]
  BY DEF AddSecret
<1>3. /\ world' \in Worlds /\ world'.stored \intersect world'.removed = {}
      /\ world'.removed = world.removed
  BY <1>1, <1>2 DEF Worlds, CallSound
<1>4. PICK pc \in {"list", "ensure"} :
         call' = [call EXCEPT ![c].pc = pc] /\ (pc # "list" => call[c].repo \in Repositories)
  BY <1>1, <1>2 DEF CallSound
<1>5. PICK x \in CallsUnderWay :
         call' = [call EXCEPT ![c] = x] /\ CallSound(x) /\ x.pc = pc
  <2>1. pc \in {"list", "check", "ensure", "enqueue"} /\ call' = [call EXCEPT ![c].pc = pc]
    BY <1>4
  <2>2. call \in [Callers -> CallsUnderWay] /\ (pc # "list" => call[c].repo \in Repositories)
    BY <1>1, <1>4
  <2> QED BY ONLY <2>1, <2>2, CallGoesOn
<1>6. CallSound(x)'
  BY <1>3, <1>5 DEF CallSound
<1>7. CallsOK' /\ CallsKnown'
  BY <1>3, <1>5, <1>6, CallsKept
<1>8. JobsOK' /\ Stable /\ Steady({})
  BY <1>2, Same DEF Inv, TypeOK
<1> QED BY <1>1, <1>2, <1>3, <1>7, <1>8, OutsideStep

LEMMA AdvanceStep ==
    ASSUME Inv, NEW c \in Callers, Advance(c), History(Nobody)
    PROVE  Inv' /\ Suspends(c)
<1>1. /\ call \in [Callers -> CallsUnderWay] /\ call[c] \in CallsUnderWay
      /\ CallSound(call[c]) /\ JobsOK /\ turn \in [Workers -> Turns]
      /\ may \in [Budgets -> Nat] /\ world \in Worlds /\ call[c].todo \in SUBSET Repositories
      /\ world.stored \intersect world.removed = {}
  BY DEF Inv, TypeOK, CallsOK, CallsKnown, CallsUnderWay
<1>2. UNCHANGED <<plan, generation, turn>>
  BY DEF Advance
<1>3. Steady({}) => Suspends(c)
  BY DEF Steady, Suspends
<1>4. CASE AddSecret(c)
  BY <1>2, <1>3, <1>4, AddSecretStep
<1>5. CASE ListLinear(c) \/ CallBreaks(c)
  <2>1. /\ world' = world /\ jobs' = jobs /\ may' \in [Budgets -> Nat]
        /\ \E todo \in SUBSET Repositories : NextOf(c, todo)
    BY <1>1, <1>5, Budgeted, Names DEF ListLinear, CallBreaks, BudgetNames, Worlds
  <2>2. PICK x \in CallsUnderWay : call' = [call EXCEPT ![c] = x] /\ CallSound(x)
    BY <1>1, <2>1, NextCall
  <2>3. JobsOK' /\ Stable /\ Steady({})
    BY <1>1, <2>1, Same
  <2> QED BY <1>2, <1>3, <2>1, <2>2, <2>3, CallStep
<1>6. CASE Suspend(c)
  <2>1. /\ call[c].pc = "suspend" /\ Delete(Polling(call[c].repo)) /\ UNCHANGED <<may, world>>
        /\ call' = [call EXCEPT
              ![c] = IF @.kind = "remove" THEN NoCall ELSE [@ EXCEPT !.pc = "check"]]
    BY <1>6 DEF Suspend
  <2>2. PICK r : r = call[c].repo
    OBVIOUS
  <2>3. r \in Repositories /\ call[c].kind \in {"remove", "settings"}
        /\ (call[c].kind = "remove" => r \in world.removed)
    BY <1>1, <2>1, <2>2 DEF CallSound
  <2>4. JobsOK' /\ Stable /\ \A q \in Repositories : Polling(q)' = Polling(q) \ Polling(r)
    BY <1>1, <2>1, <2>2, Deleted
  <2>5. \E x \in CallsUnderWay : /\ call' = [call EXCEPT ![c] = x] /\ CallSound(x)
                                 /\ x.pc # "suspend"
    <3>1. CASE call[c].kind = "remove"
      <4>1. CallSound(NoCall)
        BY DEF CallSound, NoCall
      <4> QED BY <2>1, <3>1, <4>1, CallTypes
    <3>2. CASE call[c].kind # "remove"
      <4>1. call' = [call EXCEPT ![c] = [@ EXCEPT !.pc = "check"]]
        BY <2>1, <3>2, <1>1
      <4>2. \E x \in CallsUnderWay : /\ call' = [call EXCEPT ![c] = x] /\ CallSound(x)
                                     /\ x.pc = "check"
        BY <4>1, <1>1, <2>2, <2>3, CallGoesOn
      <4> QED BY <4>2
    <3> QED BY <3>1, <3>2
  <2>6. PICK x \in CallsUnderWay : /\ call' = [call EXCEPT ![c] = x] /\ CallSound(x)
                                   /\ x.pc # "suspend"
    BY <2>5
  <2>7. Inv' /\ call'[c] = x
    BY <1>1, <1>2, <2>1, <2>4, <2>6, CallStep
  <2>8. ASSUME NEW q \in Repositories, Wanted(q), Polling(q) # {}, Polling(q)' = {}
        PROVE  call[c].kind = "settings"
    <3>1. Polling(q) \intersect Polling(r) # {}
      BY <2>4, <2>8
    <3>2. q = r
      BY <3>1 DEF Polling, Under
    <3> QED BY <1>1, <2>3, <2>8, <3>2 DEF Wanted
  <2>9. Suspends(c)
    BY <2>1, <2>6, <2>7, <2>8 DEF Suspends
  <2> QED BY <2>7, <2>9
<1>7. CASE Check(c)
  <2>1. /\ world' = world /\ jobs' = jobs /\ may' \in [Budgets -> Nat]
        /\ \/ call' = [call EXCEPT ![c] = [@ EXCEPT !.pc = "ensure"]]
           \/ call' = [call EXCEPT ![c] = NoCall]
    BY <1>1, <1>7, ReadTypes DEF Check
  <2>2. call[c].repo \in Repositories
    BY <1>1, <1>7 DEF Check, CallSound
  <2>3. \E x \in CallsUnderWay : call' = [call EXCEPT ![c] = x] /\ CallSound(x)
    <3>1. CallSound(NoCall)
      BY DEF CallSound, NoCall
    <3> QED BY <1>1, <2>1, <2>2, <3>1, CallTypes, CallGoesOn
  <2>4. PICK x \in CallsUnderWay : call' = [call EXCEPT ![c] = x] /\ CallSound(x)
    BY <2>3
  <2>5. JobsOK' /\ Stable /\ Steady({})
    BY <1>1, <2>1, Same
  <2> QED BY <1>2, <1>3, <2>1, <2>4, <2>5, CallStep
<1>8. CASE Ensure(c)
  <2>1. PICK r : r = call[c].repo
    OBVIOUS
  <2>2. /\ r \in Repositories /\ EnsureKeyed("poll", r, FALSE) /\ UNCHANGED <<may, world>>
        /\ call' = [call EXCEPT ![c].pc = "enqueue"]
    BY <1>1, <1>8, <2>1 DEF Ensure, CallSound
  <2>3. PICK x \in CallsUnderWay : call' = [call EXCEPT ![c] = x] /\ CallSound(x)
    BY <1>1, <2>1, <2>2, CallGoesOn
  <2>4. JobsOK' /\ Stable /\ Steady({r}) /\ Under("poll", r)' # {}
    BY <1>1, <2>2, Ensured
  <2>5. Suspends(c)
    BY <2>4 DEF Steady, Suspends, Polling
  <2> QED BY <1>1, <1>2, <2>2, <2>3, <2>4, <2>5, CallStep
<1>9. CASE EnqueueRefresh(c)
  <2>1. /\ Enqueue(call[c].repo) /\ NextOf(c, call[c].todo) /\ UNCHANGED <<may, world>>
        /\ call[c].repo \in Repositories
    BY <1>1, <1>9 DEF EnqueueRefresh, CallSound
  <2>2. JobsOK' /\ Stable /\ Steady({})
    BY <1>1, <2>1, Enqueued
  <2>3. PICK x \in CallsUnderWay : call' = [call EXCEPT ![c] = x] /\ CallSound(x)
    BY <1>1, <2>1, NextCall
  <2> QED BY <1>1, <1>2, <1>3, <2>1, <2>2, <2>3, CallStep
<1> QED BY <1>4, <1>5, <1>6, <1>7, <1>8, <1>9 DEF Advance

-----------------------------------------------------------------------------
(* The theorems. *)

LEMMA Initially == Init => Inv
<1> SUFFICES ASSUME Init PROVE Inv
  OBVIOUS
<1>1. plan \in Plans /\ may = plan.budget /\ world = plan.world /\ jobs = plan.jobs
  BY DEF Init
<1>2. may \in [Budgets -> Nat] /\ world \in Worlds /\ world.stored \intersect world.removed = {}
  BY <1>1, PollingAssumption DEF PollingAssumption
<1>3. /\ turn = [w \in Workers |-> Idle] /\ call = [c \in Callers |-> NoCall]
      /\ hist = [w \in Workers |-> Unchanging] /\ generation = Nobody /\ calm = FALSE
  BY DEF Init
<1>4. JobsOK
  <2>1. /\ DOMAIN jobs \subseteq Nat /\ IsFiniteSet(DOMAIN jobs)
        /\ jobs \in [DOMAIN jobs -> Jobs]
        /\ \A i \in DOMAIN jobs : jobs[i].keyed =>
              /\ jobs[i].lane # "jobs"
              /\ \A k \in DOMAIN jobs :
                    jobs[k].keyed /\ jobs[k].lane = jobs[i].lane
                       /\ jobs[k].about = jobs[i].about => k = i
    BY <1>1, PollingAssumption DEF PollingAssumption
  <2> QED BY <2>1 DEF JobsOK, Under
<1>5. hist \in [Workers -> [world : SUBSET Repositories, entries : SUBSET Repositories]]
  BY <1>3 DEF Unchanging
<1>6. turn \in [Workers -> Turns] /\ \A w \in Workers : turn[w].pc = "off"
  BY <1>3, IdleTurn DEF Idle
<1>7. CallsOK /\ CallsKnown
  BY <1>3, CallTypes DEF CallsOK, CallsKnown, CallSound
<1>8. \A w \in Workers : JobKnown(w) /\ Know(w)
  BY <1>6 DEF JobKnown, Know, Urgent, Scheduled, Healing, AfterCredentials
<1> QED BY <1>1, <1>2, <1>3, <1>4, <1>5, <1>6, <1>7, <1>8 DEF Inv, TypeOK

\* Who may end a wanted schedule.
MayEnd(r) ==
    \/ \E c \in Callers : call[c].pc = "suspend" /\ call[c].kind = "settings"
                             /\ call'[c] # call[c]
    \/ \E w \in Workers : turn'[w] # turn[w] /\ r \in hist[w].world \union turn[w].misread

OnlyThey ==
    \A r \in Repositories : Wanted(r) /\ Polling(r) # {} /\ Polling(r)' = {} => MayEnd(r)

LEMMA EveryStep == ASSUME Inv, Next PROVE Inv' /\ OnlyThey
<1>1. Steady({}) => OnlyThey
  BY DEF Steady, OnlyThey
<1>2. ASSUME NEW w \in Workers, Working(w) PROVE Inv' /\ OnlyThey
  <2>1. Inv' /\ Spares(w)
    BY <1>2, WorkingStep
  <2> QED BY <2>1 DEF Spares, OnlyThey, MayEnd, Changed
<1>3. ASSUME NEW w \in Workers,
             (Start(w) \/ Reload(w) \/ Interrupt(w) \/ Break(w)) /\ History(w)
      PROVE  Inv' /\ OnlyThey
  BY <1>1, <1>3, FaultStep
<1>4. CASE Crash /\ History(Nobody)
  BY <1>1, <1>4, CrashStep
<1>5. CASE Time
  BY <1>1, <1>5, TimeStep
<1>6. CASE Operator
  <2>1. ASSUME NEW c \in Callers, Advance(c), History(Nobody) PROVE Inv' /\ OnlyThey
    <3>1. Inv' /\ Suspends(c)
      BY <2>1, AdvanceStep
    <3> QED BY <3>1 DEF Suspends, OnlyThey, MayEnd
  <2>2. ASSUME NEW c \in Callers, NEW r \in Repositories, UpdateRepositorySettings(c, r),
               History(Nobody)
        PROVE  Inv' /\ OnlyThey
    BY <1>1, <2>2, SettingsStep
  <2>3. ASSUME NEW c \in Callers, History(Nobody),
               \/ AddLinearKey(c)
               \/ \E r \in Repositories : \/ AddToken(c, r) \/ AddRepository(c, r)
                                          \/ RemoveRepository(c, r) \/ RefreshRepository(c, r)
        PROVE  Inv' /\ OnlyThey
    BY <1>1, <2>3, RequestStep
  <2>4. ASSUME NEW r \in Repositories, Outside(r), History(Nobody) PROVE Inv' /\ OnlyThey
    BY <1>1, <2>4, SecretsChange
  <2> QED BY <1>6, <2>1, <2>2, <2>3, <2>4 DEF Operator
<1> QED BY <1>2, <1>3, <1>4, <1>5, <1>6 DEF Next

LEMMA StutteringStep == ASSUME Inv, UNCHANGED vars PROVE Inv'
<1>1. \A w \in Workers : JobKnown(w)' /\ Know(w)'
  BY DEF Inv, vars, JobKnown, Know, Sure, Own, Changed, Wanted, Polling, Under
<1>2. TypeOK' /\ CallsKnown'
  BY DEF Inv, TypeOK, vars, JobsOK, CallsOK, CallsKnown, CallSound, Under
<1> QED BY <1>1, <1>2 DEF Inv

LEMMA Invariant == Spec => []Inv
<1>1. Inv /\ [Next]_vars => Inv'
  BY EveryStep, StutteringStep
<1> QED BY <1>1, Initially, PTL DEF Spec

\* The variables have their types, a key has one row in a queue, and a row is
\* delivered no more often than its limit allows (ensureKeyed, rawClaim).
THEOREM TypeCorrect == Spec => []TypeOK
<1>1. Inv => TypeOK
  BY DEF Inv
<1> QED BY <1>1, Invariant, PTL

\* An Auto-heal that comes to its end has made the entries exactly match the
\* credentialed Repositories, except those that others changed or whose credential
\* was misread (repairPollingSchedules).
THEOREM HealExact == Spec => []HealIsExact
<1>1. Inv => HealIsExact
  <2> SUFFICES ASSUME Inv, NEW w \in Workers, At(w, "heal_end"),
                      NEW r \in Repositories \ (hist[w].world \union hist[w].entries
                                                  \union turn[w].misread)
               PROVE  (Polling(r) # {}) = Wanted(r)
    BY DEF HealIsExact
  <2>1. turn[w].pc = "heal_end" /\ Know(w)
    BY DEF Inv, At
  <2>2. r \in Sure(w) /\ r \in Own(w)
    BY DEF Sure, Own, Changed
  <2>3. (Polling(r) # {}) <=> Wanted(r)
    BY <2>1, <2>2 DEF Know, AfterCredentials
  <2>4. Wanted(r) \in BOOLEAN
    BY DEF Wanted
  <2> QED BY <2>3, <2>4
<1> QED BY <1>1, Invariant, PTL

\* The schedule of a credentialed Repository ends only by a settings save or by a
\* worker that looked before the record changed, or misread the credential
\* (finalizeScheduledRefresh, repairPollingSchedules, suspendRepositoryPolling).
THEOREM SchedulesKept == Spec => SchedulesSurvive
<1>1. Inv /\ [Next]_vars =>
         [\A r \in Repositories :
             Wanted(r) /\ Polling(r) # {} /\ Polling(r)' = {} =>
                \/ \E c \in Callers : call[c].pc = "suspend" /\ call[c].kind = "settings"
                                         /\ call'[c] # call[c]
                \/ \E w \in Workers : /\ turn'[w] # turn[w]
                                      /\ r \in hist[w].world \union turn[w].misread]_vars
  BY EveryStep DEF OnlyThey, MayEnd
<1> QED BY <1>1, Invariant, PTL DEF Spec, SchedulesSurvive
=============================================================================
