--------------------------- MODULE JobQueueProofs ---------------------------
(***************************************************************************)
(* Proofs about the durable queue, for any number of jobs, queues, keys    *)
(* and claimants and any delivery limits.                                  *)
(***************************************************************************)
EXTENDS JobQueue, TLAPS

RowTyped(row) == row \in Entries /\ row.attempts <= row.limit

-----------------------------------------------------------------------------
(* What the statements do to one row. *)

LEMMA RowSteps ==
    ASSUME NEW row, RowTyped(row)
    PROVE  /\ ~Exhausted(row) => RowTyped(ClaimedRow(row))
           /\ \A due \in BOOLEAN : RowTyped(RenewedRow(row, due))
           /\ RowTyped(DeadLetteredRow(row))
           /\ RowTyped(ReleasedRow(row))
           /\ RowTyped(ExtendedRow(row))
           /\ RowTyped(DueRow(row))
           /\ RowTyped(ExpiredRow(row))
           /\ \A queue \in Queues : RowTyped([row EXCEPT !.queue = queue])
<1>1. /\ row \in [queue : Queues, key : Keys \union {NoKey}, attempts : Nat,
                  limit : Nat, due : BOOLEAN, lock : Locks]
      /\ row.limit \in Limits /\ row.attempts <= row.limit
  BY DEF RowTyped, Entries
<1>2. ~Exhausted(row) => RowTyped(ClaimedRow(row))
  <2> SUFFICES ASSUME ~(row.attempts >= row.limit) PROVE RowTyped(ClaimedRow(row))
    BY DEF Exhausted
  <2>1. row.attempts + 1 \in Nat /\ row.attempts + 1 <= row.limit
    BY <1>1
  <2> DEFINE n == row.attempts + 1
  <2> HIDE DEF n
  <2>2. [[row EXCEPT !.lock = "live"] EXCEPT !.attempts = n] \in Entries
    BY <1>1, <2>1 DEF n, Entries, Locks
  <2>3. [[row EXCEPT !.lock = "live"] EXCEPT !.attempts = n].attempts <= [[row EXCEPT !.lock = "live"] EXCEPT !.attempts = n].limit
    BY <1>1, <2>1 DEF n
  <2> QED
    BY <1>1, <2>2, <2>3 DEF n, RowTyped, ClaimedRow
<1>3. \A due \in BOOLEAN : RowTyped(RenewedRow(row, due))
  <2> TAKE due \in BOOLEAN
  <2> DEFINE new == RenewedRow(row, due)
  <2>1. 0 \in Nat /\ 0 <= row.limit
    BY <1>1, QueueAssumption
  <2>2. new \in Entries
    BY <1>1, <2>1 DEF RenewedRow, Entries, Locks
  <2>3. new.attempts = 0 /\ new.limit = row.limit
    BY <1>1 DEF RenewedRow
  <2> QED
    BY <2>1, <2>2, <2>3 DEF RowTyped
<1>4. RowTyped(DeadLetteredRow(row))
  <2> DEFINE new == DeadLetteredRow(row)
  <2>1. row.limit \in Nat /\ row.limit <= row.limit
    BY <1>1
  <2>2. new \in Entries
    BY <1>1, <2>1 DEF DeadLetteredRow, Entries, Locks
  <2>3. new.attempts = row.limit /\ new.limit = row.limit
    BY <1>1 DEF DeadLetteredRow
  <2> QED
    BY <2>1, <2>2, <2>3 DEF RowTyped
<1>5. RowTyped(ReleasedRow(row))
  BY <1>1 DEF RowTyped, Entries, Locks, ReleasedRow
<1>6. RowTyped(ExtendedRow(row))
  BY <1>1 DEF RowTyped, Entries, Locks, ExtendedRow
<1>7. RowTyped(DueRow(row))
  BY <1>1 DEF RowTyped, Entries, Locks, DueRow
<1>8. RowTyped(ExpiredRow(row))
  BY <1>1 DEF RowTyped, Entries, Locks, ExpiredRow
<1>9. \A queue \in Queues : RowTyped([row EXCEPT !.queue = queue])
  BY <1>1 DEF RowTyped, Entries, Locks
<1> QED
  BY <1>2, <1>3, <1>4, <1>5, <1>6, <1>7, <1>8, <1>9

LEMMA NewEntry ==
    ASSUME NEW queue \in Queues, NEW key \in Keys \union {NoKey}, NEW limit \in Limits,
           NEW due \in BOOLEAN
    PROVE  RowTyped(Entry(queue, key, limit, due))
BY QueueAssumption DEF RowTyped, Entries, Entry, Locks

\* The fields that the invariants compare.
LEMMA RowFields ==
    ASSUME NEW row, RowTyped(row)
    PROVE  /\ ClaimedRow(row).lock = "live"
           /\ ClaimedRow(row).key = row.key /\ ClaimedRow(row).queue = row.queue
           /\ \A due \in BOOLEAN :
                       /\ RenewedRow(row, due).key = row.key
                       /\ RenewedRow(row, due).queue = row.queue
                       /\ RenewedRow(row, due).lock = "none"
           /\ /\ DeadLetteredRow(row).key = row.key
              /\ DeadLetteredRow(row).queue = row.queue
              /\ DeadLetteredRow(row).attempts = row.limit
              /\ DeadLetteredRow(row).limit = row.limit
              /\ DeadLetteredRow(row).lock = "none"
           /\ /\ ReleasedRow(row).key = row.key /\ ReleasedRow(row).queue = row.queue
              /\ ReleasedRow(row).attempts = row.attempts
              /\ ReleasedRow(row).limit = row.limit
              /\ ReleasedRow(row).lock = "none"
           /\ /\ ExtendedRow(row).key = row.key /\ ExtendedRow(row).queue = row.queue
              /\ ExtendedRow(row).lock = "live"
           /\ /\ DueRow(row).key = row.key /\ DueRow(row).queue = row.queue
              /\ DueRow(row).attempts = row.attempts /\ DueRow(row).limit = row.limit
              /\ DueRow(row).lock = row.lock
           /\ /\ ExpiredRow(row).key = row.key /\ ExpiredRow(row).queue = row.queue
           /\ \A queue : /\ [row EXCEPT !.queue = queue].key = row.key
                         /\ [row EXCEPT !.queue = queue].queue = queue
                         /\ [row EXCEPT !.queue = queue].attempts = row.attempts
                         /\ [row EXCEPT !.queue = queue].limit = row.limit
                         /\ [row EXCEPT !.queue = queue].lock = row.lock
<1>1. row \in [queue : Queues, key : Keys \union {NoKey}, attempts : Nat,
               limit : Nat, due : BOOLEAN, lock : Locks]
  BY DEF RowTyped, Entries
<1> QED
  BY <1>1 DEF ClaimedRow, RenewedRow, DeadLetteredRow, ReleasedRow, ExtendedRow,
     DueRow, ExpiredRow

-----------------------------------------------------------------------------
(* Typing. *)

Typed == Stored \subseteq JobIds /\ \A j \in Stored : RowTyped(jobs[j])

Types ==
    /\ Typed
    /\ claim \in [Claimants -> JobIds \union {NoJob}]
    /\ lease \in [Claimants -> BOOLEAN]
    /\ disturbed \subseteq JobIds

LEMMA TypeOKIs == TypeOK <=> Types
BY DEF TypeOK, Types, Typed, RowTyped

LEMMA PutType ==
    ASSUME Typed, NEW id \in JobIds, NEW row, RowTyped(row), Put(id, row)
    PROVE  Typed'
BY DEF Typed, Put, Stored, RowTyped, Entries

LEMMA DeleteType ==
    ASSUME Typed, NEW ids, Delete(ids)
    PROVE  Typed'
BY DEF Typed, Delete, Stored, RowTyped, Entries

LEMMA TypeInit == Init => TypeOK
BY QueueAssumption DEF Init, TypeOK, Stored

LEMMA TypeStep ==
    ASSUME Types, [Next]_vars
    PROVE  Types'
<1> USE DEF Types
<1>0. Types
  OBVIOUS
<1>fresh. Fresh \subseteq JobIds
  BY DEF Fresh
<1>rows. Stored \subseteq JobIds /\ \A j \in Stored : RowTyped(jobs[j])
  BY <1>0 DEF Typed
<1>1. CASE Enqueue
  <2> PICK id \in Fresh, queue \in Queues, limit \in Limits, due \in BOOLEAN :
        /\ Put(id, Entry(queue, NoKey, limit, due))
        /\ disturbed' = disturbed \ {id}
        /\ UNCHANGED <<claim, lease>>
    BY <1>1 DEF Enqueue
  <2>1. RowTyped(Entry(queue, NoKey, limit, due))
    BY NewEntry
  <2> QED
    BY <1>0, <1>fresh, <2>1, PutType
<1>2. CASE EnsureKeyed
  <2> PICK id \in Fresh, queue \in Queues, key \in Keys, limit \in Limits, due \in BOOLEAN :
        /\ Put(id, Entry(queue, key, limit, due))
        /\ disturbed' = disturbed \ {id}
        /\ UNCHANGED <<claim, lease>>
    BY <1>2 DEF EnsureKeyed
  <2>1. RowTyped(Entry(queue, key, limit, due))
    BY NewEntry
  <2> QED
    BY <1>0, <1>fresh, <2>1, PutType
<1>3. CASE RemoveKeyed
  BY <1>0, <1>3, DeleteType DEF RemoveKeyed
<1>4. CASE ReviveExhaustedKeyed
  <2>1. \A j \in Stored : RowTyped(RenewedRow(jobs[j], TRUE))
    BY <1>rows, RowSteps
  <2>2. /\ Stored' = Stored /\ disturbed' \subseteq disturbed \union Stored
        /\ \A j \in Stored : jobs'[j] = jobs[j] \/ jobs'[j] = RenewedRow(jobs[j], TRUE)
        /\ UNCHANGED <<claim, lease>>
    BY <1>4 DEF ReviveExhaustedKeyed, Stored
  <2> QED
    BY <1>0, <1>rows, <2>1, <2>2 DEF Typed, RowTyped, Entries
<1>5. CASE RequeueByPayloadTag
  <2>1. \A j \in Stored, q \in Queues : RowTyped([jobs[j] EXCEPT !.queue = q])
    BY <1>rows, RowSteps
  <2> PICK from \in Queues, to \in Queues : \E moved \in SUBSET Stored :
        /\ jobs' = [j \in Stored |-> IF j \in moved THEN [jobs[j] EXCEPT !.queue = to] ELSE jobs[j]]
        /\ UNCHANGED <<claim, lease, disturbed>>
    BY <1>5, \A q : {j \in Stored : jobs[j].queue = q} \subseteq Stored DEF RequeueByPayloadTag
  <2> PICK moved \in SUBSET Stored :
        /\ jobs' = [j \in Stored |-> IF j \in moved THEN [jobs[j] EXCEPT !.queue = to] ELSE jobs[j]]
        /\ UNCHANGED <<claim, lease, disturbed>>
    OBVIOUS
  <2>2. /\ Stored' = Stored
        /\ \A j \in Stored : jobs'[j] = jobs[j] \/ jobs'[j] = [jobs[j] EXCEPT !.queue = to]
    BY DEF Stored
  <2> QED
    BY <1>0, <1>rows, <2>1, <2>2 DEF Typed, RowTyped, Entries
<1>6. ASSUME NEW c \in Claimants, Claim(c) PROVE Types'
  <2> PICK id \in Stored : /\ Claimable(jobs[id])
                           /\ Put(id, ClaimedRow(jobs[id]))
                           /\ claim' = [claim EXCEPT ![c] = id]
                           /\ lease' = [lease EXCEPT ![c] = TRUE]
    BY <1>6 DEF Claim
  <2>1. RowTyped(ClaimedRow(jobs[id]))
    BY <1>rows, RowSteps DEF Claimable
  <2> QED
    BY <1>0, <1>rows, <1>6, <2>1, PutType DEF Claim
<1>7. ASSUME NEW c \in Claimants, Acknowledge(c) PROVE Types'
  <2>1. claim[c] \in JobIds
    BY <1>0, <1>7 DEF Acknowledge, Idle
  <2> QED
    BY <1>0, <1>7, <2>1, DeleteType DEF Acknowledge, Touch, Finish
<1>8. ASSUME NEW c \in Claimants, claim[c] \in Stored, NEW row, RowTyped(row), Report(c, row)
      PROVE  Types'
  BY <1>0, <1>rows, <1>8, PutType DEF Report, Touch, Finish
<1>9. ASSUME NEW c \in Claimants, Fail(c) PROVE Types'
  <2>1. claim[c] \in Stored /\ RowTyped(jobs[claim[c]])
    BY <1>9, <1>rows DEF Fail
  <2>2. RowTyped(DeadLetteredRow(jobs[claim[c]])) /\ RowTyped(ReleasedRow(jobs[claim[c]]))
    BY <2>1, RowSteps
  <2>3. CASE Finish(c) /\ UNCHANGED <<jobs, disturbed>>
    BY <1>0, <1>9, <2>3 DEF Finish, Typed, Stored, RowTyped, Entries
  <2> QED
    BY <1>8, <1>9, <2>1, <2>2, <2>3 DEF Fail
<1>10. ASSUME NEW c \in Claimants, Postpone(c) PROVE Types'
  <2>1. claim[c] \in Stored /\ RowTyped(jobs[claim[c]])
    BY <1>10, <1>rows DEF Postpone
  <2>2. \A due \in BOOLEAN : RowTyped(RenewedRow(jobs[claim[c]], due))
    BY <2>1, RowSteps
  <2> QED
    BY <1>8, <1>10, <2>1, <2>2 DEF Postpone
<1>11. ASSUME NEW c \in Claimants, Extend(c) PROVE Types'
  <2>1. claim[c] \in Stored /\ RowTyped(jobs[claim[c]])
    BY <1>11, <1>rows DEF Extend
  <2>2. RowTyped(ExtendedRow(jobs[claim[c]]))
    BY <2>1, RowSteps
  <2> QED
    BY <1>0, <1>rows, <1>11, <2>1, <2>2, PutType DEF Extend, Touch
<1>12. ASSUME NEW c \in Claimants, Forget(c) \/ LeaseExpires(c) PROVE Types'
  BY <1>0, <1>12 DEF Forget, LeaseExpires, Finish, Typed, Stored, RowTyped, Entries
<1>13. ASSUME NEW id \in Stored, BecomeDue(id) PROVE Types'
  <2>1. RowTyped(DueRow(jobs[id]))
    BY <1>rows, RowSteps
  <2> QED
    BY <1>0, <1>rows, <1>13, <2>1, PutType DEF BecomeDue
<1>14. ASSUME NEW id \in Stored, LockExpires(id) PROVE Types'
  <2>1. RowTyped(ExpiredRow(jobs[id]))
    BY <1>rows, RowSteps
  <2> QED
    BY <1>0, <1>rows, <1>14, <2>1, PutType DEF LockExpires
<1>15. CASE UNCHANGED vars
  BY <1>0, <1>15 DEF vars, Typed, Stored, RowTyped, Entries
<1> QED
  BY <1>1, <1>2, <1>3, <1>4, <1>5, <1>6, <1>7, <1>9, <1>10, <1>11, <1>12, <1>13, <1>14, <1>15
     DEF Next

\* Whatever claimants report and however late, the queue keeps its types, and no
\* row is delivered more often than its limit.
THEOREM QueueTypeCorrect == Spec => []TypeOK
<1>1. Init => Types
  BY TypeInit, TypeOKIs
<1>2. Types => TypeOK
  BY TypeOKIs
<1> QED
  BY <1>1, <1>2, TypeStep, PTL DEF Spec

-----------------------------------------------------------------------------
(* Dead letters. Who calls for a job whose lock is expired is late: LockExpires *)
(* ends the leases of all its claimants.                                       *)

LeasesEnd ==
    \A c \in Claimants : lease[c] /\ claim[c] \in Stored => jobs[claim[c]].lock # "expired"

\* A step that leases nobody, and after which a lock is expired only where it was.
LEMMA NobodyExpires ==
    ASSUME Types, LeasesEnd,
           \A c \in Claimants : lease'[c] => lease[c] /\ claim'[c] = claim[c],
           \A c \in Claimants : claim[c] \in Stored' =>
              /\ claim[c] \in Stored
              /\ jobs'[claim[c]].lock = "expired" => jobs[claim[c]].lock = "expired"
    PROVE  LeasesEnd'
BY DEF LeasesEnd

LEMMA LeasesEndStep ==
    ASSUME Types, LeasesEnd, [Next]_vars
    PROVE  LeasesEnd'
<1>rows. \A j \in Stored : j \in JobIds /\ RowTyped(jobs[j])
  BY DEF Types, Typed
<1>types. claim \in [Claimants -> JobIds \union {NoJob}] /\ lease \in [Claimants -> BOOLEAN]
  BY DEF Types
<1>1. CASE Enqueue \/ EnsureKeyed
  <2> PICK id \in Fresh : \E row : Put(id, row) /\ UNCHANGED <<claim, lease>>
    BY <1>1 DEF Enqueue, EnsureKeyed
  <2>1. /\ \A c \in Claimants : claim[c] # id
        /\ \A j \in Stored' : j # id => j \in Stored /\ jobs'[j] = jobs[j]
    BY DEF Fresh, Put, Stored
  <2> QED
    BY <2>1, NobodyExpires
<1>2. CASE RemoveKeyed
  <2>1. UNCHANGED <<claim, lease>> /\ \A j \in Stored' : j \in Stored /\ jobs'[j] = jobs[j]
    BY <1>2 DEF RemoveKeyed, Delete, Stored
  <2> QED
    BY <2>1, NobodyExpires
<1>3. CASE ReviveExhaustedKeyed
  <2>1. \A j \in Stored : RenewedRow(jobs[j], TRUE).lock = "none"
    BY <1>rows, RowFields
  <2>2. /\ UNCHANGED <<claim, lease>> /\ Stored' = Stored
        /\ \A j \in Stored : jobs'[j] = jobs[j] \/ jobs'[j] = RenewedRow(jobs[j], TRUE)
    BY <1>3 DEF ReviveExhaustedKeyed, Stored
  <2> QED
    BY <2>1, <2>2, NobodyExpires
<1>4. CASE RequeueByPayloadTag
  <2> PICK to : /\ UNCHANGED <<claim, lease>> /\ Stored' = Stored
                /\ \A j \in Stored : jobs'[j] = jobs[j]
                                     \/ jobs'[j] = [jobs[j] EXCEPT !.queue = to]
    BY <1>4 DEF RequeueByPayloadTag, Stored
  <2>1. \A j \in Stored : [jobs[j] EXCEPT !.queue = to].lock = jobs[j].lock
    BY <1>rows, RowFields
  <2> QED
    BY <2>1, NobodyExpires
<1>5. ASSUME NEW c \in Claimants, Claim(c) \/ Extend(c) PROVE LeasesEnd'
  <2> PICK id \in Stored : \E row :
        /\ row.lock = "live" /\ Put(id, row)
        /\ claim'[c] = id /\ lease'[c]
        /\ \A d \in Claimants : d # c => claim'[d] = claim[d] /\ lease'[d] = lease[d]
    BY <1>5, <1>rows, <1>types, RowFields DEF Claim, Extend
  <2>1. /\ Stored' = Stored /\ jobs'[id].lock = "live"
        /\ \A j \in Stored : j # id => jobs'[j] = jobs[j]
    BY DEF Put, Stored
  <2> QED
    BY <2>1 DEF LeasesEnd
<1>6. ASSUME NEW c \in Claimants, Acknowledge(c) PROVE LeasesEnd'
  <2>1. /\ \A d \in Claimants : lease'[d] => lease[d] /\ claim'[d] = claim[d]
        /\ \A j \in Stored' : j \in Stored /\ jobs'[j] = jobs[j]
    BY <1>6, <1>types DEF Acknowledge, Finish, Delete, Stored
  <2> QED
    BY <2>1, NobodyExpires
<1>7. ASSUME NEW c \in Claimants, claim[c] \in Stored, NEW row, row.lock = "none", Report(c, row)
      PROVE  LeasesEnd'
  <2>1. /\ \A d \in Claimants : lease'[d] => lease[d] /\ claim'[d] = claim[d]
        /\ Stored' = Stored
        /\ \A j \in Stored : jobs'[j] = jobs[j] \/ jobs'[j].lock = "none"
    BY <1>7, <1>types DEF Report, Finish, Put, Stored
  <2> QED
    BY <2>1, NobodyExpires
<1>8. ASSUME NEW c \in Claimants, Finish(c), UNCHANGED jobs PROVE LeasesEnd'
  BY <1>8, <1>types DEF Finish, LeasesEnd, Stored
<1>9. ASSUME NEW c \in Claimants, Fail(c) \/ Postpone(c) \/ Forget(c) PROVE LeasesEnd'
  <2>1. ASSUME claim[c] \in Stored
        PROVE  /\ DeadLetteredRow(jobs[claim[c]]).lock = "none"
               /\ ReleasedRow(jobs[claim[c]]).lock = "none"
               /\ \A due \in BOOLEAN : RenewedRow(jobs[claim[c]], due).lock = "none"
    BY <2>1, <1>rows, RowFields
  <2> QED
    BY <1>7, <1>8, <1>9, <2>1 DEF Fail, Postpone, Forget
<1>10. ASSUME NEW c \in Claimants, LeaseExpires(c) PROVE LeasesEnd'
  BY <1>10, <1>types DEF LeaseExpires, LeasesEnd, Stored
<1>11. ASSUME NEW id \in Stored, BecomeDue(id) PROVE LeasesEnd'
  <2>1. DueRow(jobs[id]).lock = jobs[id].lock
    BY <1>rows, RowFields
  <2>2. /\ UNCHANGED <<claim, lease>> /\ Stored' = Stored
        /\ \A j \in Stored : jobs'[j] = jobs[j] \/ (j = id /\ jobs'[j] = DueRow(jobs[id]))
    BY <1>11 DEF BecomeDue, Put, Stored
  <2> QED
    BY <2>1, <2>2, NobodyExpires
<1>12. ASSUME NEW id \in Stored, LockExpires(id) PROVE LeasesEnd'
  <2>1. /\ UNCHANGED claim /\ Stored' = Stored
        /\ \A d \in Claimants : lease'[d] => lease[d] /\ claim[d] # id
        /\ \A j \in Stored : j # id => jobs'[j] = jobs[j]
    BY <1>12 DEF LockExpires, Put, Stored
  <2> QED
    BY <2>1 DEF LeasesEnd
<1>13. CASE UNCHANGED vars
  BY <1>13 DEF vars, LeasesEnd, Stored
<1> QED
  BY <1>1, <1>2, <1>3, <1>4, <1>5, <1>6, <1>9, <1>10, <1>11, <1>12, <1>13 DEF Next

\* A late claimant of j, whose call finds an expired lock, is at work.
LateCall(j) ==
    /\ jobs[j].lock = "expired"
    /\ \E c \in Claimants : claim[c] = j /\ ~lease[c] /\ (Postpone(c) \/ Extend(c))

LEMMA DeadStay ==
    ASSUME Types, LeasesEnd, Next, NEW j \in Stored, j \in Stored', DeadLettered(jobs[j]),
           ~ReviveExhaustedKeyed, ~LateCall(j)
    PROVE  DeadLettered(jobs'[j])
<1>rows. \A i \in Stored : RowTyped(jobs[i])
  BY DEF Types, Typed
<1>dead. /\ Exhausted(jobs[j]) /\ jobs[j].lock # "live"
         /\ jobs[j].attempts \in Nat /\ jobs[j].limit \in Nat
         /\ jobs[j].lock \in {"none", "expired"}
  BY <1>rows DEF DeadLettered, RowTyped, Entries, Locks
<1>other. ASSUME NEW id, NEW row, Put(id, row), id # j PROVE jobs'[j] = jobs[j]
  BY <1>other DEF Put, Stored
<1>same. ASSUME NEW row, Put(j, row) PROVE jobs'[j] = row
  BY <1>same DEF Put, Stored
<1>1. CASE Enqueue \/ EnsureKeyed
  BY <1>1, <1>other DEF Enqueue, EnsureKeyed, Fresh
<1>2. CASE RemoveKeyed
  BY <1>2 DEF RemoveKeyed, Delete, Stored
<1>3. CASE RequeueByPayloadTag
  <2> PICK to \in Queues : jobs'[j] = jobs[j] \/ jobs'[j] = [jobs[j] EXCEPT !.queue = to]
    BY <1>3 DEF RequeueByPayloadTag
  <2>1. RowTyped(jobs[j])
    BY <1>rows
  <2> DEFINE moved == [jobs[j] EXCEPT !.queue = to]
  <2>2. /\ moved.attempts = jobs[j].attempts /\ moved.limit = jobs[j].limit
        /\ moved.lock = jobs[j].lock
    BY <2>1, RowFields
  <2> HIDE DEF moved
  <2>3. DeadLettered(moved)
    BY <1>dead, <2>2 DEF DeadLettered, Exhausted
  <2> QED
    BY <1>dead, <2>3 DEF moved, DeadLettered
<1>4. ASSUME NEW c \in Claimants, Claim(c) PROVE DeadLettered(jobs'[j])
  <2> PICK id \in Stored : Claimable(jobs[id]) /\ Put(id, ClaimedRow(jobs[id]))
    BY <1>4 DEF Claim
  <2> QED
    BY <1>dead, <1>other DEF Claimable
<1>5. ASSUME NEW c \in Claimants, Acknowledge(c) PROVE DeadLettered(jobs'[j])
  BY <1>5 DEF Acknowledge, Delete, Stored
<1>6. ASSUME NEW c \in Claimants, Fail(c) PROVE DeadLettered(jobs'[j])
  <2>1. /\ DeadLettered(DeadLetteredRow(jobs[j]))
        /\ DeadLettered(ReleasedRow(jobs[j]))
    BY <1>rows, <1>dead, RowFields DEF DeadLettered, Exhausted
  <2>2. CASE claim[c] = j
    BY <1>6, <1>same, <2>1, <2>2 DEF Fail, Report
  <2>3. CASE claim[c] # j
    BY <1>6, <1>other, <2>3 DEF Fail, Report
  <2> QED
    BY <2>2, <2>3
<1>7. ASSUME NEW c \in Claimants, Postpone(c) \/ Extend(c) PROVE DeadLettered(jobs'[j])
  <2>1. CASE claim[c] # j
    BY <1>7, <1>other, <2>1 DEF Postpone, Extend, Report
  <2>2. CASE claim[c] = j
    <3>1. Locked(jobs[j])
      BY <1>7, <2>2 DEF Postpone, Extend
    <3>2. jobs[j].lock = "expired"
      BY <1>dead, <3>1 DEF Locked
    <3>3. ~lease[c]
      BY <2>2, <3>2 DEF LeasesEnd
    <3> QED
      BY <1>7, <2>2, <3>2, <3>3 DEF LateCall
  <2> QED
    BY <2>1, <2>2
<1>8. ASSUME NEW c \in Claimants, Forget(c) \/ LeaseExpires(c) PROVE DeadLettered(jobs'[j])
  BY <1>8 DEF Forget, LeaseExpires
<1>9. ASSUME NEW id \in Stored, BecomeDue(id) PROVE DeadLettered(jobs'[j])
  <2>1. DeadLettered(DueRow(jobs[j]))
    BY <1>rows, <1>dead, RowFields DEF DeadLettered, Exhausted
  <2> QED
    BY <1>9, <1>other, <1>same, <2>1 DEF BecomeDue
<1>10. ASSUME NEW id \in Stored, LockExpires(id) PROVE DeadLettered(jobs'[j])
  BY <1>10, <1>dead, <1>other DEF LockExpires
<1> QED
  BY <1>1, <1>2, <1>3, <1>4, <1>5, <1>6, <1>7, <1>8, <1>9, <1>10 DEF Next

\* What the queue counts as a dead letter, released or with its lock expired, is
\* brought back by the revival of keyed entries, or while its lock is expired by
\* one of its own claimants that calls after its lease; by nothing else.
THEOREM DeadLettersAreFinal == Spec => DeadLettersStayDead
<1>1. Init => Types /\ LeasesEnd
  BY TypeInit, TypeOKIs DEF Init, LeasesEnd
<1>2. ASSUME Types, LeasesEnd, [Next]_vars,
             NEW j \in Stored \intersect DOMAIN jobs', DeadLettered(jobs[j]),
             ~DeadLettered(jobs'[j])
      PROVE  ReviveExhaustedKeyed \/ LateCall(j)
  <2>1. CASE Next
    BY <1>2, <2>1, DeadStay DEF Stored
  <2>2. CASE UNCHANGED vars
    BY <1>2, <2>2 DEF vars
  <2> QED
    BY <1>2, <2>1, <2>2
<1>3. Types /\ LeasesEnd /\ [Next]_vars =>
        [\A j \in Stored \intersect DOMAIN jobs' :
            DeadLettered(jobs[j]) /\ ~DeadLettered(jobs'[j]) =>
               \/ ReviveExhaustedKeyed
               \/ /\ jobs[j].lock = "expired"
                  /\ \E c \in Claimants : /\ claim[c] = j /\ ~lease[c]
                                          /\ Postpone(c) \/ Extend(c)]_vars
  BY <1>2 DEF LateCall
<1>4. Types /\ LeasesEnd /\ [Next]_vars => (Types /\ LeasesEnd)'
  BY TypeStep, LeasesEndStep
<1> QED
  BY <1>1, <1>3, <1>4, PTL DEF Spec, DeadLettersStayDead

-----------------------------------------------------------------------------
(* Leases. That two claimants never hold a lease on one job is not inductive *)
(* alone: a claim finds the lock of an undisturbed lease live.               *)

Sound(c) == lease[c] => claim[c] # NoJob

\* An undisturbed lease shows in the row's lock as long as the row exists.
LeaseShows(c) ==
    lease[c] /\ claim[c] \notin disturbed /\ claim[c] \in Stored
        => jobs[claim[c]].lock = "live"

Leases == LeaseIsExclusive /\ \A c \in Claimants : Sound(c) /\ LeaseShows(c)

\* A claimant acts on the job id it holds or once held; the row becomes row.
LEMMA ReportKeepsLeases ==
    ASSUME Types, Leases, NEW c \in Claimants, ~Idle(c), Touch(c, claim[c]), Finish(c),
           Stored' \subseteq Stored,
           \A j \in Stored' : j # claim[c] => jobs'[j] = jobs[j]
    PROVE  Leases'
<1>1. /\ claim' = [claim EXCEPT ![c] = NoJob] /\ lease' = [lease EXCEPT ![c] = FALSE]
      /\ claim \in [Claimants -> JobIds \union {NoJob}] /\ lease \in [Claimants -> BOOLEAN]
      /\ disturbed \subseteq disturbed'
  BY DEF Types, Finish, Touch
<1>2. \A d \in Claimants : lease'[d] => d # c /\ lease[d] /\ claim'[d] = claim[d]
  BY <1>1
<1>3. LeaseIsExclusive'
  BY <1>1, <1>2 DEF Leases, LeaseIsExclusive
<1>4. ASSUME NEW d \in Claimants PROVE Sound(d)'
  BY <1>2 DEF Leases, Sound
<1>5. ASSUME NEW d \in Claimants, lease'[d], claim'[d] \notin disturbed', claim'[d] \in Stored'
      PROVE  jobs'[claim'[d]].lock = "live"
  <2>1. claim[d] # claim[c]
    <3> SUFFICES ASSUME claim[d] = claim[c] PROVE FALSE
      OBVIOUS
    <3>1. lease[c]
      BY <1>2, <1>5 DEF Touch
    <3>2. claim[d] \in disturbed
      BY <1>2, <1>5, <3>1 DEF Leases, LeaseIsExclusive
    <3> QED
      BY <1>1, <1>2, <1>5, <3>2
  <2> QED
    BY <1>1, <1>2, <1>5, <2>1 DEF Leases, LeaseShows
<1> QED
  BY <1>3, <1>4, <1>5 DEF Leases, LeaseShows

\* A step that leaves claims and leases alone and the locks of undisturbed jobs.
LEMMA QuietStep ==
    ASSUME Leases, UNCHANGED <<claim, lease>>,
           \A d \in Claimants : claim[d] # NoJob => (claim[d] \in disturbed => claim[d] \in disturbed'),
           \A d \in Claimants : claim[d] \in Stored' /\ claim[d] \notin disturbed' =>
              claim[d] \in Stored /\ jobs'[claim[d]].lock = jobs[claim[d]].lock
    PROVE  Leases'
<1>1. LeaseIsExclusive'
  BY DEF Leases, LeaseIsExclusive, Sound
<1>2. ASSUME NEW d \in Claimants PROVE Sound(d)' /\ LeaseShows(d)'
  BY DEF Leases, Sound, LeaseShows
<1> QED
  BY <1>1, <1>2 DEF Leases

LEMMA LeaseStep ==
    ASSUME Types, Leases, [Next]_vars
    PROVE  Leases'
<1>rows. \A j \in Stored : j \in JobIds /\ RowTyped(jobs[j])
  BY DEF Types, Typed
<1>types. /\ claim \in [Claimants -> JobIds \union {NoJob}]
          /\ lease \in [Claimants -> BOOLEAN]
          /\ NoJob \notin JobIds
  BY QueueAssumption DEF Types
<1>1. CASE Enqueue \/ EnsureKeyed
  <2> PICK id \in Fresh : \E row : /\ Put(id, row)
                                   /\ disturbed' = disturbed \ {id}
                                   /\ UNCHANGED <<claim, lease>>
    BY <1>1 DEF Enqueue, EnsureKeyed
  <2>1. /\ id \notin Stored /\ \A d \in Claimants : claim[d] # id
        /\ \A j \in Stored' : j # id => j \in Stored /\ jobs'[j] = jobs[j]
    BY DEF Fresh, Put, Stored
  <2> QED
    BY <2>1, QuietStep
<1>2. CASE RemoveKeyed
  <2>1. /\ UNCHANGED <<claim, lease, disturbed>>
        /\ \A j \in Stored' : j \in Stored /\ jobs'[j] = jobs[j]
    BY <1>2 DEF RemoveKeyed, Delete, Stored
  <2> QED
    BY <2>1, QuietStep
<1>3. CASE ReviveExhaustedKeyed
  <2>1. /\ UNCHANGED <<claim, lease>> /\ Stored' = Stored /\ disturbed \subseteq disturbed'
        /\ \A j \in Stored : j \in disturbed' \/ jobs'[j] = jobs[j]
    BY <1>3 DEF ReviveExhaustedKeyed, Stored
  <2> QED
    BY <2>1, QuietStep
<1>4. CASE RequeueByPayloadTag
  <2>1. \A j \in Stored : \A q : [jobs[j] EXCEPT !.queue = q].lock = jobs[j].lock
    BY <1>rows, RowFields
  <2>2. /\ UNCHANGED <<claim, lease, disturbed>> /\ Stored' = Stored
        /\ \A j \in Stored : jobs'[j] = jobs[j]
                             \/ \E q : jobs'[j] = [jobs[j] EXCEPT !.queue = q]
    BY <1>4 DEF RequeueByPayloadTag, Stored
  <2>3. ASSUME NEW j \in Stored PROVE jobs'[j].lock = jobs[j].lock
    <3>1. CASE jobs'[j] = jobs[j]
      BY <3>1
    <3>2. ASSUME NEW q, jobs'[j] = [jobs[j] EXCEPT !.queue = q]
          PROVE  jobs'[j].lock = jobs[j].lock
      BY <2>1, <3>2
    <3> QED
      BY <2>2, <3>1, <3>2
  <2> QED
    BY <2>2, <2>3, QuietStep
<1>5. ASSUME NEW c \in Claimants, Claim(c) PROVE Leases'
  <2> PICK id \in Stored : /\ Claimable(jobs[id])
                           /\ Put(id, ClaimedRow(jobs[id]))
                           /\ claim' = [claim EXCEPT ![c] = id]
                           /\ lease' = [lease EXCEPT ![c] = TRUE]
    BY <1>5 DEF Claim
  <2>1. /\ Stored' = Stored /\ disturbed' = disturbed
        /\ \A j \in Stored : j # id => jobs'[j] = jobs[j]
        /\ jobs'[id] = ClaimedRow(jobs[id])
    BY <1>5 DEF Claim, Put, Stored
  <2>2. jobs'[id].lock = "live" /\ jobs[id].lock # "live" /\ id # NoJob
    BY <1>rows, <1>types, <2>1, RowFields DEF Claimable
  <2>3. \A d \in Claimants : lease[d] /\ claim[d] = id => id \in disturbed
    BY <2>2 DEF Leases, LeaseShows
  <2>4. \A d \in Claimants : d # c => claim'[d] = claim[d] /\ lease'[d] = lease[d]
    BY <1>types
  <2>5. claim'[c] = id /\ lease'[c]
    BY <1>types
  <2>6. LeaseIsExclusive'
    BY <2>1, <2>3, <2>4, <2>5 DEF Leases, LeaseIsExclusive
  <2>7. ASSUME NEW d \in Claimants PROVE Sound(d)' /\ LeaseShows(d)'
    <3>1. CASE d = c
      BY <2>2, <2>5, <3>1 DEF Sound, LeaseShows
    <3>2. CASE d # c
      BY <2>1, <2>2, <2>4, <3>2 DEF Leases, Sound, LeaseShows
    <3> QED
      BY <3>1, <3>2
  <2> QED
    BY <2>6, <2>7 DEF Leases
<1>6. ASSUME NEW c \in Claimants, Acknowledge(c) PROVE Leases'
  BY <1>6, ReportKeepsLeases DEF Acknowledge, Delete, Stored
<1>7. ASSUME NEW c \in Claimants, claim[c] \in Stored, NEW row, Report(c, row) PROVE Leases'
  <2>1. ~Idle(c)
    BY <1>7, <1>rows, <1>types DEF Idle
  <2>2. Stored' \subseteq Stored /\ \A j \in Stored' : j # claim[c] => jobs'[j] = jobs[j]
    BY <1>7 DEF Report, Put, Stored
  <2> QED
    BY <1>7, <2>1, <2>2, ReportKeepsLeases DEF Report
<1>8. ASSUME NEW c \in Claimants, Finish(c), UNCHANGED <<jobs, disturbed>> PROVE Leases'
  BY <1>8, <1>types DEF Finish, Leases, LeaseIsExclusive, Sound, LeaseShows, Stored
<1>9. ASSUME NEW c \in Claimants, Fail(c) \/ Postpone(c) \/ Forget(c) PROVE Leases'
  BY <1>7, <1>8, <1>9 DEF Fail, Postpone, Forget
<1>10. ASSUME NEW c \in Claimants, Extend(c) PROVE Leases'
  <2> DEFINE id == claim[c]
  <2>1. /\ id \in Stored /\ Stored' = Stored /\ claim' = claim
        /\ lease' = [lease EXCEPT ![c] = TRUE]
        /\ \A j \in Stored : j # id => jobs'[j] = jobs[j]
        /\ jobs'[id] = ExtendedRow(jobs[id])
    BY <1>10 DEF Extend, Put, Stored
  <2>2. jobs'[id].lock = "live" /\ id # NoJob
    BY <1>rows, <1>types, <2>1, RowFields
  <2>3. disturbed \subseteq disturbed' /\ (lease[c] \/ id \in disturbed')
    BY <1>10 DEF Extend, Touch
  <2>4. \A d \in Claimants : d # c => lease'[d] = lease[d]
    BY <1>types, <2>1
  <2>5. LeaseIsExclusive'
    BY <2>1, <2>3, <2>4 DEF Leases, LeaseIsExclusive
  <2>6. ASSUME NEW d \in Claimants PROVE Sound(d)' /\ LeaseShows(d)'
    BY <2>1, <2>2, <2>3, <2>4 DEF Leases, Sound, LeaseShows
  <2> QED
    BY <2>5, <2>6 DEF Leases
<1>11. ASSUME NEW c \in Claimants, LeaseExpires(c) PROVE Leases'
  BY <1>11, <1>types DEF LeaseExpires, Leases, LeaseIsExclusive, Sound, LeaseShows, Stored
<1>12. ASSUME NEW id \in Stored, BecomeDue(id) PROVE Leases'
  <2>1. DueRow(jobs[id]).lock = jobs[id].lock
    BY <1>rows, RowFields
  <2>2. /\ UNCHANGED <<claim, lease, disturbed>> /\ Stored' = Stored
        /\ \A j \in Stored : jobs'[j] = jobs[j] \/ (j = id /\ jobs'[j] = DueRow(jobs[id]))
    BY <1>12 DEF BecomeDue, Put, Stored
  <2> QED
    BY <2>1, <2>2, QuietStep
<1>13. ASSUME NEW id \in Stored, LockExpires(id) PROVE Leases'
  <2>1. /\ UNCHANGED <<claim, disturbed>> /\ Stored' = Stored
        /\ \A d \in Claimants : lease'[d] => lease[d] /\ claim[d] # id
        /\ \A j \in Stored : j # id => jobs'[j] = jobs[j]
    BY <1>13 DEF LockExpires, Put, Stored
  <2> QED
    BY <2>1 DEF Leases, LeaseIsExclusive, Sound, LeaseShows
<1>14. CASE UNCHANGED vars
  BY <1>14 DEF vars, Leases, LeaseIsExclusive, Sound, LeaseShows, Stored
<1> QED
  BY <1>1, <1>2, <1>3, <1>4, <1>5, <1>6, <1>9, <1>10, <1>11, <1>12, <1>13, <1>14 DEF Next

\* As long as nobody acts on a job without a lease of his own, who has a lease on
\* it has it to himself, whoever dies and however time passes.
THEOREM LeasesExclude == Spec => []LeaseIsExclusive
<1>1. Init => Types /\ Leases
  BY TypeInit, TypeOKIs DEF Init, Leases, LeaseIsExclusive, Sound, LeaseShows
<1>2. Types /\ Leases /\ [Next]_vars => (Types /\ Leases)'
  BY TypeStep, LeaseStep
<1>3. Leases => LeaseIsExclusive
  BY DEF Leases
<1> QED
  BY <1>1, <1>2, <1>3, PTL DEF Spec
=============================================================================
