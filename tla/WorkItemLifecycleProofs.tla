----------------------- MODULE WorkItemLifecycleProofs -----------------------
(***************************************************************************)
(* Proofs about Work Items and their Worker Slots, for any number of Work  *)
(* Items, steps, limits and admission passes and whatever calls and faults *)
(* occur: types, the reasons for which a slot is held, that every step of  *)
(* the lifecycle is a step of WorkerSlots or leaves it alone, that nobody  *)
(* reports on an interrupted step, and that free slots are offered.        *)
(***************************************************************************)
EXTENDS WorkItemLifecycle, FiniteSetTheorems, TLAPS

-----------------------------------------------------------------------------
(* The inductive invariant: the rows and the line, what fibers keep in      *)
(* memory, and how the two are related.                                     *)

Sound(w) ==
    /\ w \in WorkItems
    /\ Active(w) => w.job # NoJob
    /\ w.holds => Active(w) \/ w.state = "needs_human"

\* Only Work Items that exist wait, and none of them holds a slot.
Waits(w) == w.state # "absent" /\ ~w.holds

RowsSound ==
    /\ item \in [Items -> WorkItems]
    /\ \A i \in Items : Sound(item[i])
    /\ line \in Lines(Items)
    /\ \A i \in line.in : Waits(item[i])

\* Whatever is being cancelled is awaited by an interrupt among cs.
Awaited(cs) ==
    \A i \in Items : handler[i] = "cancelling" \/ late[i] = "cancelling" =>
        \E c \in cs : c.kind = "interrupt" /\ c.item = i

FibersSound ==
    /\ handler \in [Items -> {"none", "delivered", "running", "cancelling"}]
    /\ late \in [Items -> {"none", "running", "cancelling"}]
    /\ calls \subseteq Calls
    /\ Awaited(calls)

PassesSound ==
    /\ pass \in [Passes -> PassStates]
    /\ \A p \in Passes : pass[p].phase \in {"wake", "ack"} => pass[p].wake \in Items

\* Whoever is called for or listed exists, and a step at work is running until
\* its job is gone.
Exists(i) == item[i].state # "absent"

Known(cs) == \A c \in cs : Exists(c.item)

Listeds == \A p \in Passes : \A e \in pass[p].todo : Exists(e.item)

AtWork == \A i \in Items : HoldsJob(i) => item[i].status = "running"

IInv ==
    /\ limit \in Limits /\ owed \in BOOLEAN
    /\ RowsSound /\ FibersSound /\ PassesSound
    /\ Known(calls) /\ Listeds /\ AtWork

-----------------------------------------------------------------------------
(* What the operators on rows return. *)

LEMMA RowOperators ==
    /\ \A due \in BOOLEAN : NewRow(2, due) \in Rows
    /\ \A row \in Rows : /\ ClaimedRow(row) \in Rows
                         /\ DeadLetteredRow(row) \in Rows
                         /\ ExpiredRow(row) \in Rows
                         /\ DueRow(row) \in Rows
<1>1. \A due \in BOOLEAN : NewRow(2, due) \in Rows
  BY DEF NewRow, Rows, Locks
<1>2. ASSUME NEW row \in Rows
      PROVE  /\ ClaimedRow(row) \in Rows /\ DeadLetteredRow(row) \in Rows
             /\ ExpiredRow(row) \in Rows /\ DueRow(row) \in Rows
  <2>1. ClaimedRow(row) \in Rows
    <3>1. row.attempts \in Nat /\ row.attempts + 1 \in Nat
      BY DEF Rows
    <3> QED
      BY <3>1 DEF ClaimedRow, Rows, Locks
  <2>2. DeadLetteredRow(row) \in Rows
    BY DEF DeadLetteredRow, Rows, Locks
  <2>3. ExpiredRow(row) \in Rows
    BY DEF ExpiredRow, Rows, Locks
  <2>4. DueRow(row) \in Rows
    BY DEF DueRow, Rows, Locks
  <2> QED
    BY <2>1, <2>2, <2>3, <2>4
<1> QED
  BY <1>1, <1>2

\* One field at a time.
LEMMA Fields ==
    ASSUME NEW w \in WorkItems
    PROVE  /\ \A b \in BOOLEAN :
                 /\ [w EXCEPT !.holds = b] \in WorkItems
                 /\ [w EXCEPT !.holds = b].holds = b
                 /\ [w EXCEPT !.holds = b].state = w.state
                 /\ [w EXCEPT !.holds = b].status = w.status
                 /\ [w EXCEPT !.holds = b].job = w.job
           /\ \A b \in BOOLEAN :
                 /\ [w EXCEPT !.paused = b] \in WorkItems
                 /\ [w EXCEPT !.paused = b].holds = w.holds
                 /\ [w EXCEPT !.paused = b].state = w.state
                 /\ [w EXCEPT !.paused = b].status = w.status
                 /\ [w EXCEPT !.paused = b].job = w.job
           /\ \A s \in Steps \union Settled :
                 /\ [w EXCEPT !.state = s] \in WorkItems
                 /\ [w EXCEPT !.state = s].holds = w.holds
                 /\ [w EXCEPT !.state = s].state = s
                 /\ [w EXCEPT !.state = s].status = w.status
                 /\ [w EXCEPT !.state = s].job = w.job
           /\ \A s \in Statuses :
                 /\ [w EXCEPT !.status = s] \in WorkItems
                 /\ [w EXCEPT !.status = s].holds = w.holds
                 /\ [w EXCEPT !.status = s].state = w.state
                 /\ [w EXCEPT !.status = s].status = s
                 /\ [w EXCEPT !.status = s].job = w.job
           /\ \A j \in Rows \union {NoJob} :
                 /\ [w EXCEPT !.job = j] \in WorkItems
                 /\ [w EXCEPT !.job = j].holds = w.holds
                 /\ [w EXCEPT !.job = j].state = w.state
                 /\ [w EXCEPT !.job = j].status = w.status
                 /\ [w EXCEPT !.job = j].job = j
BY DEF WorkItems

LEMMA EnqueuedRow ==
    ASSUME NEW w \in WorkItems, NEW step \in Steps
    PROVE  /\ Enqueued(w, step) \in WorkItems
           /\ Enqueued(w, step).holds = w.holds /\ Enqueued(w, step).state = w.state
           /\ Enqueued(w, step).status = "queued" /\ Enqueued(w, step).job # NoJob
<1>1. NewRow(2, TRUE) \in Rows
  BY RowOperators
<1> DEFINE row == NewRow(2, TRUE)
<1> HIDE DEF row
<1>2. row \in Rows /\ row # NoJob
  BY <1>1, LifecycleAssumption DEF row
<1> DEFINE new == [w EXCEPT !.step = step, !.status = "queued", !.due = FALSE, !.job = row]
<1>3. new \in WorkItems
  BY <1>2 DEF WorkItems, Statuses
<1>4. new.holds = w.holds /\ new.state = w.state /\ new.status = "queued" /\ new.job = row
  BY DEF WorkItems
<1> QED
  BY <1>2, <1>3, <1>4 DEF Enqueued, row

LEMMA FinishedRow ==
    ASSUME NEW w \in WorkItems, NEW status \in Statuses
    PROVE  /\ Finished(w, status) \in WorkItems
           /\ Finished(w, status).holds = w.holds /\ Finished(w, status).state = w.state
           /\ Finished(w, status).job = w.job
           /\ Finished(w, status).status = IF w.status = "running" THEN status ELSE w.status
BY Fields DEF Finished

LEMMA AcknowledgedRow ==
    ASSUME NEW w \in WorkItems
    PROVE  /\ Acknowledged(w) \in WorkItems
           /\ Acknowledged(w).holds = w.holds /\ Acknowledged(w).state = w.state
           /\ Acknowledged(w).status = w.status /\ Acknowledged(w).job = NoJob
BY Fields DEF Acknowledged

LEMMA CancelledRow ==
    ASSUME NEW w \in WorkItems
    PROVE  /\ Cancelled(w) \in WorkItems
           /\ Cancelled(w).holds = w.holds /\ Cancelled(w).state = w.state
           /\ Cancelled(w).status # "queued"
           /\ Cancelled(w) = w \/ Cancelled(w).job = NoJob
           /\ w.status # "queued" => Cancelled(w) = w
           /\ Cancelled(w).status = "running" <=> w.status = "running"
<1>1. CASE w.status # "queued"
  BY <1>1 DEF Cancelled
<1>2. CASE w.status = "queued"
  <2> DEFINE new == [w EXCEPT !.status = "cancelled", !.job = NoJob]
  <2>1. new \in WorkItems
    BY DEF WorkItems, Statuses
  <2>2. /\ new.holds = w.holds /\ new.state = w.state /\ new.status = "cancelled"
        /\ new.job = NoJob
    BY DEF WorkItems
  <2> QED
    BY <1>2, <2>1, <2>2 DEF Cancelled
<1> QED
  BY <1>1, <1>2

LEMMA SucceededRow ==
    ASSUME NEW w \in WorkItems
    PROVE  /\ Succeeded(w) \in WorkItems
           /\ Succeeded(w).holds = w.holds /\ Succeeded(w).state = w.state
           /\ Succeeded(w).status # "running"
<1>1. "succeeded" \in Statuses
  BY DEF Statuses
<1> QED
  BY <1>1, FinishedRow, AcknowledgedRow DEF Succeeded

-----------------------------------------------------------------------------
(* The line. *)

LEMMA LineOperators ==
    ASSUME NEW S, NEW l \in Lines(S)
    PROVE  /\ \A T : /\ Without(l, T) \in Lines(S)
                     /\ Without(l, T).in = l.in \ T
                     /\ l.in \intersect T = {} => Without(l, T) = l
           /\ \A i \in S \ l.in : /\ Joined(l, i) \in Lines(S)
                                  /\ Joined(l, i).in = l.in \union {i}
<1>1. /\ l = [in |-> l.in, before |-> l.before]
      /\ l.in \subseteq S /\ l.before \subseteq l.in \X l.in
      /\ l.before \subseteq S \X S
      /\ \A i, j \in l.in : <<i, j>> \in l.before => <<j, i>> \notin l.before
  BY DEF Lines
<1>2. ASSUME NEW T
      PROVE  /\ Without(l, T) \in Lines(S) /\ Without(l, T).in = l.in \ T
             /\ l.in \intersect T = {} => Without(l, T) = l
  <2> DEFINE b == {p \in l.before : p[1] \notin T /\ p[2] \notin T}
  <2>1. Without(l, T) = [in |-> l.in \ T, before |-> b]
    BY DEF Without
  <2>2. b \subseteq (l.in \ T) \X (l.in \ T) /\ b \subseteq l.before
    BY <1>1
  <2>3. l.in \intersect T = {} => b = l.before /\ l.in \ T = l.in
    BY <1>1
  <2> HIDE DEF b
  <2>4. Without(l, T) \in Lines(S)
    BY <1>1, <2>1, <2>2 DEF Lines
  <2>5. l.in \intersect T = {} => Without(l, T) = l
    BY <1>1, <2>1, <2>3
  <2> QED
    BY <2>1, <2>4, <2>5
<1>3. ASSUME NEW i \in S \ l.in
      PROVE  Joined(l, i) \in Lines(S) /\ Joined(l, i).in = l.in \union {i}
  <2> DEFINE b == l.before \union (l.in \X {i})
  <2>1. Joined(l, i) = [in |-> l.in \union {i}, before |-> b]
    BY DEF Joined
  <2>2. /\ b \subseteq (l.in \union {i}) \X (l.in \union {i})
        /\ \A j, k \in l.in \union {i} : <<j, k>> \in b => <<k, j>> \notin b
    BY <1>1
  <2> HIDE DEF b
  <2> QED
    BY <1>1, <2>1, <2>2 DEF Lines
<1> QED
  BY <1>2, <1>3

-----------------------------------------------------------------------------
(* The ways in which a transaction changes one row and the line, and the    *)
(* step of WorkerSlots each of them is.                                     *)

Holders == {i \in Items : item[i].holds}

SlotStep == [Slots!Next]_(Slots!vars)

\* No Work Item ceases to exist.
Remain == \A i \in Items : Exists(i) => item'[i].state # "absent"

\* Nobody comes to have an active step without a slot, but by the stop of an older
\* run.
SlotsKept ==
    \A i \in Items :
        (Active(item[i]) => item[i].holds) /\ Active(item'[i]) /\ ~item'[i].holds
        => StopsAnOlderRun(i)

RowStep == RowsSound' /\ SlotStep /\ Remain /\ SlotsKept

\* The row w may replace one of a Work Item.
Fits(w) == w \in WorkItems /\ (Active(w) => w.job # NoJob)

LEMMA OneRow ==
    ASSUME RowsSound, NEW i \in Items, NEW w \in WorkItems, item' = [item EXCEPT ![i] = w]
    PROVE  /\ item' \in [Items -> WorkItems]
           /\ item'[i] = w
           /\ \A j \in Items : j # i => item'[j] = item[j]
           /\ w.holds => Holders' = Holders \union {i}
           /\ ~w.holds => Holders' = Holders \ {i}
<1>1. item \in [Items -> WorkItems]
  BY DEF RowsSound
<1>2. /\ item' \in [Items -> WorkItems] /\ item'[i] = w
      /\ \A j \in Items : j # i => item'[j] = item[j]
  BY <1>1
<1>3. Holders' = {j \in Items : item'[j].holds}
  BY DEF Holders
<1> QED
  BY <1>2, <1>3 DEF Holders

LEMMA SoundRow ==
    ASSUME NEW w, Fits(w), w.holds => Active(w) \/ w.state = "needs_human"
    PROVE  Sound(w)
BY DEF Fits, Sound

LEMMA KeepRow ==
    ASSUME RowsSound, NEW i \in Items, NEW w, Sound(w), w.holds = item[i].holds,
           item[i].state # "absent" => w.state # "absent", Active(w) => Active(item[i]),
           item' = [item EXCEPT ![i] = w], line' = line, limit' = limit
    PROVE  RowStep
<1>1. /\ w \in WorkItems /\ item \in [Items -> WorkItems]
      /\ \A j \in Items : Sound(item[j])
      /\ \A j \in line.in : Waits(item[j])
      /\ line \in Lines(Items) /\ line.in \subseteq Items
  BY DEF RowsSound, Sound, Lines
<1>2. /\ item' \in [Items -> WorkItems] /\ item'[i] = w
      /\ \A j \in Items : j # i => item'[j] = item[j]
  BY <1>1, OneRow
<1>3. Holders' = Holders
  BY <1>1, <1>2 DEF Holders
<1>4. \A j \in Items : Sound(item'[j])
  BY <1>1, <1>2
<1>5. \A j \in line.in : Waits(item'[j])
  BY <1>1, <1>2 DEF Waits
<1>6. RowsSound'
  BY <1>1, <1>2, <1>4, <1>5 DEF RowsSound, Sound, Waits, Active
<1> QED
  BY <1>2, <1>3, <1>6 DEF RowStep, Remain, Exists, SlotsKept, SlotStep, Slots!vars, Holders

LEMMA ParkRow ==
    ASSUME RowsSound, NEW i \in Items, NEW w, Fits(w), Park(i, w),
           ~Active(w) \/ StopsAnOlderRun(i),
           item[i].state # "absent" => w.state # "absent", limit' = limit
    PROVE  RowStep
<1> DEFINE v == [w EXCEPT !.holds = FALSE]
<1>0. item' = [item EXCEPT ![i] = v] /\ line' = Without(line, {i})
  BY DEF Park
<1>1. /\ v \in WorkItems /\ v.state = w.state /\ v.status = w.status /\ v.job = w.job
      /\ v.holds = FALSE
  BY Fields DEF Fits
<1> HIDE DEF v
<1>2. Sound(v)
  BY <1>1 DEF Fits, Sound, Active
<1>3. /\ item \in [Items -> WorkItems]
      /\ \A j \in Items : Sound(item[j])
      /\ \A j \in line.in : Waits(item[j])
      /\ line \in Lines(Items) /\ line.in \subseteq Items
  BY DEF RowsSound, Sound, Lines
<1>4. /\ item' \in [Items -> WorkItems] /\ item'[i] = v
      /\ \A j \in Items : j # i => item'[j] = item[j]
      /\ Holders' = Holders \ {i}
  BY <1>0, <1>1, OneRow
<1>5. line' \in Lines(Items) /\ line'.in = line.in \ {i}
  BY <1>0, <1>3, LineOperators
<1>6. \A j \in Items : Sound(item'[j])
  BY <1>2, <1>3, <1>4
<1>7. \A j \in line'.in : Waits(item'[j])
  BY <1>3, <1>4, <1>5
<1>8. RowsSound'
  BY <1>4, <1>5, <1>6, <1>7 DEF RowsSound, Sound, Waits, Active
<1>9. Slots!Leave({i})
  BY <1>0, <1>4 DEF Slots!Leave, Slots!Without, Without, Holders
<1>10. SlotsKept
  BY <1>1, <1>4 DEF SlotsKept, Active
<1> QED
  BY <1>1, <1>4, <1>8, <1>9, <1>10 DEF RowStep, Remain, Exists, SlotStep, Slots!Next

\* WorkerSlots counts as this module does.
LEMMA SameCount == \A S : Slots!Cardinality(S) = Cardinality(S)
BY DEF Slots!Cardinality, Cardinality

LEMMA OccupiedIs ==
    ASSUME RowsSound, limit \in Limits
    PROVE  /\ Occupied = Cardinality(Holders)
           /\ Occupied \in Nat /\ limit \in Nat
           /\ ~(Occupied < limit) => Occupied >= limit
<1>1. IsFiniteSet(Holders)
  BY LifecycleAssumption, FS_Subset DEF Holders
<1>2. Cardinality(Holders) \in Nat
  BY <1>1, FS_CardinalityType
<1>3. limit \in Nat
  BY LifecycleAssumption
<1> QED
  BY <1>2, <1>3 DEF Occupied, Holders

\* What the three lemmas about the line have in common.
LEMMA OtherRows ==
    ASSUME RowsSound, NEW i \in Items, NEW w, Sound(w), item' = [item EXCEPT ![i] = w],
           line' \in Lines(Items), line'.in \ {i} \subseteq line.in,
           i \in line'.in => Waits(w), item[i].state # "absent" => w.state # "absent"
    PROVE  RowsSound' /\ Remain
<1>1. /\ w \in WorkItems /\ item \in [Items -> WorkItems]
      /\ \A j \in Items : Sound(item[j])
      /\ \A j \in line.in : Waits(item[j])
      /\ line'.in \subseteq Items
  BY DEF RowsSound, Sound, Lines
<1>2. /\ item' \in [Items -> WorkItems] /\ item'[i] = w
      /\ \A j \in Items : j # i => item'[j] = item[j]
  BY <1>1, OneRow
<1>3. \A j \in Items : Sound(item'[j])
  BY <1>1, <1>2
<1>4. \A j \in line'.in : Waits(item'[j])
  BY <1>1, <1>2
<1> QED
  BY <1>2, <1>3, <1>4 DEF Remain, Exists, RowsSound, Sound, Waits, Active

LEMMA TakeSlot ==
    ASSUME RowsSound, limit \in Limits, NEW i \in Items, NEW w, Sound(w), w.holds,
           item[i].holds \/ Occupied < limit, item[i].state # "absent" => w.state # "absent",
           item' = [item EXCEPT ![i] = w], line' = Without(line, {i}), limit' = limit
    PROVE  RowStep
<1>1. w \in WorkItems /\ line \in Lines(Items)
  BY DEF RowsSound, Sound
<1>2. line' \in Lines(Items) /\ line'.in = line.in \ {i}
  BY <1>1, LineOperators
<1>3. RowsSound' /\ Remain
  BY <1>2, OtherRows
<1>4. Holders' = Holders \union {i}
  BY <1>1, OneRow
<1>5. SlotsKept
  BY <1>1, OneRow DEF SlotsKept, Active
<1>6. CASE item[i].holds
  <2>1. i \notin line.in
    BY <1>6 DEF RowsSound, Waits
  <2>2. line' = line
    BY <1>1, <2>1, LineOperators
  <2>3. Holders' = Holders
    BY <1>4, <1>6 DEF Holders
  <2> QED
    BY <1>3, <1>5, <2>2, <2>3 DEF RowStep, SlotStep, Slots!vars, Holders
<1>7. CASE ~item[i].holds
  <2>1. Slots!Admit(i)
    BY <1>4, <1>7, OccupiedIs, SameCount DEF Slots!Admit, Slots!Without, Without, Holders
  <2> QED
    BY <1>3, <1>5, <2>1 DEF RowStep, SlotStep, Slots!Next
<1> QED
  BY <1>6, <1>7

\* The line is kept, joined, or joined again at its end.
LEMMA StandInLine ==
    ASSUME RowsSound, limit \in Limits, NEW i \in Items, NEW w, Fits(w), w.state # "absent",
           ~w.holds, ~item[i].holds, Occupied >= limit, Active(w) => Active(item[i]),
           item' = [item EXCEPT ![i] = w], limit' = limit,
           \/ i \in line.in /\ line' = line
           \/ line' = Joined(Without(line, {i}), i)
    PROVE  RowStep
<1>1. w \in WorkItems /\ Sound(w) /\ Waits(w) /\ line \in Lines(Items)
  BY DEF RowsSound, Fits, Sound, Waits
<1>2. Without(line, {i}) \in Lines(Items) /\ Without(line, {i}).in = line.in \ {i}
  BY <1>1, LineOperators
<1>3. /\ Joined(Without(line, {i}), i) \in Lines(Items)
      /\ Joined(Without(line, {i}), i).in = line.in \union {i}
  <2> DEFINE l == Without(line, {i})
  <2>1. l \in Lines(Items) /\ i \in Items \ l.in /\ l.in \union {i} = line.in \union {i}
    BY <1>2
  <2> HIDE DEF l
  <2>2. Joined(l, i) \in Lines(Items) /\ Joined(l, i).in = l.in \union {i}
    BY <2>1, LineOperators
  <2> QED
    BY <2>1, <2>2 DEF l
<1>4. RowsSound' /\ Remain
  BY <1>1, <1>3, OtherRows
<1>5. Holders' = Holders
  BY <1>1, OneRow DEF Holders
<1>6. SlotsKept
  BY <1>1, OneRow DEF SlotsKept, Active
<1>7. CASE line' = line
  BY <1>4, <1>5, <1>7, <1>6 DEF RowStep, SlotStep, Slots!vars, Holders
<1>8. CASE line' = Joined(Without(line, {i}), i)
  <2>1. Slots!Join(i)
    BY <1>5, <1>8, OccupiedIs, SameCount
       DEF Slots!Join, Slots!Joined, Slots!Without, Joined, Without, Holders
  <2> QED
    BY <1>4, <1>6, <2>1 DEF RowStep, SlotStep, Slots!Next
<1> QED
  BY <1>7, <1>8

LEMMA WaitRow ==
    ASSUME RowsSound, limit \in Limits, NEW i \in Items, NEW w, Fits(w), w.state # "absent",
           w.holds = item[i].holds, Active(w) => Active(item[i]), Wait(i, w), limit' = limit
    PROVE  RowStep
<1>1. /\ ~w.holds /\ ~item[i].holds /\ Occupied >= limit
      /\ item' = [item EXCEPT ![i] = w]
      /\ i \in line.in => line' = line
      /\ i \notin line.in => line' = Joined(line, i)
  BY OccupiedIs DEF Wait, Room, InLine
<1>2. i \notin line.in => Without(line, {i}) = line
  BY LineOperators DEF RowsSound
<1> QED
  BY <1>1, <1>2, StandInLine

LEMMA AdmitRow ==
    ASSUME RowsSound, limit \in Limits, NEW i \in Items, NEW w, Fits(w), w.state # "absent",
           w.holds = item[i].holds, Active(w) => Active(item[i]),
           NEW step \in Steps, NEW rest, Admit(i, w, step, rest), limit' = limit
    PROVE  RowStep
<1>1. CASE Wait(i, w)
  BY <1>1, WaitRow
<1>2. CASE /\ Room(w)
           /\ item' = [item EXCEPT ![i] = Enqueued([w EXCEPT !.holds = TRUE], step)]
           /\ line' = Without(line, {i})
  <2> DEFINE v == Enqueued([w EXCEPT !.holds = TRUE], step)
  <2>1. /\ v \in WorkItems /\ v.holds = TRUE /\ v.status = "queued" /\ v.job # NoJob
        /\ v.state = w.state
    <3>1. /\ [w EXCEPT !.holds = TRUE] \in WorkItems /\ [w EXCEPT !.holds = TRUE].holds = TRUE
          /\ [w EXCEPT !.holds = TRUE].state = w.state
      BY Fields DEF Fits
    <3> QED
      BY <3>1, EnqueuedRow
  <2>2. Sound(v)
    BY <2>1 DEF Sound, Active
  <2>3. item[i].holds \/ Occupied < limit
    BY <1>2 DEF Room
  <2> HIDE DEF v
  <2> QED
    BY <1>2, <2>1, <2>2, <2>3, TakeSlot DEF v
<1> QED
  BY <1>1, <1>2 DEF Admit

LEMMA InterruptedRows ==
    ASSUME RowsSound, NEW S \in SUBSET Items, Interrupted(S), limit' = limit
    PROVE  RowStep
<1> DEFINE v(i) == [item[i] EXCEPT !.status = "interrupted", !.job = NoJob, !.holds = FALSE]
<1>1. /\ item \in [Items -> WorkItems] /\ line \in Lines(Items) /\ line.in \subseteq Items
      /\ \A i \in Items : Sound(item[i])
      /\ \A i \in line.in : Waits(item[i])
  BY DEF RowsSound, Lines
<1>2. \A i \in Items : /\ v(i) \in WorkItems /\ v(i).status = "interrupted"
                       /\ v(i).holds = FALSE /\ v(i).state = item[i].state
  <2> TAKE i \in Items
  <2>1. item[i] \in WorkItems
    BY <1>1
  <2> QED
    BY <2>1 DEF WorkItems, Statuses
<1>3. /\ item' = [i \in Items |-> IF i \in S THEN v(i) ELSE item[i]]
      /\ line' = Without(line, S)
  BY DEF Interrupted
<1> HIDE DEF v
<1>4. /\ item' \in [Items -> WorkItems]
      /\ \A i \in S : item'[i] = v(i)
      /\ \A i \in Items \ S : item'[i] = item[i]
  BY <1>1, <1>2, <1>3
<1>5. line' \in Lines(Items) /\ line'.in = line.in \ S
  BY <1>1, <1>3, LineOperators
<1>6. \A i \in S : Sound(v(i))
  BY <1>2 DEF Sound, Active
<1>7. \A i \in Items : Sound(item'[i])
  BY <1>1, <1>4, <1>6
<1>8. \A i \in line'.in : Waits(item'[i])
  BY <1>1, <1>4, <1>5
<1>9. RowsSound'
  BY <1>4, <1>5, <1>7, <1>8 DEF RowsSound, Sound, Waits, Active
<1>10. Holders' = Holders \ S
  <2>1. Holders' = {i \in Items : item'[i].holds}
    BY DEF Holders
  <2>2. \A i \in S : ~item'[i].holds
    BY <1>2, <1>4
  <2> QED
    BY <1>4, <2>1, <2>2 DEF Holders
<1>11. Slots!Leave(S)
  BY <1>3, <1>10 DEF Slots!Leave, Slots!Without, Without, Holders
<1>12. SlotsKept
  BY <1>2, <1>4 DEF SlotsKept, Active
<1> QED
  BY <1>2, <1>4, <1>9, <1>11, <1>12 DEF RowStep, Remain, Exists, SlotStep, Slots!Next

LEMMA SameRows ==
    ASSUME RowsSound, UNCHANGED <<item, line>>, limit' = limit
    PROVE  RowStep
BY DEF RowStep, Remain, Exists, SlotsKept, RowsSound, Sound, Waits, Active, SlotStep, Slots!vars

\* A step that changes the job of one row only.
LEMMA JobOnly ==
    ASSUME RowsSound, NEW i \in Items, NEW job \in Rows,
           item' = [item EXCEPT ![i].job = job], line' = line, limit' = limit
    PROVE  RowStep
<1> DEFINE w == [item[i] EXCEPT !.job = job]
<1>1. item \in [Items -> WorkItems] /\ item[i] \in WorkItems /\ Sound(item[i])
  BY DEF RowsSound
<1>2. /\ w \in WorkItems /\ w.holds = item[i].holds /\ w.state = item[i].state
      /\ w.status = item[i].status /\ w.job = job
  BY <1>1, Fields
<1>3. item' = [item EXCEPT ![i] = w]
  OBVIOUS
<1> HIDE DEF w
<1>4. Sound(w)
  BY <1>1, <1>2, LifecycleAssumption DEF Sound, Active
<1>5. Active(w) => Active(item[i])
  BY <1>2 DEF Active
<1> QED
  BY <1>2, <1>3, <1>4, <1>5, KeepRow

-----------------------------------------------------------------------------
(* The rows and the line, action by action. *)

LEMMA DeliveryRows ==
    ASSUME IInv, NEW i \in Items, Deliver(i) \/ StartStep(i) \/ SkipStep(i) \/ ExpireStep(i)
    PROVE  RowStep
<1>0. /\ RowsSound /\ item \in [Items -> WorkItems] /\ item[i] \in WorkItems /\ Sound(item[i])
  BY DEF IInv, RowsSound
<1>status. "interrupted" \in Statuses /\ "failed" \in Statuses /\ "running" \in Statuses
  BY DEF Statuses
<1>job. Active(item[i]) => item[i].job \in Rows
  BY <1>0 DEF Sound, WorkItems
<1>1. CASE Deliver(i)
  <2>1. item[i].job \in Rows
    BY <1>0, <1>1 DEF Deliver, WorkItems
  <2>2. ClaimedRow(item[i].job) \in Rows
    BY <2>1, RowOperators
  <2>3. item' = [item EXCEPT ![i].job = ClaimedRow(item[i].job)]
    BY <1>1 DEF Deliver
  <2> QED
    BY <1>0, <1>1, <2>2, <2>3, JobOnly DEF Deliver
<1>2. CASE StartStep(i)
  <2> DEFINE w == [item[i] EXCEPT !.status = "running"]
  <2>1. item' = [item EXCEPT ![i] = w]
    BY <1>2 DEF StartStep
  <2>2. /\ w \in WorkItems /\ w.holds = item[i].holds /\ w.state = item[i].state
        /\ w.status = "running" /\ w.job = item[i].job
    BY <1>0, <1>status, Fields
  <2>3. item[i].status = "queued"
    BY <1>2 DEF StartStep, Startable
  <2> HIDE DEF w
  <2>4. Sound(w) /\ Active(item[i])
    BY <1>0, <2>2, <2>3 DEF Sound, Active
  <2> QED
    BY <1>0, <1>2, <2>1, <2>2, <2>4, KeepRow DEF StartStep
<1>3. CASE SkipStep(i)
  <2>1. CASE item[i].status \in {"queued", "running", "postponed"}
    <3>1. item' = item
      BY <1>0, <1>3, <2>1 DEF SkipStep
    <3> QED
      BY <1>0, <1>3, <3>1, SameRows DEF SkipStep
  <2>2. CASE item[i].status \notin {"queued", "running", "postponed"}
    <3> DEFINE w == Acknowledged(item[i])
    <3>1. item' = [item EXCEPT ![i] = w]
      BY <1>3, <2>2 DEF SkipStep
    <3>2. /\ w \in WorkItems /\ w.holds = item[i].holds /\ w.state = item[i].state
          /\ w.status = item[i].status
      BY <1>0, AcknowledgedRow
    <3> HIDE DEF w
    <3>3. Sound(w) /\ ~Active(w)
      BY <1>0, <2>2, <3>2 DEF Sound, Active
    <3> QED
      BY <1>0, <1>3, <3>1, <3>2, <3>3, KeepRow DEF SkipStep
  <2> QED
    BY <2>1, <2>2
<1>4. CASE ExpireStep(i)
  <2> DEFINE v == Finished(item[i], "interrupted")
             w == Finished(item[i], "failed")
             job == DeadLetteredRow(w.job)
  <2>1. item[i].status = "running" /\ item[i].job \in Rows
    BY <1>4, <1>job DEF ExpireStep, Active
  <2>2. /\ v \in WorkItems /\ v.status = "interrupted" /\ v.state = item[i].state
        /\ w \in WorkItems /\ w.status = "failed" /\ w.state = item[i].state
        /\ w.job = item[i].job
    BY <1>0, <1>status, <2>1, FinishedRow
  <2>3. job \in Rows
    BY <2>1, <2>2, RowOperators
  <2>4. \/ Park(i, Acknowledged(v))
        \/ Park(i, [w EXCEPT !.job = job])
    BY <1>4 DEF ExpireStep
  <2>5. limit' = limit
    BY <1>4 DEF ExpireStep
  <2> HIDE DEF v, w, job
  <2>6. /\ Fits(Acknowledged(v)) /\ Acknowledged(v).state = item[i].state
        /\ ~Active(Acknowledged(v))
    BY <2>2, AcknowledgedRow DEF Fits, Active
  <2>7. /\ Fits([w EXCEPT !.job = job]) /\ [w EXCEPT !.job = job].state = item[i].state
        /\ ~Active([w EXCEPT !.job = job])
    BY <2>2, <2>3, Fields DEF Fits, Active
  <2> QED
    BY <1>0, <2>4, <2>5, <2>6, <2>7, ParkRow
<1> QED
  BY <1>1, <1>2, <1>3, <1>4

LEMMA OutcomeRows ==
    ASSUME IInv, NEW i \in Items,
           \/ Advance(i) \/ AdvancePaused(i) \/ Settle(i) \/ AdvanceMerged(i)
           \/ FailStep(i) \/ PostponeStep(i)
    PROVE  RowStep
<1>0. /\ RowsSound /\ limit \in Limits
      /\ item \in [Items -> WorkItems] /\ item[i] \in WorkItems /\ Sound(item[i])
      /\ "absent" \notin Steps /\ "absent" \notin Settled
  BY LifecycleAssumption DEF IInv, RowsSound, Settled, Terminal
<1>working. /\ HoldsJob(i) /\ limit' = limit
            /\ item[i].status = "running" /\ item[i].job \in Rows
  <2>1. HoldsJob(i) /\ limit' = limit
    BY DEF Advance, AdvancePaused, Settle, AdvanceMerged, FailStep, PostponeStep
  <2>2. item[i].job \in Rows
    BY <1>0, <2>1 DEF HoldsJob, WorkItems
  <2> QED
    BY <2>1, <2>2 DEF IInv, AtWork
<1> DEFINE v == Succeeded(item[i])
<1>v. /\ v \in WorkItems /\ v.holds = item[i].holds /\ v.state = item[i].state
      /\ v.status # "running" /\ v.status # "queued"
  <2>1. "succeeded" \in Statuses
    BY DEF Statuses
  <2>2. /\ v \in WorkItems /\ v.holds = item[i].holds /\ v.state = item[i].state
    BY <1>0, SucceededRow
  <2>3. v.status = IF item[i].status = "running" THEN "succeeded" ELSE item[i].status
    BY <1>0, <2>1, FinishedRow, AcknowledgedRow DEF Succeeded
  <2> QED
    BY <1>working, <2>2, <2>3
<1> HIDE DEF v
\* the run has ended: any row made from v fits
<1>fits. ASSUME NEW w \in WorkItems, w.status = v.status
         PROVE  Fits(w) /\ ~Active(w)
  BY <1>v, <1>fits DEF Fits, Active
<1>1. CASE Advance(i)
  <2> PICK next \in Steps : item' = [item EXCEPT ![i] = Enqueued([v EXCEPT !.state = next], next)]
    BY <1>1 DEF Advance, v
  <2> DEFINE u == [v EXCEPT !.state = next]
             w == Enqueued(u, next)
  <2>1. u \in WorkItems /\ u.holds = item[i].holds /\ u.state = next
    BY <1>v, Fields
  <2> HIDE DEF u
  <2>2. /\ w \in WorkItems /\ w.holds = item[i].holds /\ w.state = next
        /\ w.status = "queued" /\ w.job # NoJob
    BY <2>1, EnqueuedRow
  <2>3. item' = [item EXCEPT ![i] = w]
    BY DEF u
  <2> HIDE DEF w
  <2>4. Sound(w) /\ Active(item[i])
    BY <1>working, <2>2 DEF Sound, Active
  <2> QED
    BY <1>0, <1>1, <1>working, <2>2, <2>3, <2>4, KeepRow DEF Advance
<1>2. CASE AdvancePaused(i)
  <2> PICK next \in Steps : Park(i, [v EXCEPT !.state = next, !.paused = TRUE])
    BY <1>2 DEF AdvancePaused, v
  <2> DEFINE w == [v EXCEPT !.state = next, !.paused = TRUE]
  <2>1. w \in WorkItems /\ w.state = next /\ w.status = v.status
    BY <1>v DEF WorkItems
  <2>2. Park(i, w)
    OBVIOUS
  <2> HIDE DEF w
  <2> QED
    BY <1>0, <1>working, <1>v, <1>fits, <2>1, <2>2, ParkRow
<1>3. CASE Settle(i)
  <2> PICK state \in {"complete", "needs_human", "failed"} : Park(i, [v EXCEPT !.state = state])
    BY <1>3 DEF Settle, v
  <2> DEFINE w == [v EXCEPT !.state = state]
  <2>1. state \in Settled
    BY DEF Settled, Terminal
  <2>2. w \in WorkItems /\ w.state = state /\ w.status = v.status
    BY <1>v, <2>1, Fields
  <2>3. Park(i, w)
    OBVIOUS
  <2> HIDE DEF w
  <2> QED
    BY <1>0, <1>working, <1>v, <1>fits, <2>1, <2>2, <2>3, ParkRow
<1>4. CASE AdvanceMerged(i)
  <2> PICK next \in Steps :
        LET w == [v EXCEPT !.state = next, !.paused = FALSE] IN
        \/ /\ Room(w)
           /\ item' = [item EXCEPT ![i] = Enqueued([w EXCEPT !.holds = TRUE], next)]
           /\ line' = Without(line, {i})
        \/ /\ ~Room(w)
           /\ item' = [item EXCEPT ![i] = w]
           /\ line' = Joined(Without(line, {i}), i)
    BY <1>4 DEF AdvanceMerged, v
  <2> DEFINE w == [v EXCEPT !.state = next, !.paused = FALSE]
             u == [w EXCEPT !.holds = TRUE]
             x == Enqueued(u, next)
  <2>1. w \in WorkItems /\ w.state = next /\ w.status = v.status /\ w.holds = item[i].holds
    BY <1>v DEF WorkItems
  <2>2. \/ /\ Room(w) /\ item' = [item EXCEPT ![i] = x] /\ line' = Without(line, {i})
        \/ ~Room(w) /\ item' = [item EXCEPT ![i] = w] /\ line' = Joined(Without(line, {i}), i)
    OBVIOUS
  <2> HIDE DEF w
  <2>3. u \in WorkItems /\ u.state = next /\ u.holds = TRUE
    BY <2>1, Fields
  <2> HIDE DEF u
  <2>4. /\ x \in WorkItems /\ x.state = next /\ x.holds = TRUE /\ x.status = "queued"
        /\ x.job # NoJob
    BY <2>3, EnqueuedRow
  <2> HIDE DEF x
  <2>5. Sound(x)
    BY <2>4 DEF Sound, Active
  <2>6. CASE Room(w)
    <3>1. item[i].holds \/ Occupied < limit
      BY <2>1, <2>6 DEF Room
    <3>2. item' = [item EXCEPT ![i] = x] /\ line' = Without(line, {i})
      BY <2>2, <2>6
    <3> QED
      BY <1>0, <1>working, <2>4, <2>5, <3>1, <3>2, TakeSlot
  <2>7. CASE ~Room(w)
    <3>1. ~w.holds /\ ~item[i].holds /\ Occupied >= limit
      BY <1>0, <2>1, <2>7, OccupiedIs DEF Room
    <3>2. item' = [item EXCEPT ![i] = w] /\ line' = Joined(Without(line, {i}), i)
      BY <2>2, <2>7
    <3>3. Fits(w) /\ ~Active(w) /\ w.state # "absent"
      BY <1>0, <1>fits, <2>1
    <3> QED
      BY <1>0, <1>working, <3>1, <3>2, <3>3, StandInLine
  <2> QED
    BY <2>6, <2>7
<1>5. CASE FailStep(i)
  <2> DEFINE u == Finished(item[i], "failed")
             job == DeadLetteredRow(u.job)
             w == [u EXCEPT !.job = job]
             x == [w EXCEPT !.state = "failed"]
  <2>1. "failed" \in Statuses /\ "failed" \in Settled
    BY DEF Statuses, Settled, Terminal
  <2>2. /\ u \in WorkItems /\ u.state = item[i].state /\ u.job = item[i].job
        /\ u.status # "queued"
        /\ u.status # "running"
    BY <1>0, <1>working, <2>1, FinishedRow
  <2>3. Park(i, w) \/ Park(i, x)
    BY <1>5 DEF FailStep
  <2> HIDE DEF u
  <2>4. job \in Rows
    BY <1>working, <2>2, RowOperators
  <2> HIDE DEF job
  <2>5. w \in WorkItems /\ w.state = item[i].state /\ w.status = u.status
    BY <2>2, <2>4, Fields
  <2> HIDE DEF w
  <2>6. x \in WorkItems /\ x.state = "failed" /\ x.status = u.status
    BY <2>1, <2>5, Fields
  <2> HIDE DEF x
  <2>7. Fits(w) /\ Fits(x) /\ ~Active(w) /\ ~Active(x)
    BY <2>2, <2>5, <2>6 DEF Fits, Active
  <2> QED
    BY <1>0, <1>working, <2>2, <2>3, <2>5, <2>6, <2>7, ParkRow
<1>6. CASE PostponeStep(i)
  <2> DEFINE row == NewRow(2, FALSE)
             w == [item[i] EXCEPT !.status = "postponed", !.due = FALSE, !.job = row]
  <2>1. row \in Rows
    BY RowOperators
  <2>2. Park(i, w)
    BY <1>6 DEF PostponeStep
  <2> HIDE DEF row
  <2>3. w \in WorkItems /\ w.state = item[i].state /\ w.status = "postponed"
    BY <1>0, <2>1 DEF WorkItems, Statuses
  <2> HIDE DEF w
  <2>4. Fits(w) /\ ~Active(w)
    BY <2>3 DEF Fits, Active
  <2> QED
    BY <1>0, <1>working, <2>2, <2>3, <2>4, ParkRow
<1> QED
  BY <1>1, <1>2, <1>3, <1>4, <1>5, <1>6

LEMMA StopRows ==
    ASSUME IInv, NEW i \in Items, StopStep(i) \/ FenceOff(i) \/ FenceOffLate(i) \/ StopLate(i)
    PROVE  RowStep
<1>0. /\ RowsSound /\ item \in [Items -> WorkItems] /\ item[i] \in WorkItems /\ Sound(item[i])
  BY DEF IInv, RowsSound
<1>1. CASE StopStep(i)
  <2> DEFINE v == Finished(item[i], "interrupted")
  <2>1. "interrupted" \in Statuses
    BY DEF Statuses
  <2>2. item[i].status # "queued"
    BY <1>0, <1>1 DEF StopStep, IInv, AtWork, HoldsJob, Working, Sound, Active
  <2>3. v \in WorkItems /\ v.state = item[i].state /\ ~Active(v)
    BY <1>0, <2>1, <2>2, FinishedRow DEF Active
  <2>4. Park(i, Acknowledged(v)) /\ limit' = limit
    BY <1>1 DEF StopStep
  <2> HIDE DEF v
  <2>5. /\ Fits(Acknowledged(v)) /\ Acknowledged(v).state = item[i].state
        /\ ~Active(Acknowledged(v))
    BY <2>3, AcknowledgedRow DEF Fits, Active
  <2> QED
    BY <1>0, <2>4, <2>5, ParkRow
<1>2. CASE FenceOff(i) \/ FenceOffLate(i)
  BY <1>0, <1>2, SameRows DEF FenceOff, FenceOffLate
<1>3. CASE StopLate(i)
  <2>1. Fits(item[i])
    BY <1>0 DEF Fits, Sound
  <2>2. StopsAnOlderRun(i)
    BY <1>3 DEF StopsAnOlderRun
  <2> QED
    BY <1>0, <1>3, <2>1, <2>2, ParkRow DEF StopLate
<1> QED
  BY <1>1, <1>2, <1>3

LEMMA FaultRows ==
    ASSUME IInv, \/ \E i \in Items : LockExpires(i) \/ DeadlinePasses(i)
                 \/ RecoverOrphans \/ Restart
    PROVE  RowStep
<1>0. RowsSound /\ item \in [Items -> WorkItems]
  BY DEF IInv, RowsSound
<1>1. ASSUME NEW i \in Items, LockExpires(i)
      PROVE  RowStep
  <2>1. item[i].job \in Rows
    BY <1>0, <1>1 DEF LockExpires, WorkItems
  <2>2. ExpiredRow(item[i].job) \in Rows
    BY <2>1, RowOperators
  <2>3. item' = [item EXCEPT ![i].job = ExpiredRow(item[i].job)]
    BY <1>1 DEF LockExpires
  <2> QED
    BY <1>0, <1>1, <2>2, <2>3, JobOnly DEF LockExpires
<1>2. ASSUME NEW i \in Items, DeadlinePasses(i)
      PROVE  RowStep
  <2> DEFINE job == IF item[i].job = NoJob THEN NoJob ELSE DueRow(item[i].job)
             w == [item[i] EXCEPT !.due = TRUE, !.job = job]
  <2>1. item' = [item EXCEPT ![i] = w]
    BY <1>2 DEF DeadlinePasses
  <2>2. item[i] \in WorkItems /\ Sound(item[i])
    BY <1>0 DEF RowsSound
  <2>3. item[i].job \in Rows \union {NoJob}
    BY <2>2 DEF WorkItems
  <2>4. job \in Rows \union {NoJob}
    BY <2>3, RowOperators
  <2> HIDE DEF job
  <2>5. /\ w \in WorkItems /\ w.holds = item[i].holds /\ w.state = item[i].state
        /\ w.status = item[i].status
    BY <2>2, <2>4 DEF WorkItems
  <2>6. item[i].status = "postponed"
    BY <1>2 DEF DeadlinePasses
  <2> HIDE DEF w
  <2>7. Sound(w) /\ ~Active(w)
    BY <2>2, <2>5, <2>6 DEF Sound, Active
  <2> QED
    BY <1>0, <1>2, <2>1, <2>5, <2>7, KeepRow DEF DeadlinePasses
<1>3. CASE RecoverOrphans
  <2> PICK found \in SUBSET Orphans : Interrupted(found) /\ limit' = limit
    BY <1>3 DEF RecoverOrphans
  <2>1. found \in SUBSET Items
    BY DEF Orphans
  <2> QED
    BY <1>0, <2>1, InterruptedRows
<1>4. CASE Restart
  <2> DEFINE running == {i \in Items : item[i].status = "running"}
  <2>1. Interrupted(running) \/ UNCHANGED <<item, line>>
    BY <1>4 DEF Restart
  <2>2. running \in SUBSET Items /\ limit' = limit
    BY <1>4 DEF Restart
  <2> HIDE DEF running
  <2> QED
    BY <1>0, <2>1, <2>2, InterruptedRows, SameRows
<1> QED
  BY <1>1, <1>2, <1>3, <1>4

\* A row that is admitted, or waits, is one of these.
LEMMA IdleRow ==
    ASSUME NEW w \in WorkItems, ~Active(w)
    PROVE  Fits(w)
BY DEF Fits

LEMMA CallRows ==
    ASSUME IInv, NEW i \in Items, Create(i) \/ Pause(i) \/ Start(i) \/ Resume(i) \/ Abandon(i)
    PROVE  RowStep
<1>0. /\ RowsSound /\ limit \in Limits
      /\ item \in [Items -> WorkItems] /\ item[i] \in WorkItems /\ Sound(item[i])
      /\ "absent" \notin Steps /\ FirstStep \in Steps
      /\ limit' = limit
  BY LifecycleAssumption DEF IInv, RowsSound, Create, Pause, Start, Resume, Abandon
<1>1. CASE Create(i)
  <2> DEFINE w == [item[i] EXCEPT !.state = FirstStep]
  <2>1. Admit(i, w, FirstStep, calls)
    BY <1>1 DEF Create
  <2>2. w \in WorkItems /\ w.state = FirstStep /\ w.holds = item[i].holds
        /\ w.status = item[i].status /\ w.job = item[i].job
    BY <1>0, Fields
  <2> HIDE DEF w
  <2>3. Fits(w) /\ (Active(w) => Active(item[i]))
    BY <1>0, <2>2 DEF Fits, Sound, Active
  <2> QED
    BY <1>0, <2>1, <2>2, <2>3, AdmitRow
<1>2. CASE Pause(i)
  <2> DEFINE u == Cancelled(item[i])
             w == [u EXCEPT !.paused = TRUE]
  <2>1. \/ w.status # "running" /\ Park(i, w)
        \/ w.status = "running" /\ item' = [item EXCEPT ![i] = w] /\ line' = line
    BY <1>2 DEF Pause
  <2>2. /\ u \in WorkItems /\ u.holds = item[i].holds /\ u.state = item[i].state
        /\ u.status # "queued" /\ (u.status = "running" => u = item[i])
    BY <1>0, CancelledRow
  <2> HIDE DEF u
  <2>3. /\ w \in WorkItems /\ w.holds = u.holds /\ w.state = u.state
        /\ w.status = u.status /\ w.job = u.job
    BY <2>2, Fields
  <2> HIDE DEF w
  <2>4. CASE w.status # "running"
    <3>1. Park(i, w) /\ Fits(w) /\ ~Active(w)
      BY <2>1, <2>2, <2>3, <2>4 DEF Fits, Active
    <3> QED
      BY <1>0, <2>2, <2>3, <2>4, <3>1, ParkRow
  <2>5. CASE w.status = "running"
    <3>1. item' = [item EXCEPT ![i] = w] /\ line' = line
      BY <2>1, <2>5
    <3>2. Sound(w) /\ Active(item[i])
      BY <1>0, <2>2, <2>3, <2>5 DEF Sound, Active
    <3> QED
      BY <1>0, <2>2, <2>3, <3>1, <3>2, KeepRow
  <2> QED
    BY <2>4, <2>5
<1>3. CASE Start(i)
  <2> DEFINE w == [item[i] EXCEPT !.paused = FALSE]
  <2>1. \/ item' = [item EXCEPT ![i] = w] /\ line' = line
        \/ Admit(i, w, w.state, calls)
    BY <1>3 DEF Start
  <2>2. item[i].state \in Steps
    BY <1>3 DEF Start
  <2>3. /\ w \in WorkItems /\ w.holds = item[i].holds /\ w.state = item[i].state
        /\ w.status = item[i].status /\ w.job = item[i].job
    BY <1>0, Fields
  <2> HIDE DEF w
  <2>4. Sound(w) /\ Fits(w) /\ w.state # "absent" /\ (Active(w) => Active(item[i]))
    BY <1>0, <2>2, <2>3 DEF Sound, Fits, Active
  <2>5. CASE item' = [item EXCEPT ![i] = w] /\ line' = line
    BY <1>0, <2>3, <2>4, <2>5, KeepRow
  <2>6. CASE Admit(i, w, w.state, calls)
    BY <1>0, <2>2, <2>3, <2>4, <2>6, AdmitRow
  <2> QED
    BY <2>1, <2>5, <2>6
<1>4. CASE Resume(i)
  <2> DEFINE w == [item[i] EXCEPT !.state = FirstStep, !.paused = FALSE]
  <2>1. Admit(i, w, FirstStep, calls) /\ ~Active(item[i])
    BY <1>4 DEF Resume
  <2>2. /\ w \in WorkItems /\ w.state = FirstStep /\ w.holds = item[i].holds
        /\ w.status = item[i].status
    BY <1>0 DEF WorkItems
  <2> HIDE DEF w
  <2>3. Fits(w) /\ ~Active(w)
    BY <2>1, <2>2 DEF Fits, Active
  <2> QED
    BY <1>0, <2>1, <2>2, <2>3, AdmitRow
<1>5. CASE Abandon(i)
  <2> DEFINE u == Cancelled(item[i])
             w == [u EXCEPT !.state = "abandoned"]
  <2>1. Park(i, w) /\ item[i].status # "running"
    BY <1>5 DEF Abandon
  <2>2. u \in WorkItems /\ ~Active(u) /\ "abandoned" \in Settled
    BY <1>0, <2>1, CancelledRow DEF Active, Settled, Terminal
  <2> HIDE DEF u
  <2>3. w \in WorkItems /\ w.state = "abandoned" /\ w.status = u.status
    BY <2>2, Fields
  <2> HIDE DEF w
  <2>4. Fits(w) /\ ~Active(w)
    BY <2>2, <2>3 DEF Fits, Active
  <2> QED
    BY <1>0, <2>1, <2>2, <2>3, <2>4, ParkRow
<1> QED
  BY <1>1, <1>2, <1>3, <1>4, <1>5

LEMMA ReadRows ==
    ASSUME IInv, NEW i \in Items,
           \/ ReadForRetry(i) \/ ReadForRestore(i) \/ ReadForInterrupt(i)
           \/ AbandonNeedsHuman(i)
    PROVE  RowStep
<1>0. /\ RowsSound /\ limit \in Limits
      /\ item \in [Items -> WorkItems] /\ item[i] \in WorkItems /\ Sound(item[i])
  BY DEF IInv, RowsSound
<1>1. CASE ReadForRetry(i) \/ ReadForRestore(i) \/ ReadForInterrupt(i)
  BY <1>0, <1>1, SameRows DEF ReadForRetry, ReadForRestore, ReadForInterrupt
<1>2. CASE AbandonNeedsHuman(i)
  <2>1. item[i].state = "needs_human" /\ limit' = limit
    BY <1>2 DEF AbandonNeedsHuman
  <2>2. CASE Wait(i, item[i])
    <3>1. Fits(item[i])
      BY <1>0 DEF Fits, Sound
    <3> QED
      BY <1>0, <2>1, <2>2, <3>1, WaitRow
  <2>3. CASE /\ Room(item[i])
             /\ item' = [item EXCEPT ![i].holds = TRUE]
             /\ line' = Without(line, {i})
    <3> DEFINE w == [item[i] EXCEPT !.holds = TRUE]
    <3>1. item' = [item EXCEPT ![i] = w]
      BY <2>3
    <3>2. /\ w \in WorkItems /\ w.holds /\ w.state = item[i].state
          /\ w.status = item[i].status /\ w.job = item[i].job
      BY <1>0, Fields
    <3>3. item[i].holds \/ Occupied < limit
      BY <2>3 DEF Room
    <3> HIDE DEF w
    <3>4. Sound(w)
      BY <1>0, <2>1, <3>2 DEF Sound, Active
    <3> QED
      BY <1>0, <2>1, <2>3, <3>1, <3>2, <3>3, <3>4, TakeSlot
  <2> QED
    BY <1>2, <2>2, <2>3 DEF AbandonNeedsHuman
<1> QED
  BY <1>1, <1>2


LEMMA CommitRows ==
    ASSUME IInv, NEW c \in calls, Commit(c)
    PROVE  RowStep
<1> DEFINE i == c.item
           w == item[i]
<1>0. /\ RowsSound /\ limit \in Limits /\ limit' = limit
      /\ i \in Items /\ w \in WorkItems /\ Sound(w) /\ w.state # "absent"
      /\ "absent" \notin Steps
  BY LifecycleAssumption
     DEF IInv, RowsSound, FibersSound, Known, Exists, Calls,
         Commit, CommitRetry, CommitAbandon, CleanupFails, CommitInterrupt
<1>1. CASE CommitRetry(c)
  <2> DEFINE u == [w EXCEPT !.state = c.about, !.paused = FALSE]
  <2>1. c.about \in Steps
    BY <1>1 DEF CommitRetry, IInv, FibersSound, Calls
  <2>2. \/ UNCHANGED <<item, line>>
        \/ ~Active(w) /\ Admit(i, w, c.about, calls \ {c})
        \/ ~Active(w) /\ Admit(i, u, c.about, calls \ {c})
    BY <1>1 DEF CommitRetry
  <2>3. u \in WorkItems /\ u.state = c.about /\ u.holds = w.holds /\ u.status = w.status
    BY <1>0, <2>1 DEF WorkItems
  <2> HIDE DEF u
  <2>4. ~Active(w) => Fits(w) /\ Fits(u) /\ ~Active(u)
    BY <1>0, <2>3 DEF Fits, Active
  <2>5. CASE UNCHANGED <<item, line>>
    BY <1>0, <2>5, SameRows
  <2>6. CASE ~Active(w) /\ Admit(i, w, c.about, calls \ {c})
    BY <1>0, <2>1, <2>4, <2>6, AdmitRow
  <2>7. CASE ~Active(w) /\ Admit(i, u, c.about, calls \ {c})
    <3>1. u.state # "absent"
      BY <1>0, <2>1, <2>3
    <3> QED
      BY <1>0, <2>1, <2>3, <2>4, <2>7, <3>1, AdmitRow
  <2> QED
    BY <2>2, <2>5, <2>6, <2>7
<1>2. CASE CommitAbandon(c)
  <2> DEFINE u == Cancelled(w)
             v == [u EXCEPT !.state = "abandoned"]
  <2>1. \/ w.status # "running" /\ Park(i, v)
        \/ UNCHANGED <<item, line>>
    BY <1>2 DEF CommitAbandon
  <2>2. /\ u \in WorkItems /\ "abandoned" \in Settled
        /\ w.status # "running" => ~Active(u)
    BY <1>0, CancelledRow DEF Active, Settled, Terminal
  <2> HIDE DEF u
  <2>3. v \in WorkItems /\ v.state = "abandoned" /\ v.status = u.status
    BY <2>2, Fields
  <2> HIDE DEF v
  <2>4. w.status # "running" => Fits(v) /\ ~Active(v)
    BY <2>2, <2>3 DEF Fits, Active
  <2> QED
    BY <1>0, <2>1, <2>2, <2>3, <2>4, ParkRow, SameRows
<1>3. CASE CleanupFails(c)
  BY <1>0, <1>3, SameRows DEF CleanupFails
<1>4. CASE CommitInterrupt(c)
  <2> DEFINE status == IF c.about = "latest" THEN w.status ELSE c.about
             u == Finished(w, "interrupted")
             stopped == IF c.about = "latest" THEN Acknowledged(u) ELSE w
             v == [stopped EXCEPT !.paused = FALSE]
  <2>1. \/ UNCHANGED <<item, line>>
        \/ status \in {"running", "interrupted"} /\ Park(i, v)
    BY <1>4 DEF CommitInterrupt
  <2>2. /\ u \in WorkItems /\ u.state = w.state
        /\ w.status \in {"running", "interrupted"} => u.status = "interrupted"
    <3>1. "interrupted" \in Statuses
      BY DEF Statuses
    <3> QED
      BY <1>0, <3>1, FinishedRow
  <2> HIDE DEF u
  <2>3. /\ stopped \in WorkItems /\ stopped.state = w.state
        /\ status \in {"running", "interrupted"} => Fits(stopped)
        /\ status \in {"running", "interrupted"} /\ c.about = "latest" => ~Active(stopped)
    <3>1. CASE c.about = "latest"
      BY <2>2, <3>1, AcknowledgedRow DEF Fits, Active
    <3>2. CASE c.about # "latest"
      BY <1>0, <3>2 DEF Fits, Sound
    <3> QED
      BY <3>1, <3>2
  <2> HIDE DEF status, stopped
  <2>4. /\ v \in WorkItems /\ v.state = w.state /\ v.status = stopped.status
        /\ v.job = stopped.job
    BY <2>3, Fields
  <2> HIDE DEF v
  <2>5. status \in {"running", "interrupted"} => Fits(v)
    BY <2>3, <2>4 DEF Fits, Active
  <2>6. ASSUME status \in {"running", "interrupted"} PROVE ~Active(v) \/ StopsAnOlderRun(i)
    <3>1. CASE c.about = "latest"
      BY <2>3, <2>4, <2>6, <3>1 DEF Active
    <3>2. CASE c.about # "latest"
      BY <1>4, <3>2 DEF CommitInterrupt, StopsAnOlderRun
    <3> QED
      BY <3>1, <3>2
  <2> QED
    BY <1>0, <2>1, <2>4, <2>5, <2>6, ParkRow, SameRows
<1> QED
  BY <1>1, <1>2, <1>3, <1>4 DEF Commit

LEMMA AdmitWaiterRows ==
    ASSUME IInv, NEW p \in Passes, AdmitWaiter(p)
    PROVE  RowStep
<1> PICK e \in pass[p].todo :
       \/ UNCHANGED <<item, line>>
       \/ Wait(e.item, item[e.item])
       \/ /\ Room(item[e.item]) /\ Active(item[e.item])
          /\ item' = [item EXCEPT ![e.item].holds = TRUE]
          /\ line' = Without(line, {e.item})
       \/ /\ e.state # "needs_human" /\ ~Active(item[e.item])
          /\ Admit(e.item, item[e.item], e.state, calls)
  BY DEF AdmitWaiter
<1> DEFINE i == e.item
           w == item[i]
<1>0. /\ RowsSound /\ limit \in Limits /\ limit' = limit
      /\ item \in [Items -> WorkItems]
      /\ i \in Items /\ e.state \in Steps \union {"needs_human"}
      /\ w \in WorkItems /\ Sound(w) /\ Fits(w) /\ w.state # "absent"
  <2>1. pass[p] \in PassStates /\ limit' = limit
    BY DEF IInv, PassesSound, AdmitWaiter
  <2>2. e \in [item : Items, state : Steps \union {"needs_human"}, rank : Nat]
    BY <2>1 DEF PassStates
  <2>3. i \in Items /\ e.state \in Steps \union {"needs_human"} /\ w.state # "absent"
    BY <2>2 DEF IInv, Listeds, Exists
  <2> QED
    BY <2>1, <2>3 DEF IInv, RowsSound, Sound, Fits
<1>1. CASE UNCHANGED <<item, line>>
  BY <1>0, <1>1, SameRows
<1>2. CASE Wait(i, w)
  BY <1>0, <1>2, WaitRow
<1>3. CASE /\ Room(w) /\ Active(w)
           /\ item' = [item EXCEPT ![i].holds = TRUE]
           /\ line' = Without(line, {i})
  <2> DEFINE v == [w EXCEPT !.holds = TRUE]
  <2>1. item' = [item EXCEPT ![i] = v]
    BY <1>3
  <2>2. v \in WorkItems /\ v.holds /\ v.state = w.state /\ v.status = w.status /\ v.job = w.job
    BY <1>0, Fields
  <2>3. w.holds \/ Occupied < limit
    BY <1>3 DEF Room
  <2> HIDE DEF v
  <2>4. Sound(v)
    BY <1>0, <1>3, <2>2 DEF Sound, Active
  <2> QED
    BY <1>0, <1>3, <2>1, <2>2, <2>3, <2>4, TakeSlot
<1>4. CASE e.state # "needs_human" /\ ~Active(w) /\ Admit(i, w, e.state, calls)
  BY <1>0, <1>4, AdmitRow
<1> QED
  BY <1>1, <1>2, <1>3, <1>4

LEMMA PassRows ==
    ASSUME IInv, NEW p \in Passes, Pass(p)
    PROVE  RowStep
<1>0. RowsSound /\ limit \in Limits /\ item \in [Items -> WorkItems]
  BY DEF IInv, RowsSound
<1>1. CASE BeginPass(p) \/ CountFree(p) \/ ListWaiters(p) \/ EndRound(p)
  BY <1>0, <1>1, SameRows DEF BeginPass, CountFree, ListWaiters, EndRound
<1>2. CASE AdmitWaiter(p)
  BY <1>2, AdmitWaiterRows
<1>3. ASSUME NEW i \in Items, BeginWake(i, p)
      PROVE  RowStep
  <2>1. item[i].job \in Rows
    BY <1>0, <1>3 DEF BeginWake, WorkItems
  <2>2. ClaimedRow(item[i].job) \in Rows
    BY <2>1, RowOperators
  <2>3. item' = [item EXCEPT ![i].job = ClaimedRow(item[i].job)]
    BY <1>3 DEF BeginWake
  <2> QED
    BY <1>0, <1>3, <2>2, <2>3, JobOnly DEF BeginWake
<1>4. CASE CommitWake(p)
  <2> DEFINE i == pass[p].wake
             w == item[i]
  <2>1. limit' = limit /\ i \in Items
    BY <1>4 DEF CommitWake, IInv, PassesSound
  <2>2. \/ UNCHANGED <<item, line>>
        \/ w.status = "postponed" /\ w.state = w.step /\ Admit(i, w, w.step, calls)
    BY <1>4 DEF CommitWake
  <2>3. w \in WorkItems /\ Sound(w) /\ w.step \in Steps /\ "absent" \notin Steps
    BY <1>0, <2>1, LifecycleAssumption DEF RowsSound, WorkItems
  <2>4. CASE UNCHANGED <<item, line>>
    BY <1>0, <2>1, <2>4, SameRows
  <2>5. CASE w.status = "postponed" /\ w.state = w.step /\ Admit(i, w, w.step, calls)
    <3>1. w.state # "absent" /\ Fits(w) /\ ~Active(w)
      BY <2>3, <2>5 DEF Fits, Active
    <3> QED
      BY <1>0, <2>1, <2>3, <2>5, <3>1, AdmitRow
  <2> QED
    BY <2>2, <2>4, <2>5
<1>5. CASE AckWake(p)
  <2> DEFINE i == pass[p].wake
             w == item[i]
             v == Acknowledged(w)
  <2>1. limit' = limit /\ line' = line /\ i \in Items
    BY <1>5 DEF AckWake, IInv, PassesSound
  <2>2. item' = item \/ (w.status = "postponed" /\ item' = [item EXCEPT ![i] = v])
    BY <1>5 DEF AckWake
  <2>3. w \in WorkItems /\ Sound(w)
    BY <1>0, <2>1 DEF RowsSound
  <2>4. v \in WorkItems /\ v.holds = w.holds /\ v.state = w.state /\ v.status = w.status
    BY <2>3, AcknowledgedRow
  <2> HIDE DEF v
  <2>5. w.status = "postponed" => Sound(v) /\ ~Active(v)
    BY <2>3, <2>4 DEF Sound, Active
  <2> QED
    BY <1>0, <2>1, <2>2, <2>4, <2>5, KeepRow, SameRows
<1> QED
  BY <1>1, <1>2, <1>3, <1>4, <1>5 DEF Pass

LEMMA LimitRows ==
    ASSUME IInv, SetLimit
    PROVE  RowStep
<1>1. /\ RowsSound /\ limit' \in Limits /\ item' = item /\ line' = line
  BY DEF IInv, SetLimit
<1>2. Slots!SetLimit
  BY <1>1 DEF Slots!SetLimit
<1> QED
  BY <1>1, <1>2 DEF RowStep, Remain, Exists, SlotsKept, RowsSound, Sound, Waits, Active, SlotStep, Slots!Next

LEMMA StepRows ==
    ASSUME IInv, Next
    PROVE  RowStep
<1>1. ASSUME NEW i \in Items, Handler(i) \/ Deliver(i)
      PROVE  RowStep
  BY <1>1, DeliveryRows, OutcomeRows, StopRows DEF Handler
<1>2. ASSUME NEW i \in Items, Operator(i)
      PROVE  RowStep
  BY <1>2, CallRows, ReadRows DEF Operator
<1>3. ASSUME NEW i \in Items, LockExpires(i) \/ DeadlinePasses(i)
      PROVE  RowStep
  BY <1>3, FaultRows
<1> QED
  BY <1>1, <1>2, <1>3, LimitRows, FaultRows, CommitRows, PassRows DEF Next


-----------------------------------------------------------------------------
(* Executions and operator calls. *)

\* What a step does to them; whoever is called for in the new state existed.
CallStep == FibersSound' /\ Known(calls)' 

LEMMA OvertakenCalls ==
    ASSUME RowsSound, NEW rest \in SUBSET Calls, NEW i \in Items
    PROVE  /\ Overtaken(rest, i) \in SUBSET Calls
           /\ Awaited(rest) => Awaited(Overtaken(rest, i))
           /\ Known(rest) => Known(Overtaken(rest, i))
<1> DEFINE f(c) == IF c.kind = "interrupt" /\ c.item = i /\ c.about = "latest"
                      THEN [c EXCEPT !.about = item[i].status] ELSE c
<1>1. Overtaken(rest, i) = {f(c) : c \in rest}
  BY DEF Overtaken
<1>2. item[i].status \in Statuses
  BY DEF RowsSound, WorkItems
<1>3. ASSUME NEW c \in rest
      PROVE  f(c) \in Calls /\ f(c).kind = c.kind /\ f(c).item = c.item
  <2>1. c \in Calls
    OBVIOUS
  <2>2. CASE c.kind = "interrupt" /\ c.item = i /\ c.about = "latest"
    <3>1. c \in [kind : {"cleanup", "interrupt"}, item : Items, about : Statuses \union {"latest"}]
      BY <2>1, <2>2 DEF Calls
    <3>2. [c EXCEPT !.about = item[i].status]
             \in [kind : {"cleanup", "interrupt"}, item : Items, about : Statuses \union {"latest"}]
      BY <1>2, <3>1
    <3>3. f(c) = [c EXCEPT !.about = item[i].status]
      BY <2>2
    <3>4. f(c).kind = c.kind /\ f(c).item = c.item
      BY <3>1, <3>3
    <3> HIDE DEF f
    <3> QED
      BY <3>2, <3>3, <3>4 DEF Calls
  <2>3. CASE ~(c.kind = "interrupt" /\ c.item = i /\ c.about = "latest")
    <3>1. f(c) = c
      BY <2>3
    <3> QED
      BY <2>1, <3>1
  <2> QED
    BY <2>2, <2>3
<1> HIDE DEF f
<1>4. Overtaken(rest, i) \in SUBSET Calls
  BY <1>1, <1>3
<1>5. ASSUME Awaited(rest)
      PROVE  Awaited(Overtaken(rest, i))
  <2> SUFFICES ASSUME NEW j \in Items, handler[j] = "cancelling" \/ late[j] = "cancelling"
               PROVE  \E c \in Overtaken(rest, i) : c.kind = "interrupt" /\ c.item = j
    BY DEF Awaited
  <2>1. PICK c \in rest : c.kind = "interrupt" /\ c.item = j
    BY <1>5 DEF Awaited
  <2>2. f(c) \in Overtaken(rest, i) /\ f(c).kind = "interrupt" /\ f(c).item = j
    BY <1>1, <1>3, <2>1
  <2> QED
    BY <2>2
<1>6. ASSUME Known(rest)
      PROVE  Known(Overtaken(rest, i))
  BY <1>1, <1>3, <1>6 DEF Known
<1> QED
  BY <1>4, <1>5, <1>6

\* An execution goes on, ends or begins; a late one at most ends.
LEMMA OneExecution ==
    ASSUME FibersSound, Known(calls), Remain, NEW i \in Items,
           NEW h \in {"none", "delivered", "running", handler[i]},
           handler' = [handler EXCEPT ![i] = h],
           late' = late \/ late' = [late EXCEPT ![i] = "none"],
           calls' = calls
    PROVE  CallStep
<1>1. /\ handler \in [Items -> {"none", "delivered", "running", "cancelling"}]
      /\ late \in [Items -> {"none", "running", "cancelling"}]
      /\ calls \subseteq Calls /\ Awaited(calls)
  BY DEF FibersSound
<1>2. handler' \in [Items -> {"none", "delivered", "running", "cancelling"}]
  BY <1>1
<1>3. late' \in [Items -> {"none", "running", "cancelling"}]
  BY <1>1
<1>4. \A j \in Items : /\ handler'[j] = "cancelling" => handler[j] = "cancelling"
                       /\ late'[j] = "cancelling" => late[j] = "cancelling"
  BY <1>1
<1>5. Awaited(calls)'
  BY <1>1, <1>4 DEF Awaited
<1>6. Known(calls)'
  BY <1>1 DEF Known, Remain, Exists, Calls
<1> QED
  BY <1>1, <1>2, <1>3, <1>5, <1>6 DEF CallStep, FibersSound

LEMMA SameCalls ==
    ASSUME FibersSound, Known(calls), Remain, UNCHANGED <<handler, late, calls>>
    PROVE  CallStep
BY DEF CallStep, FibersSound, Awaited, Known, Remain, Exists, Calls

\* calls become cs, and the executions stay.
LEMMA OtherCalls ==
    ASSUME FibersSound, Remain, NEW cs \in SUBSET Calls, Awaited(cs), Known(cs),
           calls' = cs, UNCHANGED <<handler, late>>
    PROVE  CallStep
<1>1. \A c \in cs : c.item \in Items
  BY DEF Calls
<1> QED
  BY <1>1 DEF CallStep, FibersSound, Awaited, Known, Remain, Exists

LEMMA AdmitCalls ==
    ASSUME RowsSound, FibersSound, Remain, NEW i \in Items, NEW w, NEW step,
           NEW rest \in SUBSET Calls, Awaited(rest), Known(rest), Admit(i, w, step, rest)
    PROVE  CallStep
<1>1. CASE calls' = rest /\ UNCHANGED <<handler, late>>
  BY <1>1, OtherCalls
<1>2. CASE Supersede(i) /\ calls' = Overtaken(rest, i)
  <2> DEFINE cs == Overtaken(rest, i)
  <2>1. cs \in SUBSET Calls /\ Awaited(cs) /\ Known(cs)
    BY OvertakenCalls
  <2>2. calls' = cs
    BY <1>2
  <2> HIDE DEF cs
  <2>3. /\ handler \in [Items -> {"none", "delivered", "running", "cancelling"}]
        /\ late \in [Items -> {"none", "running", "cancelling"}]
    BY DEF FibersSound
  <2>4. /\ handler' = [handler EXCEPT ![i] = "none"]
        /\ \/ late' = late
           \/ /\ handler[i] \in {"running", "cancelling"}
              /\ late' = [late EXCEPT ![i] = handler[i]]
    BY <1>2 DEF Supersede
  <2>5. handler' \in [Items -> {"none", "delivered", "running", "cancelling"}]
    BY <2>3, <2>4
  <2>6. late' \in [Items -> {"none", "running", "cancelling"}]
    BY <2>3, <2>4
  <2>7. \A j \in Items : handler'[j] = "cancelling" \/ late'[j] = "cancelling"
                            => handler[j] = "cancelling" \/ late[j] = "cancelling"
    BY <2>3, <2>4
  <2>8. Awaited(calls)'
    BY <2>1, <2>2, <2>7 DEF Awaited
  <2>9. Known(calls)'
    BY <2>1, <2>2 DEF Known, Remain, Exists, Calls
  <2> QED
    BY <2>1, <2>2, <2>5, <2>6, <2>8, <2>9 DEF CallStep, FibersSound
<1> QED
  BY <1>1, <1>2 DEF Admit

LEMMA HandlerCalls ==
    ASSUME IInv, Remain, NEW i \in Items, Handler(i) \/ Deliver(i)
    PROVE  CallStep
<1>0. FibersSound /\ Known(calls)
      /\ handler \in [Items -> {"none", "delivered", "running", "cancelling"}]
  BY DEF IInv, FibersSound
<1>1. CASE Deliver(i)
  <2>1. handler' = [handler EXCEPT ![i] = IF handler[i] = "none" THEN "delivered" ELSE handler[i]]
    BY <1>1 DEF Deliver
  <2> QED
    BY <1>0, <1>1, <2>1, OneExecution DEF Deliver
<1>2. CASE StartStep(i) \/ SkipStep(i) \/ ExpireStep(i)
  BY <1>0, <1>2, OneExecution DEF StartStep, SkipStep, ExpireStep
<1>3. CASE Advance(i) \/ AdvancePaused(i) \/ Settle(i) \/ AdvanceMerged(i)
  BY <1>0, <1>3, OneExecution DEF Advance, AdvancePaused, Settle, AdvanceMerged, EndHandler
<1>4. CASE FailStep(i) \/ PostponeStep(i) \/ StopStep(i) \/ FenceOff(i)
  BY <1>0, <1>4, OneExecution DEF FailStep, PostponeStep, StopStep, FenceOff, EndHandler
<1>5. CASE FenceOffLate(i) \/ StopLate(i)
  <2>1. handler' = [handler EXCEPT ![i] = handler[i]]
    BY <1>0, <1>5 DEF FenceOffLate, StopLate
  <2> QED
    BY <1>0, <1>5, <2>1, OneExecution DEF FenceOffLate, StopLate
<1> QED
  BY <1>1, <1>2, <1>3, <1>4, <1>5 DEF Handler

\* A call about a Work Item that exists begins.
LEMMA BeginCalls ==
    ASSUME FibersSound, Known(calls), Remain, NEW c \in Calls, Exists(c.item), Begin(c),
           UNCHANGED <<handler, late>>
    PROVE  CallStep
<1>1. calls' = calls \union {c}
  BY DEF Begin
<1>2. calls \union {c} \in SUBSET Calls /\ Awaited(calls \union {c})
  BY DEF FibersSound, Awaited
<1>3. Known(calls \union {c})
  BY DEF Known
<1> QED
  BY <1>1, <1>2, <1>3, OtherCalls

LEMMA OperatorCalls ==
    ASSUME IInv, Remain, NEW i \in Items, Operator(i)
    PROVE  CallStep
<1>0. /\ RowsSound /\ FibersSound /\ Known(calls)
      /\ calls \in SUBSET Calls /\ Awaited(calls)
      /\ "absent" \notin Steps
  BY LifecycleAssumption DEF IInv, FibersSound
<1>1. CASE Create(i) \/ Start(i) \/ Resume(i)
  <2>1. \/ UNCHANGED <<handler, late, calls>>
        \/ \E w, step : Admit(i, w, step, calls)
    BY <1>1 DEF Create, Start, Resume
  <2> QED
    BY <1>0, <2>1, AdmitCalls, SameCalls
<1>2. CASE Pause(i) \/ Abandon(i)
  BY <1>0, <1>2, SameCalls DEF Pause, Abandon
<1>3. CASE ReadForRetry(i)
  <2> DEFINE c == Call("retry", i, item[i].state)
  <2>1. Begin(c) /\ item[i].state \in Steps /\ UNCHANGED <<handler, late>>
    BY <1>3 DEF ReadForRetry
  <2>2. c \in Calls /\ c.item = i /\ Exists(i)
    BY <1>0, <2>1 DEF Call, Calls, Exists
  <2> HIDE DEF c
  <2> QED
    BY <1>0, <2>1, <2>2, BeginCalls
<1>4. CASE ReadForRestore(i)
  <2>1. PICK step \in Steps : Begin(Call("restore", i, step))
    BY <1>4 DEF ReadForRestore
  <2> DEFINE c == Call("restore", i, step)
  <2>2. Begin(c) /\ item[i].state \in {"needs_human", "failed"} /\ UNCHANGED <<handler, late>>
    BY <1>4, <2>1 DEF ReadForRestore
  <2>3. c \in Calls /\ c.item = i /\ Exists(i)
    BY <2>2 DEF Call, Calls, Exists
  <2> HIDE DEF c
  <2> QED
    BY <1>0, <2>2, <2>3, BeginCalls
<1>5. CASE AbandonNeedsHuman(i)
  <2> DEFINE c == Call("cleanup", i, "latest")
  <2>1. /\ Begin(c) \/ UNCHANGED calls
        /\ item[i].state = "needs_human" /\ UNCHANGED <<handler, late>>
    BY <1>5 DEF AbandonNeedsHuman
  <2>2. c \in Calls /\ c.item = i /\ Exists(i)
    BY <2>1 DEF Call, Calls, Exists
  <2> HIDE DEF c
  <2> QED
    BY <1>0, <2>1, <2>2, BeginCalls, SameCalls
<1>6. CASE ReadForInterrupt(i)
  <2> DEFINE c == Call("interrupt", i, "latest")
             cs == calls \union {c}
  <2>1. /\ calls' = cs /\ item[i].state \in Steps
        /\ handler' = [handler EXCEPT ![i] =
              IF handler[i] = "running" THEN "cancelling" ELSE handler[i]]
        /\ late' = [late EXCEPT ![i] = IF late[i] = "running" THEN "cancelling" ELSE late[i]]
    BY <1>6 DEF ReadForInterrupt, Begin
  <2>2. c \in Calls /\ c.kind = "interrupt" /\ c.item = i /\ Exists(i)
    BY <1>0, <2>1 DEF Call, Calls, Exists
  <2>3. /\ handler \in [Items -> {"none", "delivered", "running", "cancelling"}]
        /\ late \in [Items -> {"none", "running", "cancelling"}]
    BY <1>0 DEF FibersSound
  <2>4. handler' \in [Items -> {"none", "delivered", "running", "cancelling"}]
    BY <2>1, <2>3
  <2>5. late' \in [Items -> {"none", "running", "cancelling"}]
    BY <2>1, <2>3
  <2>6. \A j \in Items \ {i} : handler'[j] = handler[j] /\ late'[j] = late[j]
    BY <2>1, <2>3
  <2> HIDE DEF c
  <2>7. Awaited(calls)'
    BY <1>0, <2>1, <2>2, <2>6 DEF Awaited
  <2>8. cs \in SUBSET Calls
    BY <1>0, <2>2
  <2>9. Known(calls)'
    BY <1>0, <2>1, <2>2, <2>8 DEF Known, Remain, Exists, Calls
  <2> QED
    BY <2>1, <2>4, <2>5, <2>7, <2>8, <2>9 DEF CallStep, FibersSound
<1> QED
  BY <1>1, <1>2, <1>3, <1>4, <1>5, <1>6 DEF Operator

LEMMA CommitCalls ==
    ASSUME IInv, Remain, NEW c \in calls, Commit(c)
    PROVE  CallStep
<1> DEFINE rest == calls \ {c}
<1>0. /\ RowsSound /\ FibersSound /\ c.item \in Items
      /\ rest \in SUBSET Calls /\ Known(rest) /\ Awaited(calls)
  BY DEF IInv, FibersSound, Known, Calls
<1>1. Awaited(rest)
  <2>1. CASE c.kind # "interrupt"
    BY <1>0, <2>1 DEF Awaited
  <2>2. CASE c.kind = "interrupt"
    <3>1. handler[c.item] # "cancelling" /\ late[c.item] # "cancelling"
      BY <2>2 DEF Commit, CommitRetry, CommitAbandon, CleanupFails, CommitInterrupt
    <3> QED
      BY <1>0, <3>1 DEF Awaited
  <2> QED
    BY <2>1, <2>2
<1>2. \/ calls' = rest /\ UNCHANGED <<handler, late>>
      \/ \E w, step : Admit(c.item, w, step, rest)
  BY DEF Commit, CommitRetry, CommitAbandon, CleanupFails, CommitInterrupt
<1> HIDE DEF rest
<1> QED
  BY <1>0, <1>1, <1>2, OtherCalls, AdmitCalls

LEMMA PassCalls ==
    ASSUME IInv, Remain, NEW p \in Passes, Pass(p)
    PROVE  CallStep
<1>0. /\ RowsSound /\ FibersSound /\ Known(calls)
      /\ calls \in SUBSET Calls /\ Awaited(calls)
  BY DEF IInv, FibersSound
<1>1. CASE BeginPass(p) \/ CountFree(p) \/ ListWaiters(p) \/ EndRound(p) \/ \E i \in Items : BeginWake(i, p)
  BY <1>0, <1>1, SameCalls DEF BeginPass, CountFree, ListWaiters, EndRound, BeginWake
<1>2. CASE AdmitWaiter(p)
  <2>1. \/ UNCHANGED <<handler, late, calls>>
        \/ \E e \in pass[p].todo : Admit(e.item, item[e.item], e.state, calls)
    BY <1>2 DEF AdmitWaiter
  <2>2. \A e \in pass[p].todo : e.item \in Items
    BY DEF IInv, PassesSound, PassStates
  <2> QED
    BY <1>0, <2>1, <2>2, SameCalls, AdmitCalls
<1>3. CASE CommitWake(p)
  <2>1. \/ UNCHANGED <<handler, late, calls>>
        \/ \E w, step : Admit(pass[p].wake, w, step, calls)
    BY <1>3 DEF CommitWake
  <2>2. pass[p].wake \in Items
    BY <1>3 DEF CommitWake, IInv, PassesSound
  <2> QED
    BY <1>0, <2>1, <2>2, SameCalls, AdmitCalls
<1>4. CASE AckWake(p)
  BY <1>0, <1>4, SameCalls DEF AckWake
<1> QED
  BY <1>1, <1>2, <1>3, <1>4 DEF Pass

LEMMA StepCalls ==
    ASSUME IInv, Remain, Next
    PROVE  CallStep
<1>0. FibersSound /\ Known(calls)
  BY DEF IInv
<1>1. CASE SetLimit \/ RecoverOrphans \/ \E i \in Items : LockExpires(i) \/ DeadlinePasses(i)
  BY <1>0, <1>1, SameCalls DEF SetLimit, RecoverOrphans, LockExpires, DeadlinePasses
<1>2. CASE Restart
  BY <1>2 DEF Restart, CallStep, FibersSound, Awaited, Known
<1> QED
  BY <1>1, <1>2, HandlerCalls, OperatorCalls, CommitCalls, PassCalls DEF Next


-----------------------------------------------------------------------------
(* Admission passes. *)

PassStep == PassesSound' /\ Listeds'

LEMMA SamePasses ==
    ASSUME PassesSound, Listeds, Remain, pass' = pass
    PROVE  PassStep
BY DEF PassStep, PassesSound, PassStates, Listeds, Remain, Exists

LEMMA OnePass ==
    ASSUME PassesSound, Listeds, Remain, NEW p \in Passes, NEW q \in PassStates,
           q.phase \in {"wake", "ack"} => q.wake \in Items, \A e \in q.todo : Exists(e.item),
           pass' = [pass EXCEPT ![p] = q]
    PROVE  PassStep
<1>1. pass \in [Passes -> PassStates]
  BY DEF PassesSound
<1>2. /\ pass' \in [Passes -> PassStates] /\ pass'[p] = q
      /\ \A r \in Passes : r # p => pass'[r] = pass[r]
  BY <1>1
<1>3. PassesSound'
  BY <1>2 DEF PassesSound
<1>4. \A r \in Passes : \A e \in pass'[r].todo : e.item \in Items
  BY <1>2 DEF PassStates
<1>5. \A r \in Passes : \A e \in pass'[r].todo : Exists(e.item)
  BY <1>2 DEF Listeds
<1>6. Listeds'
  BY <1>4, <1>5 DEF Listeds, Remain, Exists
<1> QED
  BY <1>3, <1>6 DEF PassStep

LEMMA IdlePassIs ==
    /\ IdlePass \in PassStates /\ IdlePass.phase = "idle" /\ IdlePass.todo = {}
    /\ \A phase \in {"count", "wake", "ack"}, i \in Items \union {NoItem} :
          LET q == [IdlePass EXCEPT !.phase = phase, !.wake = i] IN
          q \in PassStates /\ q.phase = phase /\ q.wake = i /\ q.todo = {}
BY DEF IdlePass, PassStates

LEMMA PassEndsSoundly ==
    ASSUME PassesSound, Listeds, Remain, NEW p \in Passes, PassEnds(p)
    PROVE  PassStep
<1>0. pass[p].wake \in Items \union {NoItem}
  BY DEF PassesSound, PassStates
<1>1. CASE pass[p].wake = NoItem
  <2>1. pass' = [pass EXCEPT ![p] = IdlePass]
    BY <1>1 DEF PassEnds
  <2> QED
    BY <2>1, OnePass, IdlePassIs
<1>2. CASE pass[p].wake # NoItem
  <2> DEFINE q == Round(p, "wake")
  <2>1. q \in PassStates /\ q.wake \in Items /\ q.todo = {}
    BY <1>0, <1>2, IdlePassIs DEF Round
  <2>2. pass' = [pass EXCEPT ![p] = q]
    BY <1>2 DEF PassEnds
  <2> HIDE DEF q
  <2> QED
    BY <2>1, <2>2, OnePass
<1> QED
  BY <1>1, <1>2

\* Who is listed exists and is not terminal.
LEMMA ListedWaiters ==
    ASSUME RowsSound, NEW n \in Nat
    PROVE  /\ Listed(n) \in SUBSET [item : Items, state : Steps \union {"needs_human"}, rank : Nat]
           /\ \A e \in Listed(n) : Exists(e.item)
<1> DEFINE waiting == {i \in InLine : Waiter(i)}
           rank(i) == Cardinality({j \in waiting : <<j, i>> \in line.before})
<1>1. Listed(n) = {[item |-> i, state |-> item[i].state, rank |-> rank(i)] :
                      i \in {j \in waiting : rank(j) < n}}
  BY DEF Listed
<1>2. waiting \in SUBSET Items
  BY DEF RowsSound, Lines, InLine
<1>3. \A i \in waiting : Exists(i) /\ item[i].state \in Steps \union {"needs_human"}
  BY <1>2 DEF RowsSound, WorkItems, Settled, Waiter, InLine, Waits, Exists
<1>4. \A i \in waiting : rank(i) \in Nat
  <2> TAKE i \in waiting
  <2>1. IsFiniteSet({j \in waiting : <<j, i>> \in line.before})
    BY <1>2, LifecycleAssumption, FS_Subset
  <2> QED
    BY <2>1, FS_CardinalityType
<1> HIDE DEF waiting, rank
<1> QED
  BY <1>1, <1>2, <1>3, <1>4

LEMMA PassPasses ==
    ASSUME IInv, Remain, NEW p \in Passes, Pass(p)
    PROVE  PassStep
<1>0. /\ RowsSound /\ limit \in Limits /\ PassesSound /\ Listeds
      /\ pass[p] \in PassStates
  BY DEF IInv, PassesSound
<1>1. CASE BeginPass(p)
  <2> DEFINE q == [pass[p] EXCEPT !.phase = "count"]
  <2>1. pass' = [pass EXCEPT ![p] = q]
    BY <1>1 DEF BeginPass
  <2>2. q \in PassStates /\ q.phase = "count" /\ q.todo = pass[p].todo
    BY <1>0 DEF PassStates
  <2> HIDE DEF q
  <2> QED
    BY <1>0, <2>1, <2>2, OnePass DEF Listeds
<1>2. CASE CountFree(p)
  <2>1. CASE Occupied >= limit
    BY <1>0, <1>2, <2>1, PassEndsSoundly DEF CountFree
  <2>2. CASE ~(Occupied >= limit)
    <3> DEFINE free == limit - Occupied
               q == [pass[p] EXCEPT !.phase = "list", !.free = free]
    <3>1. pass' = [pass EXCEPT ![p] = q]
      BY <1>2, <2>2 DEF CountFree
    <3>2. free \in Nat
      BY <1>0, <2>2, OccupiedIs
    <3> HIDE DEF free
    <3>3. q \in PassStates /\ q.phase = "list" /\ q.todo = pass[p].todo
      BY <1>0, <3>2 DEF PassStates
    <3> HIDE DEF q
    <3> QED
      BY <1>0, <3>1, <3>3, OnePass DEF Listeds
  <2> QED
    BY <2>1, <2>2
<1>3. CASE ListWaiters(p)
  <2> DEFINE waiters == Listed(pass[p].free)
             short == Cardinality(waiters) < pass[p].free
             q == [pass[p] EXCEPT !.phase = "admit", !.free = 0, !.todo = waiters,
                                  !.short = short]
  <2>1. PassEnds(p) \/ pass' = [pass EXCEPT ![p] = q]
    BY <1>3 DEF ListWaiters
  <2>2. /\ waiters \in SUBSET [item : Items, state : Steps \union {"needs_human"}, rank : Nat]
        /\ \A e \in waiters : Exists(e.item)
    BY <1>0, ListedWaiters DEF PassStates
  <2>3. short \in BOOLEAN
    OBVIOUS
  <2> HIDE DEF waiters, short
  <2>4. q \in PassStates /\ q.phase = "admit" /\ q.todo = waiters
    BY <1>0, <2>2, <2>3 DEF PassStates
  <2> HIDE DEF q
  <2> QED
    BY <1>0, <2>1, <2>2, <2>4, OnePass, PassEndsSoundly
<1>4. CASE AdmitWaiter(p)
  <2> PICK e \in pass[p].todo : pass' = [pass EXCEPT ![p].todo = {}] \/ Skip(p, e) \/ Took(p, e)
    BY <1>4 DEF AdmitWaiter
  <2> DEFINE u == [pass[p] EXCEPT !.todo = {}]
             v == [pass[p] EXCEPT !.todo = @ \ {e}]
             w == [pass[p] EXCEPT !.todo = @ \ {e}, !.any = TRUE]
  <2>1. \/ pass' = [pass EXCEPT ![p] = u]
        \/ pass' = [pass EXCEPT ![p] = v]
        \/ pass' = [pass EXCEPT ![p] = w]
    BY <1>0 DEF Skip, Took, PassesSound
  <2>2. u \in PassStates /\ u.phase = pass[p].phase /\ u.wake = pass[p].wake /\ u.todo = {}
    BY <1>0 DEF PassStates
  <2>3. /\ v \in PassStates /\ v.phase = pass[p].phase /\ v.wake = pass[p].wake
        /\ v.todo = pass[p].todo \ {e}
    BY <1>0 DEF PassStates
  <2>4. /\ w \in PassStates /\ w.phase = pass[p].phase /\ w.wake = pass[p].wake
        /\ w.todo = pass[p].todo \ {e}
    BY <1>0 DEF PassStates
  <2>5. pass[p].phase \in {"wake", "ack"} => pass[p].wake \in Items
    BY <1>0 DEF PassesSound
  <2>6. \A f \in pass[p].todo : Exists(f.item)
    BY <1>0 DEF Listeds
  <2> HIDE DEF u, v, w
  <2> QED
    BY <1>0, <2>1, <2>2, <2>3, <2>4, <2>5, <2>6, OnePass
<1>5. CASE EndRound(p)
  <2>1. CASE PassEnds(p)
    BY <1>0, <2>1, PassEndsSoundly
  <2>2. CASE pass' = [pass EXCEPT ![p] = Round(p, "count")]
    <3> DEFINE q == Round(p, "count")
    <3>1. pass[p].wake \in Items \union {NoItem}
      BY <1>0 DEF PassStates
    <3>2. q \in PassStates /\ q.phase = "count" /\ q.todo = {}
      BY <3>1, IdlePassIs DEF Round
    <3>3. pass' = [pass EXCEPT ![p] = q]
      BY <2>2
    <3> HIDE DEF q
    <3> QED
      BY <1>0, <3>2, <3>3, OnePass
  <2> QED
    BY <1>5, <2>1, <2>2 DEF EndRound
<1>6. CASE CommitWake(p)
  <2> DEFINE q == Round(p, "ack")
  <2>1. pass[p].wake \in Items /\ pass' = [pass EXCEPT ![p] = q]
    BY <1>0, <1>6 DEF CommitWake, PassesSound
  <2>2. q \in PassStates /\ q.wake \in Items /\ q.todo = {}
    BY <2>1, IdlePassIs DEF Round
  <2> HIDE DEF q
  <2> QED
    BY <1>0, <2>1, <2>2, OnePass
<1>8. CASE AckWake(p)
  BY <1>0, <1>8, OnePass, IdlePassIs DEF AckWake
<1>7. ASSUME NEW i \in Items, BeginWake(i, p)
      PROVE  PassStep
  <2> DEFINE q == [pass[p] EXCEPT !.phase = "count", !.wake = i]
  <2>1. pass' = [pass EXCEPT ![p] = q]
    BY <1>7 DEF BeginWake
  <2>2. q \in PassStates /\ q.phase = "count" /\ q.todo = pass[p].todo
    BY <1>0 DEF PassStates
  <2> HIDE DEF q
  <2> QED
    BY <1>0, <2>1, <2>2, OnePass DEF Listeds
<1> QED
  BY <1>1, <1>2, <1>3, <1>4, <1>5, <1>6, <1>7, <1>8 DEF Pass

LEMMA StepPasses ==
    ASSUME IInv, Remain, Next
    PROVE  PassStep
<1>0. PassesSound /\ Listeds
  BY DEF IInv
<1>1. ASSUME NEW i \in Items, Handler(i) \/ Deliver(i)
      PROVE  pass' = pass
  BY <1>1 DEF Handler, Deliver, StartStep, SkipStep, ExpireStep, Advance, AdvancePaused, Settle,
              AdvanceMerged, FailStep, PostponeStep, StopStep, FenceOff, FenceOffLate, StopLate
<1>2. ASSUME NEW i \in Items, Operator(i)
      PROVE  pass' = pass
  BY <1>2 DEF Operator, Create, Pause, Start, Resume, Abandon, ReadForRetry, ReadForRestore,
              AbandonNeedsHuman, ReadForInterrupt
<1>3. CASE SetLimit \/ RecoverOrphans \/ \E i \in Items : LockExpires(i) \/ DeadlinePasses(i)
  BY <1>0, <1>3, SamePasses DEF SetLimit, RecoverOrphans, LockExpires, DeadlinePasses
<1>4. ASSUME NEW c \in calls, Commit(c)
      PROVE  pass' = pass
  BY <1>4 DEF Commit, CommitRetry, CommitAbandon, CleanupFails, CommitInterrupt
<1>5. CASE Restart
  <2>1. pass' = [p \in Passes |-> IdlePass]
    BY <1>5 DEF Restart
  <2> QED
    BY <2>1, IdlePassIs DEF PassStep, PassesSound, Listeds
<1> QED
  BY <1>0, <1>1, <1>2, <1>3, <1>4, <1>5, SamePasses, PassPasses DEF Next


-----------------------------------------------------------------------------
(* A step at work is running until its job is gone. *)

\* The row w has lost its job, or is as far as that of i was.
AsFar(i, w) == w.job = NoJob \/ (w.status = item[i].status /\ item[i].job # NoJob)

LEMMA OneAtWork ==
    ASSUME RowsSound, FibersSound, AtWork, NEW i \in Items, NEW w,
           item' = [item EXCEPT ![i] = w],
           \A j \in Items \ {i} : handler'[j] = handler[j],
           handler'[i] \in {"running", "cancelling"} /\ w.job # NoJob => w.status = "running"
    PROVE  AtWork'
<1>1. item \in [Items -> WorkItems]
  BY DEF RowsSound
<1>2. item'[i] = w /\ \A j \in Items \ {i} : item'[j] = item[j]
  BY <1>1
<1> QED
  BY <1>2 DEF AtWork, HoldsJob, Working

LEMMA EndsAtWork ==
    ASSUME RowsSound, FibersSound, AtWork, NEW i \in Items,
           \E w : item' = [item EXCEPT ![i] = w], handler' = [handler EXCEPT ![i] = "none"]
    PROVE  AtWork'
<1>1. handler'[i] = "none" /\ \A j \in Items \ {i} : handler'[j] = handler[j]
  BY DEF FibersSound
<1> QED
  BY <1>1, OneAtWork

LEMMA StaysAtWork ==
    ASSUME RowsSound, FibersSound, AtWork, NEW i \in Items, NEW w,
           item' = [item EXCEPT ![i] = w], handler' = handler, AsFar(i, w)
    PROVE  AtWork'
<1>1. handler'[i] \in {"running", "cancelling"} /\ w.job # NoJob => w.status = "running"
  BY DEF AtWork, HoldsJob, Working, AsFar
<1> QED
  BY <1>1, OneAtWork

LEMMA ParkAtWork ==
    ASSUME RowsSound, FibersSound, AtWork, NEW i \in Items, NEW w \in WorkItems, Park(i, w),
           handler' = handler, AsFar(i, w)
    PROVE  AtWork'
<1> DEFINE v == [w EXCEPT !.holds = FALSE]
<1>1. item' = [item EXCEPT ![i] = v]
  BY DEF Park
<1>2. v.status = w.status /\ v.job = w.job
  BY Fields
<1> HIDE DEF v
<1>3. AsFar(i, v)
  BY <1>2 DEF AsFar
<1> QED
  BY <1>1, <1>3, StaysAtWork

LEMMA AdmitAtWork ==
    ASSUME RowsSound, FibersSound, AtWork, NEW i \in Items, NEW w, AsFar(i, w),
           NEW step, NEW rest, Admit(i, w, step, rest)
    PROVE  AtWork'
<1>1. CASE Wait(i, w) /\ handler' = handler
  BY <1>1, StaysAtWork DEF Wait
<1>2. CASE /\ \E v : item' = [item EXCEPT ![i] = v]
           /\ Supersede(i)
  <2>1. handler' = [handler EXCEPT ![i] = "none"]
    BY <1>2 DEF Supersede
  <2> QED
    BY <1>2, <2>1, EndsAtWork
<1> QED
  BY <1>1, <1>2 DEF Admit

LEMMA SameAtWork ==
    ASSUME AtWork, UNCHANGED <<item, handler>>
    PROVE  AtWork'
BY DEF AtWork, HoldsJob, Working

LEMMA HandlerAtWork ==
    ASSUME IInv, NEW i \in Items, Handler(i) \/ Deliver(i)
    PROVE  AtWork'
<1>0. /\ RowsSound /\ FibersSound /\ AtWork /\ item[i] \in WorkItems
      /\ item \in [Items -> WorkItems]
      /\ handler \in [Items -> {"none", "delivered", "running", "cancelling"}]
  BY DEF IInv, FibersSound, RowsSound
<1>1. CASE Deliver(i)
  <2> DEFINE job == ClaimedRow(item[i].job)
             w == [item[i] EXCEPT !.job = job]
  <2>1. item' = [item EXCEPT ![i] = w]
    BY <1>1 DEF Deliver
  <2>2. w.status = item[i].status
    BY <1>0 DEF WorkItems
  <2>3. /\ \A j \in Items \ {i} : handler'[j] = handler[j]
        /\ handler'[i] \in {"running", "cancelling"} => handler[i] = handler'[i]
    BY <1>0, <1>1 DEF Deliver
  <2> HIDE DEF w
  <2>4. handler'[i] \in {"running", "cancelling"} => w.status = "running"
    BY <1>0, <1>1, <2>2, <2>3 DEF AtWork, HoldsJob, Working, Deliver
  <2> QED
    BY <1>0, <2>1, <2>3, <2>4, OneAtWork
<1>2. CASE StartStep(i)
  <2> DEFINE w == [item[i] EXCEPT !.status = "running"]
  <2>1. item' = [item EXCEPT ![i] = w]
    BY <1>2 DEF StartStep
  <2>2. w.status = "running"
    BY <1>0 DEF WorkItems
  <2>3. \A j \in Items \ {i} : handler'[j] = handler[j]
    BY <1>0, <1>2 DEF StartStep
  <2> HIDE DEF w
  <2> QED
    BY <1>0, <2>1, <2>2, <2>3, OneAtWork
<1>3. CASE SkipStep(i) \/ ExpireStep(i)
  BY <1>0, <1>3, EndsAtWork DEF SkipStep, ExpireStep, Park
<1>4. CASE Advance(i) \/ AdvancePaused(i) \/ Settle(i) \/ AdvanceMerged(i)
  BY <1>0, <1>4, EndsAtWork DEF Advance, AdvancePaused, Settle, AdvanceMerged, EndHandler, Park
<1>5. CASE FailStep(i) \/ PostponeStep(i) \/ StopStep(i)
  BY <1>0, <1>5, EndsAtWork DEF FailStep, PostponeStep, StopStep, EndHandler, Park
<1>6. CASE FenceOff(i)
  <2>1. item' = [item EXCEPT ![i] = item[i]] /\ handler' = [handler EXCEPT ![i] = "none"]
    BY <1>0, <1>6 DEF FenceOff, EndHandler
  <2> QED
    BY <1>0, <2>1, EndsAtWork
<1>7. CASE FenceOffLate(i)
  BY <1>0, <1>7, SameAtWork DEF FenceOffLate
<1>8. CASE StopLate(i)
  BY <1>0, <1>8, ParkAtWork DEF StopLate, AsFar
<1> QED
  BY <1>1, <1>2, <1>3, <1>4, <1>5, <1>6, <1>7, <1>8 DEF Handler

LEMMA OperatorAtWork ==
    ASSUME IInv, NEW i \in Items, Operator(i)
    PROVE  AtWork'
<1>0. /\ RowsSound /\ FibersSound /\ AtWork /\ item[i] \in WorkItems
      /\ item \in [Items -> WorkItems]
      /\ handler \in [Items -> {"none", "delivered", "running", "cancelling"}]
  BY DEF IInv, FibersSound, RowsSound
<1>1. CASE Create(i)
  <2> DEFINE w == [item[i] EXCEPT !.state = FirstStep]
  <2>1. Admit(i, w, FirstStep, calls)
    BY <1>1 DEF Create
  <2>2. w.status = item[i].status /\ w.job = item[i].job
    BY <1>0 DEF WorkItems
  <2> HIDE DEF w
  <2>3. AsFar(i, w)
    BY <2>2 DEF AsFar
  <2> QED
    BY <1>0, <2>1, <2>3, AdmitAtWork
<1>2. CASE Start(i)
  <2> DEFINE w == [item[i] EXCEPT !.paused = FALSE]
  <2>1. \/ item' = [item EXCEPT ![i] = w] /\ handler' = handler
        \/ Admit(i, w, w.state, calls)
    BY <1>2 DEF Start
  <2>2. w.status = item[i].status /\ w.job = item[i].job
    BY <1>0 DEF WorkItems
  <2> HIDE DEF w
  <2>3. AsFar(i, w)
    BY <2>2 DEF AsFar
  <2> QED
    BY <1>0, <2>1, <2>3, AdmitAtWork, StaysAtWork
<1>3. CASE Resume(i)
  <2> DEFINE w == [item[i] EXCEPT !.state = FirstStep, !.paused = FALSE]
  <2>1. Admit(i, w, FirstStep, calls)
    BY <1>3 DEF Resume
  <2>2. w.status = item[i].status /\ w.job = item[i].job
    BY <1>0 DEF WorkItems
  <2> HIDE DEF w
  <2>3. AsFar(i, w)
    BY <2>2 DEF AsFar
  <2> QED
    BY <1>0, <2>1, <2>3, AdmitAtWork
<1>4. CASE Pause(i) \/ Abandon(i)
  <2> DEFINE u == Cancelled(item[i])
             v == [u EXCEPT !.paused = TRUE]
             w == [u EXCEPT !.state = "abandoned"]
  <2>1. /\ handler' = handler
        /\ Park(i, v) \/ Park(i, w) \/ item' = [item EXCEPT ![i] = v]
    BY <1>4 DEF Pause, Abandon
  <2>2. u \in WorkItems /\ (u.job = NoJob \/ u = item[i]) /\ "abandoned" \in Settled
    BY <1>0, CancelledRow DEF Settled, Terminal
  <2> HIDE DEF u
  <2>3. v \in WorkItems /\ v.status = u.status /\ v.job = u.job
    BY <2>2, Fields
  <2>4. w \in WorkItems /\ w.status = u.status /\ w.job = u.job
    BY <2>2, Fields
  <2> HIDE DEF v, w
  <2>5. AsFar(i, v) /\ AsFar(i, w)
    BY <2>2, <2>3, <2>4 DEF AsFar
  <2> QED
    BY <1>0, <2>1, <2>3, <2>4, <2>5, ParkAtWork, StaysAtWork
<1>5. CASE ReadForRetry(i) \/ ReadForRestore(i)
  BY <1>0, <1>5, SameAtWork DEF ReadForRetry, ReadForRestore
<1>6. CASE AbandonNeedsHuman(i)
  <2> DEFINE w == [item[i] EXCEPT !.holds = TRUE]
  <2>1. /\ handler' = handler
        /\ item' = [item EXCEPT ![i] = w] \/ item' = [item EXCEPT ![i] = item[i]]
    BY <1>6 DEF AbandonNeedsHuman, Wait
  <2>2. AsFar(i, w) /\ AsFar(i, item[i])
    BY <1>0 DEF WorkItems, AsFar
  <2> HIDE DEF w
  <2> QED
    BY <1>0, <2>1, <2>2, StaysAtWork
<1>7. CASE ReadForInterrupt(i)
  <2>1. item' = item /\ \A j \in Items : handler'[j] \in {"running", "cancelling"}
                              => handler[j] \in {"running", "cancelling"}
    BY <1>0, <1>7 DEF ReadForInterrupt
  <2> QED
    BY <1>0, <2>1 DEF AtWork, HoldsJob, Working
<1> QED
  BY <1>1, <1>2, <1>3, <1>4, <1>5, <1>6, <1>7 DEF Operator

LEMMA CommitAtWork ==
    ASSUME IInv, NEW c \in calls, Commit(c)
    PROVE  AtWork'
<1> DEFINE i == c.item
           w == item[i]
<1>0. /\ RowsSound /\ FibersSound /\ AtWork /\ i \in Items /\ w \in WorkItems
  BY DEF IInv, FibersSound, RowsSound, Calls
<1>1. CASE CommitRetry(c)
  <2> DEFINE u == [w EXCEPT !.state = c.about, !.paused = FALSE]
  <2>1. \/ UNCHANGED <<item, handler>>
        \/ Admit(i, w, c.about, calls \ {c})
        \/ Admit(i, u, c.about, calls \ {c})
    BY <1>1 DEF CommitRetry
  <2>2. AsFar(i, u) /\ AsFar(i, w)
    BY <1>0 DEF WorkItems, AsFar
  <2> HIDE DEF u
  <2> QED
    BY <1>0, <2>1, <2>2, SameAtWork, AdmitAtWork
<1>2. CASE CommitAbandon(c)
  <2> DEFINE u == Cancelled(w)
             v == [u EXCEPT !.state = "abandoned"]
  <2>1. handler' = handler /\ (Park(i, v) \/ item' = item)
    BY <1>2 DEF CommitAbandon
  <2>2. u \in WorkItems /\ (u.job = NoJob \/ u = w) /\ "abandoned" \in Settled
    BY <1>0, CancelledRow DEF Settled, Terminal
  <2> HIDE DEF u
  <2>3. v \in WorkItems /\ v.status = u.status /\ v.job = u.job
    BY <2>2, Fields
  <2> HIDE DEF v
  <2>4. AsFar(i, v)
    BY <2>2, <2>3 DEF AsFar
  <2> QED
    BY <1>0, <2>1, <2>3, <2>4, ParkAtWork, SameAtWork
<1>3. CASE CleanupFails(c)
  BY <1>0, <1>3, SameAtWork DEF CleanupFails
<1>4. CASE CommitInterrupt(c)
  <2> DEFINE u == Finished(w, "interrupted")
             stopped == IF c.about = "latest" THEN Acknowledged(u) ELSE w
             v == [stopped EXCEPT !.paused = FALSE]
  <2>1. handler' = handler /\ (Park(i, v) \/ item' = item)
    BY <1>4 DEF CommitInterrupt
  <2>2. u \in WorkItems
    <3>1. "interrupted" \in Statuses
      BY DEF Statuses
    <3> QED
      BY <1>0, <3>1, FinishedRow
  <2>3. Acknowledged(u) \in WorkItems /\ Acknowledged(u).job = NoJob
    BY <2>2, AcknowledgedRow
  <2>4. stopped \in WorkItems /\ AsFar(i, stopped)
    BY <1>0, <2>3 DEF AsFar
  <2> HIDE DEF u, stopped
  <2>5. v \in WorkItems /\ v.job = stopped.job /\ v.status = stopped.status
    BY <2>4, Fields
  <2> HIDE DEF v
  <2>6. AsFar(i, v)
    BY <2>4, <2>5 DEF AsFar
  <2> QED
    BY <1>0, <2>1, <2>5, <2>6, ParkAtWork, SameAtWork
<1> QED
  BY <1>1, <1>2, <1>3, <1>4 DEF Commit

LEMMA PassAtWork ==
    ASSUME IInv, NEW p \in Passes, Pass(p)
    PROVE  AtWork'
<1>0. /\ RowsSound /\ FibersSound /\ AtWork /\ item \in [Items -> WorkItems]
  BY DEF IInv, RowsSound
<1>1. CASE BeginPass(p) \/ CountFree(p) \/ ListWaiters(p) \/ EndRound(p)
  BY <1>0, <1>1, SameAtWork DEF BeginPass, CountFree, ListWaiters, EndRound
<1>2. CASE AdmitWaiter(p)
  <2> PICK e \in pass[p].todo :
         \/ UNCHANGED <<item, handler>>
         \/ /\ handler' = handler
            /\ \/ item' = [item EXCEPT ![e.item] = item[e.item]]
               \/ item' = [item EXCEPT ![e.item].holds = TRUE]
         \/ Admit(e.item, item[e.item], e.state, calls)
    BY <1>2 DEF AdmitWaiter, Wait
  <2> DEFINE i == e.item
             w == [item[i] EXCEPT !.holds = TRUE]
  <2>1. i \in Items
    BY DEF IInv, PassesSound, PassStates
  <2>2. AsFar(i, w) /\ AsFar(i, item[i])
    BY <1>0, <2>1 DEF WorkItems, AsFar
  <2>3. \/ UNCHANGED <<item, handler>>
        \/ /\ handler' = handler
           /\ item' = [item EXCEPT ![i] = item[i]] \/ item' = [item EXCEPT ![i] = w]
        \/ Admit(i, item[i], e.state, calls)
    OBVIOUS
  <2> HIDE DEF i, w
  <2> QED
    BY <1>0, <2>1, <2>2, <2>3, SameAtWork, StaysAtWork, AdmitAtWork
<1>3. CASE CommitWake(p) \/ AckWake(p)
  <2> DEFINE i == pass[p].wake
             v == Acknowledged(item[i])
  <2>1. i \in Items
    BY <1>3 DEF CommitWake, AckWake, IInv, PassesSound
  <2>2. \/ UNCHANGED <<item, handler>>
        \/ handler' = handler /\ item' = [item EXCEPT ![i] = v]
        \/ Admit(i, item[i], item[i].step, calls)
    BY <1>3 DEF CommitWake, AckWake
  <2>3. AsFar(i, v) /\ AsFar(i, item[i])
    BY <1>0, <2>1, AcknowledgedRow DEF AsFar
  <2> HIDE DEF i, v
  <2> QED
    BY <1>0, <2>1, <2>2, <2>3, SameAtWork, StaysAtWork, AdmitAtWork
<1>4. ASSUME NEW i \in Items, BeginWake(i, p)
      PROVE  AtWork'
  <2> DEFINE job == ClaimedRow(item[i].job)
             w == [item[i] EXCEPT !.job = job]
  <2>1. item' = [item EXCEPT ![i] = w] /\ handler' = handler
    BY <1>4 DEF BeginWake
  <2>2. AsFar(i, w)
    BY <1>0, <1>4 DEF BeginWake, WorkItems, AsFar
  <2> HIDE DEF w
  <2> QED
    BY <1>0, <2>1, <2>2, StaysAtWork
<1> QED
  BY <1>1, <1>2, <1>3, <1>4 DEF Pass

LEMMA FaultAtWork ==
    ASSUME IInv, \/ \E i \in Items : LockExpires(i) \/ DeadlinePasses(i)
                 \/ RecoverOrphans \/ Restart
    PROVE  AtWork'
<1>0. /\ RowsSound /\ FibersSound /\ AtWork /\ item \in [Items -> WorkItems]
  BY DEF IInv, RowsSound
<1>1. ASSUME NEW i \in Items, LockExpires(i)
      PROVE  AtWork'
  <2> DEFINE job == ExpiredRow(item[i].job)
             w == [item[i] EXCEPT !.job = job]
  <2>1. item' = [item EXCEPT ![i] = w] /\ handler' = handler
    BY <1>1 DEF LockExpires
  <2>2. AsFar(i, w)
    BY <1>0, <1>1 DEF LockExpires, WorkItems, AsFar
  <2> HIDE DEF w
  <2> QED
    BY <1>0, <2>1, <2>2, StaysAtWork
<1>2. ASSUME NEW i \in Items, DeadlinePasses(i)
      PROVE  AtWork'
  <2> DEFINE job == IF item[i].job = NoJob THEN NoJob ELSE DueRow(item[i].job)
             w == [item[i] EXCEPT !.due = TRUE, !.job = job]
  <2>1. item' = [item EXCEPT ![i] = w] /\ handler' = handler
    BY <1>2 DEF DeadlinePasses
  <2>2. AsFar(i, w)
    BY <1>0 DEF WorkItems, AsFar
  <2> HIDE DEF job
  <2> HIDE DEF w
  <2> QED
    BY <1>0, <2>1, <2>2, StaysAtWork
<1>3. CASE RecoverOrphans
  <2> PICK found \in SUBSET Orphans : Interrupted(found)
    BY <1>3 DEF RecoverOrphans
  <2>1. \A i \in Items : item'[i].job = NoJob \/ item'[i] = item[i]
    <3> TAKE i \in Items
    <3>1. CASE i \in found
      BY <1>0, <3>1 DEF Interrupted, WorkItems
    <3>2. CASE i \notin found
      BY <3>2 DEF Interrupted
    <3> QED
      BY <3>1, <3>2
  <2>2. handler' = handler
    BY <1>3 DEF RecoverOrphans
  <2> QED
    BY <1>0, <2>1, <2>2 DEF AtWork, HoldsJob, Working
<1>4. CASE Restart
  BY <1>4 DEF Restart, AtWork, HoldsJob, Working
<1> QED
  BY <1>1, <1>2, <1>3, <1>4

LEMMA StepAtWork ==
    ASSUME IInv, Next
    PROVE  AtWork'
<1>1. CASE SetLimit
  BY <1>1, SameAtWork DEF SetLimit, IInv
<1>2. ASSUME NEW i \in Items, LockExpires(i) \/ DeadlinePasses(i)
      PROVE  AtWork'
  BY <1>2, FaultAtWork
<1> QED
  BY <1>1, <1>2, HandlerAtWork, OperatorAtWork, CommitAtWork, PassAtWork, FaultAtWork DEF Next


-----------------------------------------------------------------------------
(* The inductive invariant, and what follows. *)

LEMMA StepOwed ==
    ASSUME owed \in BOOLEAN, limit \in Limits, Next
    PROVE  owed' \in BOOLEAN /\ limit' \in Limits
<1>1. ASSUME NEW i \in Items, Handler(i) \/ Deliver(i)
      PROVE  owed' \in BOOLEAN /\ limit' = limit
  BY <1>1 DEF Handler, Deliver, StartStep, SkipStep, ExpireStep, Advance, AdvancePaused, Settle,
              AdvanceMerged, FailStep, PostponeStep, StopStep, FenceOff, FenceOffLate, StopLate
<1>2. ASSUME NEW i \in Items, Operator(i)
      PROVE  owed' \in BOOLEAN /\ limit' = limit
  BY <1>2 DEF Operator, Create, Pause, Start, Resume, Abandon, ReadForRetry, ReadForRestore,
              AbandonNeedsHuman, ReadForInterrupt
<1>3. ASSUME NEW c \in calls, Commit(c)
      PROVE  owed' \in BOOLEAN /\ limit' = limit
  BY <1>3 DEF Commit, CommitRetry, CommitAbandon, CleanupFails, CommitInterrupt
<1>4. ASSUME NEW p \in Passes, Pass(p)
      PROVE  owed' \in BOOLEAN /\ limit' = limit
  BY <1>4 DEF Pass, BeginPass, CountFree, ListWaiters, AdmitWaiter, EndRound, BeginWake, CommitWake, AckWake
<1>5. CASE SetLimit \/ RecoverOrphans \/ Restart
  BY <1>5 DEF SetLimit, RecoverOrphans, Restart
<1>6. ASSUME NEW i \in Items, LockExpires(i) \/ DeadlinePasses(i)
      PROVE  owed' \in BOOLEAN /\ limit' = limit
  BY <1>6 DEF LockExpires, DeadlinePasses
<1> QED
  BY <1>1, <1>2, <1>3, <1>4, <1>5, <1>6 DEF Next

LEMMA InitIInv == Init => IInv
<1> SUFFICES ASSUME Init
             PROVE  IInv
  OBVIOUS
<1>1. NewItem \in WorkItems /\ NewItem.holds = FALSE /\ ~Active(NewItem) /\ NewItem.status = "none"
  BY LifecycleAssumption DEF NewItem, WorkItems, Statuses, Active
<1>2. item \in [Items -> WorkItems] /\ \A i \in Items : item[i] = NewItem
  BY <1>1 DEF Init
<1>3. \A i \in Items : Sound(item[i])
  BY <1>1, <1>2 DEF Sound
<1>4. line \in Lines(Items) /\ line.in = {}
  BY DEF Init, NoLine, Lines
<1>5. RowsSound
  BY <1>2, <1>3, <1>4 DEF RowsSound
<1>6. FibersSound /\ Known(calls) /\ AtWork
  BY DEF Init, FibersSound, Awaited, Known, AtWork, HoldsJob, Working
<1>7. PassesSound /\ Listeds
  BY IdlePassIs DEF Init, PassesSound, Listeds
<1>8. limit \in Limits /\ owed \in BOOLEAN
  BY DEF Init
<1> QED
  BY <1>5, <1>6, <1>7, <1>8 DEF IInv

LEMMA StepIInv == IInv /\ [Next]_vars => IInv'
<1> SUFFICES ASSUME IInv, [Next]_vars
             PROVE  IInv'
  OBVIOUS
<1>1. CASE Next
  <2>1. RowsSound' /\ Remain
    BY <1>1, StepRows DEF RowStep
  <2>2. FibersSound' /\ Known(calls)'
    BY <1>1, <2>1, StepCalls DEF CallStep
  <2>3. PassesSound' /\ Listeds'
    BY <1>1, <2>1, StepPasses DEF PassStep
  <2>4. AtWork'
    BY <1>1, StepAtWork
  <2>5. owed' \in BOOLEAN /\ limit' \in Limits
    BY <1>1, StepOwed DEF IInv
  <2> QED
    BY <2>1, <2>2, <2>3, <2>4, <2>5 DEF IInv
<1>2. CASE UNCHANGED vars
  BY <1>2 DEF vars, IInv, RowsSound, Sound, Waits, Active, FibersSound, Awaited, PassesSound,
              Known, Exists, Listeds, AtWork, HoldsJob, Working
<1> QED
  BY <1>1, <1>2

LEMMA Invariance == Spec => []IInv
BY InitIInv, StepIInv, PTL DEF Spec

\* The rows hold values their columns can, and nobody is twice in the line,
\* whatever mixture of handlers, calls, passes, wakes and restarts writes them.
THEOREM LifecycleTypeCorrect == Spec => []TypeOK
<1>1. IInv => TypeOK
  BY DEF IInv, RowsSound, FibersSound, PassesSound, TypeOK
<1> QED
  BY <1>1, Invariance, PTL

\* Every transaction of the lifecycle hands out, takes back or leaves alone
\* Worker Slots as WorkerSlots says: never one more than the limit, and a waiter
\* joins at the end of the line only while no slot is free.
THEOREM LifecycleHandsOutSlots == Spec => RefinesWorkerSlots
<1>1. Init => Slots!Init
  BY DEF Init, NewItem, Slots!Init, Slots!NoLine, NoLine
<1>2. IInv /\ [Next]_vars => [Slots!Next]_(Slots!vars)
  <2> SUFFICES ASSUME IInv, [Next]_vars
               PROVE  [Slots!Next]_(Slots!vars)
    OBVIOUS
  <2>1. CASE Next
    BY <2>1, StepRows DEF RowStep, SlotStep
  <2>2. CASE UNCHANGED vars
    BY <2>2 DEF vars, Slots!vars
  <2> QED
    BY <2>1, <2>2
<1> QED
  BY <1>1, <1>2, Invariance, PTL DEF Spec, RefinesWorkerSlots, Slots!Spec

\* A slot is held for a step in progress or for a Needs Human item whose
\* abandonment took it: no path through the lifecycle leaks one.
THEOREM NoSlotLeaks == Spec => []SlotHasReason
<1>1. IInv => SlotHasReason
  BY DEF IInv, RowsSound, Sound, SlotHasReason
<1> QED
  BY <1>1, Invariance, PTL

\* A queued or running Step Run always has a job, by which it is delivered again
\* or found by orphan recovery.
THEOREM NoStepWithoutJob == Spec => []ActiveHasJob
<1>1. IInv => ActiveHasJob
  BY DEF IInv, RowsSound, Sound, ActiveHasJob
<1> QED
  BY <1>1, Invariance, PTL


\* Whoever has a step queued or running keeps the slot for it, and no step is
\* queued without one, but for the two transactions of the code that stop an older
\* run of the same Work Item: no report, failure or stop of its own execution, no
\* pause, wake, pass or recovery takes it away.
THEOREM ActiveStepKeepsSlot == Spec => ActiveHoldsSlot
<1>1. IInv /\ [Next]_vars =>
        [\A i \in Items :
            /\ Active(item[i]) => item[i].holds
            /\ Active(item'[i]) /\ ~item'[i].holds
            => StopsAnOlderRun(i)]_vars
  <2> SUFFICES ASSUME IInv, Next
               PROVE  \A i \in Items :
                         /\ Active(item[i]) => item[i].holds
                         /\ Active(item'[i]) /\ ~item'[i].holds
                         => StopsAnOlderRun(i)
    OBVIOUS
  <2>1. SlotsKept
    BY StepRows DEF RowStep
  <2> QED
    BY <2>1 DEF SlotsKept
<1> QED
  BY <1>1, Invariance, PTL DEF Spec, ActiveHoldsSlot


\* However the limit is changed and whoever asks for a slot, there are never more
\* Work Items admitted than the greatest limit ever configured.
THEOREM NeverAboveGreatestLimit ==
    ASSUME NEW n \in Nat, \A l \in Limits : l <= n
    PROVE  Spec => [](Occupied <= n)
<1> DEFINE Within == Cardinality(Holders) <= n
<1>1. Init => Within
  <2> SUFFICES ASSUME Init
               PROVE  Within
    OBVIOUS
  <2>1. Holders = {}
    BY DEF Init, NewItem, Holders
  <2> QED
    BY <2>1, FS_EmptySet
<1>2. Within /\ IInv /\ [Next]_vars => Within'
  <2> SUFFICES ASSUME Within, IInv, [Next]_vars
               PROVE  Within'
    OBVIOUS
  <2>0. RowsSound /\ limit \in Limits /\ limit \in Nat /\ limit <= n
    BY LifecycleAssumption DEF IInv
  <2>1. IsFiniteSet(Holders) /\ Cardinality(Holders) \in Nat
    BY LifecycleAssumption, FS_Subset, FS_CardinalityType DEF Holders
  <2>2. SlotStep \/ UNCHANGED vars
    BY StepRows DEF RowStep
  <2>3. CASE Holders' = Holders
    BY <2>3
  <2>4. CASE \E i \in Items : /\ i \notin Holders /\ Holders' = Holders \union {i}
                              /\ Cardinality(Holders) < limit
    <3>1. PICK i \in Items : /\ i \notin Holders /\ Holders' = Holders \union {i}
                             /\ Cardinality(Holders) < limit
      BY <2>4
    <3>2. Cardinality(Holders') = Cardinality(Holders) + 1
      BY <2>1, <3>1, FS_AddElement
    <3>3. Cardinality(Holders') <= n
      BY <2>0, <2>1, <3>1, <3>2
    <3> QED
      BY <3>3
  <2>5. CASE Holders' \subseteq Holders
    <3>1. Cardinality(Holders') <= Cardinality(Holders) /\ Cardinality(Holders') \in Nat
      BY <2>1, <2>5, FS_Subset, FS_CardinalityType
    <3> QED
      BY <2>1, <3>1
  <2>6. SlotStep => \/ Holders' \subseteq Holders
                    \/ \E i \in Items : /\ i \notin Holders /\ Holders' = Holders \union {i}
                                        /\ Cardinality(Holders) < limit
    BY SameCount DEF SlotStep, Slots!vars, Slots!Next, Slots!SetLimit, Slots!Admit, Slots!Join,
                     Slots!Leave, Holders
  <2>7. UNCHANGED vars => Holders' = Holders
    BY DEF vars, Holders
  <2> QED
    BY <2>2, <2>3, <2>4, <2>5, <2>6, <2>7
<1>3. Within /\ IInv => Occupied <= n
  BY OccupiedIs DEF IInv
<1> QED
  BY <1>1, <1>2, <1>3, Invariance, PTL DEF Spec


-----------------------------------------------------------------------------
(* Who moves an interrupted or failed step on. *)

\* Only the row of i is written, if any.
Only(i) == \A j \in Items : j # i => item'[j] = item[j]

\* What the row of i says of the Work Item is left alone.
StateKept(i) == item'[i].state = item[i].state

LEMMA OnlyOne ==
    ASSUME RowsSound, NEW i \in Items, NEW w, item' = [item EXCEPT ![i] = w]
    PROVE  Only(i) /\ item'[i] = w
BY DEF RowsSound, Only

LEMMA ParkOnly ==
    ASSUME RowsSound, NEW i \in Items, NEW w \in WorkItems, Park(i, w)
    PROVE  Only(i) /\ item'[i].state = w.state
<1> DEFINE v == [w EXCEPT !.holds = FALSE]
<1>1. item' = [item EXCEPT ![i] = v] /\ v.state = w.state
  BY Fields DEF Park
<1> HIDE DEF v
<1> QED BY <1>1, OnlyOne

LEMMA AdmitOnly ==
    ASSUME RowsSound, NEW i \in Items, NEW w \in WorkItems, NEW step \in Steps, NEW rest,
           Admit(i, w, step, rest)
    PROVE  Only(i) /\ item'[i].state = w.state
<1> DEFINE u == [w EXCEPT !.holds = TRUE]
           v == Enqueued(u, step)
<1>1. u \in WorkItems /\ u.state = w.state
  BY Fields
<1>2. v.state = w.state
  BY <1>1, EnqueuedRow
<1>3. item' = [item EXCEPT ![i] = v] \/ item' = [item EXCEPT ![i] = w]
  BY DEF Admit, Wait
<1> HIDE DEF v
<1> QED BY <1>2, <1>3, OnlyOne

LEMMA HandlerMoves ==
    ASSUME IInv, NEW i \in Items, Handler(i) \/ Deliver(i)
    PROVE  Only(i) /\ (StateKept(i) \/ ~NeedsRetry(item[i]))
<1>0. /\ RowsSound /\ item \in [Items -> WorkItems] /\ item[i] \in WorkItems
      /\ Sound(item[i])
  BY DEF IInv, RowsSound
<1>1. CASE HoldsJob(i)
  <2>1. ~NeedsRetry(item[i])
    BY <1>1 DEF IInv, AtWork, NeedsRetry
  <2>2. Only(i)
    <3>1. item' = item \/ \E w : item' = [item EXCEPT ![i] = w]
      BY DEF Handler, Deliver, StartStep, SkipStep, ExpireStep, Advance, AdvancePaused, Settle,
             AdvanceMerged, FailStep, PostponeStep, StopStep, FenceOff, FenceOffLate, StopLate,
             Park
    <3> QED BY <1>0, <3>1, OnlyOne DEF Only
  <2> QED BY <2>1, <2>2
<1>2. CASE ~HoldsJob(i)
  <2>0. "interrupted" \in Statuses /\ "failed" \in Statuses /\ "running" \in Statuses
    BY DEF Statuses
  <2>1. CASE Deliver(i)
    <3> DEFINE j == ClaimedRow(item[i].job)
               w == [item[i] EXCEPT !.job = j]
    <3>1. item' = [item EXCEPT ![i] = w]
      BY <1>0, <2>1 DEF Deliver
    <3>2. w.state = item[i].state
      BY <1>0 DEF WorkItems
    <3> HIDE DEF w
    <3> QED BY <1>0, <3>1, <3>2, OnlyOne DEF StateKept
  <2>2. CASE StartStep(i)
    <3> DEFINE w == [item[i] EXCEPT !.status = "running"]
    <3>1. item' = [item EXCEPT ![i] = w] /\ w.state = item[i].state
      BY <1>0, <2>0, <2>2, Fields DEF StartStep
    <3> HIDE DEF w
    <3> QED BY <1>0, <3>1, OnlyOne DEF StateKept
  <2>3. CASE SkipStep(i)
    <3> DEFINE w == IF item[i].status \in {"queued", "running", "postponed"} THEN item[i]
                    ELSE Acknowledged(item[i])
    <3>1. item' = [item EXCEPT ![i] = w] /\ w.state = item[i].state
      BY <1>0, <2>3, AcknowledgedRow DEF SkipStep
    <3> HIDE DEF w
    <3> QED BY <1>0, <3>1, OnlyOne DEF StateKept
  <2>4. CASE ExpireStep(i)
    <3> DEFINE v == Finished(item[i], "interrupted")
               w == Finished(item[i], "failed")
               job == DeadLetteredRow(w.job)
    <3>1. v \in WorkItems /\ w \in WorkItems /\ v.state = item[i].state /\ w.state = item[i].state
          /\ w.job = item[i].job
      BY <1>0, <2>0, FinishedRow
    <3>2. item[i].job \in Rows
      BY <1>0, <2>4 DEF ExpireStep, Sound, Active, WorkItems
    <3>3. job \in Rows
      BY <3>1, <3>2, RowOperators
    <3>4. Park(i, Acknowledged(v)) \/ Park(i, [w EXCEPT !.job = job])
      BY <2>4 DEF ExpireStep
    <3> HIDE DEF v, w, job
    <3>5. Acknowledged(v) \in WorkItems /\ Acknowledged(v).state = item[i].state
      BY <3>1, AcknowledgedRow
    <3>6. [w EXCEPT !.job = job] \in WorkItems /\ [w EXCEPT !.job = job].state = item[i].state
      BY <3>1, <3>3, Fields
    <3> QED BY <1>0, <3>4, <3>5, <3>6, ParkOnly DEF StateKept
  <2>5. CASE StopStep(i)
    <3> DEFINE v == Finished(item[i], "interrupted")
    <3>1. v \in WorkItems /\ v.state = item[i].state
      BY <1>0, <2>0, FinishedRow
    <3>2. Park(i, Acknowledged(v))
      BY <2>5 DEF StopStep
    <3> HIDE DEF v
    <3> QED BY <1>0, <3>1, <3>2, AcknowledgedRow, ParkOnly DEF StateKept
  <2>6. CASE FenceOff(i) \/ FenceOffLate(i)
    BY <2>6 DEF FenceOff, FenceOffLate, Only, StateKept
  <2>7. CASE StopLate(i)
    BY <1>0, <2>7, ParkOnly DEF StopLate, StateKept
  <2>8. ~(Advance(i) \/ AdvancePaused(i) \/ Settle(i) \/ AdvanceMerged(i) \/ FailStep(i)
          \/ PostponeStep(i))
    BY <1>2 DEF Advance, AdvancePaused, Settle, AdvanceMerged, FailStep, PostponeStep
  <2> QED BY <2>1, <2>2, <2>3, <2>4, <2>5, <2>6, <2>7, <2>8 DEF Handler
<1> QED BY <1>1, <1>2

LEMMA OperatorMoves ==
    ASSUME IInv, NEW i \in Items, Operator(i)
    PROVE  Only(i) /\ (StateKept(i) \/ item'[i].state = "abandoned" \/ ~NeedsRetry(item[i]))
<1>0. /\ RowsSound /\ item \in [Items -> WorkItems] /\ item[i] \in WorkItems
      /\ FirstStep \in Steps /\ "absent" \notin Steps /\ "needs_human" \notin Steps
      /\ item[i].step \in Steps
  BY LifecycleAssumption DEF IInv, RowsSound, WorkItems
<1>1. CASE Create(i)
  <2> DEFINE w == [item[i] EXCEPT !.state = FirstStep]
  <2>1. w \in WorkItems /\ Admit(i, w, FirstStep, calls)
    BY <1>0, <1>1, Fields DEF Create
  <2> HIDE DEF w
  <2> QED BY <1>0, <1>1, <2>1, AdmitOnly DEF Create, NeedsRetry
<1>2. CASE Pause(i)
  <2> DEFINE v == Cancelled(item[i])
             w == [v EXCEPT !.paused = TRUE]
  <2>1. v \in WorkItems /\ v.state = item[i].state
    BY <1>0, CancelledRow
  <2> HIDE DEF v
  <2>2. w \in WorkItems /\ w.state = item[i].state
    BY <2>1, Fields
  <2>3. Park(i, w) \/ item' = [item EXCEPT ![i] = w]
    BY <1>2 DEF Pause, v
  <2> HIDE DEF w
  <2> QED BY <1>0, <2>2, <2>3, ParkOnly, OnlyOne DEF StateKept
<1>3. CASE Start(i)
  <2> DEFINE w == [item[i] EXCEPT !.paused = FALSE]
  <2>1. w \in WorkItems /\ w.state = item[i].state /\ item[i].state \in Steps
    BY <1>0, <1>3, Fields DEF Start
  <2>2. item' = [item EXCEPT ![i] = w] \/ Admit(i, w, w.state, calls)
    BY <1>3 DEF Start
  <2> HIDE DEF w
  <2> QED BY <1>0, <2>1, <2>2, OnlyOne, AdmitOnly DEF StateKept
<1>4. CASE Resume(i)
  <2> DEFINE w == [item[i] EXCEPT !.state = FirstStep, !.paused = FALSE]
  <2>1. w \in WorkItems /\ Admit(i, w, FirstStep, calls)
    BY <1>0, <1>4 DEF Resume, WorkItems
  <2> HIDE DEF w
  <2> QED BY <1>0, <1>4, <2>1, AdmitOnly DEF Resume, NeedsRetry
<1>5. CASE Abandon(i)
  <2> DEFINE v == Cancelled(item[i])
             w == [v EXCEPT !.state = "abandoned"]
  <2>1. v \in WorkItems /\ "abandoned" \in Settled
    BY <1>0, CancelledRow DEF Settled, Terminal
  <2> HIDE DEF v
  <2>2. w \in WorkItems /\ w.state = "abandoned"
    BY <2>1, Fields
  <2>3. Park(i, w)
    BY <1>5 DEF Abandon, v
  <2> HIDE DEF w
  <2> QED BY <1>0, <2>2, <2>3, ParkOnly
<1>6. CASE ReadForRetry(i) \/ ReadForRestore(i) \/ ReadForInterrupt(i)
  BY <1>6 DEF ReadForRetry, ReadForRestore, ReadForInterrupt, Only, StateKept
<1>7. CASE AbandonNeedsHuman(i)
  <2> DEFINE w == [item[i] EXCEPT !.holds = TRUE]
  <2>1. w.state = item[i].state
    BY <1>0, Fields
  <2>2. item' = [item EXCEPT ![i] = w] \/ item' = [item EXCEPT ![i] = item[i]]
    BY <1>7 DEF AbandonNeedsHuman, Wait
  <2> HIDE DEF w
  <2> QED BY <1>0, <2>1, <2>2, OnlyOne DEF StateKept
<1> QED BY <1>1, <1>2, <1>3, <1>4, <1>5, <1>6, <1>7 DEF Operator

\* The call that commits is over: no other one becomes the same.
LEMMA CallOver ==
    ASSUME NEW i, NEW c \in calls, c.kind = "restore", calls \subseteq Calls,
           calls' = calls \ {c} \/ calls' = Overtaken(calls \ {c}, i)
    PROVE  c \in calls \ calls'
<1>1. \A x \in calls \ {c} :
        LET y == IF x.kind = "interrupt" /\ x.item = i /\ x.about = "latest"
                    THEN [x EXCEPT !.about = item[i].status] ELSE x
        IN  y # c
  <2> TAKE x \in calls \ {c}
  <2>1. x \in Calls
    OBVIOUS
  <2>2. x.kind = "interrupt" => [x EXCEPT !.about = item[i].status].kind = "interrupt"
    BY <2>1 DEF Calls
  <2> QED BY <2>2
<1> QED BY <1>1 DEF Overtaken

LEMMA CommitMoves ==
    ASSUME IInv, NEW c \in calls, Commit(c)
    PROVE  /\ c.item \in Items /\ Only(c.item)
           /\ \/ StateKept(c.item) \/ item'[c.item].state = "abandoned"
              \/ ~NeedsRetry(item[c.item])
              \/ c.kind = "restore" /\ c \in calls \ calls'
<1> DEFINE i == c.item
           w == item[i]
<1>0. /\ RowsSound /\ item \in [Items -> WorkItems] /\ calls \subseteq Calls /\ c \in Calls
      /\ i \in Items /\ w \in WorkItems /\ "needs_human" \notin Steps
      /\ c.kind \in {"retry", "restore"} => c.about \in Steps
  BY LifecycleAssumption DEF IInv, RowsSound, FibersSound, Calls
<1>1. CASE CommitRetry(c)
  <2>1. CASE Active(w) /\ item' = item
    BY <1>0, <2>1 DEF Only, StateKept
  <2>2. CASE c.kind = "retry" /\ Admit(i, w, c.about, calls \ {c})
    BY <1>0, <2>2, AdmitOnly DEF StateKept
  <2>3. CASE /\ c.kind = "restore"
             /\ Admit(i, [w EXCEPT !.state = c.about, !.paused = FALSE], c.about, calls \ {c})
    <3> DEFINE u == [w EXCEPT !.state = c.about, !.paused = FALSE]
    <3>1. u \in WorkItems
      BY <1>0, <2>3 DEF WorkItems
    <3>2. Admit(i, u, c.about, calls \ {c})
      BY <2>3
    <3> HIDE DEF u
    <3>3. calls' = calls \ {c} \/ calls' = Overtaken(calls \ {c}, i)
      BY <3>2 DEF Admit
    <3> QED BY <1>0, <2>3, <3>1, <3>2, <3>3, AdmitOnly, CallOver
  <2> QED BY <1>1, <2>1, <2>2, <2>3 DEF CommitRetry
<1>2. CASE CommitAbandon(c)
  <2> DEFINE v == Cancelled(w)
             u == [v EXCEPT !.state = "abandoned"]
  <2>1. v \in WorkItems /\ "abandoned" \in Settled
    BY <1>0, CancelledRow DEF Settled, Terminal
  <2> HIDE DEF v
  <2>2. u \in WorkItems /\ u.state = "abandoned"
    BY <2>1, Fields
  <2>3. Park(i, u) \/ item' = item
    BY <1>2 DEF CommitAbandon, v
  <2> HIDE DEF u
  <2> QED BY <1>0, <2>2, <2>3, ParkOnly DEF Only, StateKept
<1>3. CASE CleanupFails(c)
  BY <1>0, <1>3 DEF CleanupFails, Only, StateKept
<1>4. CASE CommitInterrupt(c)
  <2> DEFINE v == Acknowledged(Finished(w, "interrupted"))
             x == IF c.about = "latest" THEN v ELSE w
             u == [x EXCEPT !.paused = FALSE]
  <2>1. v \in WorkItems /\ v.state = w.state
    <3>1. "interrupted" \in Statuses
      BY DEF Statuses
    <3> QED BY <1>0, <3>1, FinishedRow, AcknowledgedRow
  <2>2. x \in WorkItems /\ x.state = w.state
    BY <1>0, <2>1
  <2>3. Park(i, u) \/ item' = item
    BY <1>4 DEF CommitInterrupt
  <2> HIDE DEF x
  <2>4. u \in WorkItems /\ u.state = w.state
    BY <2>2, Fields
  <2> HIDE DEF u
  <2> QED BY <1>0, <2>3, <2>4, ParkOnly DEF Only, StateKept
<1> QED BY <1>1, <1>2, <1>3, <1>4 DEF Commit

\* Passes, wakes, time and faults leave the states alone.
LEMMA OthersKeepState ==
    ASSUME IInv, \/ SetLimit \/ Restart \/ RecoverOrphans
                 \/ \E i \in Items : LockExpires(i) \/ DeadlinePasses(i)
                 \/ \E p \in Passes : Pass(p)
    PROVE  \A j \in Items : StateKept(j)
<1>0. RowsSound /\ item \in [Items -> WorkItems]
  BY DEF IInv, RowsSound
<1>1. ASSUME NEW i \in Items, NEW w, item' = [item EXCEPT ![i] = w], w.state = item[i].state
      PROVE  \A j \in Items : StateKept(j)
  BY <1>0, <1>1, OnlyOne DEF Only, StateKept
<1>2. CASE SetLimit
  BY <1>2 DEF SetLimit, StateKept
<1>3. CASE Restart \/ RecoverOrphans
  <2>1. ASSUME NEW S, Interrupted(S) PROVE \A j \in Items : StateKept(j)
    BY <1>0, <2>1 DEF Interrupted, StateKept, WorkItems
  <2> QED BY <1>3, <2>1 DEF Restart, RecoverOrphans, StateKept
<1>4. ASSUME NEW i \in Items, LockExpires(i) \/ DeadlinePasses(i)
      PROVE  \A j \in Items : StateKept(j)
  <2>1. item[i] \in WorkItems
    BY <1>0
  <2>2. \A b, k : [item[i] EXCEPT !.job = k].state = item[i].state
                  /\ [item[i] EXCEPT !.due = b, !.job = k].state = item[i].state
    BY <2>1 DEF WorkItems
  <2>3. \/ \E k : item' = [item EXCEPT ![i] = [item[i] EXCEPT !.job = k]]
        \/ \E k : item' = [item EXCEPT ![i] = [item[i] EXCEPT !.due = TRUE, !.job = k]]
    <3>1. CASE LockExpires(i)
      BY <3>1 DEF LockExpires
    <3>2. CASE DeadlinePasses(i)
      <4> DEFINE k == IF item[i].job = NoJob THEN NoJob ELSE DueRow(item[i].job)
      <4>1. item' = [item EXCEPT ![i] = [item[i] EXCEPT !.due = TRUE, !.job = k]]
        BY <1>0, <3>2 DEF DeadlinePasses, WorkItems
      <4> QED BY <4>1
    <3> QED BY <1>4, <3>1, <3>2
  <2> QED BY <2>2, <2>3, <1>1
<1>5. ASSUME NEW p \in Passes, Pass(p)
      PROVE  \A j \in Items : StateKept(j)
  <2>1. CASE BeginPass(p) \/ CountFree(p) \/ ListWaiters(p) \/ EndRound(p)
    BY <2>1 DEF BeginPass, CountFree, ListWaiters, EndRound, StateKept
  <2>2. CASE AdmitWaiter(p)
    <3> PICK e \in pass[p].todo :
           \/ item' = item
           \/ Wait(e.item, item[e.item])
           \/ item' = [item EXCEPT ![e.item].holds = TRUE]
           \/ e.state # "needs_human" /\ Admit(e.item, item[e.item], e.state, calls)
      BY <2>2 DEF AdmitWaiter
    <3> DEFINE i == e.item
               w == [item[i] EXCEPT !.holds = TRUE]
    <3>1. e \in [item : Items, state : Steps \union {"needs_human"}, rank : Nat]
      BY DEF IInv, PassesSound, PassStates
    <3>2. /\ i \in Items /\ item[i] \in WorkItems /\ w.state = item[i].state
          /\ e.state # "needs_human" => e.state \in Steps
      BY <1>0, <3>1, Fields
    <3>3. CASE item' = item
      BY <3>3 DEF StateKept
    <3>4. CASE Wait(i, item[i])
      BY <1>1, <3>2, <3>4 DEF Wait
    <3>5. CASE item' = [item EXCEPT ![i].holds = TRUE]
      <4>1. item' = [item EXCEPT ![i] = w]
        BY <3>5
      <4> HIDE DEF w
      <4> QED BY <1>1, <3>2, <4>1
    <3>6. CASE e.state # "needs_human" /\ Admit(i, item[i], e.state, calls)
      BY <1>0, <3>2, <3>6, AdmitOnly DEF Only, StateKept
    <3> QED BY <3>3, <3>4, <3>5, <3>6
  <2>3. CASE CommitWake(p) \/ AckWake(p)
    <3> DEFINE i == pass[p].wake
               v == Acknowledged(item[i])
    <3>1. i \in Items /\ item[i] \in WorkItems /\ item[i].step \in Steps
      BY <1>0, <2>3 DEF CommitWake, AckWake, IInv, PassesSound, WorkItems
    <3>2. v \in WorkItems /\ v.state = item[i].state
      BY <3>1, AcknowledgedRow
    <3>3. \/ item' = item \/ Admit(i, item[i], item[i].step, calls)
          \/ item' = [item EXCEPT ![i] = v]
      BY <2>3 DEF CommitWake, AckWake
    <3> HIDE DEF v
    <3> QED BY <1>0, <1>1, <3>1, <3>2, <3>3, AdmitOnly DEF Only, StateKept
  <2>4. ASSUME NEW i \in Items, BeginWake(i, p) PROVE \A j \in Items : StateKept(j)
    <3> DEFINE k == ClaimedRow(item[i].job)
               w == [item[i] EXCEPT !.job = k]
    <3>1. item' = [item EXCEPT ![i] = w] /\ w.state = item[i].state
      BY <1>0, <2>4 DEF BeginWake, WorkItems
    <3> HIDE DEF w
    <3> QED BY <1>1, <3>1
  <2> QED BY <1>5, <2>1, <2>2, <2>3, <2>4 DEF Pass
<1> QED BY <1>2, <1>3, <1>4, <1>5

\* An interrupted or failed step is moved on by an abandonment or by the commit of
\* a restore only: no report of an execution that outlived its lease, no wake, pass
\* or restart does (the fence of the outcome transactions).
THEOREM InterruptedIsFinal == Spec => InterruptedStaysPut
<1>1. IInv /\ [Next]_vars =>
        [\A i \in Items :
            /\ NeedsRetry(item[i])
            /\ item'[i].state # item[i].state
            => \/ item'[i].state = "abandoned"
               \/ \E c \in calls \ calls' : c.kind = "restore" /\ c.item = i]_vars
  <2> SUFFICES ASSUME IInv, Next, NEW j \in Items, NeedsRetry(item[j]), ~StateKept(j)
               PROVE  \/ item'[j].state = "abandoned"
                      \/ \E c \in calls \ calls' : c.kind = "restore" /\ c.item = j
    BY DEF StateKept
  <2>0. item' # item
    BY DEF StateKept
  <2>1. ASSUME NEW i \in Items, Handler(i) \/ Deliver(i) PROVE FALSE
    BY <2>1, HandlerMoves DEF Only, StateKept
  <2>2. ASSUME NEW i \in Items, Operator(i) PROVE item'[j].state = "abandoned"
    BY <2>2, OperatorMoves DEF Only, StateKept
  <2>3. ASSUME NEW c \in calls, Commit(c)
        PROVE  \/ item'[j].state = "abandoned"
               \/ \E d \in calls \ calls' : d.kind = "restore" /\ d.item = j
    <3>1. /\ c.item \in Items /\ Only(c.item)
          /\ \/ StateKept(c.item) \/ item'[c.item].state = "abandoned"
             \/ ~NeedsRetry(item[c.item])
             \/ c.kind = "restore" /\ c \in calls \ calls'
      BY <2>3, CommitMoves
    <3>2. c.item = j
      BY <3>1 DEF Only, StateKept
    <3> QED BY <3>1, <3>2
  <2>4. \/ \E i \in Items : Handler(i) \/ Deliver(i) \/ Operator(i)
        \/ \E c \in calls : Commit(c)
    BY OthersKeepState DEF Next
  <2> QED BY <2>1, <2>2, <2>3, <2>4
<1> QED
  BY <1>1, Invariance, PTL DEF Spec, InterruptedStaysPut

-----------------------------------------------------------------------------
(* The first waiters of the line. *)

\* Whoever is before somebody in the line is before all behind that one.
Ordered(l) ==
    \A i, j, k \in l.in :
        <<i, j>> \in l.before /\ <<j, k>> \in l.before => <<i, k>> \in l.before

LEMMA OrderedLine ==
    ASSUME NEW l \in Lines(Items), Ordered(l)
    PROVE  /\ \A T : Ordered(Without(l, T))
           /\ \A i \in Items \ l.in : Ordered(Joined(l, i))
<1>1. l.before \subseteq l.in \X l.in
  BY DEF Lines
<1>2. \A T : Ordered(Without(l, T))
  BY DEF Ordered, Without
<1>3. ASSUME NEW i \in Items \ l.in PROVE Ordered(Joined(l, i))
  <2>1. /\ Joined(l, i).in = l.in \union {i}
        /\ \A j, k : <<j, k>> \in Joined(l, i).before <=>
                        <<j, k>> \in l.before \/ (j \in l.in /\ k = i)
    BY DEF Joined
  <2>2. \A j, k : <<j, k>> \in l.before => j \in l.in /\ k \in l.in
    BY <1>1
  <2> QED BY <2>1, <2>2 DEF Ordered
<1> QED BY <1>2, <1>3

LEMMA OrderedStep == IInv /\ Ordered(line) /\ [Next]_vars => Ordered(line)'
<1> SUFFICES ASSUME IInv, Ordered(line), [Next]_vars PROVE Ordered(line')
  OBVIOUS
<1>1. line \in Lines(Items)
  BY DEF IInv, RowsSound
<1>2. CASE line' = line
  BY <1>2
<1>3. ASSUME NEW S, line' = Without(line, S) PROVE Ordered(line')
  BY <1>1, <1>3, OrderedLine
<1>4. ASSUME NEW i \in Items, line' = Joined(Without(line, {i}), i) PROVE Ordered(line')
  <2> DEFINE l == Without(line, {i})
  <2>1. l \in Lines(Items) /\ i \in Items \ l.in /\ Ordered(l)
    BY <1>1, LineOperators, OrderedLine
  <2> HIDE DEF l
  <2> QED BY <1>4, <2>1, OrderedLine DEF l
<1>5. CASE Next
  <2>1. SlotStep
    BY <1>5, StepRows DEF RowStep
  <2>2. \/ line' = line
        \/ \E S : line' = Without(line, S)
        \/ \E i \in Items : line' = Joined(Without(line, {i}), i)
    BY <2>1 DEF SlotStep, Slots!vars, Slots!Next, Slots!SetLimit, Slots!Admit, Slots!Join,
                Slots!Leave, Slots!Without, Slots!Joined, Without, Joined
  <2> QED BY <1>2, <1>3, <1>4, <2>2
<1> QED BY <1>2, <1>5 DEF vars

\* Of a set of numbers each one has a least.
LEMMA LeastOf ==
    ASSUME NEW S, S \subseteq Nat, S # {}
    PROVE  \E m \in S : \A n \in S : m <= n
<1> DEFINE Less == {p \in Nat \X Nat : p[1] < p[2]}
<1>1. IsWellFoundedOn(Less, Nat)
  BY NatLessThanWellFounded DEF OpToRel
<1>2. \A a, b \in S : <<b, a>> \in Less <=> b < a
  OBVIOUS
<1> HIDE DEF Less
<1>3. PICK m \in S : \A n \in S : ~(<<n, m>> \in Less)
  BY <1>1, WFMin
<1>4. \A n \in S : m <= n
  <2> TAKE n \in S
  <2>1. m \in Nat /\ n \in Nat /\ ~(n < m)
    BY <1>2, <1>3
  <2> QED BY <2>1
<1> QED BY <1>3, <1>4

Waiting == {i \in InLine : Waiter(i)}

Ahead(i) == {j \in Waiting : <<j, i>> \in line.before}

\* The first n waiters are n, unless there are fewer.
LEMMA FirstWaiters ==
    ASSUME RowsSound, Ordered(line), NEW n \in Nat
    PROVE  LET first == {i \in Waiting : Cardinality(Ahead(i)) < n}
           IN  /\ IsFiniteSet(first)
               /\ Cardinality(first) < n => first = Waiting
<1> DEFINE first == {i \in Waiting : Cardinality(Ahead(i)) < n}
           far   == Waiting \ first
           rank(i) == Cardinality(Ahead(i))
<1>1. /\ line \in Lines(Items) /\ Waiting \subseteq line.in /\ Waiting \subseteq Items
      /\ IsFiniteSet(Waiting)
  BY LifecycleAssumption, FS_Subset DEF RowsSound, Lines, Waiting, InLine
<1>2. /\ \A i \in Waiting : <<i, i>> \notin line.before
      /\ \A i, j, k \in Waiting :
            <<i, j>> \in line.before /\ <<j, k>> \in line.before => <<i, k>> \in line.before
  BY <1>1 DEF Lines, Ordered
<1>3. \A i \in Waiting : IsFiniteSet(Ahead(i)) /\ rank(i) \in Nat
  BY <1>1, FS_Subset, FS_CardinalityType DEF Ahead
<1>4. IsFiniteSet(first)
  BY <1>1, FS_Subset
<1>5. ASSUME Cardinality(first) < n, far # {} PROVE FALSE
  <2> DEFINE R == {rank(i) : i \in far}
  <2>1. R \subseteq Nat /\ R # {}
    BY <1>3, <1>5
  <2>2. PICK m \in R : \A k \in R : m <= k
    BY <2>1, LeastOf
  <2>3. PICK i \in far : rank(i) = m
    BY <2>2
  <2>4. \A j \in far : rank(i) <= rank(j)
    BY <2>2, <2>3
  <2> HIDE DEF R
  <2>5. Ahead(i) \subseteq first
    <3> SUFFICES ASSUME NEW j \in Ahead(i), j \in far PROVE FALSE
      BY DEF Ahead
    <3>1. j \in Waiting /\ i \in Waiting /\ <<j, i>> \in line.before
      BY DEF Ahead
    <3>2. Ahead(j) \subseteq Ahead(i) /\ j \in Ahead(i) /\ j \notin Ahead(j)
      BY <1>2, <3>1 DEF Ahead
    <3>3. Ahead(j) \in SUBSET Ahead(i) /\ Ahead(j) # Ahead(i)
      BY <3>2
    <3>4. rank(j) <= rank(i) /\ rank(j) # rank(i)
      BY <1>3, <3>1, <3>3, FS_Subset
    <3> HIDE DEF rank
    <3> QED BY <1>3, <2>4, <3>1, <3>4
  <2>6. rank(i) <= Cardinality(first)
    BY <1>4, <2>5, FS_Subset
  <2>7. i \in Waiting /\ ~(rank(i) < n) /\ rank(i) \in Nat
    BY <1>3
  <2>8. Cardinality(first) \in Nat
    BY <1>4, FS_CardinalityType
  <2> HIDE DEF rank, first
  <2> QED BY <1>5, <2>6, <2>7, <2>8
<1> QED BY <1>4, <1>5

Entry(i) == [item |-> i, state |-> item[i].state, rank |-> Cardinality(Ahead(i))]

\* A pass lists as many waiters as it counted free slots, or all of them.
LEMMA ListedEnough ==
    ASSUME RowsSound, Ordered(line), NEW n \in Nat
    PROVE  /\ \A e \in Listed(n) : e.item \in Waiting /\ e.state = item[e.item].state
           /\ Cardinality(Listed(n)) < n =>
                 \A i \in Waiting : \E e \in Listed(n) : e.item = i
           /\ ~(Cardinality(Listed(n)) < n) =>
                 n <= Cardinality({e.item : e \in Listed(n)})
<1> DEFINE first == {i \in Waiting : Cardinality(Ahead(i)) < n}
           items == {e.item : e \in Listed(n)}
<1>1. Listed(n) = {Entry(i) : i \in first}
  BY DEF Listed, Waiting, Ahead, Entry
<1>2. \A i : Entry(i).item = i /\ Entry(i).state = item[i].state
  BY DEF Entry
<1>3. IsFiniteSet(first) /\ (Cardinality(first) < n => first = Waiting)
  BY FirstWaiters
<1>4. first \subseteq Waiting
  OBVIOUS
<1> HIDE DEF first
<1>5. items = first
  BY <1>1, <1>2
<1>6. Cardinality(Listed(n)) = Cardinality(first)
  <2> DEFINE f == [i \in first |-> Entry(i)]
  <2>1. f \in Bijection(first, Listed(n))
    <3>1. f \in [first -> Listed(n)]
      BY <1>1
    <3>2. \A i, j \in first : f[i] = f[j] => i = j
      <4> SUFFICES ASSUME NEW i \in first, NEW j \in first, f[i] = f[j] PROVE i = j
        OBVIOUS
      <4>1. Entry(i) = Entry(j)
        OBVIOUS
      <4>2. Entry(i).item = Entry(j).item
        BY <4>1
      <4> QED BY <1>2, <4>2
    <3>3. \A e \in Listed(n) : \E i \in first : f[i] = e
      BY <1>1
    <3> HIDE DEF f
    <3> QED BY <3>1, <3>2, <3>3 DEF Bijection, Injection, Surjection, IsInjective
  <2>2. ExistsBijection(first, Listed(n))
    BY <2>1 DEF ExistsBijection
  <2> QED BY <1>3, <2>2, FS_Bijection
<1>7. Cardinality(first) \in Nat
  BY <1>3, FS_CardinalityType
<1> HIDE DEF items
<1>8. \A e \in Listed(n) : e.item \in Waiting /\ e.state = item[e.item].state
  BY <1>1, <1>2, <1>4
<1>9. ASSUME Cardinality(Listed(n)) < n
      PROVE  \A i \in Waiting : \E e \in Listed(n) : e.item = i
  BY <1>1, <1>2, <1>3, <1>6, <1>9
<1>10. ASSUME ~(Cardinality(Listed(n)) < n) PROVE n <= Cardinality(items)
  BY <1>5, <1>6, <1>7, <1>10
<1> QED BY <1>8, <1>9, <1>10 DEF items

-----------------------------------------------------------------------------
(* A free slot is offered. *)

\* Those of a pass's list, and the handoffs, that still stand in line.
Remaining(q) == HandoffsInLine \union {e.item : e \in {f \in q.todo : f.item \in InLine}}

\* While the pass has admitted nobody yet, as many remain as slots are free, and
\* whoever was listed as a handoff is one still.
Enough(q) ==
    /\ limit - Occupied <= Cardinality(Remaining(q))
    /\ \A e \in q.todo : e.state = "needs_human" /\ e.item \in InLine => e.item \in HandoffsInLine

\* A pass in the state q will offer each free slot: it counts first, or will count
\* again after this round, or has listed all who wait, or finds enough handoffs.
Promises(q) ==
    \/ q.phase = "count"
    \/ q.phase = "list" /\ limit - Occupied <= q.free
    \/ /\ q.phase = "admit" /\ q.short
       /\ \A i \in Stranded : \E e \in q.todo : e.item = i /\ e.state # "needs_human"
    \/ q.phase = "admit" /\ ~q.short /\ (q.any \/ Enough(q))

Offered ==
    \/ ~(Occupied < limit) \/ Stranded = {} \/ owed
    \/ limit - Occupied <= Cardinality(HandoffsInLine)
    \/ \E q \in PassStates : Promises(q) /\ \E p \in Passes : pass[p] = q

\* Those in D, at most one, have taken a free slot each and left the line; nobody
\* has joined it.
Eases(D) ==
    /\ Stranded' \subseteq Stranded \ D
    /\ InLine' = InLine \ D /\ HandoffsInLine' = HandoffsInLine \ D
    /\ limit' = limit /\ Occupied' = Occupied + Cardinality(D)

Eased == Eases({}) \/ \E i \in Items : Eases({i})

LEMMA LineIs ==
    ASSUME RowsSound, limit \in Limits
    PROVE  /\ InLine \subseteq Items /\ IsFiniteSet(InLine)
           /\ HandoffsInLine \subseteq InLine /\ Stranded \subseteq InLine
           /\ Occupied \in Nat /\ limit \in Nat
<1>1. InLine \subseteq Items
  BY DEF RowsSound, Lines, InLine
<1>2. IsFiniteSet(InLine)
  BY <1>1, LifecycleAssumption, FS_Subset
<1> QED BY <1>1, <1>2, OccupiedIs DEF HandoffsInLine, Stranded

LEMMA OneLess ==
    ASSUME NEW S, NEW T, IsFiniteSet(S), NEW i, S \ {i} \subseteq T, IsFiniteSet(T)
    PROVE  Cardinality(S) - 1 <= Cardinality(T)
           /\ Cardinality(S) \in Nat /\ Cardinality(T) \in Nat
<1>1. Cardinality(S) \in Nat /\ Cardinality(T) \in Nat
  BY FS_CardinalityType
<1>2. Cardinality(S) - 1 <= Cardinality(S \ {i})
  BY <1>1, FS_RemoveElement
<1>3. Cardinality(S \ {i}) <= Cardinality(T)
  BY FS_Subset
<1>4. Cardinality(S \ {i}) \in Nat
  BY FS_RemoveElement, FS_CardinalityType
<1> QED BY <1>1, <1>2, <1>3, <1>4

LEMMA EasedPromises ==
    ASSUME RowsSound, limit \in Limits, Eased
    PROVE  /\ \A q \in PassStates : Promises(q) => Promises(q)'
           /\ Stranded' \subseteq Stranded
           /\ limit - Occupied <= Cardinality(HandoffsInLine) =>
                 (limit - Occupied <= Cardinality(HandoffsInLine))'
           /\ Occupied' < limit' => Occupied < limit
<1>0. PICK D : Eases(D) /\ (D = {} \/ \E i \in Items : D = {i})
  BY DEF Eased
<1>1. /\ Stranded' \subseteq Stranded \ D
      /\ InLine' = InLine \ D /\ HandoffsInLine' = HandoffsInLine \ D
      /\ limit' = limit /\ Occupied' = Occupied + Cardinality(D)
  BY <1>0 DEF Eases
<1>2. /\ InLine \subseteq Items /\ IsFiniteSet(InLine)
      /\ HandoffsInLine \subseteq InLine /\ Stranded \subseteq InLine
      /\ Occupied \in Nat /\ limit \in Nat
  BY LineIs
<1>3. /\ IsFiniteSet(D) /\ Cardinality(D) \in {0, 1}
      /\ D = {} => Cardinality(D) = 0
      /\ D # {} => Cardinality(D) = 1 /\ \E i \in Items : D = {i}
  BY <1>0, FS_EmptySet, FS_Singleton
<1>4. ASSUME NEW S, NEW T, IsFiniteSet(S), T \subseteq S, S \ D \subseteq T
      PROVE  limit - Occupied <= Cardinality(S) => limit' - Occupied' <= Cardinality(T)
  <2>1. IsFiniteSet(T)
    BY <1>4, FS_Subset
  <2>2. Cardinality(S) - Cardinality(D) <= Cardinality(T)
        /\ Cardinality(S) \in Nat /\ Cardinality(T) \in Nat
    <3>1. CASE D = {}
      <4>1. T = S
        BY <1>4, <3>1
      <4> QED BY <1>3, <1>4, <3>1, <4>1, FS_CardinalityType
    <3>2. CASE D # {}
      BY <1>3, <1>4, <2>1, <3>2, OneLess
    <3> QED BY <3>1, <3>2
  <2> QED BY <1>1, <1>2, <1>3, <2>2
<1>5. limit - Occupied <= Cardinality(HandoffsInLine) =>
        (limit - Occupied <= Cardinality(HandoffsInLine))'
  <2>1. IsFiniteSet(HandoffsInLine)
    BY <1>2, FS_Subset
  <2> QED BY <1>1, <1>4, <2>1
<1>6. Occupied' < limit' => Occupied < limit
  BY <1>1, <1>2, <1>3
<1>7. ASSUME NEW q \in PassStates, Promises(q) PROVE Promises(q)'
  <2>0. q.free \in Nat
    BY DEF PassStates
  <2>1. CASE q.phase = "count"
    BY <2>1 DEF Promises
  <2>2. CASE q.phase = "list" /\ limit - Occupied <= q.free
    <3>1. limit' - Occupied' <= q.free
      BY <1>1, <1>2, <1>3, <2>0, <2>2
    <3> QED BY <2>2, <3>1 DEF Promises
  <2>3. CASE /\ q.phase = "admit" /\ q.short
             /\ \A i \in Stranded : \E e \in q.todo : e.item = i /\ e.state # "needs_human"
    <3>1. \A i \in Stranded' : \E e \in q.todo : e.item = i /\ e.state # "needs_human"
      BY <1>1, <2>3
    <3> QED BY <2>3, <3>1 DEF Promises
  <2>4. CASE q.phase = "admit" /\ ~q.short /\ q.any
    BY <2>4 DEF Promises
  <2>5. CASE q.phase = "admit" /\ ~q.short /\ Enough(q)
    <3> DEFINE L(S) == {e.item : e \in {f \in q.todo : f.item \in S}}
    <3>1. Remaining(q) = HandoffsInLine \union L(InLine)
          /\ Remaining(q)' = HandoffsInLine' \union L(InLine')
      BY DEF Remaining
    <3>2. L(InLine') = L(InLine) \ D /\ L(InLine) \subseteq InLine
      BY <1>1
    <3> HIDE DEF L
    <3>3. /\ IsFiniteSet(Remaining(q)) /\ Remaining(q)' \subseteq Remaining(q)
          /\ Remaining(q) \ D \subseteq Remaining(q)'
      BY <1>1, <1>2, <3>1, <3>2, FS_Subset
    <3>4. limit - Occupied <= Cardinality(Remaining(q))
      BY <2>5 DEF Enough
    <3>5. limit' - Occupied' <= Cardinality(Remaining(q)')
      BY <1>4, <3>3, <3>4
    <3>6. \A e \in q.todo : e.state = "needs_human" /\ e.item \in InLine'
                               => e.item \in HandoffsInLine'
      BY <1>1, <2>5 DEF Enough
    <3>7. Enough(q)'
      BY <3>5, <3>6 DEF Enough
    <3> QED BY <2>5, <3>7 DEF Promises
  <2> QED BY <1>7, <2>1, <2>2, <2>3, <2>4, <2>5 DEF Promises
<1> QED BY <1>1, <1>5, <1>6, <1>7

-----------------------------------------------------------------------------
(* What the ways to change a row do to the offers. *)

\* The step eases, or leaves no slot free, or owes a pass.
Offers == Eased \/ ~(Occupied < limit)' \/ owed'

LEMMA Untouched ==
    ASSUME RowsSound, limit \in Limits, item' = item, line' = line, limit' = limit
    PROVE  Eased
<1>1. Cardinality({}) = 0
  BY FS_EmptySet
<1>2. Eases({})
  BY <1>1, LineIs DEF Eases, Stranded, InLine, HandoffsInLine, Waiter, Occupied
<1> QED BY <1>2 DEF Eased

\* The row of somebody who does not stand in line, or what the line does not
\* look at, is written.
LEMMA KeepOffers ==
    ASSUME RowsSound, limit \in Limits, NEW i \in Items, NEW w \in WorkItems,
           item' = [item EXCEPT ![i] = w], line' = line, limit' = limit,
           w.holds = item[i].holds,
           i \in line.in => w.state = item[i].state /\ w.paused = item[i].paused
    PROVE  Eased
<1>1. item'[i] = w /\ \A j \in Items : j # i => item'[j] = item[j]
  BY OneRow
<1>2. InLine' = InLine /\ InLine \subseteq Items
  BY LineIs DEF InLine
<1>3. \A j \in InLine : /\ item'[j].state = item[j].state
                        /\ item'[j].paused = item[j].paused
                        /\ item'[j].holds = item[j].holds
  BY <1>1, <1>2 DEF InLine
<1>4. Stranded' = Stranded /\ HandoffsInLine' = HandoffsInLine
  BY <1>2, <1>3 DEF Stranded, HandoffsInLine, Waiter
<1>5. Holders' = Holders
  BY <1>1 DEF Holders
<1>6. Occupied' = Occupied + 0
  <2>1. Occupied' = Occupied
    BY <1>5 DEF Occupied, Holders
  <2>2. Occupied \in Nat
    BY LineIs
  <2> QED BY <2>1, <2>2
<1>7. Cardinality({}) = 0
  BY FS_EmptySet
<1>8. Eases({})
  BY <1>2, <1>4, <1>6, <1>7 DEF Eases
<1> QED BY <1>8 DEF Eased

\* Somebody takes a slot that is free, or keeps the own one.
LEMMA TakeOffers ==
    ASSUME RowsSound, limit \in Limits, NEW i \in Items, NEW w \in WorkItems, w.holds,
           item' = [item EXCEPT ![i] = w], line' = Without(line, {i}), limit' = limit
    PROVE  Eased /\ i \notin Stranded'
<1>1. item'[i] = w /\ \A j \in Items : j # i => item'[j] = item[j]
  BY OneRow
<1>2. InLine' = InLine \ {i} /\ InLine \subseteq Items
  <2>1. line'.in = line.in \ {i}
    BY LineOperators DEF RowsSound
  <2> QED BY <2>1, LineIs DEF InLine
<1>3. Stranded' = Stranded \ {i} /\ HandoffsInLine' = HandoffsInLine \ {i}
  BY <1>1, <1>2 DEF Stranded, HandoffsInLine, Waiter
<1>4. /\ Occupied = Cardinality(Holders) /\ Occupied' = Cardinality(Holders')
      /\ IsFiniteSet(Holders) /\ Occupied \in Nat
  BY LifecycleAssumption, FS_Subset, LineIs DEF Occupied, Holders
<1>5. Holders' = Holders \union {i}
  BY OneRow
<1>6. CASE item[i].holds
  <2>1. i \notin InLine /\ Holders' = Holders
    BY <1>5, <1>6 DEF RowsSound, Waits, InLine, Holders
  <2>2. Cardinality({}) = 0
    BY FS_EmptySet
  <2>3. Eases({})
    BY <1>2, <1>3, <1>4, <2>1, <2>2, LineIs DEF Eases
  <2> QED BY <1>3, <2>3 DEF Eased
<1>7. CASE ~item[i].holds
  <2>1. Cardinality(Holders') = Cardinality(Holders) + 1
    BY <1>4, <1>5, <1>7, FS_AddElement DEF Holders
  <2>2. Cardinality({i}) = 1
    BY FS_Singleton
  <2>3. Eases({i})
    BY <1>2, <1>3, <1>4, <2>1, <2>2 DEF Eases
  <2> QED BY <1>3, <2>3 DEF Eased
<1> QED BY <1>6, <1>7

\* Who has to wait has found no slot free.
LEMMA WaitOffers ==
    ASSUME RowsSound, limit \in Limits, NEW i \in Items, NEW w \in WorkItems,
           w.holds = item[i].holds, Wait(i, w), limit' = limit
    PROVE  ~(Occupied < limit)'
<1>1. item' = [item EXCEPT ![i] = w] /\ ~(Occupied < limit)
  BY DEF Wait, Room
<1>2. item'[i] = w /\ \A j \in Items : j # i => item'[j] = item[j]
  BY <1>1, OneRow
<1>3. Holders' = Holders
  BY <1>2 DEF Holders
<1> QED BY <1>1, <1>3 DEF Occupied, Holders

LEMMA AdmitOffers ==
    ASSUME RowsSound, limit \in Limits, NEW i \in Items, NEW w \in WorkItems,
           w.holds = item[i].holds, NEW step \in Steps, NEW rest, Admit(i, w, step, rest),
           limit' = limit
    PROVE  (Eased /\ i \notin Stranded') \/ ~(Occupied < limit)'
<1> DEFINE u == [w EXCEPT !.holds = TRUE]
           v == Enqueued(u, step)
<1>1. u \in WorkItems /\ u.holds
  BY Fields
<1>2. v \in WorkItems /\ v.holds
  BY <1>1, EnqueuedRow
<1>3. \/ Wait(i, w)
      \/ item' = [item EXCEPT ![i] = v] /\ line' = Without(line, {i})
  BY DEF Admit
<1> HIDE DEF v
<1> QED BY <1>2, <1>3, TakeOffers, WaitOffers

-----------------------------------------------------------------------------
(* The steps that are not of a pass. *)

\* The passes go on as they were, and what is owed stays owed.
PassesLeft == pass' = pass /\ (owed => owed')

LEMMA OffersKept ==
    ASSUME RowsSound, limit \in Limits, PassesLeft, Offers, Offered
    PROVE  Offered'
<1>1. CASE Eased
  <2>1. /\ \A q \in PassStates : Promises(q) => Promises(q)'
        /\ Stranded' \subseteq Stranded
        /\ limit - Occupied <= Cardinality(HandoffsInLine) =>
              (limit - Occupied <= Cardinality(HandoffsInLine))'
        /\ Occupied' < limit' => Occupied < limit
    BY <1>1, EasedPromises
  <2> QED BY <2>1 DEF Offered, PassesLeft
<1>2. CASE ~(Occupied < limit)' \/ owed'
  BY <1>2 DEF Offered
<1> QED BY <1>1, <1>2 DEF Offers

LEMMA HandlerOffers ==
    ASSUME IInv, NEW i \in Items, Handler(i) \/ Deliver(i)
    PROVE  PassesLeft /\ Offers
<1>0. /\ RowsSound /\ limit \in Limits /\ item \in [Items -> WorkItems]
      /\ item[i] \in WorkItems /\ Sound(item[i])
      /\ i \in line.in => ~item[i].holds
  BY DEF IInv, RowsSound, Waits
<1>1. CASE Deliver(i)
  <2> DEFINE w == [item[i] EXCEPT !.job = ClaimedRow(item[i].job)]
  <2>1. item' = [item EXCEPT ![i] = w]
    BY <1>0, <1>1 DEF Deliver
  <2>2. ClaimedRow(item[i].job) \in Rows
    BY <1>0, <1>1, RowOperators DEF Deliver, WorkItems
  <2>3. /\ w \in WorkItems /\ w.holds = item[i].holds
        /\ w.state = item[i].state /\ w.paused = item[i].paused
    BY <1>0, <2>2 DEF WorkItems
  <2> HIDE DEF w
  <2>4. Eased
    BY <1>0, <1>1, <2>1, <2>3, KeepOffers DEF Deliver
  <2> QED BY <1>1, <2>4 DEF Deliver, PassesLeft, Offers
<1>2. CASE StartStep(i)
  <2> DEFINE w == [item[i] EXCEPT !.status = "running"]
  <2>1. item' = [item EXCEPT ![i] = w]
    BY <1>0, <1>2 DEF StartStep
  <2>2. /\ w \in WorkItems /\ w.holds = item[i].holds
        /\ w.state = item[i].state /\ w.paused = item[i].paused
    BY <1>0 DEF WorkItems, Statuses
  <2> HIDE DEF w
  <2>3. Eased
    BY <1>0, <1>2, <2>1, <2>2, KeepOffers DEF StartStep
  <2> QED BY <1>2, <2>3 DEF StartStep, PassesLeft, Offers
<1>3. CASE SkipStep(i)
  <2> DEFINE w == IF item[i].status \in {"queued", "running", "postponed"} THEN item[i]
                  ELSE Acknowledged(item[i])
  <2>1. item' = [item EXCEPT ![i] = w]
    BY <1>0, <1>3 DEF SkipStep
  <2>2. /\ w \in WorkItems /\ w.holds = item[i].holds
        /\ w.state = item[i].state /\ w.paused = item[i].paused
    BY <1>0 DEF WorkItems, Acknowledged
  <2> HIDE DEF w
  <2>3. Eased
    BY <1>0, <1>3, <2>1, <2>2, KeepOffers DEF SkipStep
  <2> QED BY <1>3, <2>3 DEF SkipStep, PassesLeft, Offers
<1>4. CASE Advance(i)
  <2> PICK next \in Steps :
        item' = [item EXCEPT ![i] = Enqueued([Succeeded(@) EXCEPT !.state = next], next)]
    BY <1>4 DEF Advance
  <2> DEFINE u == [Succeeded(item[i]) EXCEPT !.state = next]
             w == Enqueued(u, next)
  <2>1. item' = [item EXCEPT ![i] = w]
    BY <1>0
  <2>2. Succeeded(item[i]) \in WorkItems /\ Succeeded(item[i]).holds = item[i].holds
    BY <1>0, SucceededRow
  <2>3. u \in WorkItems /\ u.holds = item[i].holds
    BY <2>2, Fields
  <2> HIDE DEF u
  <2>4. w \in WorkItems /\ w.holds = item[i].holds
    BY <2>3, EnqueuedRow
  <2> HIDE DEF w
  <2>5. CASE ~item[i].holds
    BY <1>4, <2>5 DEF Advance, PassesLeft, Offers
  <2>6. CASE item[i].holds
    <3>1. line' = line /\ limit' = limit
      BY <1>4 DEF Advance
    <3>2. i \notin line.in
      BY <1>0, <2>6
    <3>3. RowsSound /\ limit \in Limits
      BY <1>0
    <3>4. Eased
      BY <2>1, <2>4, <3>1, <3>2, <3>3, KeepOffers
    <3> QED BY <1>4, <3>4 DEF Advance, PassesLeft, Offers
  <2> QED BY <2>5, <2>6
<1>5. CASE AdvanceMerged(i)
  <2> PICK next \in Steps :
        LET w == [Succeeded(item[i]) EXCEPT !.state = next, !.paused = FALSE] IN
          \/ /\ Room(w)
             /\ item' = [item EXCEPT ![i] = Enqueued([w EXCEPT !.holds = TRUE], next)]
             /\ line' = Without(line, {i})
          \/ /\ ~Room(w)
             /\ item' = [item EXCEPT ![i] = w]
             /\ line' = Joined(Without(line, {i}), i)
    BY <1>5 DEF AdvanceMerged
  <2> DEFINE v == Succeeded(item[i])
             w == [v EXCEPT !.state = next, !.paused = FALSE]
             u == [w EXCEPT !.holds = TRUE]
             x == Enqueued(u, next)
  <2>1. v \in WorkItems /\ v.holds = item[i].holds
    BY <1>0, SucceededRow
  <2> HIDE DEF v
  <2>2. w \in WorkItems /\ w.holds = item[i].holds
    BY <2>1 DEF WorkItems
  <2>3. \/ item' = [item EXCEPT ![i] = x] /\ line' = Without(line, {i})
        \/ ~Room(w) /\ item' = [item EXCEPT ![i] = w]
    BY DEF v
  <2> HIDE DEF w
  <2>4. u \in WorkItems /\ u.holds
    BY <2>2, Fields
  <2> HIDE DEF u
  <2>5. x \in WorkItems /\ x.holds
    BY <2>4, EnqueuedRow
  <2> HIDE DEF x
  <2>6. CASE item' = [item EXCEPT ![i] = x] /\ line' = Without(line, {i})
    <3>1. Eased
      BY <1>0, <1>5, <2>5, <2>6, TakeOffers DEF AdvanceMerged
    <3> QED BY <1>5, <3>1 DEF AdvanceMerged, PassesLeft, Offers
  <2>7. CASE ~Room(w) /\ item' = [item EXCEPT ![i] = w]
    <3>1. item'[i] = w /\ ~w.holds
      BY <1>0, <2>2, <2>7, OneRow DEF Room
    <3> QED BY <1>5, <3>1 DEF AdvanceMerged, PassesLeft, Offers
  <2> QED BY <2>3, <2>6, <2>7
<1>6. CASE \/ ExpireStep(i) \/ AdvancePaused(i) \/ Settle(i) \/ FailStep(i) \/ PostponeStep(i)
           \/ StopStep(i) \/ StopLate(i)
  BY <1>6 DEF ExpireStep, AdvancePaused, Settle, FailStep, PostponeStep, StopStep, StopLate,
              PassesLeft, Offers
<1>7. CASE FenceOff(i) \/ FenceOffLate(i)
  <2>1. Eased
    BY <1>0, <1>7, Untouched DEF FenceOff, FenceOffLate
  <2> QED BY <1>7, <2>1 DEF FenceOff, FenceOffLate, PassesLeft, Offers
<1> QED BY <1>1, <1>2, <1>3, <1>4, <1>5, <1>6, <1>7 DEF Handler

LEMMA OperatorOffers ==
    ASSUME IInv, "pause" \notin Allowed, NEW i \in Items, Operator(i)
    PROVE  PassesLeft /\ Offers
<1>0. /\ RowsSound /\ limit \in Limits /\ item \in [Items -> WorkItems]
      /\ item[i] \in WorkItems /\ FirstStep \in Steps
  BY LifecycleAssumption DEF IInv, RowsSound
<1>1. CASE Create(i)
  <2> DEFINE w == [item[i] EXCEPT !.state = FirstStep]
  <2>1. w \in WorkItems /\ w.holds = item[i].holds
    BY <1>0, Fields
  <2>2. Admit(i, w, FirstStep, calls) /\ limit' = limit
    BY <1>1 DEF Create
  <2> HIDE DEF w
  <2>3. Eased \/ ~(Occupied < limit)'
    BY <1>0, <2>1, <2>2, AdmitOffers
  <2> QED BY <1>1, <2>3 DEF Create, PassesLeft, Offers
<1>2. CASE Resume(i)
  <2> DEFINE w == [item[i] EXCEPT !.state = FirstStep, !.paused = FALSE]
  <2>1. w \in WorkItems /\ w.holds = item[i].holds
    BY <1>0 DEF WorkItems
  <2>2. Admit(i, w, FirstStep, calls) /\ limit' = limit
    BY <1>2 DEF Resume
  <2> HIDE DEF w
  <2>3. Eased \/ ~(Occupied < limit)'
    BY <1>0, <2>1, <2>2, AdmitOffers
  <2> QED BY <1>2, <2>3 DEF Resume, PassesLeft, Offers
<1>3. CASE Abandon(i)
  BY <1>3 DEF Abandon, PassesLeft, Offers
<1>4. CASE ReadForRetry(i) \/ ReadForRestore(i) \/ ReadForInterrupt(i)
  <2>1. Eased
    BY <1>0, <1>4, Untouched DEF ReadForRetry, ReadForRestore, ReadForInterrupt
  <2> QED BY <1>4, <2>1 DEF ReadForRetry, ReadForRestore, ReadForInterrupt, PassesLeft, Offers
<1>5. CASE AbandonNeedsHuman(i)
  <2> DEFINE w == [item[i] EXCEPT !.holds = TRUE]
  <2>1. w \in WorkItems /\ w.holds
    BY <1>0, Fields
  <2>2. /\ limit' = limit
        /\ \/ item' = [item EXCEPT ![i] = w] /\ line' = Without(line, {i})
           \/ Wait(i, item[i])
    BY <1>0, <1>5 DEF AbandonNeedsHuman
  <2> HIDE DEF w
  <2>3. Eased \/ ~(Occupied < limit)'
    BY <1>0, <2>1, <2>2, TakeOffers, WaitOffers
  <2> QED BY <1>5, <2>3 DEF AbandonNeedsHuman, PassesLeft, Offers
<1>6. ~Pause(i) /\ ~Start(i)
  BY DEF Pause, Start
<1> QED BY <1>1, <1>2, <1>3, <1>4, <1>5, <1>6 DEF Operator

LEMMA CommitOffers ==
    ASSUME IInv, NEW c \in calls, Commit(c)
    PROVE  PassesLeft /\ Offers
<1> DEFINE i == c.item
           w == item[i]
<1>0. /\ RowsSound /\ limit \in Limits /\ item \in [Items -> WorkItems]
      /\ i \in Items /\ w \in WorkItems
      /\ c.kind \in {"retry", "restore"} => c.about \in Steps
  BY DEF IInv, RowsSound, FibersSound, Calls
<1>1. CASE CommitRetry(c)
  <2>0. limit' = limit
    BY <1>1 DEF CommitRetry
  <2>1. CASE item' = item /\ line' = line
    <3>1. Eased
      BY <1>0, <2>0, <2>1, Untouched
    <3> QED BY <1>1, <3>1 DEF CommitRetry, PassesLeft, Offers
  <2>2. CASE c.kind = "retry" /\ Admit(i, w, c.about, calls \ {c})
    <3>1. Eased \/ ~(Occupied < limit)'
      BY <1>0, <2>0, <2>2, AdmitOffers
    <3> QED BY <1>1, <3>1 DEF CommitRetry, PassesLeft, Offers
  <2>3. CASE /\ c.kind = "restore"
             /\ Admit(i, [w EXCEPT !.state = c.about, !.paused = FALSE], c.about, calls \ {c})
    <3> DEFINE u == [w EXCEPT !.state = c.about, !.paused = FALSE]
    <3>1. u \in WorkItems /\ u.holds = w.holds
      BY <1>0, <2>3 DEF WorkItems
    <3>2. Admit(i, u, c.about, calls \ {c})
      BY <2>3
    <3> HIDE DEF u
    <3>3. Eased \/ ~(Occupied < limit)'
      BY <1>0, <2>0, <2>3, <3>1, <3>2, AdmitOffers
    <3> QED BY <1>1, <3>3 DEF CommitRetry, PassesLeft, Offers
  <2> QED BY <1>1, <2>1, <2>2, <2>3 DEF CommitRetry
<1>2. CASE CommitAbandon(c) \/ CommitInterrupt(c) \/ CleanupFails(c)
  <2>1. PassesLeft /\ (owed' \/ (item' = item /\ line' = line /\ limit' = limit))
    BY <1>2 DEF CommitAbandon, CommitInterrupt, CleanupFails, PassesLeft
  <2>2. CASE owed'
    BY <2>1, <2>2 DEF Offers
  <2>3. CASE item' = item /\ line' = line /\ limit' = limit
    BY <1>0, <2>1, <2>3, Untouched DEF Offers
  <2> QED BY <2>1, <2>2, <2>3
<1> QED BY <1>1, <1>2 DEF Commit

LEMMA TimeOffers ==
    ASSUME IInv, SetLimit \/ RecoverOrphans \/ \E i \in Items : LockExpires(i) \/ DeadlinePasses(i)
    PROVE  PassesLeft /\ Offers
<1>1. CASE SetLimit \/ RecoverOrphans
  BY <1>1 DEF SetLimit, RecoverOrphans, PassesLeft, Offers
<1>2. ASSUME NEW i \in Items, LockExpires(i) \/ DeadlinePasses(i)
      PROVE  PassesLeft /\ Offers
  <2>0. /\ RowsSound /\ limit \in Limits /\ item \in [Items -> WorkItems]
        /\ item[i] \in WorkItems /\ item[i].job \in Rows \union {NoJob}
    BY DEF IInv, RowsSound, WorkItems
  <2>1. /\ line' = line /\ limit' = limit /\ PassesLeft
        /\ \/ \E k \in Rows \union {NoJob} : item' = [item EXCEPT ![i] = [item[i] EXCEPT !.job = k]]
           \/ \E k \in Rows \union {NoJob} :
                 item' = [item EXCEPT ![i] = [item[i] EXCEPT !.due = TRUE, !.job = k]]
    <3>1. CASE LockExpires(i)
      <4> DEFINE k == ExpiredRow(item[i].job)
      <4>1. k \in Rows
        BY <2>0, <3>1, RowOperators DEF LockExpires
      <4>2. item' = [item EXCEPT ![i] = [item[i] EXCEPT !.job = k]]
        BY <2>0, <3>1 DEF LockExpires
      <4> HIDE DEF k
      <4> QED BY <3>1, <4>1, <4>2 DEF LockExpires, PassesLeft
    <3>2. CASE DeadlinePasses(i)
      <4> DEFINE k == IF item[i].job = NoJob THEN NoJob ELSE DueRow(item[i].job)
      <4>1. k \in Rows \union {NoJob}
        BY <2>0, RowOperators
      <4>2. item' = [item EXCEPT ![i] = [item[i] EXCEPT !.due = TRUE, !.job = k]]
        BY <2>0, <3>2 DEF DeadlinePasses, WorkItems
      <4> HIDE DEF k
      <4> QED BY <3>2, <4>1, <4>2 DEF DeadlinePasses, PassesLeft
    <3> QED BY <1>2, <3>1, <3>2
  <2>2. ASSUME NEW w, w \in WorkItems, item' = [item EXCEPT ![i] = w], w.holds = item[i].holds,
               w.state = item[i].state, w.paused = item[i].paused
        PROVE  Eased
    BY <2>0, <2>1, <2>2, KeepOffers
  <2>3. \A k \in Rows \union {NoJob} :
           /\ [item[i] EXCEPT !.job = k] \in WorkItems
           /\ [item[i] EXCEPT !.job = k].holds = item[i].holds
           /\ [item[i] EXCEPT !.job = k].state = item[i].state
           /\ [item[i] EXCEPT !.job = k].paused = item[i].paused
           /\ [item[i] EXCEPT !.due = TRUE, !.job = k] \in WorkItems
           /\ [item[i] EXCEPT !.due = TRUE, !.job = k].holds = item[i].holds
           /\ [item[i] EXCEPT !.due = TRUE, !.job = k].state = item[i].state
           /\ [item[i] EXCEPT !.due = TRUE, !.job = k].paused = item[i].paused
    BY <2>0 DEF WorkItems
  <2>4. Eased
    BY <2>1, <2>2, <2>3
  <2> QED BY <2>1, <2>4 DEF Offers
<1> QED BY <1>1, <1>2

-----------------------------------------------------------------------------
(* The steps of a pass. *)

\* Only the pass p goes on, to the state r.
PassGoes(p, r) == pass' = [pass EXCEPT ![p] = r]

\* It keeps what it promised, or there is nothing to promise any more.
Keeps(p, r) ==
    Promises(pass[p]) =>
        \/ Promises(r) \/ ~(Occupied < limit) \/ Stranded = {}
        \/ limit - Occupied <= Cardinality(HandoffsInLine)

LEMMA GoesTo ==
    ASSUME PassesSound, NEW p \in Passes, NEW r, PassGoes(p, r)
    PROVE  pass'[p] = r /\ \A o \in Passes : o # p => pass'[o] = pass[o]
BY DEF PassesSound, PassGoes

\* The rows are left alone.
LEMMA GoesOn ==
    ASSUME RowsSound, PassesSound, limit \in Limits, NEW p \in Passes, NEW r \in PassStates,
           PassGoes(p, r), Keeps(p, r), item' = item, line' = line, limit' = limit,
           owed => owed' \/ Promises(r), Offered
    PROVE  Offered'
<1>1. Eased
  BY Untouched
<1>2. /\ Occupied' = Occupied /\ Stranded' = Stranded /\ HandoffsInLine' = HandoffsInLine
  BY DEF Occupied, Stranded, HandoffsInLine, InLine, Waiter
<1>3. \A q \in PassStates : Promises(q) => Promises(q)'
  BY <1>1, EasedPromises
<1>4. pass'[p] = r /\ \A o \in Passes : o # p => pass'[o] = pass[o]
  BY GoesTo
<1>5. CASE Promises(r)
  <2>1. Promises(r)'
    BY <1>3, <1>5
  <2> QED BY <1>4, <2>1 DEF Offered
<1>6. CASE ~Promises(r) /\ owed
  BY <1>6 DEF Offered
<1>7. CASE ~Promises(r) /\ ~owed
  <2>1. CASE ~(Occupied < limit) \/ Stranded = {}
             \/ limit - Occupied <= Cardinality(HandoffsInLine)
    BY <1>2, <2>1 DEF Offered
  <2>2. CASE \E q \in PassStates : Promises(q) /\ \E o \in Passes : pass[o] = q
    <3> PICK q \in PassStates, o \in Passes : Promises(q) /\ pass[o] = q
      BY <2>2
    <3>1. CASE o = p
      BY <1>2, <1>7, <3>1 DEF Keeps, Offered
    <3>2. CASE o # p
      <4>1. pass'[o] = q /\ Promises(q)'
        BY <1>3, <1>4, <3>2
      <4> QED BY <4>1 DEF Offered
    <3> QED BY <3>1, <3>2
  <2> QED BY <1>7, <2>1, <2>2 DEF Offered
<1> QED BY <1>5, <1>6, <1>7

\* A pass that has ended, or goes on to its wake, promises nothing.
LEMMA EndsPass ==
    ASSUME PassesSound, NEW p \in Passes, PassEnds(p)
    PROVE  \E r \in PassStates : PassGoes(p, r)
<1> DEFINE r == IF pass[p].wake = NoItem THEN IdlePass ELSE Round(p, "wake")
<1>1. PassGoes(p, r)
  BY DEF PassEnds, PassesSound, PassGoes
<1>2. r \in PassStates
  BY DEF PassesSound, PassStates, Round, IdlePass
<1> QED BY <1>1, <1>2

LEMMA BeginPassOffers ==
    ASSUME IInv, Offered, NEW p \in Passes, BeginPass(p)
    PROVE  Offered'
<1> DEFINE r == [pass[p] EXCEPT !.phase = "count"]
<1>1. PassGoes(p, r)
  BY DEF BeginPass, PassGoes, IInv, PassesSound
<1>2. r \in PassStates /\ r.phase = "count"
  BY DEF IInv, PassesSound, PassStates
<1> HIDE DEF r
<1>3. Promises(r)
  BY <1>2 DEF Promises
<1> QED BY <1>1, <1>2, <1>3, GoesOn DEF IInv, Keeps, BeginPass

LEMMA CountFreeOffers ==
    ASSUME IInv, Offered, NEW p \in Passes, CountFree(p)
    PROVE  Offered'
<1>0. /\ RowsSound /\ PassesSound /\ limit \in Limits /\ pass[p] \in PassStates
      /\ Occupied \in Nat /\ limit \in Nat
  BY LineIs DEF IInv, PassesSound
<1>1. item' = item /\ line' = line /\ limit' = limit /\ owed' = owed
  BY DEF CountFree
<1>2. CASE Occupied >= limit
  <2> PICK r \in PassStates : PassGoes(p, r)
    BY <1>0, <1>2, EndsPass DEF CountFree
  <2>1. ~(Occupied < limit)
    BY <1>0, <1>2
  <2> QED BY <1>0, <1>1, <2>1, GoesOn DEF Keeps
<1>3. CASE ~(Occupied >= limit)
  <2> DEFINE r == [pass[p] EXCEPT !.phase = "list", !.free = limit - Occupied]
  <2>1. PassGoes(p, r)
    BY <1>3 DEF CountFree, PassGoes
  <2>2. limit - Occupied \in Nat
    BY <1>0, <1>3
  <2>3. r \in PassStates /\ r.phase = "list" /\ r.free = limit - Occupied
    BY <1>0, <2>2 DEF PassStates
  <2> HIDE DEF r
  <2>4. Promises(r)
    BY <2>2, <2>3 DEF Promises
  <2> QED BY <1>0, <1>1, <2>1, <2>3, <2>4, GoesOn DEF Keeps
<1> QED BY <1>2, <1>3

LEMMA StrandedWait == Stranded \subseteq Waiting
BY DEF Stranded, Waiting

LEMMA ListWaitersOffers ==
    ASSUME IInv, Offered, Ordered(line), NEW p \in Passes, ListWaiters(p)
    PROVE  Offered'
<1>0. /\ RowsSound /\ PassesSound /\ limit \in Limits /\ pass[p] \in PassStates
      /\ Occupied \in Nat /\ limit \in Nat /\ pass[p].free \in Nat
      /\ "needs_human" \notin Steps
  BY LineIs, LifecycleAssumption DEF IInv, PassesSound, PassStates
<1>1. /\ item' = item /\ line' = line /\ limit' = limit /\ owed' = owed
      /\ pass[p].phase = "list"
  BY DEF ListWaiters
<1> DEFINE n == pass[p].free
           L == Listed(n)
<1>2. /\ \A e \in L : e.item \in Waiting /\ e.state = item[e.item].state
      /\ Cardinality(L) < n => \A i \in Waiting : \E e \in L : e.item = i
      /\ ~(Cardinality(L) < n) => n <= Cardinality({e.item : e \in L})
  BY <1>0, ListedEnough
<1>3. CASE L = {}
  <2> PICK r \in PassStates : PassGoes(p, r)
    BY <1>0, <1>3, EndsPass DEF ListWaiters
  <2>1. Cardinality(L) = 0
    BY <1>3, FS_EmptySet
  <2>2. CASE n = 0
    <3>1. Promises(pass[p]) => ~(Occupied < limit)
      BY <1>0, <1>1, <2>2 DEF Promises
    <3> QED BY <1>0, <1>1, <3>1, GoesOn DEF Keeps
  <2>3. CASE n # 0
    <3>1. Stranded = {}
      BY <1>0, <1>2, <1>3, <2>1, <2>3, StrandedWait
    <3> QED BY <1>0, <1>1, <3>1, GoesOn DEF Keeps
  <2> QED BY <2>2, <2>3
<1>4. CASE L # {}
  <2> DEFINE short == Cardinality(L) < n
             r == [pass[p] EXCEPT !.phase = "admit", !.free = 0, !.todo = L, !.short = short]
  <2>1. PassGoes(p, r)
    BY <1>4 DEF ListWaiters, PassGoes
  <2>2. r \in PassStates
    <3>1. L \in SUBSET [item : Items, state : Steps \union {"needs_human"}, rank : Nat]
      BY <1>0, ListedWaiters
    <3>2. short \in BOOLEAN
      OBVIOUS
    <3> HIDE DEF L, short
    <3> QED BY <1>0, <3>1, <3>2 DEF PassStates
  <2>3. /\ r.phase = "admit" /\ r.todo = L
        /\ r.short <=> short
    BY <1>0 DEF PassStates
  <2> HIDE DEF r, L
  <2>4. CASE short
    <3>1. \A i \in Stranded : \E e \in L : e.item = i /\ e.state # "needs_human"
      BY <1>0, <1>2, <2>4, StrandedWait DEF Stranded
    <3>2. Promises(r)
      BY <2>3, <2>4, <3>1 DEF Promises
    <3> QED BY <1>0, <1>1, <2>1, <2>2, <3>2, GoesOn DEF Keeps
  <2>5. CASE ~short
    <3> SUFFICES ASSUME Promises(pass[p]) PROVE Promises(r)
      BY <1>0, <1>1, <2>1, <2>2, GoesOn DEF Keeps
    <3>1. limit - Occupied <= n
      BY <1>1 DEF Promises
    <3>2. {e.item : e \in L} \subseteq Remaining(r)
      BY <1>2, <2>3 DEF Remaining, Waiting
    <3>3. IsFiniteSet(Remaining(r))
      <4>1. Remaining(r) \subseteq InLine /\ IsFiniteSet(InLine)
        BY <1>0, LineIs DEF Remaining
      <4> QED BY <4>1, FS_Subset
    <3>4. Cardinality({e.item : e \in L}) <= Cardinality(Remaining(r))
          /\ Cardinality(Remaining(r)) \in Nat /\ Cardinality({e.item : e \in L}) \in Nat
      BY <3>2, <3>3, FS_Subset, FS_CardinalityType
    <3>5. limit - Occupied <= Cardinality(Remaining(r))
      BY <1>0, <1>2, <2>5, <3>1, <3>4
    <3>6. \A e \in r.todo : e.state = "needs_human" /\ e.item \in InLine
                               => e.item \in HandoffsInLine
      BY <1>2, <2>3 DEF Waiting, HandoffsInLine
    <3> QED BY <2>3, <2>5, <3>5, <3>6 DEF Promises, Enough
  <2> QED BY <2>4, <2>5
<1> QED BY <1>3, <1>4

LEMMA EndRoundOffers ==
    ASSUME IInv, Offered, NEW p \in Passes, EndRound(p)
    PROVE  Offered'
<1>0. /\ RowsSound /\ PassesSound /\ limit \in Limits /\ pass[p] \in PassStates
  BY DEF IInv, PassesSound
<1>1. /\ item' = item /\ line' = line /\ limit' = limit /\ owed' = owed
      /\ pass[p].phase = "admit" /\ pass[p].todo = {}
  BY DEF EndRound
<1>2. CASE pass[p].short \/ ~pass[p].any
  <2> PICK r \in PassStates : PassGoes(p, r)
    BY <1>0, <1>2, EndsPass DEF EndRound
  <2>1. Promises(pass[p]) => Stranded = {} \/ limit - Occupied <= Cardinality(HandoffsInLine)
    <3>1. Remaining(pass[p]) = HandoffsInLine
      BY <1>1 DEF Remaining
    <3> QED BY <1>1, <1>2, <3>1 DEF Promises, Enough
  <2> QED BY <1>0, <1>1, <2>1, GoesOn DEF Keeps
<1>3. CASE ~(pass[p].short \/ ~pass[p].any)
  <2> DEFINE r == Round(p, "count")
  <2>1. PassGoes(p, r)
    BY <1>3 DEF EndRound, PassGoes
  <2>2. r \in PassStates /\ r.phase = "count"
    BY <1>0 DEF PassStates, Round, IdlePass
  <2> HIDE DEF r
  <2>3. Promises(r)
    BY <2>2 DEF Promises
  <2> QED BY <1>0, <1>1, <2>1, <2>2, <2>3, GoesOn DEF Keeps
<1> QED BY <1>2, <1>3

\* The rows change as well.
LEMMA GoesWith ==
    ASSUME RowsSound, PassesSound, limit \in Limits, NEW p \in Passes, NEW r \in PassStates,
           PassGoes(p, r), Eased => (Promises(pass[p]) => Promises(r)'), Offers, owed' = owed,
           Offered
    PROVE  Offered'
<1>1. CASE Eased
  <2>1. /\ \A q \in PassStates : Promises(q) => Promises(q)'
        /\ Stranded' \subseteq Stranded
        /\ limit - Occupied <= Cardinality(HandoffsInLine) =>
              (limit - Occupied <= Cardinality(HandoffsInLine))'
        /\ Occupied' < limit' => Occupied < limit
    BY <1>1, EasedPromises
  <2>2. pass'[p] = r /\ \A o \in Passes : o # p => pass'[o] = pass[o]
    BY GoesTo
  <2>3. CASE \E q \in PassStates : Promises(q) /\ \E o \in Passes : pass[o] = q
    <3> PICK q \in PassStates, o \in Passes : Promises(q) /\ pass[o] = q
      BY <2>3
    <3>1. CASE o = p
      <4>1. Promises(r)'
        BY <1>1, <3>1
      <4> QED BY <2>2, <4>1 DEF Offered
    <3>2. CASE o # p
      <4>1. pass'[o] = q /\ Promises(q)'
        BY <2>1, <2>2, <3>2
      <4> QED BY <4>1 DEF Offered
    <3> QED BY <3>1, <3>2
  <2>4. CASE ~\E q \in PassStates : Promises(q) /\ \E o \in Passes : pass[o] = q
    <3>1. \/ ~(Occupied < limit) \/ Stranded = {} \/ owed
          \/ limit - Occupied <= Cardinality(HandoffsInLine)
      BY <2>4 DEF Offered
    <3> QED BY <2>1, <3>1 DEF Offered
  <2> QED BY <2>3, <2>4
<1>2. CASE ~(Occupied < limit)' \/ owed'
  BY <1>2 DEF Offered
<1> QED BY <1>1, <1>2 DEF Offers

LEMMA AdmitWaiterOffers ==
    ASSUME IInv, Offered, NEW p \in Passes, AdmitWaiter(p)
    PROVE  Offered'
<1>0. /\ RowsSound /\ PassesSound /\ limit \in Limits /\ pass[p] \in PassStates
      /\ item \in [Items -> WorkItems] /\ Occupied \in Nat /\ limit \in Nat
  BY LineIs DEF IInv, RowsSound, PassesSound
<1>1. limit' = limit /\ owed' = owed /\ pass[p].phase = "admit"
  BY DEF AdmitWaiter
<1> PICK e \in pass[p].todo :
       \/ /\ Occupied >= limit
          /\ pass' = [pass EXCEPT ![p].todo = {}]
          /\ UNCHANGED <<item, line, handler, late, calls>>
       \/ /\ e.state = "needs_human"
          /\ Skip(p, e)
          /\ UNCHANGED <<item, line, handler, late, calls>>
       \/ /\ e.state # "needs_human" /\ ~Room(item[e.item])
          /\ Wait(e.item, item[e.item])
          /\ Skip(p, e)
          /\ UNCHANGED <<handler, late, calls>>
       \/ /\ e.state # "needs_human" /\ Room(item[e.item]) /\ Active(item[e.item])
          /\ item' = [item EXCEPT ![e.item].holds = TRUE]
          /\ line' = Without(line, {e.item})
          /\ Took(p, e)
          /\ UNCHANGED <<handler, late, calls>>
       \/ /\ e.state # "needs_human" /\ Room(item[e.item]) /\ ~Active(item[e.item])
          /\ Admit(e.item, item[e.item], e.state, calls)
          /\ Took(p, e)
  BY DEF AdmitWaiter
<1> DEFINE i == e.item
<1>2. /\ i \in Items /\ item[i] \in WorkItems
      /\ e.state # "needs_human" => e.state \in Steps
  BY <1>0 DEF PassStates
<1>3. CASE Occupied >= limit
  <2>1. ~(Occupied < limit)
    BY <1>0, <1>3
  <2>2. CASE item' = item
    BY <1>1, <2>1, <2>2 DEF Offered, Occupied
  <2>3. CASE item' # item
    <3>1. \/ Wait(i, item[i])
          \/ item' = [item EXCEPT ![i].holds = TRUE] /\ line' = Without(line, {i})
          \/ e.state # "needs_human" /\ Admit(i, item[i], e.state, calls)
      BY <2>3
    <3> DEFINE w == [item[i] EXCEPT !.holds = TRUE]
    <3>2. w \in WorkItems /\ w.holds
      BY <1>2, Fields
    <3>3. \/ Wait(i, item[i])
          \/ item' = [item EXCEPT ![i] = w] /\ line' = Without(line, {i})
          \/ e.state # "needs_human" /\ Admit(i, item[i], e.state, calls)
      BY <1>0, <1>2, <3>1
    <3> HIDE DEF w
    <3>4. Eased \/ ~(Occupied < limit)'
      BY <1>0, <1>1, <1>2, <3>2, <3>3, TakeOffers, WaitOffers, AdmitOffers
    <3>5. ~(Occupied < limit)'
      BY <1>0, <2>1, <3>4, EasedPromises
    <3> QED BY <3>5 DEF Offered
  <2> QED BY <2>2, <2>3
<1>4. CASE ~(Occupied >= limit) /\ e.state = "needs_human"
  <2>0. Skip(p, e) /\ item' = item /\ line' = line
    BY <1>4
  <2> DEFINE r == [pass[p] EXCEPT !.todo = pass[p].todo \ {e}]
  <2>1. PassGoes(p, r)
    BY <1>0, <2>0 DEF Skip, PassGoes, PassesSound
  <2>2. /\ r \in PassStates /\ r.phase = pass[p].phase /\ r.short = pass[p].short
        /\ r.any = pass[p].any /\ r.todo = pass[p].todo \ {e}
    BY <1>0 DEF PassStates
  <2> HIDE DEF r
  <2>3. CASE ~pass[p].short /\ Enough(pass[p])
    <3>1. i \in InLine => i \in HandoffsInLine
      BY <1>4, <2>3 DEF Enough
    <3>2. Remaining(r) = Remaining(pass[p])
      BY <2>2, <3>1 DEF Remaining
    <3>3. Enough(r)
      BY <2>2, <2>3, <3>2 DEF Enough
    <3>4. Promises(r)
      BY <1>1, <2>2, <2>3, <3>3 DEF Promises
    <3> QED BY <1>0, <1>1, <2>0, <2>1, <2>2, <3>4, GoesOn DEF Keeps
  <2>4. CASE ~(~pass[p].short /\ Enough(pass[p]))
    <3>1. Promises(pass[p]) => Promises(r)
      BY <1>1, <1>4, <2>2, <2>4 DEF Promises
    <3> QED BY <1>0, <1>1, <2>0, <2>1, <2>2, <3>1, GoesOn DEF Keeps
  <2> QED BY <2>3, <2>4
<1>5. CASE ~(Occupied >= limit) /\ e.state # "needs_human"
  <2>0. /\ Took(p, e)
        /\ \/ item' = [item EXCEPT ![i].holds = TRUE] /\ line' = Without(line, {i})
           \/ Admit(i, item[i], e.state, calls)
    BY <1>0, <1>5 DEF Room
  <2> DEFINE w == [item[i] EXCEPT !.holds = TRUE]
  <2>1. w \in WorkItems /\ w.holds
    BY <1>2, Fields
  <2>2. \/ item' = [item EXCEPT ![i] = w] /\ line' = Without(line, {i})
        \/ Admit(i, item[i], e.state, calls)
    BY <1>0, <1>2, <2>0
  <2> HIDE DEF w
  <2>3. (Eased /\ i \notin Stranded') \/ ~(Occupied < limit)'
    BY <1>0, <1>1, <1>2, <1>5, <2>1, <2>2, TakeOffers, AdmitOffers
  <2> PICK r : r = [pass[p] EXCEPT !.todo = pass[p].todo \ {e}, !.any = TRUE]
    OBVIOUS
  <2>4. PassGoes(p, r)
    BY <1>0, <2>0 DEF Took, PassGoes, PassesSound
  <2>5. /\ r \in PassStates /\ r.phase = "admit" /\ r.short = pass[p].short
        /\ r.any /\ r.todo = pass[p].todo \ {e}
    BY <1>0, <1>1 DEF PassStates
  <2>6. CASE ~(Occupied < limit)'
    BY <2>6 DEF Offered
  <2>7. CASE Eased /\ i \notin Stranded'
    <3>1. Stranded' \subseteq Stranded
      BY <1>0, <2>7, EasedPromises
    <3>2. Promises(pass[p]) => Promises(r)'
      BY <1>1, <2>5, <2>7, <3>1 DEF Promises
    <3> QED BY <1>0, <1>1, <2>4, <2>5, <2>7, <3>2, GoesWith DEF Offers
  <2> QED BY <2>3, <2>6, <2>7
<1> QED BY <1>3, <1>4, <1>5

LEMMA WakeOffers ==
    ASSUME IInv, Offered, NEW p \in Passes,
           CommitWake(p) \/ AckWake(p) \/ \E i \in Items : BeginWake(i, p)
    PROVE  Offered'
<1>0. /\ RowsSound /\ PassesSound /\ limit \in Limits /\ pass[p] \in PassStates
      /\ item \in [Items -> WorkItems]
  BY DEF IInv, RowsSound, PassesSound
<1>1. ASSUME NEW i \in Items, BeginWake(i, p) PROVE Offered'
  <2> DEFINE k == ClaimedRow(item[i].job)
             w == [item[i] EXCEPT !.job = k]
  <2> PICK r : r = [pass[p] EXCEPT !.phase = "count", !.wake = i]
    OBVIOUS
  <2>1. /\ line' = line /\ limit' = limit /\ owed' = owed
        /\ item' = [item EXCEPT ![i] = w]
        /\ PassGoes(p, r)
    BY <1>0, <1>1 DEF BeginWake, PassGoes, PassesSound
  <2>2. k \in Rows
    BY <1>0, <1>1, RowOperators DEF BeginWake, WorkItems
  <2>3. /\ w \in WorkItems /\ w.holds = item[i].holds
        /\ w.state = item[i].state /\ w.paused = item[i].paused
    BY <1>0, <2>2 DEF WorkItems
  <2> HIDE DEF w
  <2>4. Eased
    BY <1>0, <2>1, <2>3, KeepOffers
  <2>5. r \in PassStates /\ r.phase = "count"
    BY <1>0 DEF PassStates
  <2>6. Promises(r)'
    BY <2>5 DEF Promises
  <2> QED BY <1>0, <2>1, <2>4, <2>5, <2>6, GoesWith DEF Offers
<1>2. CASE CommitWake(p) \/ AckWake(p)
  <2> DEFINE i == pass[p].wake
             w == Acknowledged(item[i])
  <2> PICK r \in {IdlePass, Round(p, "ack")} : PassGoes(p, r)
    BY <1>2 DEF CommitWake, AckWake, PassGoes
  <2>1. /\ limit' = limit /\ owed' = owed /\ pass[p].phase \in {"wake", "ack"}
        /\ \/ Admit(i, item[i], item[i].step, calls)
           \/ item' = [item EXCEPT ![i] = w] /\ line' = line
           \/ item' = item /\ line' = line
    BY <1>2 DEF CommitWake, AckWake
  <2>2. /\ i \in Items /\ item[i] \in WorkItems /\ item[i].step \in Steps
    BY <1>0, <2>1 DEF PassesSound, WorkItems
  <2>3. /\ w \in WorkItems /\ w.holds = item[i].holds
        /\ w.state = item[i].state /\ w.paused = item[i].paused
    BY <2>2 DEF WorkItems, Acknowledged
  <2> HIDE DEF w
  <2>4. Offers
    <3>1. Eased \/ ~(Occupied < limit)'
      BY <1>0, <2>1, <2>2, <2>3, AdmitOffers, KeepOffers, Untouched
    <3> QED BY <3>1 DEF Offers
  <2>5. r \in PassStates
    <3>1. Round(p, "ack") \in PassStates
      BY ONLY <2>2, IdlePassIs DEF Round
    <3> QED BY <3>1, IdlePassIs
  <2>6. ~Promises(pass[p])
    BY <2>1 DEF Promises
  <2> QED BY <1>0, <2>1, <2>4, <2>5, <2>6, GoesWith
<1> QED BY <1>1, <1>2

LEMMA OfferedStep ==
    ASSUME "pause" \notin Allowed, "restart" \notin Allowed
    PROVE  IInv /\ Ordered(line) /\ Offered /\ [Next]_vars => Offered'
<1> SUFFICES ASSUME IInv, Ordered(line), Offered, [Next]_vars PROVE Offered'
  OBVIOUS
<1>0. RowsSound /\ limit \in Limits
  BY DEF IInv
<1>1. ASSUME PassesLeft, Offers PROVE Offered'
  BY <1>0, <1>1, OffersKept
<1>2. CASE vars' = vars
  <2>1. item' = item /\ line' = line /\ limit' = limit /\ PassesLeft
    BY <1>2 DEF vars, PassesLeft
  <2> QED BY <1>0, <1>1, <2>1, Untouched DEF Offers
<1>3. ASSUME NEW i \in Items, Deliver(i) \/ Handler(i) PROVE Offered'
  BY <1>1, <1>3, HandlerOffers
<1>4. ASSUME NEW i \in Items, Operator(i) PROVE Offered'
  BY <1>1, <1>4, OperatorOffers
<1>5. ASSUME NEW c \in calls, Commit(c) PROVE Offered'
  BY <1>1, <1>5, CommitOffers
<1>6. CASE SetLimit \/ RecoverOrphans \/ \E i \in Items : LockExpires(i) \/ DeadlinePasses(i)
  BY <1>1, <1>6, TimeOffers
<1>7. ASSUME NEW p \in Passes, Pass(p) PROVE Offered'
  BY <1>7, BeginPassOffers, CountFreeOffers, ListWaitersOffers, AdmitWaiterOffers,
     EndRoundOffers, WakeOffers DEF Pass
<1>8. ~Restart
  BY DEF Restart
<1> QED BY <1>2, <1>3, <1>4, <1>5, <1>6, <1>7, <1>8 DEF Next

\* No lost wake-up, as long as nobody pauses and the process lives: a free slot
\* for which an operational Work Item waits is on its way to it, unless as many
\* Needs Human items stand in line as slots are free
\* (admitWaitingWorkItems and every caller that has to run it).
THEOREM FreeSlotsAreOffered ==
    ASSUME "pause" \notin Allowed, "restart" \notin Allowed
    PROVE  Spec => []FreeSlotIsOffered
<1>1. Init => Ordered(line) /\ Offered
  BY DEF Init, NoLine, Ordered, Offered, Stranded, InLine
<1>2. IInv /\ Ordered(line) /\ [Next]_vars => Ordered(line)'
  BY OrderedStep
<1>3. IInv /\ Ordered(line) /\ Offered /\ [Next]_vars => Offered'
  BY OfferedStep
<1>4. IInv /\ Offered => FreeSlotIsOffered
  BY DEF IInv, PassesSound, Offered, Promises, FreeSlotIsOffered, Looking
<1> QED
  BY <1>1, <1>2, <1>3, <1>4, Invariance, PTL DEF Spec
=============================================================================
