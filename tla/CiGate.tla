------------------------------- MODULE CiGate -------------------------------
(***************************************************************************)
(* The CI Gate of one Repository: observations of the forge's runs that    *)
(* latch a failure, open an incident, hold Work Items and start a CI       *)
(* Repair (observe-repository-ci-gate.ts of packages/graphql-api; the CI   *)
(* Repair modules of packages/work-item-lifecycle; the CI Gate tables of   *)
(* packages/db-service).                                                   *)
(*                                                                         *)
(* Observations overlap: the periodic refresh and the saving of settings   *)
(* both start one. A call of the forge, a transaction, and the releases    *)
(* and the reading that follow a transaction are one action each.          *)
(*                                                                         *)
(* Data abstraction: a run is its key and its status; an incident is its   *)
(* number, the newest has the greatest. Incidents that are opened and      *)
(* resolved in one transaction, and the reasons of recovery, are left out: *)
(* nothing in the program reads them. Work Items are neither paused nor    *)
(* waiting for a provider.                                                 *)
(***************************************************************************)
EXTENDS CiGateCoverage, Sequences

CONSTANTS
    Definitions,    \* CI Gate Definitions, in the order of their labels
    Page,           \* CI_GATE_OBSERVATION_PAGE_SIZE
    Observers,
    Items,          \* ordinary Work Items
    Plans           \* bounds of one behaviour

Calls == {"begin", "append", "decide", "rerun", "delete", "branch", "fail", "select", "manual",
          "end", "authorize", "crash", "fault"}

Statuses == {"pending", "red", "failed", "passed", "cancelled"}

\* What the forge knows of a run.
ForgeRun ==
    [id : Nat \ {0}, attempt : 1..(MaxAttempts - 1), status : Statuses, branch : Branches]

ASSUME GateAssumption ==
    /\ Definitions \subseteq Nat /\ IsFiniteSet(Definitions)
    /\ Page \in Nat \ {0}
    /\ \A p \in Plans :
          /\ p.calls \in [Calls -> Nat]
          /\ p.definitions \subseteq Definitions /\ p.observers \subseteq Observers
          /\ p.items \subseteq Items
          /\ p.fresh \union p.outcomes \subseteq Statuses
          /\ p.branch \in Branches
          /\ p.runs \in [Definitions -> SUBSET ForgeRun]
          /\ \A d \in Definitions : IsFiniteSet(p.runs[d])

VARIABLES
    plan, may,      \* bound: the plan, and what is left of it
    forge,          \* external: the default branch, the runs of each definition, the next id
    gate,           \* CI Gate tables: definitions, branch, obs, open incidents
    repair,         \* the CI Repair, and the baselines of automatic starts
    items,          \* work_item.waiting_for_ci_repair, ci_repair_authorization
    turn,           \* observers
    manual,         \* the operator's Start CI Repair
    hist            \* history

vars == <<plan, may, forge, gate, repair, items, turn, manual, hist>>

NoRun == [key |-> None, status |-> "none"]

NoObservation ==
    [last |-> NoRun, latched |-> None, err |-> FALSE, cov |-> NoCoverage(NoBranch)]

NoBaseline == [order |-> None, floor |-> None, suppress |-> None]

NoTurn ==
    [pc |-> "idle", phase |-> "latest", defs |-> {}, todo |-> {}, obs |-> <<>>, active |-> None,
     branch |-> NoBranch, changed |-> FALSE, throttled |-> FALSE, closed |-> FALSE,
     bases |-> <<>>, newest |-> <<>>, got |-> <<>>, ev |-> {},
     due |-> {}, known |-> <<>>]

Once(call) == may[call] > 0 /\ may' = [may EXCEPT ![call] = @ - 1]

Bound == <<plan, may>>

-----------------------------------------------------------------------------
(* The forge and its adapter (external; github-service-live.ts). *)

AsRun(r) == [key |-> Key(r.id, r.attempt), status |-> r.status]

Listed(d, branch) == {r \in forge.runs[d] : r.branch = branch}

\* The newest runs of S, one page of them.
Top(S) == {r \in S : Cardinality({q \in S : q.id > r.id}) < Page}

\* annotateEarlyJobFailure: only the jobs of the newest unfinished run are
\* looked at, and only if the newest run has no result.
Annotated(page) ==
    LET open   == {r \in page : r.status \in {"pending", "red"}}
        looked == {r \in open : /\ \A q \in open : q.key <= r.key
                                /\ \A q \in page : q.key > r.key => q.status = "cancelled"}
    IN  {IF r \in looked THEN r
         ELSE [r EXCEPT !.status = IF @ = "red" THEN "pending" ELSE @] : r \in page}

\* observeCiGate, scope latest
LatestPage(d) ==
    LET raw == Top(Listed(d, forge.branch))
    IN  [def |-> d, branch |-> forge.branch, exhausted |-> Cardinality(raw) < Page,
         runs |-> Annotated({AsRun(r) : r \in raw})]

\* observeCiGate, scope catch_up: the runs up to a bound, and one run above it.
CatchUpPage(d, bound, revisit) ==
    LET listed  == Listed(d, forge.branch)
        raw     == Top({r \in listed : r.id <= RunOf(bound)})
        again   == {AsRun(r) : r \in {q \in listed : q.id = RunOf(revisit)}}
        within  == {x \in {AsRun(r) : r \in raw} : x.key <= bound}
    IN  [def |-> d, branch |-> forge.branch, exhausted |-> Cardinality(raw) < Page,
         runs |-> Annotated({x \in within : \A y \in again : ~SameRun(x.key, y.key)} \union again)]

\* Ids grow, and the id of a deleted run is not given again.
NextId(runs) == 1 + Newest(UNION {{r.id : r \in runs[d]} : d \in Definitions})

AppendRun(d, status) ==
    LET new == [id |-> forge.next, attempt |-> 1, status |-> status, branch |-> forge.branch]
    IN  /\ Once("append")
        /\ forge' = [forge EXCEPT !.runs[d] = @ \union {new}, !.next = @ + 1]
        /\ UNCHANGED <<plan, gate, repair, items, turn, manual, hist>>

Changed(d, r, s) ==
    /\ forge' = [forge EXCEPT !.runs[d] = (@ \ {r}) \union s]
    /\ UNCHANGED <<plan, gate, repair, items, turn, manual, hist>>

Decide(d, r, status) ==
    /\ r.status = "pending" \/ (r.status = "red" /\ status \in {"failed", "cancelled"})
    /\ Once("decide")
    /\ Changed(d, r, {[r EXCEPT !.status = status]})

\* A rerun takes the place of the attempt before it.
Rerun(d, r) ==
    /\ r.status \notin {"pending", "red"} /\ r.attempt + 1 < MaxAttempts
    /\ Once("rerun")
    /\ Changed(d, r, {[r EXCEPT !.attempt = @ + 1, !.status = "pending"]})

Delete(d, r) == Once("delete") /\ Changed(d, r, {})

ChangeBranch(b) ==
    /\ b # forge.branch
    /\ Once("branch")
    /\ forge' = [forge EXCEPT !.branch = b]
    /\ UNCHANGED <<plan, gate, repair, items, turn, manual, hist>>

-----------------------------------------------------------------------------
(* One page of runs, applied to what was known. *)

\* Mutant: a catch-up page is compared with nothing newer.
Alone(prior, page, ignore, retain, context) == {[run |-> r, rank |-> 2] : r \in page}

\* The runs that applyObservedRuns compares. Of two records of the same attempt
\* the one of the lower rank comes first: the stored latest run, the page, then
\* what else is known to be newer than the page.
Compared(prior, page, ignore, retain, context) ==
    LET keep == retain /\ ~ignore /\ page # {} /\ Newest(Keys(page)) < prior.last.key
    IN  (IF keep THEN {[run |-> prior.last, rank |-> 1]} ELSE {})
        \union {[run |-> r, rank |-> 2] : r \in page}
        \union {[run |-> context[i], rank |-> 2 + i] : i \in DOMAIN context}

Ahead(x, y) == x.run.key > y.run.key \/ (x.run.key = y.run.key /\ x.rank < y.rank)

\* latestDecisive of reduceObservedRuns: the newest run that failed or passed.
Decisive(compared) ==
    LET results == {x \in compared : x.run.status \in Failing \union {"passed"}}
    IN  {x \in results : \A y \in results \ {x} : Ahead(x, y)}

\* applyObservedRuns: the latch. A success does not clear it while a later
\* attempt of the latched run, newer than the success, has not passed.
Latched(before, compared) ==
    LET first == Decisive(compared)
        newer == \E x \in compared : /\ SameRun(x.run.key, before) /\ x.run.status # "passed"
                                     /\ \A y \in first : Ahead(x, y)
    IN  IF \E x \in first : x.run.status \in Failing THEN (CHOOSE x \in first : TRUE).run.key
        ELSE IF /\ first # {}
                /\ \/ before = None \/ ~newer
                   \/ \E x \in first : SameRun(x.run.key, before)
        THEN None
        ELSE before

\* applyObservedRuns
Applied(prior, page, ignore, retain, context) ==
    LET was      == IF ignore THEN NoObservation ELSE prior
        compared == Compared(prior, page, ignore, retain, context)
        kept     == \E x \in compared : x.rank = 1
        latest   == IF kept \/ page = {} THEN was.last
                    ELSE CHOOSE r \in page : r.key = Newest(Keys(page))
    IN  [prior EXCEPT !.last = latest, !.latched = Latched(was.latched, compared), !.err = FALSE]

\* unavailableObservation
Unavailable(prior) == [prior EXCEPT !.err = TRUE]

\* baselineIrrelevant
Irrelevant(o) == o.latched # None \/ o.last.status \in Failing \union {"passed"}

ClosedIn(obs) == \E d \in Definitions : obs[d].latched # None

\* repositoryCiGateIsClosed
Closed == ClosedIn(gate.obs)

\* activeIncident of loadCiGateSnapshot
Active == Newest(gate.open)

\* Mutant: an incident is resolved when a definition passes, whatever the others do.
IncidentsOfOne(t, changed, obs) ==
    IF \E d \in Definitions : t.obs[d].latched # None /\ obs[d].latched = None
    THEN gate.open \ {t.active}
    ELSE IF ClosedIn(obs) /\ ~ClosedIn(t.obs) THEN gate.open \union {1 + gate.incidents}
    ELSE gate.open

\* commitWithIncidents: the incidents that are open afterwards. An incident is
\* written whole: what another observer made of it since is overwritten.
Incidents(t, changed, obs) ==
    LET was     == ClosedIn(t.obs)
        left    == IF changed THEN gate.open \ {t.active} ELSE gate.open
        another == left \union {1 + gate.incidents}
    IN  IF ClosedIn(obs)
        THEN IF t.active = None \/ ~was \/ changed THEN another ELSE left \union {t.active}
        ELSE IF was THEN left \ {t.active} ELSE left

\* commitCiGateSnapshot: all observations are replaced, with those of the
\* definitions and of the moment that the observer knows.
Commit(t, d, record, changed, branch) ==
    LET obs  == [e \in Definitions |-> IF e = d THEN record
                                       ELSE IF e \in t.defs THEN t.obs[e] ELSE NoObservation]
        open == Incidents(t, changed, obs)
    IN  [gate EXCEPT !.obs = obs, !.branch = branch, !.open = open,
                     !.incidents = IF open \ gate.open = {} THEN @ ELSE Newest(open \union {@})]

-----------------------------------------------------------------------------
(* An observation. *)

Set(o, t) == turn' = [turn EXCEPT ![o] = t]

World == <<plan, forge, manual>>

Begin(o) ==
    LET defs == gate.definitions
    IN  /\ turn[o].pc = "idle"
        /\ Once("begin")
        /\ Set(o, [NoTurn EXCEPT !.pc = IF defs = {} THEN "clear" ELSE "fetch", !.defs = defs,
                                 !.todo = defs, !.obs = gate.obs, !.active = Active,
                                 !.branch = gate.branch,
                                 !.bases = [d \in Definitions |-> repair.base[d].order],
                                 !.newest = [d \in Definitions |-> <<>>]])
        /\ hist' = [hist EXCEPT !.overlapped = @ \/ \E p \in Observers : turn[p].pc # "idle"]
        /\ UNCHANGED <<World, gate, repair, items>>

\* No definition is selected.
Clear(o) ==
    LET t == turn[o]
    IN  /\ t.pc = "clear"
        /\ gate' = [gate EXCEPT !.obs = [d \in Definitions |-> NoObservation],
                                !.open = @ \ {t.active}]
        /\ Set(o, [t EXCEPT !.pc = "settle", !.phase = "end", !.closed = FALSE,
                            !.due = {w \in Items : items[w].held}])
        /\ UNCHANGED <<World, may, repair, items, hist>>

\* The definitions that have something to catch up.
Behind(t) == {d \in t.todo : CatchUpBound(t.obs[d].cov) # None}

Answer(t, d) ==
    LET cov   == t.obs[d].cov
        bound == CatchUpBound(cov)
    IN  IF t.phase = "latest" THEN LatestPage(d) ELSE CatchUpPage(d, bound, Revisit(cov, bound))

\* observeCiGate is called for the next definition, and answers.
Fetch(o, kind) ==
    LET t    == turn[o]
        todo == IF t.phase = "latest" THEN t.todo ELSE Behind(t)
        d    == Min(todo)
        page == Answer(t, d)
    IN  /\ t.pc = "fetch" /\ todo # {}
        /\ IF kind = "observed" THEN UNCHANGED may ELSE Once("fail")
        /\ Set(o, [t EXCEPT !.pc = "apply", !.got = [kind |-> kind, page |-> page],
                            !.todo = IF kind = "throttled" THEN {} ELSE {e \in todo : e > d},
                            !.throttled = kind = "throttled"])
        /\ UNCHANGED <<World, gate, repair, items, hist>>

\* Nothing is left to catch up.
CaughtUp(o) ==
    LET t == turn[o]
    IN  /\ t.pc = "fetch" /\ t.phase = "catch_up" /\ Behind(t) = {}
        /\ Set(o, [t EXCEPT !.pc = "consider", !.phase = "end"])
        /\ UNCHANGED <<World, may, gate, repair, items, hist>>

Committed(o, t, d, record, changed, branch) ==
    LET next == Commit(t, d, record, changed, branch)
        page == turn[o].got.page
    IN  /\ gate' = next
        /\ Set(o, [t EXCEPT !.pc = "settle", !.changed = changed, !.branch = branch,
                            !.closed = ClosedIn(next.obs), !.got = <<>>,
                            !.due = IF ClosedIn(next.obs) THEN {} ELSE {w \in Items : items[w].held}])
        /\ hist' = IF turn[o].got.kind # "observed" THEN hist
                   ELSE [hist EXCEPT !.read[d] = @ \union {RunOf(k) : k \in Keys(page.runs)},
                                     !.mixed = IF page.branch = record.cov.branch THEN @
                                               ELSE @ \union {d}]
        /\ UNCHANGED <<World, may, repair, items>>

\* The newest page of a definition.
ApplyNewest(o) ==
    LET t       == turn[o]
        kind    == t.got.kind
        p       == t.got.page
        prior   == t.obs[p.def]
        called  == kind \in {"observed", "unavailable"}
        changed == t.changed \/ (called /\ t.branch \notin {NoBranch, p.branch})
        known   == IF changed THEN NoObservation ELSE prior
        branch  == IF called THEN p.branch ELSE t.branch
        seen    == Applied(known, p.runs, FALSE, FALSE, <<>>)
        cov     == ApplyLatest(known.cov, branch, p.runs, p.exhausted, t.bases[p.def],
                               Irrelevant(seen))
        first   == Decisive(Compared(known, p.runs, FALSE, FALSE, <<>>))
    IN  /\ t.pc = "apply" /\ t.phase = "latest"
        /\ IF kind = "observed"
           THEN Committed(o, [t EXCEPT !.newest[p.def] = [known |-> TRUE, first |-> {x.run : x \in first}]],
                          p.def, [seen EXCEPT !.cov = cov], changed, branch)
           ELSE Committed(o, [t EXCEPT !.newest[p.def] = [known |-> FALSE, first |-> {}]],
                          p.def, Unavailable(known), changed, branch)

\* The decisiveContext of a catch-up page.
Context(t, d) ==
    LET latched == t.obs[d].latched
        first   == t.newest[d].first
    IN  (IF first = {} THEN <<>> ELSE <<CHOOSE r \in first : TRUE>>)
        \o (IF latched = None THEN <<>> ELSE <<[key |-> latched, status |-> "failed"]>>)

\* A catch-up page. Without a newest page it moves the coverage only.
ApplyOlder(o) ==
    LET t     == turn[o]
        p     == t.got.page
        prior == t.obs[p.def]
        cov   == ApplyCatchUp(prior.cov, p.runs, p.exhausted)
        seen  == IF t.newest[p.def].known
                 THEN Applied(prior, p.runs, t.changed, TRUE, Context(t, p.def))
                 ELSE prior
    IN  /\ t.pc = "apply" /\ t.phase = "catch_up"
        /\ CASE t.got.kind = "observed" ->
                  Committed(o, t, p.def, [seen EXCEPT !.cov = cov], t.changed, t.branch)
             [] t.got.kind = "unavailable" ->
                  /\ Set(o, [t EXCEPT !.pc = "fetch", !.got = <<>>])
                  /\ UNCHANGED <<World, may, gate, repair, items, hist>>
             [] OTHER -> Committed(o, t, p.def, prior, t.changed, t.branch)

\* shouldHoldOrdinaryRemoteWorkForCiRepair
GateHolds(w) == Closed /\ items[w].incidents \intersect gate.open = {}

\* Mutant: an observation releases only if it was the one that opened the gate.
ReleasedByOpening(t, left) ==
    IF t.closed \/ ~ClosedIn(t.obs) THEN items
    ELSE [w \in Items |-> [items[w] EXCEPT !.held = @ /\ (w \in left \/ GateHolds(w))]]

\* wakeMergeHoldsIfGateNotClosed and releaseWaitingForCiRepair: every held Work
\* Item but those that are left asks again for a Worker Slot.
Released(t, left) ==
    IF t.closed THEN items
    ELSE [w \in Items |-> [items[w] EXCEPT !.held = @ /\ (w \in left \/ GateHolds(w))]]

\* The releases of Work Items are transactions of their own: one that fails is
\* logged, and leaves those that were not reached as they are.
Settle(o, left) ==
    LET t == turn[o]
    IN  /\ t.pc = "settle"
        /\ \/ left = {} /\ UNCHANGED may
           \/ left # {} /\ ~t.closed /\ (\A w \in left : items[w].held) /\ Once("fault")
        /\ items' = Released(t, left)
        /\ Set(o, [t EXCEPT !.obs = gate.obs, !.active = Active,
                            !.due = {w \in @ \ left : ~GateHolds(w)},
                            !.pc = IF t.phase = "end" \/ (t.phase = "latest" /\ t.todo = {})
                                   THEN "consider" ELSE "fetch"])
        /\ UNCHANGED <<World, gate, repair, hist>>

-----------------------------------------------------------------------------
(* CI Repair. *)

\* failingRuns of loadCiRepairGate
Evidence ==
    {<<d, gate.obs[d].latched>> : d \in {e \in gate.definitions : gate.obs[e].latched # None}}

\* observationQualifiesForAutomaticCiRepair
Qualifies(obs) == obs.latched # obs.last.key \/ obs.last.status \in Failing

\* failurePassesCiRepairBaseline
Passes(key, base) ==
    key > base.suppress /\ key > (IF base.order # None THEN base.order ELSE base.floor)

Wanted ==
    \E e \in Evidence : Qualifies(gate.obs[e[1]]) /\ Passes(e[2], repair.base[e[1]])

\* What follows a considerAutomaticCiRepair.
Resume(t) ==
    IF t.phase = "end" THEN NoTurn
    ELSE IF t.throttled THEN [t EXCEPT !.pc = "consider", !.phase = "end", !.ev = {}]
    ELSE [t EXCEPT !.pc = "fetch", !.phase = "catch_up", !.todo = t.defs, !.ev = {}]

\* considerAutomaticCiRepairWorkItem: what it reads.
Consider(o) ==
    LET t == turn[o]
    IN  /\ t.pc = "consider"
        /\ Set(o, IF plan.auto /\ ~repair.unfinished /\ Wanted
                  THEN [t EXCEPT !.pc = "create", !.ev = Evidence, !.known = hist.handled]
                  ELSE Resume(t))
        /\ UNCHANGED <<World, may, gate, repair, items, hist>>

\* createCiRepairWorkItem: an unfinished CI Repair is unique.
Created(ev) ==
    IF repair.unfinished THEN repair ELSE [repair EXCEPT !.unfinished = TRUE, !.ev = ev]

Create(o) ==
    LET t == turn[o]
    IN  /\ t.pc = "create"
        /\ repair' = Created(t.ev)
        /\ Set(o, Resume(t))
        /\ UNCHANGED <<World, may, gate, items, hist>>

\* Automatic CI Repair did not start: a read, the Agent Backend, the insertion
\* or the queue failed. It is logged, and the observation goes on.
StartFails(o) ==
    /\ turn[o].pc \in {"consider", "create"}
    /\ Once("fault")
    /\ Set(o, Resume(turn[o]))
    /\ UNCHANGED <<World, gate, repair, items, hist>>

\* startCiRepairWorkItem
StartManual ==
    /\ Once("manual")
    /\ manual = {} /\ ~repair.unfinished /\ Evidence # {}
    /\ manual' = Evidence
    /\ UNCHANGED <<plan, forge, gate, repair, items, turn, hist>>

CreateManual ==
    /\ manual # {}
    /\ repair' = Created(manual)
    /\ manual' = {}
    /\ UNCHANGED <<Bound, forge, gate, items, turn, hist>>

\* The operator is told.
ManualFails ==
    /\ manual # {}
    /\ Once("fault")
    /\ manual' = {}
    /\ UNCHANGED <<plan, forge, gate, repair, items, turn, hist>>

KeyOf(ev, d) == Newest({e[2] : e \in {x \in ev : x[1] = d}})

\* Mutant: a merge accounts for every run that was observed before it.
MergeFloorAtNewest(base, ev) ==
    [d \in Definitions |->
        IF KeyOf(ev, d) = None THEN base[d]
        ELSE [base[d] EXCEPT !.order = None, !.floor = gate.obs[d].last.key]]

\* recordCiRepairMergeFloor
MergeFloor(base, ev) ==
    [d \in Definitions |->
        IF KeyOf(ev, d) = None THEN base[d]
        ELSE [base[d] EXCEPT !.order = None, !.floor = KeyOf(ev, d)]]

\* recordCiRepairNoChangeBaseline
NoChange(base) ==
    [d \in Definitions |->
        IF gate.obs[d].last.key = None THEN base[d]
        ELSE [NoBaseline EXCEPT !.order = gate.obs[d].last.key]]

\* Mutant: abandoning a CI Repair leaves no trace.
NoSuppress(base, ev) == base

\* recordCiRepairAbandonSuppress
Suppress(base, ev) ==
    [d \in Definitions |->
        IF KeyOf(ev, d) = None THEN base[d] ELSE [base[d] EXCEPT !.suppress = KeyOf(ev, d)]]

\* The CI Repair is merged, has nothing to change, or is abandoned or reset.
End(how) ==
    LET ev == repair.ev
        last(d) == IF how = "no_change" THEN gate.obs[d].last.key ELSE None
    IN  /\ repair.unfinished
        /\ Once("end")
        /\ repair' = [unfinished |-> FALSE, ev |-> {},
                      base |-> CASE how = "merged" -> MergeFloor(repair.base, ev)
                                 [] how = "no_change" -> NoChange(repair.base)
                                 [] OTHER -> Suppress(repair.base, ev)]
        /\ hist' = [hist EXCEPT
                       !.handled = [d \in Definitions |-> @[d] \union {KeyOf(ev, d)}],
                       !.settled = [d \in Definitions |-> Newest({@[d], KeyOf(ev, d), last(d)})]]
        /\ UNCHANGED <<plan, forge, gate, items, turn, manual>>

-----------------------------------------------------------------------------
(* Ordinary Work Items, settings, faults. *)

NotDue(w) == turn' = [o \in Observers |-> [turn[o] EXCEPT !.due = @ \ {w}]]

\* tryAcquireWorkerSlot, for a Work Item whose next step changes the forge.
Hold(w) ==
    /\ ~items[w].held /\ ~items[w].merging /\ GateHolds(w)
    /\ items' = [items EXCEPT ![w].held = TRUE]
    /\ NotDue(w)
    /\ UNCHANGED <<Bound, forge, gate, repair, manual, hist>>

\* The merge_pr handler asks about the gate; the hold is written later.
AskToMerge(w) ==
    /\ ~items[w].held /\ ~items[w].merging /\ GateHolds(w)
    /\ items' = [items EXCEPT ![w].merging = TRUE]
    /\ UNCHANGED <<Bound, forge, gate, repair, turn, manual, hist>>

HoldMerge(w) ==
    /\ items[w].merging
    /\ items' = [items EXCEPT ![w].merging = FALSE, ![w].held = TRUE]
    /\ NotDue(w)
    /\ UNCHANGED <<Bound, forge, gate, repair, manual, hist>>

\* authorizeAsCiRepair
Authorize(w) ==
    /\ Closed /\ gate.open # {}
    /\ Once("authorize")
    /\ items' = [items EXCEPT ![w].incidents = @ \union {Active}, ![w].held = FALSE]
    /\ UNCHANGED <<plan, forge, gate, repair, turn, manual, hist>>

\* The settings are saved; an observation follows as any other.
Select(defs) ==
    /\ defs # gate.definitions
    /\ Once("select")
    /\ gate' = [gate EXCEPT !.definitions = defs]
    /\ UNCHANGED <<plan, forge, repair, items, turn, manual, hist>>

Crash ==
    /\ Once("crash")
    /\ turn' = [o \in Observers |-> NoTurn]
    /\ manual' = {}
    /\ items' = [w \in Items |-> [items[w] EXCEPT !.merging = FALSE]]
    /\ UNCHANGED <<plan, forge, gate, repair, hist>>

Init ==
    /\ plan \in Plans
    /\ may = plan.calls
    /\ forge = [branch |-> plan.branch, runs |-> plan.runs, next |-> NextId(plan.runs)]
    /\ gate = [definitions |-> plan.definitions, branch |-> NoBranch,
               obs |-> [d \in Definitions |-> NoObservation], open |-> {}, incidents |-> 0]
    /\ repair = [unfinished |-> FALSE, ev |-> {}, base |-> [d \in Definitions |-> NoBaseline]]
    /\ items = [w \in Items |-> [held |-> FALSE, merging |-> FALSE, incidents |-> {}]]
    /\ turn = [o \in Observers |-> NoTurn]
    /\ manual = {}
    /\ hist = [read |-> [d \in Definitions |-> {}], handled |-> [d \in Definitions |-> {None}],
               settled |-> [d \in Definitions |-> None], overlapped |-> FALSE, mixed |-> {}]

Next ==
    \/ \E d \in Definitions :
          \/ \E s \in plan.fresh : AppendRun(d, s)
          \/ \E r \in forge.runs[d] :
                Rerun(d, r) \/ Delete(d, r) \/ \E s \in plan.outcomes : Decide(d, r, s)
    \/ \E b \in Branches : ChangeBranch(b)
    \/ \E o \in plan.observers :
          \/ Begin(o) \/ Clear(o) \/ CaughtUp(o) \/ ApplyNewest(o) \/ ApplyOlder(o)
          \/ \E k \in {"observed", "unavailable", "failed", "throttled"} : Fetch(o, k)
          \/ \E left \in SUBSET plan.items : Settle(o, left)
          \/ Consider(o) \/ Create(o) \/ StartFails(o)
    \/ StartManual \/ CreateManual \/ ManualFails
    \/ \E how \in {"merged", "no_change", "abandoned"} : End(how)
    \/ \E w \in plan.items : Hold(w) \/ AskToMerge(w) \/ HoldMerge(w) \/ Authorize(w)
    \/ \E defs \in SUBSET plan.definitions : Select(defs)
    \/ Crash

Spec == Init /\ [][Next]_vars
-----------------------------------------------------------------------------
(* Properties. *)

TypeOK ==
    /\ gate.definitions \subseteq Definitions
    /\ gate.branch \in Branches \union {NoBranch}
    /\ \A d \in Definitions :
          LET o == gate.obs[d]
          IN  /\ o.latched \in Nat /\ o.err \in BOOLEAN
              /\ o.last.key \in Nat
              /\ o.cov.state \in {"complete", "gap", "truncated"}
              /\ o.cov.state = "gap" => o.cov.upper # None /\ o.cov.progress # None
              /\ o.cov.floor >= o.cov.upper
              /\ \A k \in o.cov.pending : k \in Nat \ {None}
    /\ gate.open \subseteq 1..gate.incidents
    /\ repair.unfinished <=> repair.ev # {}
    /\ \A w \in Items : items[w].held \in BOOLEAN /\ items[w].merging \in BOOLEAN
    /\ \A o \in Observers : turn[o].pc \in {"idle", "clear", "fetch", "apply", "settle",
                                              "consider", "create"}

\* While observations follow one another, the gate is closed if and only if one
\* incident is open: the incident is what bypasses and the interface refer to.
IncidentMatchesGate ==
    ~hist.overlapped => Cardinality(gate.open) = IF Closed THEN 1 ELSE 0

\* Complete coverage of a definition means that every run from the checkpoint
\* up to the latest run has been read, however many new runs and catch-up pages
\* came in between.
CompleteMeansRead ==
    \A d \in Definitions :
        LET o == gate.obs[d]
        IN  o.cov.state = "complete" /\ o.cov.check # None /\ d \notin hist.mixed
            => \A r \in Listed(d, o.cov.branch) :
                  r.id \in RunOf(o.cov.check)..RunOf(o.last.key) => r.id \in hist.read[d]

\* While observations follow one another, an older page changes the latch only
\* by a result at least as new as the newest page's; and neither the latch nor a
\* reported failure of the forge if that page was not there.
CatchUpRespectsNewest ==
    [][\A o \in Observers :
          turn[o].pc = "apply" /\ turn[o].phase = "catch_up" /\ turn'[o].pc = "settle" =>
             LET d == turn[o].got.page.def
                 n == turn[o].newest[d]
                 p == turn[o].obs[d]
                 q == gate'.obs[d]
             IN  /\ ~n.known => q.latched = p.latched /\ q.err = p.err
                 /\ ~hist.overlapped /\ n.known /\ q.latched # p.latched =>
                       \A x \in n.first : \E r \in turn[o].got.page.runs :
                          r.status \in Failing \union {"passed"} /\ r.key >= x.key]_vars

\* An automatic CI Repair is started for a failure that no CI Repair, ended
\* before the gate was read, had been started for. It holds of the histories that
\* the plans of the run allow: after a change of the default branch, a deletion,
\* or under observations that overlap, a baseline may be lower than a failure
\* that a CI Repair was started for.
NoRepairForHandledFailure ==
    [][\A o \in Observers :
          turn[o].pc = "create" /\ ~repair.unfinished /\ repair'.unfinished =>
             \E e \in turn[o].ev : e[2] \notin turn[o].known[e[1]]]_vars

\* The last step of an observation that no crash cut short.
Ends(o) == turn[o].phase = "end" /\ turn[o].pc \in {"consider", "create"}
           /\ turn'[o].pc = "idle" /\ may'["crash"] = may["crash"]

\* When an observation ends, a failure newer than whatever CI Repairs settled
\* has a CI Repair, whoever started or ended one meanwhile, unless its last
\* attempt to start one failed. A failed attempt leaves nothing that keeps an
\* observation, the same one or a later one, from starting it.
NewFailureIsRepaired ==
    [][\A o \in Observers : Ends(o) /\ plan.auto /\ ~StartFails(o) =>
          \A d \in gate.definitions :
             LET obs == gate.obs[d]
             IN  obs.latched > hist.settled[d] /\ Qualifies(obs) => repair'.unfinished]_vars

\* When an observation ends and the gate is open, nobody is held who was held
\* when the observation committed that the gate is open, unless it failed to
\* release that Work Item: not after a crash that came between a commit and its
\* release either.
ReleasedAfterOpening ==
    [][\A o \in Observers : Ends(o) /\ ~Closed => \A w \in turn[o].due : ~items[w].held]_vars
=============================================================================
