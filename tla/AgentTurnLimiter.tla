-------------------------- MODULE AgentTurnLimiter --------------------------
(***************************************************************************)
(* The fair-share gate that caps concurrent Agent Turns                    *)
(* (packages/work-item-lifecycle/src/lib/agent-turn-limiter.ts).           *)
(*                                                                         *)
(* A caller is the fiber of one Step Run; it asks for a permit, polls the  *)
(* gate until it is admitted, runs its turn and gives the permit back.     *)
(* Every step of withPermit between two points where the fiber can be      *)
(* suspended is one action; an interruption (Pause, Interrupt Work Item,   *)
(* the productive timeout) may land wherever the fiber is interruptible.   *)
(*                                                                         *)
(* Data abstraction: the gate's sequence numbers are only ever compared,   *)
(* so lastGranted is kept as the order of the grants it remembers.         *)
(***************************************************************************)
EXTENDS Naturals, FiniteSets

CONSTANTS
    Repositories,       \* buckets the callers are grouped in; calls without a
                        \* Step Run share one, whose guarantee is always 0
    Callers,            \* fibers that ask for Agent Turns
    RepositoryOf,       \* the bucket of each caller
    ConfiguredMax,      \* values maxConcurrentAgentTurns takes in Harness Config
    ConfiguredMin,      \* values guaranteedMinConcurrentAgentTurns takes per bucket
    DefaultMax,         \* DEFAULT_MAX_CONCURRENT_AGENT_TURNS
    DbMayFail           \* whether the best-effort SQL writes may fail

ASSUME CallersAssumption ==
    /\ IsFiniteSet(Callers)
    /\ RepositoryOf \in [Callers -> Repositories]

ASSUME ConfigAssumption ==
    /\ ConfiguredMax \subseteq Nat \ {0}
    /\ DefaultMax \in ConfiguredMax
    /\ ConfiguredMin \in [Repositories -> SUBSET Nat]
    /\ DbMayFail \in BOOLEAN

VARIABLES
    capacity, active, lastGranted, waiting, activeByRepository, guaranteedMins,
    pc,             \* where each caller is in withPermit
    registered,     \* its local registeredWaiting
    marked,         \* its local markedWaiting
    shownWaiting,   \* its step_run row says waiting_for_agent_turn, clocks frozen
    cut             \* it was interrupted: its Step Run ends with this call

gate == <<capacity, active, lastGranted, waiting, activeByRepository, guaranteedMins>>
local == <<registered, marked, shownWaiting, cut>>
vars == <<gate, pc, local>>

-----------------------------------------------------------------------------
(* The order of remembered grants. *)

GrantOrders == [seen : SUBSET Repositories,
                before : SUBSET (Repositories \X Repositories)]

IsStrict(order) ==
    /\ order.before \subseteq order.seen \X order.seen
    /\ \A q, r \in order.seen : <<q, r>> \in order.before => <<r, q>> \notin order.before

NoGrants == [seen |-> {}, before |-> {}]

\* Mutant: two repositories that were never granted give way to each other.
NotMoreRecent(order, q, r) == r \notin order.seen \/ <<r, q>> \notin order.before

\* recencyOf(q) < recencyOf(r); a repository without a grant counts as -infinity.
LessRecent(order, q, r) ==
    /\ r \in order.seen
    /\ q \notin order.seen \/ <<q, r>> \in order.before

Forgotten(order, r) ==
    [seen |-> order.seen \ {r},
     before |-> {p \in order.before : r \notin {p[1], p[2]}}]

\* Mutant: a repository that is granted again keeps its old rank as well.
GrantedOnTop(order, r) ==
    [seen |-> order.seen \union {r},
     before |-> order.before \union ((order.seen \ {r}) \X {r})]

\* Mutant: only the first grant is remembered.
GrantedOnce(order, r) ==
    IF r \in order.seen THEN order
    ELSE [seen |-> order.seen \union {r},
          before |-> order.before \union (order.seen \X {r})]

Granted(order, r) ==
    LET rest == Forgotten(order, r)
    IN  [seen |-> rest.seen \union {r},
         before |-> rest.before \union (rest.seen \X {r})]

-----------------------------------------------------------------------------
(* The pure transitions of the gate. *)

Contenders(r) == {r} \union {q \in Repositories : waiting[q] > 0}

Unmet(q) == guaranteedMins[q] > activeByRepository[q]

Pool(r) ==
    LET unmet == {q \in Contenders(r) : Unmet(q)}
    IN  IF unmet # {} THEN unmet ELSE Contenders(r)

\* Mutant: the limit is compared off by one.
AdmissibleAtLimit(r) ==
    /\ active <= capacity
    /\ r \in Pool(r)
    /\ \A q \in Pool(r) : ~LessRecent(lastGranted, q, r)

\* tryAdmit returns true.
Admissible(r) ==
    /\ active < capacity
    /\ r \in Pool(r)
    /\ \A q \in Pool(r) : ~LessRecent(lastGranted, q, r)

\* pruneIdleRepositoryState, given the permits r holds.
PruneIdle(r, held) ==
    IF held > 0 \/ waiting[r] > 0
    THEN UNCHANGED <<lastGranted, guaranteedMins>>
    ELSE /\ lastGranted' = Forgotten(lastGranted, r)
         /\ guaranteedMins' = [guaranteedMins EXCEPT ![r] = 0]

UnregisterIfNeeded(c) ==
    /\ registered' = [registered EXCEPT ![c] = FALSE]
    /\ waiting' = IF registered[c] /\ waiting[RepositoryOf[c]] > 0
                  THEN [waiting EXCEPT ![RepositoryOf[c]] = @ - 1]
                  ELSE waiting

Less1(n) == IF n = 0 THEN 0 ELSE n - 1

Goto(c, label) == pc' = [pc EXCEPT ![c] = label]

-----------------------------------------------------------------------------
Init ==
    /\ capacity = DefaultMax
    /\ active = 0
    /\ lastGranted = NoGrants
    /\ waiting = [r \in Repositories |-> 0]
    /\ activeByRepository = [r \in Repositories |-> 0]
    /\ guaranteedMins = [r \in Repositories |-> 0]
    /\ pc = [c \in Callers |-> "idle"]
    /\ registered = [c \in Callers |-> FALSE]
    /\ marked = [c \in Callers |-> FALSE]
    /\ shownWaiting = [c \in Callers |-> FALSE]
    /\ cut = [c \in Callers |-> FALSE]

\* A handler calls startTurn or continueTurn.
Request(c) ==
    /\ pc[c] = "idle"
    /\ Goto(c, "refresh")
    /\ UNCHANGED <<gate, local>>

\* One round of the loop reads Config and the Repository's guarantee, then
\* stores both in the gate. The values were current at some earlier moment;
\* an unreadable Config counts as the default.
Refresh(c) ==
    LET r == RepositoryOf[c] IN
    /\ pc[c] = "refresh"
    /\ \E max \in ConfiguredMax : capacity' = max
    /\ \E min \in ConfiguredMin[r] :
          guaranteedMins' = [guaranteedMins EXCEPT ![r] = min]
    /\ Goto(c, "tryRunTurn")
    /\ UNCHANGED <<active, lastGranted, waiting, activeByRepository, local>>

\* Ref.modify(gate, tryAdmit) admits the caller.
Admit(c) ==
    LET r == RepositoryOf[c] IN
    /\ pc[c] = "tryRunTurn"
    /\ Admissible(r)
    /\ active' = active + 1
    /\ lastGranted' = Granted(lastGranted, r)
    /\ activeByRepository' = [activeByRepository EXCEPT ![r] = @ + 1]
    /\ Goto(c, "unregister")
    /\ UNCHANGED <<capacity, waiting, guaranteedMins, local>>

\* Mutant: demand is counted again on every poll.
RefuseEveryPoll(c) ==
    LET r == RepositoryOf[c] IN
    /\ pc[c] = "tryRunTurn"
    /\ ~Admissible(r)
    /\ registered' = [registered EXCEPT ![c] = TRUE]
    /\ waiting' = [waiting EXCEPT ![r] = IF @ < 3 THEN @ + 1 ELSE @]
    /\ Goto(c, IF marked[c] THEN "sleep" ELSE "markWaiting")
    /\ UNCHANGED <<capacity, active, lastGranted, activeByRepository,
                   guaranteedMins, marked, shownWaiting, cut>>

\* It does not, and the caller registers its demand, once.
Refuse(c) ==
    LET r == RepositoryOf[c] IN
    /\ pc[c] = "tryRunTurn"
    /\ ~Admissible(r)
    /\ IF registered[c]
       THEN UNCHANGED <<registered, waiting>>
       ELSE /\ registered' = [registered EXCEPT ![c] = TRUE]
            /\ waiting' = [waiting EXCEPT ![r] = @ + 1]
    /\ Goto(c, IF marked[c] THEN "sleep" ELSE "markWaiting")
    /\ UNCHANGED <<capacity, active, lastGranted, activeByRepository,
                   guaranteedMins, marked, shownWaiting, cut>>

\* markWaiting writes the Step Run's row; a failed write is only logged.
MarkWaiting(c) ==
    /\ pc[c] = "markWaiting"
    /\ \/ shownWaiting' = [shownWaiting EXCEPT ![c] = TRUE]
       \/ DbMayFail /\ UNCHANGED shownWaiting
    /\ Goto(c, "marked")
    /\ UNCHANGED <<gate, registered, marked, cut>>

\* The write returned and markedWaiting is set.
NoteMarked(c) ==
    /\ pc[c] = "marked"
    /\ marked' = [marked EXCEPT ![c] = TRUE]
    /\ Goto(c, "sleep")
    /\ UNCHANGED <<gate, registered, shownWaiting, cut>>

\* CONFIG_RECHECK_INTERVAL passes.
Wake(c) ==
    /\ pc[c] = "sleep"
    /\ Goto(c, "refresh")
    /\ UNCHANGED <<gate, local>>

\* Mutant: the Step Run's row is left as it is.
UnregisterWithoutClear(c) ==
    /\ pc[c] = "unregister"
    /\ UnregisterIfNeeded(c)
    /\ Goto(c, "turn")
    /\ UNCHANGED <<capacity, active, lastGranted, activeByRepository,
                   guaranteedMins, marked, shownWaiting, cut>>

\* An admitted caller withdraws its demand, then restores the Step Run's row.
Unregister(c) ==
    /\ pc[c] = "unregister"
    /\ UnregisterIfNeeded(c)
    /\ Goto(c, IF marked[c] THEN "clearWaiting" ELSE "turn")
    /\ UNCHANGED <<capacity, active, lastGranted, activeByRepository,
                   guaranteedMins, marked, shownWaiting, cut>>

ClearMarked(c) ==
    /\ \/ shownWaiting' = [shownWaiting EXCEPT ![c] = FALSE]
       \/ DbMayFail /\ UNCHANGED shownWaiting
    /\ marked' = [marked EXCEPT ![c] = FALSE]
    /\ UNCHANGED <<gate, registered, cut>>

ClearWaiting(c) ==
    /\ pc[c] = "clearWaiting"
    /\ ClearMarked(c)
    /\ Goto(c, "turn")

\* The Agent Turn itself ends, with a result or an error.
TurnEnds(c) ==
    /\ pc[c] = "turn"
    /\ Goto(c, "release")
    /\ UNCHANGED <<gate, local>>

\* Effect.ensuring runs releasePermit, which prunes an idle repository.
Release(c) ==
    LET r == RepositoryOf[c]
        left == Less1(activeByRepository[r])
    IN
    /\ pc[c] = "release"
    /\ active' = Less1(active)
    /\ activeByRepository' = [activeByRepository EXCEPT ![r] = left]
    /\ PruneIdle(r, left)
    /\ Goto(c, "exitUnregister")
    /\ UNCHANGED <<capacity, waiting, local>>

\* The onExit finaliser of withPermit.
ExitUnregister(c) ==
    /\ pc[c] = "exitUnregister"
    /\ UnregisterIfNeeded(c)
    /\ Goto(c, "exitPrune")
    /\ UNCHANGED <<capacity, active, lastGranted, activeByRepository,
                   guaranteedMins, marked, shownWaiting, cut>>

\* Mutant: only a caller that held a permit prunes.
ExitWithoutPrune(c) ==
    /\ pc[c] = "exitPrune"
    /\ Goto(c, IF marked[c] THEN "exitClear" ELSE "done")
    /\ UNCHANGED <<gate, local>>

ExitPrune(c) ==
    /\ pc[c] = "exitPrune"
    /\ PruneIdle(RepositoryOf[c], activeByRepository[RepositoryOf[c]])
    /\ Goto(c, IF marked[c] THEN "exitClear" ELSE "done")
    /\ UNCHANGED <<capacity, active, waiting, activeByRepository, local>>

ExitClear(c) ==
    /\ pc[c] = "exitClear"
    /\ ClearMarked(c)
    /\ Goto(c, "done")

\* withPermit returned. A caller that was interrupted ended its Step Run:
\* the next request of the same fiber slot belongs to another row.
Done(c) ==
    /\ pc[c] = "done"
    /\ Goto(c, "idle")
    /\ marked' = [marked EXCEPT ![c] = FALSE]
    /\ shownWaiting' = [shownWaiting EXCEPT ![c] = @ /\ ~cut[c]]
    /\ cut' = [cut EXCEPT ![c] = FALSE]
    /\ UNCHANGED <<gate, registered>>

\* Interrupted before admission: only the finaliser runs.
InterruptWaiting(c) ==
    /\ pc[c] \in {"refresh", "tryRunTurn", "markWaiting", "marked", "sleep"}
    /\ cut' = [cut EXCEPT ![c] = TRUE]
    /\ Goto(c, "exitUnregister")
    /\ UNCHANGED <<gate, registered, marked, shownWaiting>>

\* Mutant: the release is not guaranteed while the row is being restored.
InterruptAdmittedUnguarded(c) ==
    /\ pc[c] \in {"unregister", "clearWaiting", "turn"}
    /\ cut' = [cut EXCEPT ![c] = TRUE]
    /\ Goto(c, IF pc[c] = "turn" THEN "release" ELSE "exitUnregister")
    /\ UNCHANGED <<gate, registered, marked, shownWaiting>>

\* Interrupted while admitted: the permit is released first.
InterruptAdmitted(c) ==
    /\ pc[c] \in {"unregister", "clearWaiting", "turn"}
    /\ cut' = [cut EXCEPT ![c] = TRUE]
    /\ Goto(c, "release")
    /\ UNCHANGED <<gate, registered, marked, shownWaiting>>

\* A second interruption, or a database that does not answer, skips the
\* interruptible clean-up of the row.
InterruptExitClear(c) ==
    /\ pc[c] = "exitClear"
    /\ cut' = [cut EXCEPT ![c] = TRUE]
    /\ Goto(c, "done")
    /\ UNCHANGED <<gate, registered, marked, shownWaiting>>

Advance(c) ==
    \/ Refresh(c) \/ Admit(c) \/ Refuse(c) \/ MarkWaiting(c) \/ NoteMarked(c)
    \/ Wake(c) \/ Unregister(c) \/ ClearWaiting(c) \/ TurnEnds(c) \/ Release(c)
    \/ ExitUnregister(c) \/ ExitPrune(c) \/ ExitClear(c) \/ Done(c)

Interrupt(c) == InterruptWaiting(c) \/ InterruptAdmitted(c) \/ InterruptExitClear(c)

Next == \E c \in Callers : Request(c) \/ Advance(c) \/ Interrupt(c)

Spec == Init /\ [][Next]_vars

\* A fiber that can take its next step eventually takes it, and turns end (they
\* have a productive timeout). Asking for a turn is the handlers' choice.
Fairness == \A c \in Callers : WF_vars(Advance(c))

FairSpec == Spec /\ Fairness

-----------------------------------------------------------------------------
(* Properties. *)

Labels == {"idle", "refresh", "tryRunTurn", "markWaiting", "marked", "sleep",
           "unregister", "clearWaiting", "turn", "release",
           "exitUnregister", "exitPrune", "exitClear", "done"}

HoldingLabels == {"unregister", "clearWaiting", "turn", "release"}

Holding == {c \in Callers : pc[c] \in HoldingLabels}

Registered == {c \in Callers : registered[c]}

OfRepository(S, r) == {c \in S : RepositoryOf[c] = r}

TypeOK ==
    /\ capacity \in ConfiguredMax
    /\ active \in Nat
    /\ lastGranted \in GrantOrders /\ IsStrict(lastGranted)
    /\ waiting \in [Repositories -> Nat]
    /\ activeByRepository \in [Repositories -> Nat]
    /\ guaranteedMins \in [Repositories -> Nat]
    /\ pc \in [Callers -> Labels]
    /\ registered \in [Callers -> BOOLEAN]
    /\ marked \in [Callers -> BOOLEAN]
    /\ shownWaiting \in [Callers -> BOOLEAN]
    /\ cut \in [Callers -> BOOLEAN]

\* No permit is lost or invented, however callers are interrupted: the gate
\* counts exactly the callers between their admission and their release, in
\* total and per repository.
PermitsAreHeld ==
    /\ active = Cardinality(Holding)
    /\ \A r \in Repositories :
          activeByRepository[r] = Cardinality(OfRepository(Holding, r))

\* Demand is never forgotten or left behind: a repository competes in tryAdmit
\* exactly while one of its callers is registered, and no caller outlives its
\* call registered. A count left behind by an interrupted caller would make
\* every other repository give way for ever.
DemandIsReal ==
    /\ \A r \in Repositories :
          waiting[r] = Cardinality(OfRepository(Registered, r))
    /\ \A c \in Callers :
          pc[c] \in {"idle", "exitPrune", "exitClear", "done"} => ~registered[c]

\* Lowering the limit never lets the gate admit above the new limit: while the
\* number of turns in progress grows, it stays within the limit in force.
AdmissionRespectsLimit ==
    [][Cardinality(Holding') > Cardinality(Holding) => Cardinality(Holding') <= capacity]_vars

\* The idle repositories' state is pruned: what the gate remembers of a
\* repository nobody asks or runs a turn for is only what a caller that is
\* about to try has just stored.
IdleRepositoriesAreForgotten ==
    \A r \in Repositories :
        (\A c \in Callers : RepositoryOf[c] = r => pc[c] \in {"idle", "done", "exitClear"})
        => r \notin lastGranted.seen /\ guaranteedMins[r] = 0

\* While a turn runs its Step Run is not shown as queued, so its clocks run:
\* the mark is set and cleared by two SQL writes around the admission.
RunningTurnIsNotShownQueued ==
    \A c \in Callers : pc[c] = "turn" => ~shownWaiting[c]

\* Unless callers keep being interrupted, where one waits somebody is admitted:
\* demand, guarantees and the order of grants never block everyone for ever.
SomebodyIsAdmitted ==
    <>[][\A c \in Callers : ~Interrupt(c)]_vars
        => \A c \in Callers : (pc[c] = "sleep") ~> (cut[c] \/ Holding # {})
=============================================================================
