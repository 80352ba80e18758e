----------------------- MODULE AgentTurnLimiterProofs -----------------------
(***************************************************************************)
(* Proofs about the fair-share gate, for any number of repositories and    *)
(* callers and any settings. The inductive invariant is the conjunction of *)
(* typing, the conservation of permits and the conservation of demand.     *)
(***************************************************************************)
EXTENDS AgentTurnLimiter, FiniteSetTheorems, TLAPS

Conservation == TypeOK /\ PermitsAreHeld /\ DemandIsReal

-----------------------------------------------------------------------------
(* How a caller that joins or leaves a set of callers changes its counts. *)

LEMMA FiniteCallers ==
    ASSUME NEW S \in SUBSET Callers
    PROVE  /\ IsFiniteSet(S)
           /\ Cardinality(S) \in Nat
           /\ \A r : /\ IsFiniteSet(OfRepository(S, r))
                     /\ Cardinality(OfRepository(S, r)) \in Nat
<1>1. \A T \in SUBSET Callers : IsFiniteSet(T) /\ Cardinality(T) \in Nat
  BY CallersAssumption, FS_Subset, FS_CardinalityType
<1>2. \A r : OfRepository(S, r) \in SUBSET Callers
  BY DEF OfRepository
<1> QED
  BY <1>1, <1>2

LEMMA Joining ==
    ASSUME NEW S \in SUBSET Callers, NEW c \in Callers, c \notin S
    PROVE  /\ Cardinality(S \union {c}) = Cardinality(S) + 1
           /\ Cardinality(OfRepository(S \union {c}, RepositoryOf[c]))
                = Cardinality(OfRepository(S, RepositoryOf[c])) + 1
           /\ \A r : r # RepositoryOf[c] =>
                OfRepository(S \union {c}, r) = OfRepository(S, r)
<1>1. Cardinality(S \union {c}) = Cardinality(S) + 1
  BY FiniteCallers, FS_AddElement
<1>2. OfRepository(S \union {c}, RepositoryOf[c]) = OfRepository(S, RepositoryOf[c]) \union {c}
  BY DEF OfRepository
<1>3. c \notin OfRepository(S, RepositoryOf[c])
  BY DEF OfRepository
<1>4. Cardinality(OfRepository(S, RepositoryOf[c]) \union {c})
        = Cardinality(OfRepository(S, RepositoryOf[c])) + 1
  BY <1>3, FiniteCallers, FS_AddElement
<1>5. \A r : r # RepositoryOf[c] => OfRepository(S \union {c}, r) = OfRepository(S, r)
  BY DEF OfRepository
<1> QED
  BY <1>1, <1>2, <1>4, <1>5

LEMMA Leaving ==
    ASSUME NEW S \in SUBSET Callers, NEW c \in S
    PROVE  /\ Cardinality(S) > 0
           /\ Cardinality(S \ {c}) = Cardinality(S) - 1
           /\ Cardinality(OfRepository(S, RepositoryOf[c])) > 0
           /\ Cardinality(OfRepository(S \ {c}, RepositoryOf[c]))
                = Cardinality(OfRepository(S, RepositoryOf[c])) - 1
           /\ \A r : r # RepositoryOf[c] =>
                OfRepository(S \ {c}, r) = OfRepository(S, r)
<1> DEFINE T == S \ {c}
<1>1. T \in SUBSET Callers /\ c \in Callers /\ c \notin T /\ T \union {c} = S
  OBVIOUS
<1>2. /\ Cardinality(T \union {c}) = Cardinality(T) + 1
      /\ Cardinality(OfRepository(T \union {c}, RepositoryOf[c]))
           = Cardinality(OfRepository(T, RepositoryOf[c])) + 1
      /\ \A r : r # RepositoryOf[c] => OfRepository(T \union {c}, r) = OfRepository(T, r)
  BY <1>1, Joining
<1>3. Cardinality(T) \in Nat /\ Cardinality(OfRepository(T, RepositoryOf[c])) \in Nat
  BY <1>1, FiniteCallers
<1>4. /\ Cardinality(S) = Cardinality(T) + 1
      /\ Cardinality(OfRepository(S, RepositoryOf[c]))
           = Cardinality(OfRepository(T, RepositoryOf[c])) + 1
      /\ \A r : r # RepositoryOf[c] => OfRepository(S, r) = OfRepository(T, r)
  BY <1>1, <1>2
<1> HIDE DEF T
<1>5. /\ Cardinality(S) > 0 /\ Cardinality(T) = Cardinality(S) - 1
      /\ Cardinality(OfRepository(S, RepositoryOf[c])) > 0
      /\ Cardinality(OfRepository(T, RepositoryOf[c]))
           = Cardinality(OfRepository(S, RepositoryOf[c])) - 1
  BY <1>3, <1>4
<1> QED
  BY <1>4, <1>5 DEF T

-----------------------------------------------------------------------------
(* The order of remembered grants stays a strict order. *)

LEMMA ForgottenType ==
    ASSUME NEW o \in GrantOrders, IsStrict(o), NEW r
    PROVE  Forgotten(o, r) \in GrantOrders /\ IsStrict(Forgotten(o, r))
<1> DEFINE f == Forgotten(o, r)
<1>1. o.seen \in SUBSET Repositories /\ o.before \in SUBSET (Repositories \X Repositories)
  BY DEF GrantOrders
<1>2. f.seen = o.seen \ {r} /\ f.before = {p \in o.before : r \notin {p[1], p[2]}}
  BY DEF Forgotten
<1>3. f \in GrantOrders
  BY <1>1, <1>2 DEF Forgotten, GrantOrders
<1>4. f.before \subseteq f.seen \X f.seen
  BY <1>2 DEF IsStrict
<1>5. \A q, t \in f.seen : <<q, t>> \in f.before => <<t, q>> \notin f.before
  BY <1>2 DEF IsStrict
<1> QED
  BY <1>3, <1>4, <1>5 DEF IsStrict

LEMMA GrantedType ==
    ASSUME NEW o \in GrantOrders, IsStrict(o), NEW r \in Repositories
    PROVE  Granted(o, r) \in GrantOrders /\ IsStrict(Granted(o, r))
<1> DEFINE f == Forgotten(o, r)
           g == Granted(o, r)
<1>1. f \in GrantOrders /\ IsStrict(f) /\ r \notin f.seen
  BY ForgottenType DEF Forgotten
<1>2. g.seen = f.seen \union {r} /\ g.before = f.before \union (f.seen \X {r})
  BY DEF Granted
<1>3. g \in GrantOrders
  BY <1>1 DEF Granted, GrantOrders
<1>4. g.before \subseteq g.seen \X g.seen
  BY <1>1, <1>2 DEF IsStrict
<1>5. \A q, t \in g.seen : <<q, t>> \in g.before => <<t, q>> \notin g.before
  BY <1>1, <1>2 DEF IsStrict
<1> QED
  BY <1>3, <1>4, <1>5 DEF IsStrict

-----------------------------------------------------------------------------
(* What a step does to the set of holders and to the set of registered callers. *)

LEMMA HoldersOfStep ==
    ASSUME TypeOK, NEW c \in Callers, NEW label \in Labels, Goto(c, label)
    PROVE  Holding' = IF label \in HoldingLabels THEN Holding \union {c} ELSE Holding \ {c}
BY DEF TypeOK, Goto, Holding

LEMMA RegisteredOfStep ==
    ASSUME TypeOK, NEW c \in Callers, NEW b \in BOOLEAN,
           registered' = [registered EXCEPT ![c] = b]
    PROVE  Registered' = IF b THEN Registered \union {c} ELSE Registered \ {c}
BY DEF TypeOK, Registered

\* UnregisterIfNeeded keeps the demand of every repository equal to its
\* registered callers.
LEMMA UnregisterKeepsDemand ==
    ASSUME TypeOK, NEW c \in Callers, UnregisterIfNeeded(c),
           \A r \in Repositories : waiting[r] = Cardinality(OfRepository(Registered, r))
    PROVE  /\ waiting' \in [Repositories -> Nat]
           /\ registered' \in [Callers -> BOOLEAN]
           /\ ~registered'[c]
           /\ \A d \in Callers \ {c} : registered'[d] = registered[d]
           /\ \A r \in Repositories : waiting'[r] = Cardinality(OfRepository(Registered', r))
<1> DEFINE r0 == RepositoryOf[c]
<1>0. r0 \in Repositories /\ registered \in [Callers -> BOOLEAN] /\ waiting \in [Repositories -> Nat]
  BY CallersAssumption DEF TypeOK
<1>1. /\ registered' = [registered EXCEPT ![c] = FALSE]
      /\ registered' \in [Callers -> BOOLEAN] /\ ~registered'[c]
      /\ \A d \in Callers \ {c} : registered'[d] = registered[d]
  BY <1>0 DEF UnregisterIfNeeded
<1>2. Registered' = Registered \ {c}
  BY <1>1, RegisteredOfStep
<1>3. CASE registered[c]
  <2>1. c \in Registered /\ Registered \in SUBSET Callers
    BY <1>3 DEF Registered
  <2>2. /\ waiting[r0] > 0
        /\ Cardinality(OfRepository(Registered \ {c}, r0)) = waiting[r0] - 1
        /\ \A r : r # r0 => OfRepository(Registered \ {c}, r) = OfRepository(Registered, r)
    BY <1>0, <2>1, Leaving
  <2>3. waiting' = [waiting EXCEPT ![r0] = @ - 1]
    BY <1>3, <2>2 DEF UnregisterIfNeeded
  <2>4. waiting' \in [Repositories -> Nat]
    BY <1>0, <2>2, <2>3
  <2>5. \A r \in Repositories : waiting'[r] = Cardinality(OfRepository(Registered', r))
    BY <1>0, <1>2, <2>2, <2>3
  <2> QED
    BY <1>1, <2>4, <2>5
<1>4. CASE ~registered[c]
  <2>1. waiting' = waiting /\ Registered' = Registered
    BY <1>2, <1>4 DEF UnregisterIfNeeded, Registered
  <2> QED
    BY <1>0, <1>1, <2>1
<1> QED
  BY <1>3, <1>4

-----------------------------------------------------------------------------
(* Typing. *)

LEMMA TypeInit == Init => TypeOK
BY ConfigAssumption DEF Init, TypeOK, NoGrants, GrantOrders, IsStrict, Labels

LEMMA PruneType ==
    ASSUME TypeOK, NEW r \in Repositories, NEW held, PruneIdle(r, held)
    PROVE  /\ lastGranted' \in GrantOrders /\ IsStrict(lastGranted')
           /\ guaranteedMins' \in [Repositories -> Nat]
BY ForgottenType DEF TypeOK, PruneIdle

LEMMA TypeStep ==
    ASSUME TypeOK, [Next]_vars
    PROVE  TypeOK'
<1> USE DEF Goto, Labels
<1>1. CASE UNCHANGED vars
  BY <1>1 DEF TypeOK, vars, gate, local
<1>2. ASSUME NEW c \in Callers, Request(c) \/ Advance(c) \/ Interrupt(c)
      PROVE  TypeOK'
  <2> DEFINE r == RepositoryOf[c]
  <2>0. r \in Repositories
    BY CallersAssumption
  <2>1. CASE Request(c)
    BY <2>1 DEF Request, TypeOK, gate, local
  <2>2. CASE Refresh(c)
    <3>1. \A n \in ConfiguredMin[r] : n \in Nat
      BY <2>0, ConfigAssumption
    <3> QED
      BY <2>0, <2>2, <3>1 DEF Refresh, TypeOK, local
  <2>3. CASE Admit(c)
    <3>1. lastGranted' \in GrantOrders /\ IsStrict(lastGranted')
      BY <2>0, <2>3, GrantedType DEF Admit, TypeOK
    <3> QED
      BY <2>0, <2>3, <3>1 DEF Admit, TypeOK, local
  <2>4. CASE Refuse(c)
    <3>1. pc' \in [Callers -> Labels]
      BY <2>4 DEF Refuse, TypeOK
    <3>2. registered' \in [Callers -> BOOLEAN]
      BY <2>4 DEF Refuse, TypeOK
    <3>3. waiting' \in [Repositories -> Nat]
      BY <2>0, <2>4 DEF Refuse, TypeOK
    <3>4. UNCHANGED <<capacity, active, lastGranted, activeByRepository,
                      guaranteedMins, marked, shownWaiting, cut>>
      BY <2>4 DEF Refuse
    <3> QED
      BY <3>1, <3>2, <3>3, <3>4 DEF TypeOK
  <2>5. CASE MarkWaiting(c)
    BY <2>5 DEF MarkWaiting, TypeOK, gate
  <2>6. CASE NoteMarked(c)
    BY <2>6 DEF NoteMarked, TypeOK, gate
  <2>7. CASE Wake(c)
    BY <2>7 DEF Wake, TypeOK, gate, local
  <2>8. CASE Unregister(c)
    BY <2>0, <2>8 DEF Unregister, UnregisterIfNeeded, TypeOK
  <2>9. CASE ClearWaiting(c)
    BY <2>9 DEF ClearWaiting, ClearMarked, TypeOK, gate
  <2>10. CASE TurnEnds(c)
    BY <2>10 DEF TurnEnds, TypeOK, gate, local
  <2>11. CASE Release(c)
    <3>1. /\ lastGranted' \in GrantOrders /\ IsStrict(lastGranted')
          /\ guaranteedMins' \in [Repositories -> Nat]
      BY <2>0, <2>11, PruneType DEF Release
    <3>2. Less1(active) \in Nat /\ Less1(activeByRepository[r]) \in Nat
      BY <2>0 DEF Less1, TypeOK
    <3>3. active' \in Nat /\ activeByRepository' \in [Repositories -> Nat]
      BY <2>0, <2>11, <3>2 DEF Release, TypeOK
    <3>4. pc' \in [Callers -> Labels] /\ UNCHANGED <<capacity, waiting, local>>
      BY <2>11 DEF Release, TypeOK
    <3> QED
      BY <3>1, <3>3, <3>4 DEF TypeOK, local
  <2>12. CASE ExitUnregister(c)
    BY <2>0, <2>12 DEF ExitUnregister, UnregisterIfNeeded, TypeOK
  <2>13. CASE ExitPrune(c)
    <3>1. /\ lastGranted' \in GrantOrders /\ IsStrict(lastGranted')
          /\ guaranteedMins' \in [Repositories -> Nat]
      BY <2>0, <2>13, PruneType DEF ExitPrune
    <3> QED
      BY <2>13, <3>1 DEF ExitPrune, TypeOK, local
  <2>14. CASE ExitClear(c)
    BY <2>14 DEF ExitClear, ClearMarked, TypeOK, gate
  <2>15. CASE Done(c)
    BY <2>15 DEF Done, TypeOK, gate
  <2>16. CASE Interrupt(c)
    BY <2>16 DEF Interrupt, InterruptWaiting, InterruptAdmitted, InterruptExitClear, TypeOK, gate
  <2> QED
    BY <1>2, <2>1, <2>2, <2>3, <2>4, <2>5, <2>6, <2>7, <2>8, <2>9, <2>10, <2>11,
       <2>12, <2>13, <2>14, <2>15, <2>16 DEF Advance
<1> QED
  BY <1>1, <1>2 DEF Next

\* The gate and the callers keep their types: in particular the remembered
\* grants stay a strict order, whatever is pruned.
THEOREM TypeCorrect == Spec => []TypeOK
BY TypeInit, TypeStep, PTL DEF Spec

-----------------------------------------------------------------------------
(* Conservation of permits and demand. *)

LEMMA ConservationInit == Init => Conservation
<1> SUFFICES ASSUME Init PROVE PermitsAreHeld /\ DemandIsReal
  BY TypeInit DEF Conservation
<1>1. Holding = {} /\ Registered = {}
  BY DEF Init, Holding, HoldingLabels, Registered
<1>2. \A r : OfRepository(Holding, r) = {} /\ OfRepository(Registered, r) = {}
  BY <1>1 DEF OfRepository
<1>3. Cardinality({}) = 0
  BY FS_EmptySet
<1> QED
  BY <1>1, <1>2, <1>3 DEF Init, PermitsAreHeld, DemandIsReal

\* Callers without demand on their way out.
Leavers == {"idle", "exitPrune", "exitClear", "done"}

\* A step that moves one caller without crossing the admission or the release
\* and without touching the counts.
LEMMA QuietStep ==
    ASSUME Conservation, NEW c \in Callers, NEW label \in Labels, Goto(c, label),
           label \in HoldingLabels <=> pc[c] \in HoldingLabels,
           label \in Leavers => ~registered[c],
           UNCHANGED <<active, activeByRepository, waiting, registered>>
    PROVE  PermitsAreHeld' /\ DemandIsReal'
<1> USE DEF Conservation
<1>1. Holding' = Holding
  BY HoldersOfStep DEF Holding
<1>2. Registered' = Registered
  BY DEF Registered
<1>3. PermitsAreHeld'
  BY <1>1 DEF PermitsAreHeld, OfRepository
<1>4. \A d \in Callers : pc'[d] = IF d = c THEN label ELSE pc[d]
  BY DEF Goto, TypeOK
<1>5. DemandIsReal'
  BY <1>2, <1>4 DEF DemandIsReal, OfRepository, Leavers
<1> QED
  BY <1>3, <1>5

\* A step that withdraws the demand of one caller.
LEMMA UnregisterStep ==
    ASSUME Conservation, NEW c \in Callers, NEW label \in Labels, Goto(c, label),
           label \in HoldingLabels <=> pc[c] \in HoldingLabels,
           UnregisterIfNeeded(c), UNCHANGED <<active, activeByRepository>>
    PROVE  PermitsAreHeld' /\ DemandIsReal'
<1> USE DEF Conservation
<1>1. Holding' = Holding
  BY HoldersOfStep DEF Holding
<1>2. PermitsAreHeld'
  BY <1>1 DEF PermitsAreHeld, OfRepository
<1>3. /\ ~registered'[c]
      /\ \A d \in Callers \ {c} : registered'[d] = registered[d]
      /\ \A r \in Repositories : waiting'[r] = Cardinality(OfRepository(Registered', r))
  BY UnregisterKeepsDemand DEF DemandIsReal
<1>4. \A d \in Callers : pc'[d] = IF d = c THEN label ELSE pc[d]
  BY DEF Goto, TypeOK
<1>5. DemandIsReal'
  BY <1>3, <1>4 DEF DemandIsReal, OfRepository, Registered
<1> QED
  BY <1>2, <1>5

LEMMA AdmitStep ==
    ASSUME Conservation, NEW c \in Callers, Admit(c)
    PROVE  PermitsAreHeld' /\ DemandIsReal'
<1> DEFINE r == RepositoryOf[c]
<1> USE DEF Conservation
<1>0. r \in Repositories /\ Holding \in SUBSET Callers
  BY CallersAssumption DEF Holding
<1>1. Goto(c, "unregister") /\ pc[c] = "tryRunTurn"
  BY DEF Admit
<1>2. c \notin Holding /\ Holding' = Holding \union {c}
  BY <1>1, HoldersOfStep DEF Holding, HoldingLabels, Labels
<1>3. /\ Cardinality(Holding') = Cardinality(Holding) + 1
      /\ Cardinality(OfRepository(Holding', r)) = Cardinality(OfRepository(Holding, r)) + 1
      /\ \A q : q # r => OfRepository(Holding', q) = OfRepository(Holding, q)
  BY <1>0, <1>2, Joining
<1>4. /\ active' = active + 1
      /\ activeByRepository' = [activeByRepository EXCEPT ![r] = @ + 1]
      /\ UNCHANGED <<waiting, registered>>
  BY DEF Admit, local
<1>5. active' = Cardinality(Holding')
  BY <1>3, <1>4 DEF PermitsAreHeld
<1>6. ASSUME NEW q \in Repositories
      PROVE  activeByRepository'[q] = Cardinality(OfRepository(Holding', q))
  <2>1. activeByRepository[q] = Cardinality(OfRepository(Holding, q))
    BY DEF PermitsAreHeld
  <2>2. activeByRepository \in [Repositories -> Nat]
    BY DEF TypeOK
  <2>3. CASE q = r
    BY <1>3, <1>4, <2>1, <2>2, <2>3
  <2>4. CASE q # r
    BY <1>3, <1>4, <2>1, <2>2, <2>4
  <2> QED
    BY <2>3, <2>4
<1>7. PermitsAreHeld'
  BY <1>5, <1>6 DEF PermitsAreHeld
<1>8. Registered' = Registered
  BY <1>4 DEF Registered
<1>9. \A d \in Callers : pc'[d] = IF d = c THEN "unregister" ELSE pc[d]
  BY <1>1 DEF Goto, TypeOK
<1>10. DemandIsReal'
  BY <1>4, <1>8, <1>9 DEF DemandIsReal, OfRepository
<1> QED
  BY <1>7, <1>10

LEMMA ReleaseStep ==
    ASSUME Conservation, NEW c \in Callers, Release(c)
    PROVE  PermitsAreHeld' /\ DemandIsReal'
<1> DEFINE r == RepositoryOf[c]
<1> USE DEF Conservation
<1>0. r \in Repositories /\ Holding \in SUBSET Callers
  BY CallersAssumption DEF Holding
<1>1. Goto(c, "exitUnregister") /\ pc[c] = "release"
  BY DEF Release
<1>2. c \in Holding /\ Holding' = Holding \ {c}
  BY <1>1, HoldersOfStep DEF Holding, HoldingLabels, Labels
<1>3. /\ Cardinality(Holding) > 0
      /\ Cardinality(Holding') = Cardinality(Holding) - 1
      /\ Cardinality(OfRepository(Holding, r)) > 0
      /\ Cardinality(OfRepository(Holding', r)) = Cardinality(OfRepository(Holding, r)) - 1
      /\ \A q : q # r => OfRepository(Holding', q) = OfRepository(Holding, q)
  BY <1>0, <1>2, Leaving
<1>4. /\ active = Cardinality(Holding) /\ active \in Nat
      /\ activeByRepository \in [Repositories -> Nat]
      /\ \A q \in Repositories : activeByRepository[q] = Cardinality(OfRepository(Holding, q))
  BY DEF PermitsAreHeld, TypeOK
<1>5. /\ active' = active - 1
      /\ activeByRepository' = [activeByRepository EXCEPT ![r] = @ - 1]
  <2>1. activeByRepository[r] > 0 /\ activeByRepository[r] \in Nat /\ active > 0
    BY <1>0, <1>3, <1>4
  <2>2. Less1(active) = active - 1 /\ Less1(activeByRepository[r]) = activeByRepository[r] - 1
    BY <1>4, <2>1 DEF Less1
  <2> QED
    BY <2>2 DEF Release
<1>6. ASSUME NEW q \in Repositories
      PROVE  activeByRepository'[q] = Cardinality(OfRepository(Holding', q))
  <2>1. CASE q = r
    BY <1>3, <1>4, <1>5, <2>1
  <2>2. CASE q # r
    BY <1>3, <1>4, <1>5, <2>2
  <2> QED
    BY <2>1, <2>2
<1>7. PermitsAreHeld'
  BY <1>3, <1>4, <1>5, <1>6 DEF PermitsAreHeld
<1>8. UNCHANGED <<waiting, registered>> /\ Registered' = Registered
  BY DEF Release, local, Registered
<1>9. \A d \in Callers : pc'[d] = IF d = c THEN "exitUnregister" ELSE pc[d]
  BY <1>1 DEF Goto, TypeOK
<1>10. DemandIsReal'
  BY <1>8, <1>9 DEF DemandIsReal, OfRepository
<1> QED
  BY <1>7, <1>10

LEMMA RefuseStep ==
    ASSUME Conservation, NEW c \in Callers, Refuse(c)
    PROVE  PermitsAreHeld' /\ DemandIsReal'
<1> DEFINE r == RepositoryOf[c]
           label == IF marked[c] THEN "sleep" ELSE "markWaiting"
<1> USE DEF Conservation
<1>0. r \in Repositories /\ Registered \in SUBSET Callers
  BY CallersAssumption DEF Registered
<1>1. Goto(c, label) /\ pc[c] = "tryRunTurn" /\ label \in {"sleep", "markWaiting"}
  BY DEF Refuse
<1>2. /\ label \in Labels /\ label \notin Leavers
      /\ label \notin HoldingLabels /\ pc[c] \notin HoldingLabels
  BY <1>1 DEF Labels, Leavers, HoldingLabels
<1>3. UNCHANGED <<active, activeByRepository>>
  BY DEF Refuse
<1>4. CASE registered[c]
  <2>1. UNCHANGED <<waiting, registered>>
    BY <1>4 DEF Refuse
  <2> QED
    BY <1>1, <1>2, <1>3, <2>1, QuietStep
<1>5. CASE ~registered[c]
  <2>1. /\ registered' = [registered EXCEPT ![c] = TRUE]
        /\ waiting' = [waiting EXCEPT ![r] = @ + 1]
    BY <1>5 DEF Refuse
  <2>2. c \notin Registered /\ Registered' = Registered \union {c}
    BY <1>5, <2>1, RegisteredOfStep DEF Registered
  <2>3. /\ Cardinality(OfRepository(Registered', r)) = Cardinality(OfRepository(Registered, r)) + 1
        /\ \A q : q # r => OfRepository(Registered', q) = OfRepository(Registered, q)
    BY <1>0, <2>2, Joining
  <2>4. waiting \in [Repositories -> Nat]
    BY DEF TypeOK
  <2>5. ASSUME NEW q \in Repositories
        PROVE  waiting'[q] = Cardinality(OfRepository(Registered', q))
    <3>1. waiting[q] = Cardinality(OfRepository(Registered, q))
      BY DEF DemandIsReal
    <3>2. CASE q = r
      BY <2>1, <2>3, <2>4, <3>1, <3>2
    <3>3. CASE q # r
      BY <2>1, <2>3, <2>4, <3>1, <3>3
    <3> QED
      BY <3>2, <3>3
  <2>6. \A d \in Callers : /\ pc'[d] = IF d = c THEN label ELSE pc[d]
                           /\ registered'[d] = IF d = c THEN TRUE ELSE registered[d]
    BY <1>1, <2>1 DEF Goto, TypeOK
  <2>7. \A d \in Callers : pc'[d] \in Leavers => ~registered'[d]
    BY <1>2, <2>6 DEF DemandIsReal, Leavers
  <2>8. DemandIsReal'
    BY <2>5, <2>7 DEF DemandIsReal, Leavers
  <2>9. Holding' = Holding
    BY <1>1, <1>2, HoldersOfStep DEF Holding
  <2>10. PermitsAreHeld'
    BY <1>3, <2>9 DEF PermitsAreHeld, OfRepository
  <2> QED
    BY <2>8, <2>10
<1> QED
  BY <1>4, <1>5

LEMMA ConservationStep ==
    ASSUME Conservation, [Next]_vars
    PROVE  Conservation'
<1>0. TypeOK'
  BY TypeStep DEF Conservation
<1>1. CASE UNCHANGED vars
  BY <1>0, <1>1 DEF vars, gate, local, Conservation, PermitsAreHeld, DemandIsReal,
                    Holding, Registered, OfRepository
<1>2. ASSUME NEW c \in Callers, Request(c) \/ Advance(c) \/ Interrupt(c)
      PROVE  PermitsAreHeld' /\ DemandIsReal'
  <2> USE DEF Labels, HoldingLabels, Leavers, gate, local
  <2>0. pc[c] \in Leavers => ~registered[c]
    BY DEF Conservation, DemandIsReal
  <2>1. CASE Request(c)
    BY <2>1, QuietStep DEF Request
  <2>2. CASE Refresh(c)
    BY <2>2, QuietStep DEF Refresh
  <2>3. CASE Admit(c)
    BY <2>3, AdmitStep
  <2>4. CASE Refuse(c)
    BY <2>4, RefuseStep
  <2>5. CASE MarkWaiting(c)
    BY <2>5, QuietStep DEF MarkWaiting
  <2>6. CASE NoteMarked(c)
    BY <2>6, QuietStep DEF NoteMarked
  <2>7. CASE Wake(c)
    BY <2>7, QuietStep DEF Wake
  <2>8. CASE Unregister(c)
    <3> DEFINE label == IF marked[c] THEN "clearWaiting" ELSE "turn"
    <3>1. /\ Goto(c, label) /\ pc[c] = "unregister" /\ label \in {"clearWaiting", "turn"}
          /\ UnregisterIfNeeded(c) /\ UNCHANGED <<active, activeByRepository>>
      BY <2>8 DEF Unregister
    <3> HIDE DEF label
    <3> QED
      BY <3>1, UnregisterStep
  <2>9. CASE ClearWaiting(c)
    BY <2>9, QuietStep DEF ClearWaiting, ClearMarked
  <2>10. CASE TurnEnds(c)
    BY <2>10, QuietStep DEF TurnEnds
  <2>11. CASE Release(c)
    BY <2>11, ReleaseStep
  <2>12. CASE ExitUnregister(c)
    BY <2>12, UnregisterStep DEF ExitUnregister
  <2>13. CASE ExitPrune(c)
    <3> DEFINE label == IF marked[c] THEN "exitClear" ELSE "done"
    <3>1. /\ Goto(c, label) /\ pc[c] = "exitPrune" /\ label \in {"exitClear", "done"}
          /\ UNCHANGED <<active, activeByRepository, waiting, registered>>
      BY <2>13 DEF ExitPrune
    <3> HIDE DEF label
    <3> QED
      BY <2>0, <3>1, QuietStep
  <2>14. CASE ExitClear(c)
    BY <2>0, <2>14, QuietStep DEF ExitClear, ClearMarked
  <2>15. CASE Done(c)
    BY <2>0, <2>15, QuietStep DEF Done
  <2>16. CASE InterruptWaiting(c)
    BY <2>16, QuietStep DEF InterruptWaiting
  <2>17. CASE InterruptAdmitted(c)
    BY <2>17, QuietStep DEF InterruptAdmitted
  <2>18. CASE InterruptExitClear(c)
    BY <2>0, <2>18, QuietStep DEF InterruptExitClear
  <2> QED
    BY <1>2, <2>1, <2>2, <2>3, <2>4, <2>5, <2>6, <2>7, <2>8, <2>9, <2>10, <2>11, <2>12,
       <2>13, <2>14, <2>15, <2>16, <2>17, <2>18 DEF Advance, Interrupt
<1> QED
  BY <1>0, <1>1, <1>2 DEF Next, Conservation

LEMMA ConservationInvariant == Spec => []Conservation
BY ConservationInit, ConservationStep, PTL DEF Spec

\* The gate counts exactly the callers between admission and release, for any
\* number of callers and repositories and any interruptions: no permit leaks.
THEOREM PermitsConserved == Spec => []PermitsAreHeld
<1>1. Conservation => PermitsAreHeld
  BY DEF Conservation
<1> QED
  BY <1>1, ConservationInvariant, PTL

\* A repository competes for permits exactly while one of its callers waits.
THEOREM DemandConserved == Spec => []DemandIsReal
<1>1. Conservation => DemandIsReal
  BY DEF Conservation
<1> QED
  BY <1>1, ConservationInvariant, PTL

-----------------------------------------------------------------------------
(* The limit. *)

LEMMA OnlyAdmissionGrows ==
    ASSUME TypeOK, [Next]_vars, active' > active
    PROVE  active < capacity /\ active' = active + 1
<1>0. active \in Nat
  BY DEF TypeOK
<1>1. ASSUME active' = active \/ active' = Less1(active) PROVE FALSE
  BY <1>0, <1>1 DEF Less1
<1>2. PICK c \in Callers : Request(c) \/ Advance(c) \/ Interrupt(c)
  BY <1>1 DEF Next, vars, gate
<1>3. Admit(c)
  BY <1>1, <1>2 DEF Advance, Interrupt, Request, Refresh, Refuse, MarkWaiting, NoteMarked,
     Wake, Unregister, ClearWaiting, ClearMarked, TurnEnds, Release, ExitUnregister,
     ExitPrune, ExitClear, Done, InterruptWaiting, InterruptAdmitted, InterruptExitClear, gate
<1> QED
  BY <1>3 DEF Admit, Admissible

\* While the number of turns in progress grows it stays within the limit in
\* force, also after the limit was lowered below the turns in progress.
THEOREM LimitRespected == Spec => AdmissionRespectsLimit
<1>1. ASSUME Conservation, Conservation', [Next]_vars,
             Cardinality(Holding') > Cardinality(Holding)
      PROVE  Cardinality(Holding') <= capacity
  <2>1. active = Cardinality(Holding) /\ active' = Cardinality(Holding')
    BY <1>1 DEF Conservation, PermitsAreHeld
  <2>2. active < capacity /\ active' = active + 1
    BY <1>1, <2>1, OnlyAdmissionGrows DEF Conservation
  <2>3. active \in Nat /\ capacity \in Nat
    BY <1>1, ConfigAssumption DEF Conservation, TypeOK
  <2> QED
    BY <2>1, <2>2, <2>3
<1>2. Conservation /\ Conservation' /\ [Next]_vars
        => [Cardinality(Holding') > Cardinality(Holding) => Cardinality(Holding') <= capacity]_vars
  BY <1>1
<1> QED
  BY <1>2, ConservationInvariant, PTL DEF Spec, AdmissionRespectsLimit

-----------------------------------------------------------------------------
(* What the gate remembers of a repository nobody asks or runs a turn for. *)

\* The labels of a caller that has nothing left to do with the gate.
Gone == {"idle", "done", "exitClear"}

\* Every other caller of r leaves the gate's memory of r alone: the step of c
\* only touches what is remembered of RepositoryOf[c].
LEMMA MemoryOfOthers ==
    ASSUME TypeOK, NEW c \in Callers, Request(c) \/ Advance(c) \/ Interrupt(c),
           NEW r \in Repositories, r # RepositoryOf[c]
    PROVE  /\ r \in lastGranted'.seen <=> r \in lastGranted.seen
           /\ guaranteedMins'[r] = guaranteedMins[r]
<1>1. CASE Refresh(c)
  BY <1>1 DEF Refresh, TypeOK
<1>2. CASE Admit(c)
  BY <1>2 DEF Admit, Granted, Forgotten
<1>3. CASE Release(c)
  BY <1>3 DEF Release, PruneIdle, Forgotten, TypeOK
<1>4. CASE ExitPrune(c)
  BY <1>4 DEF ExitPrune, PruneIdle, Forgotten, TypeOK
<1> QED
  BY <1>1, <1>2, <1>3, <1>4 DEF Advance, Interrupt, Request, Refuse, MarkWaiting, NoteMarked,
     Wake, Unregister, ClearWaiting, ClearMarked, TurnEnds, ExitUnregister,
     ExitClear, Done, InterruptWaiting, InterruptAdmitted, InterruptExitClear, gate

LEMMA OthersStay ==
    ASSUME TypeOK, NEW c \in Callers, Request(c) \/ Advance(c) \/ Interrupt(c),
           NEW d \in Callers, d # c
    PROVE  pc'[d] = pc[d]
BY DEF TypeOK, Goto, Advance, Interrupt, Request, Refresh, Admit, Refuse, MarkWaiting,
   NoteMarked, Wake, Unregister, ClearWaiting, TurnEnds, Release, ExitUnregister, ExitPrune,
   ExitClear, Done, InterruptWaiting, InterruptAdmitted, InterruptExitClear

\* Among the steps after which the caller is gone, only ExitPrune starts
\* elsewhere; the others leave the gate alone.
LEMMA GoneAfter ==
    ASSUME TypeOK, NEW c \in Callers, Request(c) \/ Advance(c) \/ Interrupt(c), pc'[c] \in Gone
    PROVE  \/ ExitPrune(c)
           \/ pc[c] \in Gone /\ UNCHANGED gate
<1> USE DEF TypeOK, Goto, Gone
<1>1. CASE Unregister(c)
  BY <1>1 DEF Unregister
<1>2. CASE Refuse(c)
  BY <1>2 DEF Refuse
<1> QED
  BY <1>1, <1>2 DEF Advance, Interrupt, Request, Refresh, Admit, MarkWaiting, NoteMarked, Wake,
     ClearWaiting, ClearMarked, TurnEnds, Release, ExitUnregister, ExitClear, Done,
     InterruptWaiting, InterruptAdmitted, InterruptExitClear

\* The caller that is the last of its repository to leave finds no permit held
\* and no demand registered, so it prunes.
LEMMA LastToLeavePrunes ==
    ASSUME Conservation, NEW c \in Callers, ExitPrune(c),
           \A d \in Callers \ {c} : RepositoryOf[d] = RepositoryOf[c] => pc[d] \in Gone
    PROVE  /\ RepositoryOf[c] \notin lastGranted'.seen
           /\ guaranteedMins'[RepositoryOf[c]] = 0
<1> DEFINE r == RepositoryOf[c]
<1>0. r \in Repositories /\ pc[c] = "exitPrune"
  BY CallersAssumption DEF ExitPrune
<1>1. OfRepository(Holding, r) = {} /\ OfRepository(Registered, r) = {}
  BY <1>0 DEF Conservation, DemandIsReal, OfRepository, Holding, HoldingLabels, Registered, Gone
<1>2. activeByRepository[r] = 0 /\ waiting[r] = 0
  BY <1>0, <1>1, FS_EmptySet DEF Conservation, PermitsAreHeld, DemandIsReal
<1>3. /\ lastGranted' = Forgotten(lastGranted, r)
      /\ guaranteedMins' = [guaranteedMins EXCEPT ![r] = 0]
  BY <1>2 DEF ExitPrune, PruneIdle
<1> QED
  BY <1>0, <1>3 DEF Forgotten, Conservation, TypeOK

\* The gate remembers nothing of a repository all of whose callers are gone,
\* for any number of callers and however they are interrupted.
THEOREM IdleForgotten == Spec => []IdleRepositoriesAreForgotten
<1>1. Init => IdleRepositoriesAreForgotten
  BY DEF Init, IdleRepositoriesAreForgotten, NoGrants
<1>2. ASSUME Conservation, IdleRepositoriesAreForgotten, [Next]_vars
      PROVE  IdleRepositoriesAreForgotten'
  <2>0. TypeOK
    BY <1>2 DEF Conservation
  <2>1. CASE UNCHANGED vars
    BY <1>2, <2>1 DEF IdleRepositoriesAreForgotten, vars, gate
  <2>2. ASSUME NEW c \in Callers, Request(c) \/ Advance(c) \/ Interrupt(c),
               NEW r \in Repositories,
               \A d \in Callers : RepositoryOf[d] = r => pc'[d] \in Gone
        PROVE  r \notin lastGranted'.seen /\ guaranteedMins'[r] = 0
    <3>1. \A d \in Callers \ {c} : RepositoryOf[d] = r => pc[d] \in Gone
      BY <2>0, <2>2, OthersStay
    <3>2. CASE r # RepositoryOf[c]
      <4>1. \A d \in Callers : RepositoryOf[d] = r => pc[d] \in Gone
        BY <3>1, <3>2
      <4>2. r \notin lastGranted.seen /\ guaranteedMins[r] = 0
        BY <1>2, <4>1 DEF IdleRepositoriesAreForgotten, Gone
      <4> QED
        BY <2>0, <2>2, <3>2, <4>2, MemoryOfOthers
    <3>3. CASE r = RepositoryOf[c] /\ ExitPrune(c)
      BY <1>2, <3>1, <3>3, LastToLeavePrunes
    <3>4. CASE r = RepositoryOf[c] /\ pc[c] \in Gone /\ UNCHANGED gate
      <4>1. \A d \in Callers : RepositoryOf[d] = r => pc[d] \in Gone
        BY <3>1, <3>4
      <4> QED
        BY <1>2, <3>4, <4>1 DEF IdleRepositoriesAreForgotten, Gone, gate
    <3> QED
      BY <2>0, <2>2, <3>2, <3>3, <3>4, GoneAfter
  <2>3. CASE Next
    BY <2>2, <2>3 DEF Next, IdleRepositoriesAreForgotten, Gone
  <2> QED
    BY <1>2, <2>1, <2>3
<1> QED
  BY <1>1, <1>2, ConservationInvariant, PTL DEF Spec

-----------------------------------------------------------------------------
(* A running turn and the mark of its Step Run's row, when no SQL write fails. *)

\* A row that shows the mark has a caller that knows it, is about to note it,
\* or was cut off and ends its Step Run.
MarkTracked ==
    \A c \in Callers :
        /\ shownWaiting[c] => marked[c] \/ cut[c] \/ pc[c] = "marked"
        /\ cut[c] => pc[c] \in {"release", "exitUnregister", "exitPrune", "exitClear", "done"}
        /\ marked[c] => pc[c] \notin {"idle", "markWaiting", "marked", "turn"}
        /\ marked[c] /\ pc[c] = "done" => cut[c]

LEMMA MarkTrackedStep ==
    ASSUME ~DbMayFail, TypeOK, MarkTracked, [Next]_vars
    PROVE  MarkTracked'
<1>1. CASE UNCHANGED vars
  BY <1>1 DEF MarkTracked, vars, local
<1>2. ASSUME NEW c \in Callers, Request(c) \/ Advance(c) \/ Interrupt(c)
      PROVE  MarkTracked'
  <2> USE DEF TypeOK, Goto, local
  <2>1. ASSUME NEW d \in Callers, d # c
        PROVE  /\ pc'[d] = pc[d] /\ shownWaiting'[d] = shownWaiting[d]
               /\ marked'[d] = marked[d] /\ cut'[d] = cut[d]
    <3>1. pc'[d] = pc[d]
      BY <1>2, <2>1, OthersStay
    <3>2. /\ shownWaiting'[d] = shownWaiting[d]
          /\ marked'[d] = marked[d] /\ cut'[d] = cut[d]
      BY <1>2, <2>1 DEF Advance, Interrupt, Request, Refresh, Admit, Refuse, MarkWaiting,
         NoteMarked, Wake, Unregister, ClearWaiting, ClearMarked, TurnEnds, Release,
         ExitUnregister, ExitPrune, ExitClear, Done, InterruptWaiting, InterruptAdmitted,
         InterruptExitClear
    <3> QED
      BY <3>1, <3>2
  <2> DEFINE Tracked(d) ==
        /\ shownWaiting[d] => marked[d] \/ cut[d] \/ pc[d] = "marked"
        /\ cut[d] => pc[d] \in {"release", "exitUnregister", "exitPrune", "exitClear", "done"}
        /\ marked[d] => pc[d] \notin {"idle", "markWaiting", "marked", "turn"}
        /\ marked[d] /\ pc[d] = "done" => cut[d]
  <2>2. Tracked(c)
    BY DEF MarkTracked
  <2>3. Tracked(c)'
    <3>1. CASE Request(c)
      BY <2>2, <3>1 DEF Request
    <3>2. CASE Refresh(c) \/ Admit(c) \/ Wake(c) \/ TurnEnds(c) \/ Release(c)
      BY <2>2, <3>2 DEF Refresh, Admit, Wake, TurnEnds, Release
    <3>3. CASE Refuse(c)
      BY <2>2, <3>3 DEF Refuse
    <3>4. CASE MarkWaiting(c) \/ NoteMarked(c)
      BY <2>2, <3>4 DEF MarkWaiting, NoteMarked
    <3>5. CASE Unregister(c) \/ ExitUnregister(c)
      BY <2>2, <3>5 DEF Unregister, ExitUnregister
    <3>6. CASE ExitPrune(c)
      BY <2>2, <3>6 DEF ExitPrune
    <3>7. CASE ClearWaiting(c) \/ ExitClear(c)
      BY <2>2, <3>7 DEF ClearWaiting, ExitClear, ClearMarked
    <3>8. CASE Done(c)
      BY <2>2, <3>8 DEF Done
    <3>9. CASE Interrupt(c)
      BY <2>2, <3>9 DEF Interrupt, InterruptWaiting, InterruptAdmitted, InterruptExitClear
    <3> QED
      BY <1>2, <3>1, <3>2, <3>3, <3>4, <3>5, <3>6, <3>7, <3>8, <3>9 DEF Advance
  <2>4. \A d \in Callers : Tracked(d)'
    BY <2>1, <2>3 DEF MarkTracked
  <2> QED
    BY <2>4 DEF MarkTracked
<1> QED
  BY <1>1, <1>2 DEF Next

\* While a turn runs its Step Run is not shown as queued, provided no SQL write
\* fails: the mark written before the admission is always cleared before the
\* turn, also over interruptions and repeated requests.
THEOREM TurnNotShownQueued ==
    ASSUME ~DbMayFail
    PROVE  Spec => []RunningTurnIsNotShownQueued
<1>1. Init => MarkTracked
  BY DEF Init, MarkTracked
<1>2. TypeOK /\ MarkTracked /\ [Next]_vars => MarkTracked'
  BY MarkTrackedStep
<1>3. MarkTracked => RunningTurnIsNotShownQueued
  BY DEF MarkTracked, RunningTurnIsNotShownQueued
<1> QED
  BY <1>1, <1>2, <1>3, TypeCorrect, PTL DEF Spec
=============================================================================
