----------------------- MODULE AgentTurnFairnessProofs -----------------------
(***************************************************************************)
(* Proof of the bound on overtaking, for any number of repositories and    *)
(* callers and any settings. The history variables only watch the gate, so *)
(* what is proved of the gate holds here too.                              *)
(***************************************************************************)
EXTENDS AgentTurnFairness, AgentTurnLimiterProofs

-----------------------------------------------------------------------------
(* The gate with the histories does what the gate does. *)

LEMMA HistoryStep == [HNext]_historyVars => [Next]_vars
BY DEF HNext, HAdmit, HOther, historyVars, Next, Advance

LEMMA TypeWithHistory == HSpec => []TypeOK
<1>1. HInit => TypeOK
  BY TypeInit DEF HInit
<1>2. TypeOK /\ [HNext]_historyVars => TypeOK'
  BY HistoryStep, TypeStep
<1> QED
  BY <1>1, <1>2, PTL DEF HSpec

-----------------------------------------------------------------------------
(* Grants and forgetting in the remembered order. *)

\* A grant puts its repository above all others and keeps the rest in order.
LEMMA GrantIsOnTop ==
    ASSUME NEW order, NEW q, NEW r, r # q
    PROVE  /\ LessRecent(Granted(order, q), r, q)
           /\ \A p : p # q /\ LessRecent(order, r, p) => LessRecent(Granted(order, q), r, p)
<1>1. /\ Granted(order, q).seen = (order.seen \ {q}) \union {q}
      /\ Granted(order, q).before =
           {p \in order.before : q \notin {p[1], p[2]}} \union ((order.seen \ {q}) \X {q})
  BY DEF Granted, Forgotten
<1>2. LessRecent(Granted(order, q), r, q)
  BY <1>1 DEF LessRecent
<1>3. ASSUME NEW p, p # q, LessRecent(order, r, p)
      PROVE  LessRecent(Granted(order, q), r, p)
  BY <1>1, <1>3 DEF LessRecent
<1> QED
  BY <1>2, <1>3

\* Forgetting a repository keeps the others in order; one that is forgotten
\* itself is less recent than all that are remembered.
LEMMA ForgettingKeepsOrder ==
    ASSUME NEW order, NEW q, NEW r, NEW p, LessRecent(order, r, p),
           p \in Forgotten(order, q).seen
    PROVE  LessRecent(Forgotten(order, q), r, p)
BY DEF LessRecent, Forgotten

-----------------------------------------------------------------------------
(* Who overtook a waiting repository was granted after it. *)

OvertakersAreMoreRecent ==
    \A r \in Repositories : \A q \in overtakers[r] : LessRecent(lastGranted, r, q)

LEMMA OtherStepsOnlyForget ==
    ASSUME TypeOK, NEW c \in Callers, HOther(c)
    PROVE  lastGranted' = lastGranted \/ \E q : lastGranted' = Forgotten(lastGranted, q)
<1> USE DEF gate
<1>1. CASE Admit(c)
  BY <1>1 DEF HOther, Admit, Request, Refuse, Interrupt, InterruptWaiting, InterruptAdmitted,
     InterruptExitClear
<1>2. CASE Release(c)
  BY <1>2 DEF Release, PruneIdle
<1>3. CASE ExitPrune(c)
  BY <1>3 DEF ExitPrune, PruneIdle
<1> QED
  BY <1>1, <1>2, <1>3 DEF HOther, Advance, Interrupt, Request, Refresh, Refuse, MarkWaiting,
     NoteMarked, Wake, Unregister, ClearWaiting, ClearMarked, TurnEnds, ExitUnregister,
     ExitClear, Done, InterruptWaiting, InterruptAdmitted, InterruptExitClear

LEMMA OvertakersStep ==
    ASSUME TypeOK, OvertakersAreMoreRecent, [HNext]_historyVars
    PROVE  OvertakersAreMoreRecent'
<1>1. CASE UNCHANGED historyVars
  BY <1>1 DEF historyVars, vars, gate, OvertakersAreMoreRecent
<1>2. ASSUME NEW c \in Callers, HAdmit(c), NEW r \in Repositories, NEW q \in overtakers'[r]
      PROVE  LessRecent(lastGranted', r, q)
  <2> DEFINE granted == RepositoryOf[c]
  <2>1. lastGranted' = Granted(lastGranted, granted)
    BY <1>2 DEF HAdmit, Admit
  <2>2. r # granted /\ q \in overtakers[r] \union {granted}
    BY <1>2 DEF HAdmit
  <2>3. CASE q = granted
    BY <2>1, <2>2, <2>3, GrantIsOnTop
  <2>4. CASE q # granted /\ q \in overtakers[r]
    <3>1. LessRecent(lastGranted, r, q)
      BY <2>4 DEF OvertakersAreMoreRecent
    <3> QED
      BY <2>1, <2>2, <2>4, <3>1, GrantIsOnTop
  <2> QED
    BY <2>2, <2>3, <2>4
<1>3. ASSUME NEW c \in Callers, HOther(c), NEW r \in Repositories, NEW q \in overtakers'[r]
      PROVE  LessRecent(lastGranted', r, q)
  <2>1. q \in overtakers[r] /\ q \in lastGranted'.seen
    BY <1>3 DEF HOther
  <2>2. LessRecent(lastGranted, r, q)
    BY <2>1 DEF OvertakersAreMoreRecent
  <2> QED
    BY <1>3, <2>1, <2>2, OtherStepsOnlyForget, ForgettingKeepsOrder
<1>4. CASE HNext
  BY <1>2, <1>3, <1>4 DEF HNext, OvertakersAreMoreRecent
<1> QED
  BY <1>1, <1>4

\* tryAdmit never admits a repository without an unmet guarantee while one that
\* competes with it is less recent.
LEMMA AdmittedIsLeastRecentOrUnmet ==
    ASSUME NEW q, NEW r \in Repositories, waiting[r] > 0, LessRecent(lastGranted, r, q),
           Admissible(q)
    PROVE  Unmet(q)
<1>1. r \in Contenders(q)
  BY DEF Contenders
<1>2. r \notin Pool(q) /\ q \in Pool(q)
  BY DEF Admissible
<1> QED
  BY <1>1, <1>2 DEF Pool

\* While a repository waits, another one that does not go idle overtakes it at
\* most once, unless its guaranteed minimum is unmet.
THEOREM OvertakingBounded == HSpec => OvertakenAtMostOnce
<1>1. HInit => OvertakersAreMoreRecent
  BY DEF HInit, OvertakersAreMoreRecent
<1>2. TypeOK /\ OvertakersAreMoreRecent /\ [HNext]_historyVars => OvertakersAreMoreRecent'
  BY OvertakersStep
<1>3. ASSUME OvertakersAreMoreRecent, NEW c \in Callers, Admit(c),
             NEW r \in Repositories \ {RepositoryOf[c]},
             waiting[r] > 0, RepositoryOf[c] \in overtakers[r]
      PROVE  Unmet(RepositoryOf[c])
  BY <1>3, AdmittedIsLeastRecentOrUnmet DEF OvertakersAreMoreRecent, Admit
<1>4. OvertakersAreMoreRecent =>
        [\A c \in Callers : Admit(c) =>
           \A r \in Repositories \ {RepositoryOf[c]} :
               waiting[r] > 0 /\ RepositoryOf[c] \in overtakers[r]
                   => Unmet(RepositoryOf[c])]_historyVars
  BY <1>3
<1> QED
  BY <1>1, <1>2, <1>4, TypeWithHistory, PTL DEF HSpec, OvertakenAtMostOnce
=============================================================================
