------------------------- MODULE AgentTurnFairness -------------------------
(***************************************************************************)
(* The fair-share gate with two history variables, which the code does not *)
(* have: the true order of all grants, and who overtook a waiting          *)
(* repository since it began to wait. They let the promises of the         *)
(* module's comments and of docs/adr/0065 be compared with what the gate,  *)
(* which forgets idle repositories, does.                                  *)
(***************************************************************************)
EXTENDS AgentTurnLimiter

VARIABLES
    grantHistory,   \* the order of all grants, never pruned
    overtakers      \* per waiting repository: repositories granted meanwhile
                    \* that have not been idle since

historyVars == <<vars, grantHistory, overtakers>>

HInit ==
    /\ Init
    /\ grantHistory = NoGrants
    /\ overtakers = [r \in Repositories |-> {}]

Remembered(q) == q \in lastGranted.seen

HAdmit(c) ==
    LET r == RepositoryOf[c] IN
    /\ Admit(c)
    /\ grantHistory' = Granted(grantHistory, r)
    /\ overtakers' = [q \in Repositories |->
          IF q = r THEN {}
          ELSE IF waiting[q] > 0 THEN overtakers[q] \union {r} ELSE {}]

HOther(c) ==
    /\ Request(c) \/ (Advance(c) /\ pc[c] # "tryRunTurn") \/ Refuse(c) \/ Interrupt(c)
    /\ UNCHANGED grantHistory
    /\ overtakers' = [q \in Repositories |->
          IF waiting'[q] > 0 THEN overtakers[q] \intersect (lastGranted.seen)' ELSE {}]

HNext == \E c \in Callers : HAdmit(c) \/ HOther(c)

HSpec == HInit /\ [][HNext]_historyVars

-----------------------------------------------------------------------------
(* Properties. *)

\* While a repository waits, another one that does not go idle overtakes it at
\* most once, whatever the two ask for and however their callers are
\* interrupted; only an unmet guaranteed minimum may overtake again.
OvertakenAtMostOnce ==
    [][\A c \in Callers : Admit(c) =>
          \A r \in Repositories \ {RepositoryOf[c]} :
              waiting[r] > 0 /\ RepositoryOf[c] \in overtakers[r]
                  => Unmet(RepositoryOf[c])]_historyVars

\* Comments of tryAdmit and limitAgentTurns, and ADR 0065: among repositories
\* with pending demand and no unmet guarantee, the one that has gone longest
\* without being granted a permit is admitted next.
LeastRecentlyGrantedFirst ==
    [][\A c \in Callers : Admit(c) =>
          \A r \in Contenders(RepositoryOf[c]) :
              ~Unmet(RepositoryOf[c]) => ~LessRecent(grantHistory, r, RepositoryOf[c])]_historyVars
=============================================================================
