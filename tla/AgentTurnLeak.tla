--------------------------- MODULE AgentTurnLeak ---------------------------
(***************************************************************************)
(* The fair-share gate on a runtime that may suspend a fiber inside the    *)
(* masked region of tryRunTurn.                                            *)
(*                                                                         *)
(* The mask covers Ref.modify, but releasePermit is registered by the      *)
(* Effect.ensuring INSIDE restore(...). The Effect runtime yields a fiber  *)
(* that has spent its operation budget between any two operations, masked  *)
(* or not, and an interruption that arrives meanwhile is raised when       *)
(* restore reopens the region, before the effect it wraps has started. The *)
(* fiber then leaves through onExit alone.                                 *)
(***************************************************************************)
EXTENDS AgentTurnLimiter

\* Suspended in the mask, admitted on resuming, interrupted at restore.
AdmitThenInterruptAtRestore(c) ==
    LET r == RepositoryOf[c] IN
    /\ pc[c] = "tryRunTurn"
    /\ Admissible(r)
    /\ active' = active + 1
    /\ lastGranted' = Granted(lastGranted, r)
    /\ activeByRepository' = [activeByRepository EXCEPT ![r] = @ + 1]
    /\ cut' = [cut EXCEPT ![c] = TRUE]
    /\ Goto(c, "exitUnregister")
    /\ UNCHANGED <<capacity, waiting, guaranteedMins, registered, marked, shownWaiting>>

LeakNext == Next \/ \E c \in Callers : AdmitThenInterruptAtRestore(c)

LeakSpec == Init /\ [][LeakNext]_vars

\* The comment above tryRunTurn and ADR 0065: taking a permit and pairing it
\* with its release never straddle an interruption, so an interrupted caller
\* leaves no permit taken behind.
NoPermitLeaks == active = Cardinality(Holding)
=============================================================================
