---------------------------- MODULE WorkerSlots ----------------------------
(***************************************************************************)
(* What the harness promises about Worker Slots (docs/adr/0022): a Work    *)
(* Item is admitted, waits in line, or does neither. An admission finds a  *)
(* slot free under the limit of the moment; lowering the limit demotes     *)
(* nobody; who joins the line found every slot taken and joins at its end. *)
(***************************************************************************)
EXTENDS Naturals, FiniteSets, WaitingLine

CONSTANTS Items, Limits

VARIABLES limit, admitted, line

vars == <<limit, admitted, line>>

Init ==
    /\ limit \in Limits
    /\ admitted = {}
    /\ line = NoLine

SetLimit ==
    /\ limit' \in Limits
    /\ UNCHANGED <<admitted, line>>

Admit(i) ==
    /\ i \notin admitted
    /\ Cardinality(admitted) < limit
    /\ admitted' = admitted \union {i}
    /\ line' = Without(line, {i})
    /\ UNCHANGED limit

Join(i) ==
    /\ i \notin admitted
    /\ Cardinality(admitted) >= limit
    /\ line' = Joined(Without(line, {i}), i)
    /\ UNCHANGED <<limit, admitted>>

\* Slots are given back, and places in the line given up.
Leave(S) ==
    /\ admitted' = admitted \ S
    /\ line' = Without(line, S)
    /\ UNCHANGED limit

Next ==
    \/ SetLimit
    \/ \E i \in Items : Admit(i) \/ Join(i)
    \/ \E S \in SUBSET Items : Leave(S)

Spec == Init /\ [][Next]_vars
=============================================================================
