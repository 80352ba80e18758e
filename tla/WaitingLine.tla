---------------------------- MODULE WaitingLine ----------------------------
(***************************************************************************)
(* The line of Work Items that wait for a Worker Slot: those with a        *)
(* waiting_since, in its order. Timestamps are only compared, so a line is *)
(* its members and who is before whom.                                     *)
(***************************************************************************)

NoLine == [in |-> {}, before |-> {}]

Lines(S) == {l \in [in : SUBSET S, before : SUBSET (S \X S)] :
                /\ l.before \subseteq l.in \X l.in
                /\ \A i, j \in l.in : <<i, j>> \in l.before => <<j, i>> \notin l.before}

\* waiting_since is set to the time of the transaction.
Joined(l, i) == [in |-> l.in \union {i}, before |-> l.before \union (l.in \X {i})]

\* waiting_since of the members of S is cleared.
Without(l, S) == [in |-> l.in \ S,
                  before |-> {p \in l.before : p[1] \notin S /\ p[2] \notin S}]
=============================================================================
