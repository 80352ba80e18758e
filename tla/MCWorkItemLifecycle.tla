------------------------ MODULE MCWorkItemLifecycle ------------------------
(* Small instances of WorkItemLifecycle: one Work Item for the faults, two  *)
(* for most races about a slot, three for a line with somebody behind the   *)
(* first.                                                                   *)
EXTENDS WorkItemLifecycle, TLC

CONSTANTS a, b, c, s, t

OneItem == {a}
TwoItems == {a, b}
ThreeItems == {a, b, c}

OneStep == {s}
TwoSteps == {s, t}

OneSlot == {1}
OneOrTwo == {1, 2}

OnePass == {1}

Retries == {"retry", "restore", "abandon", "human", "limit"}
Faults == {"pause", "retry", "interrupt", "restart", "outlive"}
RetryOrAbandon == {"retry", "abandon"}
Handoffs == {"human"}

Symmetry == Permutations(Items)
=============================================================================
