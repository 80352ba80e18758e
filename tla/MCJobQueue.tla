----------------------------- MODULE MCJobQueue -----------------------------
(* Two queues, one key, two entries at a time, two claimants. *)
EXTENDS JobQueue, TLC

CONSTANTS j1, j2, c1, c2

MCJobIds == {j1, j2}
MCClaimants == {c1, c2}
JobSymmetry == Permutations(MCJobIds) \union Permutations(MCClaimants)
=============================================================================
