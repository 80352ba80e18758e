------------------------------ MODULE JobRows ------------------------------
(***************************************************************************)
(* What the statements of the durable queue do to one row of job_queue     *)
(* (packages/sqlite-queue-service/src/lib/sqlite-queue-service.ts).        *)
(*                                                                         *)
(* Data abstraction: available_at and locked_until are compared with the   *)
(* clock and with nothing else, so a row says whether it is due and        *)
(* whether its lock is absent (NULL), live or expired; time passing is an  *)
(* action of the modules that use the rows. Payloads are left out.         *)
(***************************************************************************)
EXTENDS Naturals

Locks == {"none", "live", "expired"}

Rows == [attempts : Nat, limit : Nat, due : BOOLEAN, lock : Locks]

NewRow(limit, due) == [attempts |-> 0, limit |-> limit, due |-> due, lock |-> "none"]

Locked(row) == row.lock # "none"

Exhausted(row) == row.attempts >= row.limit

\* Mutant: the delivery limit is not looked at.
ClaimableAgain(row) == row.due /\ row.lock # "live"

\* The WHERE clause of rawClaim.
Claimable(row) == row.due /\ row.lock # "live" /\ ~Exhausted(row)

ClaimedRow(row) == [row EXCEPT !.lock = "live", !.attempts = @ + 1]

\* postpone, postponeKeyed, reviveExhaustedKeyed: delivery starts afresh.
RenewedRow(row, due) == [row EXCEPT !.lock = "none", !.attempts = 0, !.due = due]

\* fail with retryable: false.
DeadLetteredRow(row) == [row EXCEPT !.attempts = row.limit, !.lock = "none"]

\* fail with releaseImmediately.
ReleasedRow(row) == [row EXCEPT !.lock = "none"]

\* extendVisibility.
ExtendedRow(row) == [row EXCEPT !.lock = "live"]

\* The clock passes available_at, or locked_until.
DueRow(row) == [row EXCEPT !.due = TRUE]
ExpiredRow(row) == [row EXCEPT !.lock = "expired"]
=============================================================================
