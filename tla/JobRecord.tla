----------------------------- MODULE JobRecord -----------------------------
(***************************************************************************)
(* One row of the jobs table and what each queue operation writes to it.   *)
(*                                                                         *)
(* The row is the struct Job of infrastructure/queue.rs, which the SQL of  *)
(* infrastructure/sql.rs reads and writes column by column.  Instants are  *)
(* kept as the time that is left until them, so that a clock tick lowers   *)
(* them and no absolute clock is needed: leased_until = 0 is a lease that  *)
(* is NULL or over (leased_until <= NOW()), next_run_at = 0 is a job that  *)
(* is due.  A claim token is a value nobody else still holds, which is all *)
(* the code uses of Uuid::new_v4.                                          *)
(***************************************************************************)
EXTENDS Naturals

CONSTANTS
    Token,          \* claim tokens
    NoToken,        \* the NULL claim token
    LeaseDuration,  \* default_lease_duration, in ticks
    RetryBase,      \* first retry delay, in ticks (30 seconds in the code)
    RetryCap        \* largest retry delay, in ticks (900 seconds in the code)

ASSUME TokenAssumption == NoToken \notin Token

ASSUME DurationAssumption ==
    /\ LeaseDuration \in Nat \ {0}
    /\ RetryBase \in Nat
    /\ RetryCap \in Nat

JobStatus == {"absent", "queued", "running", "failed", "done", "canceled"}

JobRow == [status       : JobStatus,
           retry_count  : Nat,
           claim_token  : Token \cup {NoToken},
           leased_until : Nat,
           next_run_at  : Nat]

(* A row that has not been inserted yet. *)
AbsentJob == [status |-> "absent", retry_count |-> 0, claim_token |-> NoToken,
              leased_until |-> 0, next_run_at |-> 0]

(* enqueue: the row enqueue_summary_job inserts. *)
EnqueuedJob == [AbsentJob EXCEPT !.status = "queued"]

Smaller(a, b) == IF a <= b THEN a ELSE b

(* retry_delay_seconds: doubling from RetryBase, at most five times, capped. *)
Multiplier == [n \in 0..5 |-> CASE n = 0 -> 1 [] n = 1 -> 2 [] n = 2 -> 4
                                [] n = 3 -> 8 [] n = 4 -> 16 [] OTHER -> 32]

RetryDelay(n) ==
    LET steps == IF n = 0 THEN 0 ELSE Smaller(n - 1, 5)
    IN  Smaller(RetryBase * Multiplier[steps], RetryCap)

(* Mutant: the claim ignores next_run_at. *)
DueForClaimIgnored(r) == TRUE

DueForClaim(r) == r.next_run_at = 0

LeaseExpired(r) == r.leased_until = 0

HasActiveClaim(r, t) ==
    /\ r.status = "running"
    /\ r.claim_token = t
    /\ ~LeaseExpired(r)

Claimable(r) == r.status = "queued" /\ DueForClaim(r)

StaleRunning(r) == r.status = "running" /\ LeaseExpired(r)

ClaimedJob(r, t) ==
    [r EXCEPT !.status = "running", !.claim_token = t,
              !.leased_until = LeaseDuration, !.next_run_at = 0]

HeartbeatJob(r) == [r EXCEPT !.leased_until = LeaseDuration]

(* The columns every operation that ends a claim clears. *)
Released(r, status) ==
    [r EXCEPT !.status = status, !.claim_token = NoToken,
              !.leased_until = 0, !.next_run_at = 0]

DoneJob(r) == Released(r, "done")

FailedJob(r) == Released(r, "failed")

CanceledJob(r) == Released(r, "canceled")

RequeuedJob(r) == Released(r, "queued")

(* Mutant: the limit is compared with the count before the retry. *)
RetriedJobLate(r, max_retries) ==
    LET n == r.retry_count + 1
    IN  IF r.retry_count > max_retries
        THEN [Released(r, "failed") EXCEPT !.retry_count = n]
        ELSE [Released(r, "queued") EXCEPT !.retry_count = n,
                                           !.next_run_at = RetryDelay(n)]

RetriedJob(r, max_retries) ==
    LET n == r.retry_count + 1
    IN  IF n > max_retries
        THEN [Released(r, "failed") EXCEPT !.retry_count = n]
        ELSE [Released(r, "queued") EXCEPT !.retry_count = n,
                                           !.next_run_at = RetryDelay(n)]

(* ADMIN_RETRY_JOB_SQL on the job row: a fresh budget, and a start time the  *)
(* administrator may choose.                                                 *)
AdminRetriedJob(r, delay) ==
    [Released(r, "queued") EXCEPT !.retry_count = 0, !.next_run_at = delay]

(* Mutant: the time that is left is lowered below zero. *)
TickedPastZero(r) ==
    [r EXCEPT !.leased_until = @ - 1, !.next_run_at = @ - 1]

(* One tick of the database clock, seen by one row. *)
Ticked(r) ==
    [r EXCEPT !.leased_until = IF @ = 0 THEN 0 ELSE @ - 1,
              !.next_run_at  = IF @ = 0 THEN 0 ELSE @ - 1]
=============================================================================
