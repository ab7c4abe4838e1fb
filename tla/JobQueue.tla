------------------------------ MODULE JobQueue ------------------------------
(***************************************************************************)
(* The leased job queue: the JobQueue trait of infrastructure/queue.rs, its *)
(* in-memory implementation, and the SQL of SqlJobQueue that carries out    *)
(* the same transitions in one statement each.                              *)
(*                                                                         *)
(* A claim hands the worker a copy of the job row.  The worker works from   *)
(* that copy, and a background heartbeat task holds a clone of it, while    *)
(* the row moves on under them: leases run out, the poller requeues the     *)
(* row, another worker claims it.  Every operation therefore carries the    *)
(* copy's token and is refused unless that token still has a live lease.    *)
(***************************************************************************)
EXTENDS JobRecord, FiniteSets

CONSTANTS
    Job,           \* job ids ("summary-<meeting>")
    Worker,        \* tasks that claim and process jobs
    NoClaim,       \* what a worker holds when it has no copy of a job
    RetryLimits,   \* the values callers pass as max_retries
    AdminDelays,   \* start delays an administrator may ask for
    RecoverLimit   \* rows one recovery pass may requeue (25 in the SQL)

ASSUME QueueAssumption ==
    /\ IsFiniteSet(Job)
    /\ RetryLimits \subseteq Nat
    /\ AdminDelays \subseteq Nat
    /\ RecoverLimit \in Nat \ {0}
    /\ NoClaim \notin [job : Job, token : Token]

VARIABLES
    row,     \* Job -> JobRow: the jobs table
    rank,    \* Job -> Nat: insertion order (the queue's `order`)
    earlier, \* <<k, j>>: k's row was claimed or refreshed before j's (updated_at)
    held,    \* Worker -> the copy it works from, or NoClaim
    beat     \* Worker -> the copy its heartbeat task holds, or NoClaim

vars == <<row, rank, earlier, held, beat>>

order == <<rank, earlier>>

Claim == [job : Job, token : Token]

TypeOK ==
    /\ row \in [Job -> JobRow]
    /\ rank \in [Job -> Nat]
    /\ earlier \subseteq Job \X Job
    /\ held \in [Worker -> Claim \cup {NoClaim}]
    /\ beat \in [Worker -> Claim \cup {NoClaim}]

Init ==
    /\ row = [j \in Job |-> AbsentJob]
    /\ rank = [j \in Job |-> 0]
    /\ earlier = {}
    /\ held = [w \in Worker |-> NoClaim]
    /\ beat = [w \in Worker |-> NoClaim]

(* Tokens some row or some copy still carries: a new claim differs from all. *)
LiveTokens ==
    {row[j].claim_token : j \in Job}
      \cup {c.token : c \in {held[w] : w \in Worker} \ {NoClaim}}
      \cup {c.token : c \in {beat[w] : w \in Worker} \ {NoClaim}}

SetRow(j, r) == row' = [row EXCEPT ![j] = r]

(* updated_at of a row that is running: it is set by the claim and by every  *)
(* heartbeat, and only looked at while the row is running.                   *)
Touch(j) ==
    earlier' = {p \in earlier : p[1] # j} \cup {<<k, j>> : k \in Job \ {j}}

(***************************************************************************)
(* Operations of the trait.                                                *)
(***************************************************************************)

Enqueue(j) ==
    /\ row[j].status = "absent"
    /\ SetRow(j, EnqueuedJob)
    /\ rank' = [rank EXCEPT ![j] = 1 + Cardinality({k \in Job : row[k].status # "absent"})]
    /\ UNCHANGED <<earlier, held, beat>>

(* Mutant: a claim takes a token that a copy may still carry. *)
TakeJobReusedToken(w, j) ==
    \E t \in Token :
        /\ SetRow(j, ClaimedJob(row[j], t))
        /\ held' = [held EXCEPT ![w] = [job |-> j, token |-> t]]
        /\ beat' = [beat EXCEPT ![w] = [job |-> j, token |-> t]]
        /\ Touch(j) /\ UNCHANGED rank

(* Both claims write the row and hand out the copy, which arms the heartbeat. *)
TakeJob(w, j) ==
    \E t \in Token \ LiveTokens :
        /\ SetRow(j, ClaimedJob(row[j], t))
        /\ held' = [held EXCEPT ![w] = [job |-> j, token |-> t]]
        /\ beat' = [beat EXCEPT ![w] = [job |-> j, token |-> t]]
        /\ Touch(j) /\ UNCHANGED rank

ClaimById(w, j) ==
    /\ held[w] = NoClaim /\ beat[w] = NoClaim
    /\ Claimable(row[j])
    /\ TakeJob(w, j)

ClaimNext(w) ==
    /\ held[w] = NoClaim /\ beat[w] = NoClaim
    /\ \E j \in Job :
        /\ Claimable(row[j])
        /\ \A k \in Job : Claimable(row[k]) => rank[j] <= rank[k]
        /\ TakeJob(w, j)

Owns(c) == c # NoClaim /\ HasActiveClaim(row[c.job], c.token)

(* heartbeat from the worker itself (refresh_summary_job_ownership).  When it *)
(* is refused the worker abandons the job without touching the row.          *)
Heartbeat(w) ==
    /\ held[w] # NoClaim
    /\ IF Owns(held[w])
       THEN /\ SetRow(held[w].job, HeartbeatJob(row[held[w].job]))
            /\ Touch(held[w].job) /\ UNCHANGED held
       ELSE held' = [held EXCEPT ![w] = NoClaim] /\ UNCHANGED <<row, earlier>>
    /\ UNCHANGED <<rank, beat>>

(* Mutant: the token is compared but not the lease. *)
BackgroundHeartbeatNoLease(w) ==
    /\ beat[w] # NoClaim
    /\ LET r == row[beat[w].job]
       IN  IF r.status = "running" /\ r.claim_token = beat[w].token
           THEN SetRow(beat[w].job, HeartbeatJob(r)) /\ Touch(beat[w].job) /\ UNCHANGED beat
           ELSE beat' = [beat EXCEPT ![w] = NoClaim] /\ UNCHANGED <<row, earlier>>
    /\ UNCHANGED <<rank, held>>

(* heartbeat from the background task, which stops once it is refused. *)
BackgroundHeartbeat(w) ==
    /\ beat[w] # NoClaim
    /\ IF Owns(beat[w])
       THEN /\ SetRow(beat[w].job, HeartbeatJob(row[beat[w].job]))
            /\ Touch(beat[w].job) /\ UNCHANGED beat
       ELSE beat' = [beat EXCEPT ![w] = NoClaim] /\ UNCHANGED <<row, earlier>>
    /\ UNCHANGED <<rank, held>>

(* The three ways a worker ends its claim; refused ones change nothing but   *)
(* the worker gives its copy up all the same.                                *)
EndClaim(w, r) ==
    /\ held[w] # NoClaim
    /\ IF Owns(held[w]) THEN SetRow(held[w].job, r) ELSE UNCHANGED row
    /\ held' = [held EXCEPT ![w] = NoClaim]
    /\ UNCHANGED <<order, beat>>

MarkDone(w) == held[w] # NoClaim /\ EndClaim(w, DoneJob(row[held[w].job]))

MarkFailed(w) == held[w] # NoClaim /\ EndClaim(w, FailedJob(row[held[w].job]))

Retry(w) ==
    /\ held[w] # NoClaim
    /\ \E max_retries \in RetryLimits :
        EndClaim(w, RetriedJob(row[held[w].job], max_retries))

(* The guard of the heartbeat task is stopped or dropped. *)
StopHeartbeat(w) ==
    /\ beat[w] # NoClaim
    /\ beat' = [beat EXCEPT ![w] = NoClaim]
    /\ UNCHANGED <<row, order, held>>

(* Workers are gone: one whose future is dropped, or all of a dead process. *)
Vanish(gone) ==
    /\ \E w \in gone : held[w] # NoClaim \/ beat[w] # NoClaim
    /\ held' = [w \in Worker |-> IF w \in gone THEN NoClaim ELSE held[w]]
    /\ beat' = [w \in Worker |-> IF w \in gone THEN NoClaim ELSE beat[w]]
    /\ UNCHANGED <<row, order>>

(***************************************************************************)
(* Operations outside the trait.                                           *)
(***************************************************************************)

(* RECOVERY_READY_SUMMARY_JOBS_SQL: of the running rows whose lease is over, *)
(* the RecoverLimit with the earliest updated_at go back to the queue.  (The *)
(* in-memory queue of the tests takes them in the order of insertion.)       *)
Stale == {j \in Job : StaleRunning(row[j])}

(* Mutant: the order of insertion, in which one job can hold back another. *)
RecoveredByRank ==
    {j \in Stale : Cardinality({k \in Stale : rank[k] < rank[j]}) < RecoverLimit}

Recovered ==
    {j \in Stale : Cardinality({k \in Stale : <<k, j>> \in earlier}) < RecoverLimit}

RecoverStaleRunning ==
    /\ Stale # {}
    /\ row' = [j \in Job |-> IF j \in Recovered THEN RequeuedJob(row[j]) ELSE row[j]]
    /\ UNCHANGED <<order, held, beat>>

(* Mutant: a running job can be canceled too. *)
CancelRunning(j) ==
    /\ row[j].status \in {"queued", "running"}
    /\ SetRow(j, CanceledJob(row[j]))
    /\ UNCHANGED <<order, held, beat>>

(* ADMIN_CANCEL_JOB_SQL / cancel: only a queued job can be canceled. *)
Cancel(j) ==
    /\ row[j].status = "queued"
    /\ SetRow(j, CanceledJob(row[j]))
    /\ UNCHANGED <<order, held, beat>>

(* ADMIN_RETRY_JOB_SQL, the job row's half. *)
AdminRetry(j) ==
    /\ row[j].status \in {"failed", "canceled"}
    /\ \E delay \in AdminDelays : SetRow(j, AdminRetriedJob(row[j], delay))
    /\ UNCHANGED <<order, held, beat>>

Tick ==
    /\ row' = [j \in Job |-> Ticked(row[j])]
    /\ row' # row
    /\ UNCHANGED <<order, held, beat>>

JobStep(j) == Enqueue(j) \/ Cancel(j) \/ AdminRetry(j)

WorkerStep(w) ==
    \/ ClaimNext(w)
    \/ \E j \in Job : ClaimById(w, j)
    \/ Heartbeat(w) \/ BackgroundHeartbeat(w)
    \/ MarkDone(w) \/ MarkFailed(w) \/ Retry(w)
    \/ StopHeartbeat(w)

Next ==
    \/ \E j \in Job : JobStep(j)
    \/ \E w \in Worker : WorkerStep(w)
    \/ \E gone \in SUBSET Worker : Vanish(gone)
    \/ RecoverStaleRunning
    \/ Tick

Spec == Init /\ [][Next]_vars

(* Time passes and the durable poll (every 30 seconds) keeps running. *)
Fairness == WF_vars(Tick) /\ WF_vars(RecoverStaleRunning)

FairSpec == Spec /\ Fairness

(***************************************************************************)
(* Properties.                                                             *)
(***************************************************************************)

(* At most one worker may act on a job: two copies of the same row never     *)
(* both pass the check of heartbeat, mark_done, mark_failed and retry, in    *)
(* whatever order leases ran out and the row was requeued and claimed again. *)
ExclusiveClaim ==
    \A v, w \in Worker :
        Owns(held[v]) /\ Owns(held[w]) /\ held[v].job = held[w].job => v = w

(* Why claims are exclusive: the copies workers hold carry different tokens, *)
(* and a row carries a token exactly while it is running.                    *)
HolderTokensDiffer ==
    \A v, w \in Worker :
        v # w /\ held[v] # NoClaim /\ held[w] # NoClaim
          => held[v].token # held[w].token

TokenMarksRunning ==
    \A j \in Job : row[j].status = "running" <=> row[j].claim_token # NoToken

QueueInv == TypeOK /\ HolderTokensDiffer /\ TokenMarksRunning

(* A copy that lost its claim never gets it back: neither a late heartbeat   *)
(* nor a recovery pass nor an administrator's retry revives it.              *)
NoRevival ==
    [][\A w \in Worker :
        /\ held[w] # NoClaim /\ held'[w] = held[w]
        /\ ~Owns(held[w])
        => ~Owns(held[w])']_vars

(* A worker that keeps its copy loses the claim only because the lease ran   *)
(* out: no other task, poll, cancel or retry can take a leased job from it.  *)
LeasedClaimStable ==
    [][\A w \in Worker :
        /\ held'[w] = held[w] /\ Owns(held[w])
        /\ ~Owns(held[w])'
        => /\ row[held[w].job].leased_until = 1
           /\ row'[held[w].job] = Ticked(row[held[w].job])]_vars

(* A job that its worker failed to finish runs again only after the backoff  *)
(* of retry_delay_seconds: a step that makes it claimable or running again   *)
(* never shortens the wait, unless an administrator asked for the retry.     *)
BackoffKept ==
    [][\A j \in Job :
        row[j].status = "queued" /\ row[j].next_run_at > 0
          => row'[j].status \in {"queued", "canceled"} /\
             (row'[j].status = "queued" => row'[j] \in {row[j], Ticked(row[j])})]_vars

(* A running job nobody works on any more is not stuck: once its worker and  *)
(* its heartbeat task are gone, the lease runs out and the poll requeues it, *)
(* although a pass takes RecoverLimit rows and other jobs, claimed and       *)
(* abandoned again and again, compete with it for them.                      *)
Abandoned(j) ==
    /\ row[j].status = "running"
    /\ \A w \in Worker :
        /\ held[w] # NoClaim => held[w].token # row[j].claim_token
        /\ beat[w] # NoClaim => beat[w].token # row[j].claim_token

AbandonedJobRequeued ==
    \A j \in Job : Abandoned(j) ~> row[j].status # "running"
=============================================================================
