-------------------------- MODULE JobRecordProofs --------------------------
(***************************************************************************)
(* What the operations on a jobs row write, for every row: the lemmas that *)
(* the proofs about the queue and about the pipeline share.                *)
(***************************************************************************)
EXTENDS JobRecord, TLAPS

(***************************************************************************)
(* What the operations write is a row again.                               *)
(***************************************************************************)

LEMMA RetryDelayNat == ASSUME NEW n \in Nat PROVE RetryDelay(n) \in Nat
<1> DEFINE steps == IF n = 0 THEN 0 ELSE Smaller(n - 1, 5)
<1>1. steps \in 0..5
  BY DEF Smaller
<1>2. Multiplier[steps] \in Nat
  BY <1>1 DEF Multiplier
<1>3. RetryBase * Multiplier[steps] \in Nat
  BY <1>2, DurationAssumption
<1>4. QED
  BY <1>3, DurationAssumption DEF RetryDelay, Smaller

LEMMA RowWrites ==
  ASSUME NEW r \in JobRow
  PROVE  /\ \A t \in Token : ClaimedJob(r, t) \in JobRow
         /\ HeartbeatJob(r) \in JobRow
         /\ \A s \in JobStatus : Released(r, s) \in JobRow
         /\ \A m \in Nat : RetriedJob(r, m) \in JobRow
         /\ \A d \in Nat : AdminRetriedJob(r, d) \in JobRow
         /\ Ticked(r) \in JobRow
<1>1. \A t \in Token : ClaimedJob(r, t) \in JobRow
  BY DurationAssumption DEF ClaimedJob, JobRow, JobStatus
<1>2. HeartbeatJob(r) \in JobRow
  BY DurationAssumption DEF HeartbeatJob, JobRow
<1>3. \A s \in JobStatus : Released(r, s) \in JobRow
  BY DEF Released, JobRow
<1>4. ASSUME NEW m \in Nat PROVE RetriedJob(r, m) \in JobRow
  <2> DEFINE n == r.retry_count + 1
  <2>1. n \in Nat
    BY DEF JobRow
  <2>2. RetryDelay(n) \in Nat
    BY <2>1, RetryDelayNat
  <2>3. Released(r, "failed") \in JobRow /\ Released(r, "queued") \in JobRow
    BY <1>3 DEF JobStatus
  <2> HIDE DEF n
  <2>4. [Released(r, "failed") EXCEPT !.retry_count = n] \in JobRow
    BY <2>1, <2>3 DEF JobRow
  <2>5. [Released(r, "queued") EXCEPT !.retry_count = n,
                                      !.next_run_at = RetryDelay(n)] \in JobRow
    BY <2>1, <2>2, <2>3 DEF JobRow
  <2>6. QED
    BY <2>4, <2>5 DEF RetriedJob, n
<1>5. ASSUME NEW d \in Nat PROVE AdminRetriedJob(r, d) \in JobRow
  <2>1. Released(r, "queued") \in JobRow
    BY <1>3 DEF JobStatus
  <2>2. QED
    BY <2>1 DEF AdminRetriedJob, JobRow
<1>6. Ticked(r) \in JobRow
  <2> DEFINE lease == IF r.leased_until = 0 THEN 0 ELSE r.leased_until - 1
             wait  == IF r.next_run_at = 0 THEN 0 ELSE r.next_run_at - 1
  <2>1. lease \in Nat /\ wait \in Nat
    BY DEF JobRow
  <2> HIDE DEF lease, wait
  <2>2. [r EXCEPT !.leased_until = lease, !.next_run_at = wait] \in JobRow
    BY <2>1 DEF JobRow
  <2>3. QED
    BY <2>2 DEF Ticked, lease, wait
<1>7. QED
  BY <1>1, <1>2, <1>3, <1>4, <1>5, <1>6

(* The columns that decide who owns a row, after each write. *)
LEMMA RowOwners ==
  ASSUME NEW r \in JobRow
  PROVE  /\ \A t \in Token :
              /\ ClaimedJob(r, t).status = "running"
              /\ ClaimedJob(r, t).claim_token = t
         /\ HeartbeatJob(r).status = r.status
         /\ HeartbeatJob(r).claim_token = r.claim_token
         /\ HeartbeatJob(r).leased_until # 0
         /\ \A s \in JobStatus : /\ Released(r, s).status = s
                                 /\ Released(r, s).claim_token = NoToken
         /\ \A m \in Nat : /\ RetriedJob(r, m).status # "running"
                           /\ RetriedJob(r, m).claim_token = NoToken
         /\ \A d \in Nat : /\ AdminRetriedJob(r, d).status = "queued"
                           /\ AdminRetriedJob(r, d).claim_token = NoToken
         /\ Ticked(r).status = r.status
         /\ Ticked(r).claim_token = r.claim_token
         /\ r.leased_until = 0 => Ticked(r).leased_until = 0
         /\ r.leased_until \notin {0, 1} => Ticked(r).leased_until # 0
<1>1. \A t \in Token : /\ ClaimedJob(r, t).status = "running"
                       /\ ClaimedJob(r, t).claim_token = t
  BY DEF ClaimedJob, JobRow
<1>2. /\ HeartbeatJob(r).status = r.status
      /\ HeartbeatJob(r).claim_token = r.claim_token
      /\ HeartbeatJob(r).leased_until # 0
  BY DurationAssumption DEF HeartbeatJob, JobRow
<1>3. \A s \in JobStatus : /\ Released(r, s).status = s
                           /\ Released(r, s).claim_token = NoToken
  BY DEF Released, JobRow
<1>4. \A m \in Nat : /\ RetriedJob(r, m).status # "running"
                     /\ RetriedJob(r, m).claim_token = NoToken
  BY DEF RetriedJob, Released, JobRow
<1>5. \A d \in Nat : /\ AdminRetriedJob(r, d).status = "queued"
                     /\ AdminRetriedJob(r, d).claim_token = NoToken
  BY DEF AdminRetriedJob, Released, JobRow
<1>6. /\ Ticked(r).status = r.status
      /\ Ticked(r).claim_token = r.claim_token
      /\ r.leased_until = 0 => Ticked(r).leased_until = 0
      /\ r.leased_until \notin {0, 1} => Ticked(r).leased_until # 0
  BY DEF Ticked, JobRow
<1>7. QED
  BY <1>1, <1>2, <1>3, <1>4, <1>5, <1>6
=============================================================================
