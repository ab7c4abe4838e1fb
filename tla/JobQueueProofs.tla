-------------------------- MODULE JobQueueProofs --------------------------
(***************************************************************************)
(* Proofs about JobQueue, for every number of jobs, workers and tokens and  *)
(* every lease length, backoff and retry limit.                             *)
(***************************************************************************)
EXTENDS JobQueue, JobRecordProofs, FiniteSetTheorems

(* A claim's token is new: no copy still held carries it. *)
LEMMA HeldTokenLive ==
  ASSUME NEW w \in Worker, held[w] # NoClaim
  PROVE  held[w].token \in LiveTokens
BY DEF LiveTokens

LEMMA TouchType ==
  ASSUME TypeOK, NEW j \in Job, Touch(j)
  PROVE  earlier' \subseteq Job \X Job
BY DEF TypeOK, Touch

LEMMA TakeJobType ==
  ASSUME TypeOK, NEW w \in Worker, NEW j \in Job, TakeJob(w, j)
  PROVE  TypeOK'
<1>1. PICK t \in Token \ LiveTokens :
        /\ SetRow(j, ClaimedJob(row[j], t))
        /\ held' = [held EXCEPT ![w] = [job |-> j, token |-> t]]
        /\ beat' = [beat EXCEPT ![w] = [job |-> j, token |-> t]]
        /\ Touch(j) /\ UNCHANGED rank
  BY DEF TakeJob
<1>2. ClaimedJob(row[j], t) \in JobRow
  BY <1>1, RowWrites DEF TypeOK
<1>3. row' \in [Job -> JobRow]
  BY <1>1, <1>2 DEF TypeOK, SetRow
<1>4. [job |-> j, token |-> t] \in Claim
  BY <1>1 DEF Claim
<1>5. QED
  BY <1>1, <1>3, <1>4, TouchType DEF TypeOK

LEMMA EndClaimType ==
  ASSUME TypeOK, NEW w \in Worker, NEW r \in JobRow, EndClaim(w, r)
  PROVE  TypeOK'
<1>1. row' \in [Job -> JobRow]
  BY DEF EndClaim, TypeOK, SetRow, Claim
<1>2. held' \in [Worker -> Claim \cup {NoClaim}]
  BY DEF EndClaim, TypeOK
<1>3. QED
  BY <1>1, <1>2 DEF EndClaim, TypeOK, order

LEMMA HeldJob ==
  ASSUME TypeOK, NEW w \in Worker
  PROVE  /\ held[w] # NoClaim => held[w] \in Claim /\ held[w].job \in Job
                                 /\ row[held[w].job] \in JobRow
         /\ beat[w] # NoClaim => beat[w] \in Claim /\ beat[w].job \in Job
                                 /\ row[beat[w].job] \in JobRow
BY DEF TypeOK, Claim

(***************************************************************************)
(* Type correctness.                                                       *)
(***************************************************************************)

LEMMA TypeStep == TypeOK /\ [Next]_vars => TypeOK'
<1> SUFFICES ASSUME TypeOK, [Next]_vars PROVE TypeOK'
  OBVIOUS
<1> USE DEF order
<1>1. ASSUME NEW j \in Job, Enqueue(j) PROVE TypeOK'
  <2>1. EnqueuedJob \in JobRow
    BY DEF EnqueuedJob, AbsentJob, JobRow, JobStatus
  <2>2. row' \in [Job -> JobRow]
    BY <1>1, <2>1 DEF Enqueue, SetRow, TypeOK
  <2>3. rank' \in [Job -> Nat]
    <3> DEFINE present == {k \in Job : row[k].status # "absent"}
    <3>1. IsFiniteSet(present)
      BY QueueAssumption, FS_Subset
    <3>2. Cardinality(present) \in Nat
      BY <3>1, FS_CardinalityType
    <3>3. QED
      BY <1>1, <3>2 DEF Enqueue, TypeOK
  <2>4. QED
    BY <1>1, <2>2, <2>3 DEF Enqueue, TypeOK
<1>2. ASSUME NEW j \in Job, Cancel(j) PROVE TypeOK'
  <2>1. CanceledJob(row[j]) \in JobRow
    BY RowWrites DEF TypeOK, CanceledJob, JobStatus
  <2>2. QED
    BY <1>2, <2>1 DEF Cancel, SetRow, TypeOK
<1>3. ASSUME NEW j \in Job, AdminRetry(j) PROVE TypeOK'
  <2>1. PICK delay \in AdminDelays : SetRow(j, AdminRetriedJob(row[j], delay))
    BY <1>3 DEF AdminRetry
  <2>2. AdminRetriedJob(row[j], delay) \in JobRow
    BY RowWrites, QueueAssumption DEF TypeOK
  <2>3. QED
    BY <1>3, <2>1, <2>2 DEF AdminRetry, SetRow, TypeOK
<1>4. ASSUME NEW w \in Worker, ClaimNext(w) PROVE TypeOK'
  BY <1>4, TakeJobType DEF ClaimNext
<1>5. ASSUME NEW w \in Worker, NEW j \in Job, ClaimById(w, j) PROVE TypeOK'
  BY <1>5, TakeJobType DEF ClaimById
<1>6. ASSUME NEW w \in Worker, Heartbeat(w) PROVE TypeOK'
  <2>1. HeartbeatJob(row[held[w].job]) \in JobRow
    BY <1>6, HeldJob, RowWrites DEF Heartbeat
  <2>2. row' \in [Job -> JobRow]
    BY <1>6, <2>1 DEF Heartbeat, SetRow, TypeOK
  <2>3. held' \in [Worker -> Claim \cup {NoClaim}]
    BY <1>6 DEF Heartbeat, TypeOK
  <2>4. QED
    BY <1>6, <2>2, <2>3, HeldJob, TouchType DEF Heartbeat, TypeOK
<1>7. ASSUME NEW w \in Worker, BackgroundHeartbeat(w) PROVE TypeOK'
  <2>1. HeartbeatJob(row[beat[w].job]) \in JobRow
    BY <1>7, HeldJob, RowWrites DEF BackgroundHeartbeat
  <2>2. row' \in [Job -> JobRow]
    BY <1>7, <2>1 DEF BackgroundHeartbeat, SetRow, TypeOK
  <2>3. beat' \in [Worker -> Claim \cup {NoClaim}]
    BY <1>7 DEF BackgroundHeartbeat, TypeOK
  <2>4. QED
    BY <1>7, <2>2, <2>3, HeldJob, TouchType DEF BackgroundHeartbeat, TypeOK
<1>8. ASSUME NEW w \in Worker, MarkDone(w) PROVE TypeOK'
  <2>1. DoneJob(row[held[w].job]) \in JobRow
    BY <1>8, HeldJob, RowWrites DEF MarkDone, DoneJob, JobStatus
  <2>2. QED
    BY <1>8, <2>1, EndClaimType DEF MarkDone
<1>9. ASSUME NEW w \in Worker, MarkFailed(w) PROVE TypeOK'
  <2>1. FailedJob(row[held[w].job]) \in JobRow
    BY <1>9, HeldJob, RowWrites DEF MarkFailed, FailedJob, JobStatus
  <2>2. QED
    BY <1>9, <2>1, EndClaimType DEF MarkFailed
<1>10. ASSUME NEW w \in Worker, Retry(w) PROVE TypeOK'
  <2>1. PICK m \in RetryLimits : EndClaim(w, RetriedJob(row[held[w].job], m))
    BY <1>10 DEF Retry
  <2>2. RetriedJob(row[held[w].job], m) \in JobRow
    BY <1>10, HeldJob, RowWrites, QueueAssumption DEF Retry
  <2>3. QED
    BY <2>1, <2>2, EndClaimType
<1>11. ASSUME NEW w \in Worker, StopHeartbeat(w) PROVE TypeOK'
  BY <1>11 DEF StopHeartbeat, TypeOK
<1>11b. ASSUME NEW gone \in SUBSET Worker, Vanish(gone) PROVE TypeOK'
  BY <1>11b DEF Vanish, TypeOK
<1>12. CASE RecoverStaleRunning
  <2>1. \A j \in Job : RequeuedJob(row[j]) \in JobRow
    BY RowWrites DEF TypeOK, RequeuedJob, JobStatus
  <2>2. QED
    BY <1>12, <2>1 DEF RecoverStaleRunning, TypeOK
<1>13. CASE Tick
  <2>1. \A j \in Job : Ticked(row[j]) \in JobRow
    BY RowWrites DEF TypeOK
  <2>2. QED
    BY <1>13, <2>1 DEF Tick, TypeOK
<1>14. CASE UNCHANGED vars
  BY <1>14 DEF vars, TypeOK
<1>15. QED
  BY <1>1, <1>2, <1>3, <1>4, <1>5, <1>6, <1>7, <1>8, <1>9, <1>10, <1>11,
     <1>12, <1>13, <1>14, <1>11b DEF Next, JobStep, WorkerStep

(* The jobs table and the copies only ever hold well-formed rows and claims, *)
(* whatever the workers, the poll and the administrators do.                 *)
THEOREM TypeCorrect == Spec => []TypeOK
<1>1. Init => TypeOK
  <2>1. AbsentJob \in JobRow
    BY DEF AbsentJob, JobRow, JobStatus
  <2>2. QED
    BY <2>1 DEF Init, TypeOK
<1>2. QED
  BY <1>1, TypeStep, PTL DEF Spec

(***************************************************************************)
(* Exclusive claims.                                                       *)
(***************************************************************************)

(* What a step may do to one row, with the copy that pays for it.  Every     *)
(* invariant and action property below is a reading of this case split.      *)
Taken(w, j, t) ==
    /\ held[w] = NoClaim
    /\ Claimable(row[j])
    /\ t \in Token \ LiveTokens
    /\ row' = [row EXCEPT ![j] = ClaimedJob(row[j], t)]
    /\ held' = [held EXCEPT ![w] = [job |-> j, token |-> t]]

Unowned(j, r) ==
    /\ row[j].status # "running"
    /\ row' = [row EXCEPT ![j] = r]
    /\ r.status # "running" /\ r.claim_token = NoToken
    /\ row[j].status = "queued" => r.status = "canceled"
    /\ held' = held

Ended(w, r) ==
    /\ held[w] # NoClaim
    /\ \/ Owns(held[w]) /\ row' = [row EXCEPT ![held[w].job] = r]
       \/ row' = row
    /\ r.status # "running" /\ r.claim_token = NoToken
    /\ held' = [held EXCEPT ![w] = NoClaim]

Beaten(c) ==
    /\ Owns(c) /\ c \in Claim
    /\ row' = [row EXCEPT ![c.job] = HeartbeatJob(row[c.job])]
    /\ held' = held

Forgotten ==
    /\ row' = row
    /\ \A w \in Worker : held'[w] \in {held[w], NoClaim}

Polled ==
    /\ \A j \in Job : row'[j] = row[j]
                       \/ /\ StaleRunning(row[j])
                          /\ row'[j] = RequeuedJob(row[j])
    /\ held' = held

Elapsed == row' = [j \in Job |-> Ticked(row[j])] /\ held' = held

LEMMA StepKinds ==
  ASSUME TypeOK, [Next]_vars
  PROVE  \/ \E w \in Worker, j \in Job, t \in Token : Taken(w, j, t)
         \/ \E j \in Job, r \in JobRow : Unowned(j, r)
         \/ \E w \in Worker, r \in JobRow : Ended(w, r)
         \/ \E c \in Claim : Beaten(c)
         \/ Forgotten
         \/ Polled
         \/ Elapsed
<1> DEFINE Goal == \/ \E w \in Worker, j \in Job, t \in Token : Taken(w, j, t)
                   \/ \E j \in Job, r \in JobRow : Unowned(j, r)
                   \/ \E w \in Worker, r \in JobRow : Ended(w, r)
                   \/ \E c \in Claim : Beaten(c)
                   \/ Forgotten
                   \/ Polled
                   \/ Elapsed
<1>1. ASSUME NEW j \in Job, Enqueue(j) PROVE Goal
  <2>1. EnqueuedJob \in JobRow /\ EnqueuedJob.status # "running"
          /\ EnqueuedJob.claim_token = NoToken
    BY DEF EnqueuedJob, AbsentJob, JobRow, JobStatus
  <2>2. Unowned(j, EnqueuedJob)
    BY <1>1, <2>1 DEF Enqueue, SetRow, Unowned
  <2>3. QED
    BY <2>1, <2>2
<1>2. ASSUME NEW j \in Job, Cancel(j) PROVE Goal
  <2>1. /\ CanceledJob(row[j]) \in JobRow
        /\ CanceledJob(row[j]).status = "canceled"
        /\ CanceledJob(row[j]).claim_token = NoToken
    BY RowWrites, RowOwners DEF TypeOK, CanceledJob, JobStatus
  <2>2. Unowned(j, CanceledJob(row[j]))
    BY <1>2, <2>1 DEF Cancel, SetRow, Unowned
  <2>3. QED
    BY <2>1, <2>2
<1>3. ASSUME NEW j \in Job, AdminRetry(j) PROVE Goal
  <2>1. PICK d \in AdminDelays : SetRow(j, AdminRetriedJob(row[j], d))
    BY <1>3 DEF AdminRetry
  <2>2. /\ AdminRetriedJob(row[j], d) \in JobRow
        /\ AdminRetriedJob(row[j], d).status # "running"
        /\ AdminRetriedJob(row[j], d).claim_token = NoToken
    <3>1. row[j] \in JobRow /\ d \in Nat
      BY QueueAssumption DEF TypeOK
    <3>2. AdminRetriedJob(row[j], d) \in JobRow
      BY <3>1, RowWrites
    <3>3. /\ AdminRetriedJob(row[j], d).status = "queued"
          /\ AdminRetriedJob(row[j], d).claim_token = NoToken
      BY <3>1, RowOwners
    <3>4. QED
      BY <3>2, <3>3
  <2>3. Unowned(j, AdminRetriedJob(row[j], d))
    BY <1>3, <2>1, <2>2 DEF AdminRetry, SetRow, Unowned
  <2>4. QED
    BY <2>2, <2>3
<1>4. ASSUME NEW w \in Worker, NEW j \in Job, held[w] = NoClaim,
             Claimable(row[j]), TakeJob(w, j)
      PROVE  Goal
  BY <1>4 DEF TakeJob, SetRow, Taken
<1>5. ASSUME NEW w \in Worker, Heartbeat(w) PROVE Goal
  <2>1. held[w] \in Claim
    BY <1>5, HeldJob DEF Heartbeat
  <2>2. CASE Owns(held[w])
    BY <1>5, <2>1, <2>2 DEF Heartbeat, SetRow, Beaten
  <2>3. CASE ~Owns(held[w])
    <3>1. Forgotten
      BY <1>5, <2>3 DEF Heartbeat, Forgotten, TypeOK
    <3>2. QED
      BY <3>1
  <2>4. QED
    BY <2>2, <2>3
<1>6. ASSUME NEW w \in Worker, BackgroundHeartbeat(w) PROVE Goal
  <2>1. beat[w] \in Claim
    BY <1>6, HeldJob DEF BackgroundHeartbeat
  <2>2. CASE Owns(beat[w])
    BY <1>6, <2>1, <2>2 DEF BackgroundHeartbeat, SetRow, Beaten
  <2>3. CASE ~Owns(beat[w])
    <3>1. Forgotten
      BY <1>6, <2>3 DEF BackgroundHeartbeat, Forgotten, TypeOK
    <3>2. QED
      BY <3>1
  <2>4. QED
    BY <2>2, <2>3
<1>7. ASSUME NEW w \in Worker, NEW r \in JobRow, EndClaim(w, r),
             r.status # "running", r.claim_token = NoToken
      PROVE  Goal
  <2>1. Ended(w, r)
    BY <1>7 DEF EndClaim, SetRow, Ended
  <2>2. QED
    BY <2>1
<1>8. ASSUME NEW w \in Worker, MarkDone(w) PROVE Goal
  <2>1. /\ DoneJob(row[held[w].job]) \in JobRow
        /\ DoneJob(row[held[w].job]).status # "running"
        /\ DoneJob(row[held[w].job]).claim_token = NoToken
    BY <1>8, HeldJob, RowWrites, RowOwners DEF MarkDone, DoneJob, JobStatus
  <2>2. QED
    BY <1>7, <1>8, <2>1 DEF MarkDone
<1>9. ASSUME NEW w \in Worker, MarkFailed(w) PROVE Goal
  <2>1. /\ FailedJob(row[held[w].job]) \in JobRow
        /\ FailedJob(row[held[w].job]).status # "running"
        /\ FailedJob(row[held[w].job]).claim_token = NoToken
    BY <1>9, HeldJob, RowWrites, RowOwners DEF MarkFailed, FailedJob, JobStatus
  <2>2. QED
    BY <1>7, <1>9, <2>1 DEF MarkFailed
<1>10. ASSUME NEW w \in Worker, Retry(w) PROVE Goal
  <2>1. PICK m \in RetryLimits : EndClaim(w, RetriedJob(row[held[w].job], m))
    BY <1>10 DEF Retry
  <2>2. /\ RetriedJob(row[held[w].job], m) \in JobRow
        /\ RetriedJob(row[held[w].job], m).status # "running"
        /\ RetriedJob(row[held[w].job], m).claim_token = NoToken
    BY <1>10, HeldJob, RowWrites, RowOwners, QueueAssumption DEF Retry
  <2>3. QED
    BY <1>7, <2>1, <2>2
<1>11. ASSUME NEW w \in Worker, StopHeartbeat(w) PROVE Goal
  <2>1. Forgotten
    BY <1>11 DEF StopHeartbeat, Forgotten
  <2>2. QED
    BY <2>1
<1>11b. ASSUME NEW gone \in SUBSET Worker, Vanish(gone) PROVE Goal
  <2>1. Forgotten
    BY <1>11b DEF Vanish, Forgotten
  <2>2. QED
    BY <2>1
<1>12. CASE RecoverStaleRunning
  <2>1. Polled
    BY <1>12 DEF RecoverStaleRunning, Polled, Recovered, Stale
  <2>2. QED
    BY <2>1
<1>13. CASE Tick
  BY <1>13 DEF Tick, Elapsed
<1>14. CASE UNCHANGED vars
  <2>1. Forgotten
    BY <1>14 DEF vars, Forgotten
  <2>2. QED
    BY <2>1
<1>15. QED
  BY <1>1, <1>2, <1>3, <1>4, <1>5, <1>6, <1>8, <1>9, <1>10, <1>11, <1>12,
     <1>13, <1>14, <1>11b DEF Next, JobStep, WorkerStep, ClaimNext, ClaimById

LEMMA HolderTokensStep ==
  ASSUME QueueInv, [Next]_vars PROVE HolderTokensDiffer'
<1> USE DEF QueueInv
<1>1. ASSUME NEW u \in Worker, NEW j \in Job, NEW t \in Token, Taken(u, j, t)
      PROVE  HolderTokensDiffer'
  <2>1. \A v \in Worker : held[v] # NoClaim => held[v].token # t
    BY <1>1, HeldTokenLive DEF Taken
  <2>2. QED
    BY <1>1, <2>1 DEF Taken, TypeOK, HolderTokensDiffer
<1>2. CASE held' = held
  BY <1>2 DEF HolderTokensDiffer
<1>3. ASSUME \A w \in Worker : held'[w] \in {held[w], NoClaim}
      PROVE  HolderTokensDiffer'
  BY <1>3 DEF HolderTokensDiffer
<1>4. QED
  BY <1>1, <1>2, <1>3, StepKinds
     DEF Unowned, Ended, Beaten, Forgotten, Polled, Elapsed, TypeOK

LEMMA TokenMarksStep ==
  ASSUME QueueInv, [Next]_vars PROVE TokenMarksRunning'
<1> USE DEF QueueInv
<1>0. \A j \in Job : row[j] \in JobRow
  BY DEF TypeOK
<1>1. ASSUME NEW w \in Worker, NEW j \in Job, NEW t \in Token, Taken(w, j, t)
      PROVE  TokenMarksRunning'
  <2>1. /\ ClaimedJob(row[j], t).status = "running"
        /\ ClaimedJob(row[j], t).claim_token = t
    BY <1>0, RowOwners
  <2>2. QED
    BY <1>1, <2>1, TokenAssumption DEF Taken, TypeOK, TokenMarksRunning
<1>2. ASSUME NEW j \in Job, NEW r \in JobRow, Unowned(j, r)
      PROVE  TokenMarksRunning'
  BY <1>2 DEF Unowned, TypeOK, TokenMarksRunning
<1>3. ASSUME NEW w \in Worker, NEW r \in JobRow, Ended(w, r)
      PROVE  TokenMarksRunning'
  BY <1>3 DEF Ended, TypeOK, TokenMarksRunning
<1>4. ASSUME NEW c \in Claim, Beaten(c) PROVE TokenMarksRunning'
  <2>1. c.job \in Job
    BY <1>4 DEF Claim
  <2>2. /\ HeartbeatJob(row[c.job]).status = row[c.job].status
        /\ HeartbeatJob(row[c.job]).claim_token = row[c.job].claim_token
    BY <1>0, <2>1, RowOwners
  <2>3. QED
    BY <1>4, <2>1, <2>2 DEF Beaten, TypeOK, TokenMarksRunning
<1>5. CASE Forgotten
  BY <1>5 DEF Forgotten, TokenMarksRunning
<1>6. CASE Polled
  <2>1. \A j \in Job : /\ RequeuedJob(row[j]).status # "running"
                       /\ RequeuedJob(row[j]).claim_token = NoToken
    BY <1>0, RowOwners DEF RequeuedJob, JobStatus
  <2>2. QED
    BY <1>6, <2>1 DEF Polled, TokenMarksRunning
<1>7. CASE Elapsed
  <2>1. \A j \in Job : /\ Ticked(row[j]).status = row[j].status
                       /\ Ticked(row[j]).claim_token = row[j].claim_token
    BY <1>0, RowOwners
  <2>2. QED
    BY <1>7, <2>1 DEF Elapsed, TokenMarksRunning
<1>8. QED
  BY <1>1, <1>2, <1>3, <1>4, <1>5, <1>6, <1>7, StepKinds

(* The inductive invariant behind the queue's ownership rules. *)
THEOREM QueueInvariant == Spec => []QueueInv
<1>1. Init => QueueInv
  <2>1. AbsentJob \in JobRow
    BY DEF AbsentJob, JobRow, JobStatus
  <2>2. QED
    BY <2>1 DEF Init, TypeOK, QueueInv, HolderTokensDiffer, TokenMarksRunning, AbsentJob
<1>2. QueueInv /\ [Next]_vars => QueueInv'
  BY TypeStep, HolderTokensStep, TokenMarksStep DEF QueueInv
<1>3. QED
  BY <1>1, <1>2, PTL DEF Spec

(* No two workers ever both pass the ownership check of a job, for any       *)
(* number of workers, jobs and lost leases.                                  *)
THEOREM ClaimsExclusive == Spec => []ExclusiveClaim
<1>1. QueueInv => ExclusiveClaim
  BY DEF QueueInv, HolderTokensDiffer, ExclusiveClaim, Owns, HasActiveClaim
<1>2. QED
  BY <1>1, QueueInvariant, PTL

(* A copy that does not own its job before a step does not own it after. *)
LEMMA LostClaimStep ==
  ASSUME QueueInv, [Next]_vars, NEW w \in Worker, held[w] # NoClaim,
         ~HasActiveClaim(row[held[w].job], held[w].token)
  PROVE  ~HasActiveClaim(row'[held[w].job], held[w].token)
<1> USE DEF QueueInv
<1> DEFINE k == held[w].job
<1>1. k \in Job /\ held[w].token \in Token /\ row[k] \in JobRow
  <2>1. held[w] \in Claim /\ k \in Job /\ row[k] \in JobRow
    BY HeldJob
  <2>2. QED
    BY <2>1 DEF Claim
<1>2. ~HasActiveClaim(row[k], held[w].token)
  OBVIOUS
<1> SUFFICES ~HasActiveClaim(row'[k], held[w].token)
  OBVIOUS
<1> HIDE DEF k
<1>3. CASE row'[k] = row[k]
  BY <1>2, <1>3
<1>4. CASE row'[k].claim_token = NoToken
  BY <1>1, <1>4, TokenAssumption DEF HasActiveClaim
<1>5. ASSUME NEW u \in Worker, NEW j \in Job, NEW t \in Token, Taken(u, j, t)
      PROVE  ~HasActiveClaim(row'[k], held[w].token)
  <2>1. held[w].token # t
    BY <1>5, HeldTokenLive DEF Taken
  <2>2. row[j] \in JobRow
    BY DEF TypeOK
  <2>3. ClaimedJob(row[j], t).claim_token = t
    BY <2>2, RowOwners
  <2>4. row'[k] = row[k] \/ row'[k] = ClaimedJob(row[j], t)
    BY <1>1, <1>5 DEF Taken, TypeOK
  <2>5. QED
    BY <1>2, <2>1, <2>3, <2>4 DEF HasActiveClaim
<1>6. ASSUME NEW c \in Claim, Beaten(c)
      PROVE  ~HasActiveClaim(row'[k], held[w].token)
  <2>1. CASE c.job # k
    BY <1>1, <1>2, <1>6, <2>1 DEF Beaten, TypeOK
  <2>2. CASE c.job = k
    <3>1. row[k].status = "running" /\ row[k].leased_until # 0
            /\ row[k].claim_token = c.token
      BY <1>6, <2>2 DEF Beaten, Owns, HasActiveClaim, LeaseExpired
    <3>2. row[k].claim_token # held[w].token
      BY <1>2, <3>1 DEF HasActiveClaim, LeaseExpired
    <3>3. row'[k] = HeartbeatJob(row[k])
      BY <1>1, <1>6, <2>2 DEF Beaten, TypeOK
    <3>4. HeartbeatJob(row[k]).claim_token = row[k].claim_token
      BY <1>1, RowOwners
    <3>5. QED
      BY <3>2, <3>3, <3>4 DEF HasActiveClaim
  <2>3. QED
    BY <2>1, <2>2
<1>7. CASE Elapsed
  <2>1. row'[k] = Ticked(row[k])
    BY <1>1, <1>7 DEF Elapsed
  <2>2. /\ Ticked(row[k]).status = row[k].status
        /\ Ticked(row[k]).claim_token = row[k].claim_token
        /\ row[k].leased_until = 0 => Ticked(row[k]).leased_until = 0
    BY <1>1, RowOwners
  <2>3. QED
    BY <1>2, <2>1, <2>2 DEF HasActiveClaim, LeaseExpired
<1>8. CASE Polled
  <2>1. RequeuedJob(row[k]).claim_token = NoToken
    BY <1>1, RowOwners DEF RequeuedJob, JobStatus
  <2>2. QED
    BY <1>1, <1>3, <1>4, <1>8, <2>1 DEF Polled
<1>9. ASSUME NEW j \in Job, NEW r \in JobRow, Unowned(j, r)
      PROVE  row'[k] = row[k] \/ row'[k].claim_token = NoToken
  BY <1>1, <1>9 DEF Unowned, TypeOK
<1>10. ASSUME NEW u \in Worker, NEW r \in JobRow, Ended(u, r)
       PROVE  row'[k] = row[k] \/ row'[k].claim_token = NoToken
  <2>1. held[u].job \in Job
    BY <1>10, HeldJob DEF Ended
  <2>2. QED
    BY <1>1, <1>10, <2>1 DEF Ended, TypeOK
<1>11. CASE Forgotten
  BY <1>3, <1>11 DEF Forgotten
<1>12. QED
  BY <1>3, <1>4, <1>5, <1>6, <1>7, <1>8, <1>9, <1>10, <1>11, StepKinds

(* A copy that has lost its claim can never act on the job again. *)
THEOREM LostClaimsStayLost == Spec => NoRevival
<1> DEFINE Step == \A w \in Worker :
        /\ held[w] # NoClaim /\ held'[w] = held[w]
        /\ ~Owns(held[w])
        => ~Owns(held[w])'
<1>1. QueueInv /\ [Next]_vars => Step
  <2> SUFFICES ASSUME QueueInv, [Next]_vars, NEW w \in Worker, held[w] # NoClaim,
                      held'[w] = held[w], ~Owns(held[w])
               PROVE  ~Owns(held[w])'
    OBVIOUS
  <2>1. ~HasActiveClaim(row[held[w].job], held[w].token)
    BY DEF Owns
  <2>2. ~HasActiveClaim(row'[held[w].job], held[w].token)
    BY <2>1, LostClaimStep
  <2>3. QED
    BY <2>2 DEF Owns, HasActiveClaim, LeaseExpired
<1>2. QueueInv /\ [Next]_vars => [Step]_vars
  BY <1>1
<1>3. QED
  BY <1>2, QueueInvariant, PTL DEF Spec, NoRevival

(* A copy that owns its job, and is kept, stops owning it only by a tick.    *)
LEMMA LeasedClaimStep ==
  ASSUME QueueInv, [Next]_vars, NEW w \in Worker, held[w] # NoClaim,
         held'[w] = held[w],
         HasActiveClaim(row[held[w].job], held[w].token),
         ~HasActiveClaim(row'[held[w].job], held[w].token)
  PROVE  /\ row[held[w].job].leased_until = 1
         /\ row'[held[w].job] = Ticked(row[held[w].job])
<1> USE DEF QueueInv
<1> DEFINE k == held[w].job
           tok == held[w].token
<1>1. k \in Job /\ row[k] \in JobRow
  BY HeldJob
<1>2. HasActiveClaim(row[k], tok) /\ ~HasActiveClaim(row'[k], tok)
  OBVIOUS
<1> SUFFICES row[k].leased_until = 1 /\ row'[k] = Ticked(row[k])
  OBVIOUS
<1> HIDE DEF k
<1>3. row'[k] # row[k]
  BY <1>2
<1>4. /\ row[k].status = "running" /\ row[k].claim_token = tok
      /\ row[k].leased_until # 0
  BY <1>2 DEF HasActiveClaim, LeaseExpired
<1>5. ASSUME NEW u \in Worker, NEW j \in Job, NEW t \in Token, Taken(u, j, t)
      PROVE  FALSE
  BY <1>1, <1>3, <1>4, <1>5 DEF Taken, Claimable, TypeOK
<1>6. ASSUME NEW j \in Job, NEW r \in JobRow, Unowned(j, r) PROVE FALSE
  BY <1>1, <1>3, <1>4, <1>6 DEF Unowned, TypeOK
<1>7. ASSUME NEW u \in Worker, NEW r \in JobRow, Ended(u, r) PROVE FALSE
  <2>1. u # w
    BY <1>7 DEF Ended, TypeOK
  <2>2. Owns(held[u]) /\ row' = [row EXCEPT ![held[u].job] = r]
    BY <1>3, <1>7 DEF Ended
  <2>3. held[u].job = k
    BY <1>1, <1>3, <2>2 DEF TypeOK
  <2>4. held[u].token = tok
    BY <1>4, <2>2, <2>3 DEF Owns, HasActiveClaim
  <2>5. QED
    BY <1>7, <2>1, <2>4 DEF Ended, HolderTokensDiffer
<1>8. ASSUME NEW c \in Claim, Beaten(c) PROVE FALSE
  <2>1. row'[k] = HeartbeatJob(row[k])
    BY <1>1, <1>3, <1>8 DEF Beaten, TypeOK
  <2>2. QED
    BY <1>1, <1>2, <1>4, <2>1, RowOwners DEF HasActiveClaim, LeaseExpired
<1>9. CASE Forgotten
  BY <1>3, <1>9 DEF Forgotten
<1>10. CASE Polled
  BY <1>1, <1>3, <1>4, <1>10 DEF Polled, StaleRunning, LeaseExpired
<1>11. CASE Elapsed
  <2>1. row'[k] = Ticked(row[k])
    BY <1>1, <1>11 DEF Elapsed
  <2>2. Ticked(row[k]).leased_until = 0
    BY <1>1, <1>2, <1>4, <2>1, RowOwners DEF HasActiveClaim, LeaseExpired
  <2>3. QED
    BY <1>1, <1>4, <2>1, <2>2, RowOwners
<1>12. QED
  BY <1>5, <1>6, <1>7, <1>8, <1>9, <1>10, <1>11, StepKinds

(* Nobody can take a leased job from its worker: a claim that is kept ends   *)
(* only with the clock tick that ends its lease.                             *)
THEOREM LeasesHold == Spec => LeasedClaimStable
<1> DEFINE Step == \A w \in Worker :
        /\ held'[w] = held[w] /\ Owns(held[w])
        /\ ~Owns(held[w])'
        => /\ row[held[w].job].leased_until = 1
           /\ row'[held[w].job] = Ticked(row[held[w].job])
<1>1. QueueInv /\ [Next]_vars => Step
  <2> SUFFICES ASSUME QueueInv, [Next]_vars, NEW w \in Worker,
                      held'[w] = held[w], Owns(held[w]), ~Owns(held[w])'
               PROVE  /\ row[held[w].job].leased_until = 1
                      /\ row'[held[w].job] = Ticked(row[held[w].job])
    OBVIOUS
  <2>1. held[w] # NoClaim /\ HasActiveClaim(row[held[w].job], held[w].token)
    BY DEF Owns
  <2>2. ~HasActiveClaim(row'[held[w].job], held[w].token)
    BY <2>1 DEF Owns, HasActiveClaim, LeaseExpired
  <2>3. QED
    BY <2>1, <2>2, LeasedClaimStep
<1>2. QueueInv /\ [Next]_vars => [Step]_vars
  BY <1>1
<1>3. QED
  BY <1>2, QueueInvariant, PTL DEF Spec, LeasedClaimStable

(* Of all steps only a cancel and the clock touch a job that waits for its   *)
(* next run: it is not running, so nobody owns it, it is not due, so nobody  *)
(* can claim it, and no other write starts from a queued row.                *)
LEMMA BackoffStep ==
  ASSUME TypeOK, [Next]_vars, NEW k \in Job,
         row[k].status = "queued", row[k].next_run_at > 0
  PROVE  \/ row'[k].status = "canceled"
         \/ row'[k].status = "queued" /\ row'[k] \in {row[k], Ticked(row[k])}
<1>1. row[k] \in JobRow
  BY DEF TypeOK
<1>2. ASSUME NEW w \in Worker, NEW j \in Job, NEW t \in Token, Taken(w, j, t)
      PROVE  row'[k] = row[k]
  BY <1>2 DEF Taken, Claimable, DueForClaim, TypeOK
<1>3. ASSUME NEW j \in Job, NEW r \in JobRow, Unowned(j, r)
      PROVE  row'[k] = row[k] \/ row'[k].status = "canceled"
  BY <1>3 DEF Unowned, TypeOK
<1>4. ASSUME NEW w \in Worker, NEW r \in JobRow, Ended(w, r)
      PROVE  row'[k] = row[k]
  <2>1. held[w].job \in Job
    BY <1>4, HeldJob DEF Ended
  <2>2. QED
    BY <1>4, <2>1 DEF Ended, Owns, HasActiveClaim, TypeOK
<1>5. ASSUME NEW c \in Claim, Beaten(c) PROVE row'[k] = row[k]
  BY <1>5 DEF Beaten, Owns, HasActiveClaim, TypeOK
<1>6. CASE Polled
  BY <1>6 DEF Polled, StaleRunning
<1>7. CASE Elapsed
  <2>1. row'[k] = Ticked(row[k])
    BY <1>7 DEF Elapsed
  <2>2. Ticked(row[k]).status = row[k].status
    BY <1>1, RowOwners
  <2>3. QED
    BY <2>1, <2>2
<1>8. CASE Forgotten
  BY <1>8 DEF Forgotten
<1>9. QED
  BY <1>2, <1>3, <1>4, <1>5, <1>6, <1>7, <1>8, StepKinds

(* A job that was put back to the queue waits out its backoff, whoever polls, *)
(* recovers, claims or heartbeats meanwhile.                                  *)
THEOREM BackoffHolds == Spec => BackoffKept
<1> DEFINE Step == \A j \in Job :
        row[j].status = "queued" /\ row[j].next_run_at > 0
          => row'[j].status \in {"queued", "canceled"} /\
             (row'[j].status = "queued" => row'[j] \in {row[j], Ticked(row[j])})
<1>1. TypeOK /\ [Next]_vars => Step
  BY BackoffStep
<1>2. TypeOK /\ [Next]_vars => [Step]_vars
  BY <1>1
<1>3. QED
  BY <1>2, TypeCorrect, PTL DEF Spec, BackoffKept
=============================================================================
