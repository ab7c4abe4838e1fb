----------------------- MODULE SummaryPipelineProofs -----------------------
(***************************************************************************)
(* Proofs about SummaryPipeline, for every number of tasks and tokens,     *)
(* every lease, backoff and retry limit, and every number of disturbances  *)
(* of every kind.                                                          *)
(***************************************************************************)
EXTENDS SummaryPipeline, JobRecordProofs, FiniteSetTheorems

(***************************************************************************)
(* Type correctness.                                                       *)
(***************************************************************************)

(* Whatever a statement writes to the job, it is a row again. *)
LEMMA JobWrites ==
  ASSUME job \in JobRow
  PROVE  /\ EnqueuedJob \in JobRow /\ HeartbeatJob(job) \in JobRow
         /\ FailedJob(job) \in JobRow /\ DoneJob(job) \in JobRow
         /\ CanceledJob(job) \in JobRow /\ RequeuedJob(job) \in JobRow
         /\ \A t \in Token : ClaimedJob(job, t) \in JobRow
         /\ \A m \in Nat : RetriedJob(job, m) \in JobRow
         /\ AdminRetriedJob(job, 0) \in JobRow /\ Ticked(job) \in JobRow
<1>1. EnqueuedJob \in JobRow
  BY DEF EnqueuedJob, AbsentJob, JobRow, JobStatus
<1>2. QED
  BY <1>1, RowWrites DEF FailedJob, DoneJob, CanceledJob, RequeuedJob, JobStatus

(* What each statement leaves in the columns that decide who owns the job. *)
LEMMA JobColumns ==
  ASSUME job \in JobRow
  PROVE  /\ /\ EnqueuedJob.status = "queued" /\ EnqueuedJob.retry_count = 0
            /\ EnqueuedJob.claim_token = NoToken
         /\ /\ HeartbeatJob(job).status = job.status
            /\ HeartbeatJob(job).retry_count = job.retry_count
            /\ HeartbeatJob(job).claim_token = job.claim_token
            /\ HeartbeatJob(job).leased_until # 0
         /\ \A t \in Token : /\ ClaimedJob(job, t).status = "running"
                             /\ ClaimedJob(job, t).retry_count = job.retry_count
                             /\ ClaimedJob(job, t).claim_token = t
                             /\ ClaimedJob(job, t).leased_until # 0
         /\ \A s \in JobStatus : /\ Released(job, s).status = s
                                 /\ Released(job, s).retry_count = job.retry_count
                                 /\ Released(job, s).claim_token = NoToken
         /\ \A m \in Nat :
              /\ RetriedJob(job, m).status
                   = IF job.retry_count + 1 > m THEN "failed" ELSE "queued"
              /\ RetriedJob(job, m).retry_count = job.retry_count + 1
              /\ RetriedJob(job, m).claim_token = NoToken
         /\ /\ AdminRetriedJob(job, 0).status = "queued"
            /\ AdminRetriedJob(job, 0).retry_count = 0
            /\ AdminRetriedJob(job, 0).claim_token = NoToken
         /\ /\ Ticked(job).status = job.status
            /\ Ticked(job).retry_count = job.retry_count
            /\ Ticked(job).claim_token = job.claim_token
            /\ job.leased_until \notin {0, 1} => Ticked(job).leased_until # 0
<1>1. /\ EnqueuedJob.status = "queued" /\ EnqueuedJob.retry_count = 0
      /\ EnqueuedJob.claim_token = NoToken
  BY DEF EnqueuedJob, AbsentJob
<1>2. /\ HeartbeatJob(job).status = job.status
      /\ HeartbeatJob(job).retry_count = job.retry_count
      /\ HeartbeatJob(job).claim_token = job.claim_token
      /\ HeartbeatJob(job).leased_until # 0
  BY DurationAssumption DEF HeartbeatJob, JobRow
<1>3. ASSUME NEW t \in Token
      PROVE  /\ ClaimedJob(job, t).status = "running"
             /\ ClaimedJob(job, t).retry_count = job.retry_count
             /\ ClaimedJob(job, t).claim_token = t
             /\ ClaimedJob(job, t).leased_until # 0
  BY DurationAssumption DEF ClaimedJob, JobRow
<1>4. ASSUME NEW s \in JobStatus
      PROVE  /\ Released(job, s).status = s
             /\ Released(job, s).retry_count = job.retry_count
             /\ Released(job, s).claim_token = NoToken
  BY DEF Released, JobRow
<1>5. ASSUME NEW m \in Nat
      PROVE  /\ RetriedJob(job, m).status
                  = IF job.retry_count + 1 > m THEN "failed" ELSE "queued"
             /\ RetriedJob(job, m).retry_count = job.retry_count + 1
             /\ RetriedJob(job, m).claim_token = NoToken
  BY DEF RetriedJob, Released, JobRow
<1>6. /\ AdminRetriedJob(job, 0).status = "queued"
      /\ AdminRetriedJob(job, 0).retry_count = 0
      /\ AdminRetriedJob(job, 0).claim_token = NoToken
  BY DEF AdminRetriedJob, Released, JobRow
<1>7. /\ Ticked(job).status = job.status
      /\ Ticked(job).retry_count = job.retry_count
      /\ Ticked(job).claim_token = job.claim_token
      /\ job.leased_until \notin {0, 1} => Ticked(job).leased_until # 0
  BY DEF Ticked, JobRow
<1>8. QED
  BY <1>1, <1>2, <1>3, <1>4, <1>5, <1>6, <1>7

(***************************************************************************)
(* How a task moves.                                                       *)
(***************************************************************************)

(* After the step, w is at p with this phase, claim and heartbeat, and no     *)
(* other task has moved.                                                      *)
Moved(w, p, phase, token, beat) ==
    /\ worker' \in [Worker -> Task]
    /\ \A v \in Worker : v # w => worker'[v] = worker[v]
    /\ worker'[w].pc = p /\ worker'[w].phase = phase
    /\ worker'[w].token = token /\ worker'[w].beat = beat

LEMMA StageNames ==
  /\ {"idle", "claim", "prepare", "to_transcribing", "transcribe", "persist", "context",
      "to_summarizing", "summarize", "store", "post", "complete", "posted", "done"}
       \subseteq Stages
  /\ {"conflict", "transition_error", "invalid", "retry", "restore", "requeue",
      "put_back", "repost", "reopen", "fail_meeting", "leave"} \subseteq Stages
  /\ {"stopping", "transcribing", "summarizing"} \subseteq SummaryStates
BY DEF Stages, Refreshed, SummaryStates

LEMMA TaskMoves ==
  ASSUME TypeOK, NEW w \in Worker, NEW p \in Stages
  PROVE  /\ Goto(w, p) =>
              Moved(w, p, worker[w].phase, worker[w].token, worker[w].beat)
         /\ GiveUp(w, p) =>
              Moved(w, p, worker[w].phase, NoToken, worker[w].beat)
<1>1. worker \in [Worker -> Task] /\ worker[w] \in Task
  BY DEF TypeOK
<1>2. ASSUME Goto(w, p)
      PROVE  Moved(w, p, worker[w].phase, worker[w].token, worker[w].beat)
  BY <1>1, <1>2 DEF Goto, Moved, Task
<1>3. ASSUME GiveUp(w, p)
      PROVE  Moved(w, p, worker[w].phase, NoToken, worker[w].beat)
  BY <1>1, <1>3 DEF GiveUp, Moved, Task
<1>4. QED
  BY <1>2, <1>3

(* The task at w is gone: it returned, was never given a claim, or died. *)
LEMMA TaskReturns ==
  ASSUME TypeOK, NEW w \in Worker, worker' = [worker EXCEPT ![w] = IdleTask]
  PROVE  Moved(w, "idle", "stopping", NoToken, NoToken)
<1>1. IdleTask \in Task
  BY StageNames DEF IdleTask, Task
<1>2. QED
  BY <1>1 DEF TypeOK, Moved, IdleTask

(* claim_by_id takes the job, or the run is over. *)
LEMMA TaskClaims ==
  ASSUME TypeOK, NEW w \in Worker, Claim(w)
  PROVE  /\ \/ /\ Claimable(job) /\ faults' = faults
               /\ \E t \in Token \ LiveTokens :
                    job' = ClaimedJob(job, t) /\ Moved(w, "prepare", worker[w].phase, t, t)
            \/ /\ job' = job /\ (faults' = faults \/ StatementFails)
               /\ Moved(w, "idle", "stopping", NoToken, NoToken)
         /\ At(w, "claim")
         /\ UNCHANGED <<meeting, artifacts, process, lock>>
<1>1. ASSUME NEW t \in Token \ LiveTokens,
             worker' = [worker EXCEPT ![w].pc = "prepare", ![w].token = t, ![w].beat = t]
      PROVE  Moved(w, "prepare", worker[w].phase, t, t)
  BY <1>1, StageNames DEF TypeOK, Task, Moved
<1>2. ASSUME worker' = [worker EXCEPT ![w] = IdleTask]
      PROVE  Moved(w, "idle", "stopping", NoToken, NoToken)
  BY <1>2, TaskReturns
<1>3. QED
  BY <1>1, <1>2 DEF Claim

LEMMA TaskRefreshed ==
  ASSUME TypeOK, NEW w \in Worker, worker' = [worker EXCEPT ![w].fresh = TRUE]
  PROVE  Moved(w, worker[w].pc, worker[w].phase, worker[w].token, worker[w].beat)
BY DEF TypeOK, Task, Moved

LEMMA HeartbeatStops ==
  ASSUME TypeOK, NEW w \in Worker, worker' = [worker EXCEPT ![w].beat = NoToken]
  PROVE  Moved(w, worker[w].pc, worker[w].phase, worker[w].token, NoToken)
BY DEF TypeOK, Task, Moved

(* A status transition: made, lost to somebody else, or failed. *)
LEMMA TaskAdvances ==
  ASSUME TypeOK, NEW w \in Worker, NEW p \in Stages, NEW q \in Stages,
         NEW s \in SummaryStates, Advance(w, p, s, q)
  PROVE  /\ \/ /\ meeting = worker[w].phase /\ meeting' = s /\ faults' = faults
               /\ Moved(w, q, s, worker[w].token, worker[w].beat)
            \/ /\ meeting # worker[w].phase /\ meeting' = meeting /\ faults' = faults
               /\ Moved(w, "conflict", worker[w].phase, worker[w].token, worker[w].beat)
            \/ /\ StatementFails /\ meeting' = meeting
               /\ Moved(w, "transition_error", worker[w].phase, worker[w].token,
                        worker[w].beat)
         /\ At(w, p)
         /\ UNCHANGED <<job, artifacts, process, lock>>
<1>1. ASSUME worker' = [worker EXCEPT ![w].pc = q, ![w].phase = s, ![w].fresh = FALSE]
      PROVE  Moved(w, q, s, worker[w].token, worker[w].beat)
  BY <1>1, ZenonT(60) DEF TypeOK, Task, Moved
<1>2. QED
  BY <1>1, TaskMoves, StageNames DEF Advance, Cas

(* queue.retry: the claim is given up, whether the queue grants it or not. *)
LEMMA TaskRetries ==
  ASSUME TypeOK, NEW w \in Worker, NEW m \in Nat, NEW p \in Stages, NEW q \in Stages,
         RetryJob(w, m, p, q)
  PROVE  \/ /\ Owns(w) /\ job' = RetriedJob(job, m) /\ job'.status = "queued"
            /\ Moved(w, p, worker[w].phase, NoToken, worker[w].beat)
         \/ /\ Owns(w) /\ job' = RetriedJob(job, m) /\ job'.status # "queued"
            /\ Moved(w, q, worker[w].phase, NoToken, worker[w].beat)
         \/ /\ ~Owns(w) /\ job' = job
            /\ Moved(w, "leave", worker[w].phase, NoToken, worker[w].beat)
<1>1. CASE Owns(w) /\ job'.status = "queued"
  <2>1. GiveUp(w, p) /\ job' = RetriedJob(job, m)
    BY <1>1 DEF RetryJob
  <2>2. QED
    BY <1>1, <2>1, TaskMoves
<1>2. CASE Owns(w) /\ job'.status # "queued"
  <2>1. GiveUp(w, q) /\ job' = RetriedJob(job, m)
    BY <1>2 DEF RetryJob
  <2>2. QED
    BY <1>2, <2>1, TaskMoves
<1>3. CASE ~Owns(w)
  <2>1. GiveUp(w, "leave") /\ job' = job
    BY <1>3 DEF RetryJob, Leave
  <2>2. QED
    BY <1>3, <2>1, TaskMoves, StageNames
<1>4. QED
  BY <1>1, <1>2, <1>3

(* The two stages that leave something behind. *)
LEMMA TaskPersists ==
  ASSUME TypeOK, NEW w \in Worker, PersistTranscript(w)
  PROVE  /\ At(w, "persist") /\ UNCHANGED <<rows, summary, posts, process, faults>>
         /\ \/ /\ Moved(w, "context", worker[w].phase, worker[w].token, worker[w].beat)
               /\ lock' = lock
            \/ /\ lock = Free /\ lock' = w
               /\ \E p \in {"retry", "invalid"} :
                    Moved(w, p, worker[w].phase, worker[w].token, worker[w].beat)
<1>1. /\ At(w, "persist") /\ UNCHANGED <<rows, summary, posts, process, faults>>
      /\ \/ Goto(w, "context") /\ lock' = lock
         \/ lock = Free /\ lock' = w /\ \E p \in {"retry", "invalid"} : Goto(w, p)
  BY DEF PersistTranscript
<1>2. QED
  BY <1>1, TaskMoves, StageNames

LEMMA TaskStores ==
  ASSUME TypeOK, NEW w \in Worker, StoreSummary(w)
  PROVE  /\ At(w, "store") /\ UNCHANGED <<rows, transcript, posts, process, faults>>
         /\ summary => summary'
         /\ \/ /\ Moved(w, "post", worker[w].phase, worker[w].token, worker[w].beat)
               /\ summary' /\ lock' = lock
            \/ /\ Moved(w, "retry", worker[w].phase, worker[w].token, worker[w].beat)
               /\ lock = Free /\ lock' = w
<1>1. /\ At(w, "store") /\ UNCHANGED <<rows, transcript, posts, process, faults>>
      /\ \/ Goto(w, "post") /\ lock' = lock
         \/ Goto(w, "retry") /\ lock = Free /\ lock' = w
  BY DEF StoreSummary, Stage
<1>2. summary => summary'
  BY DEF StoreSummary
<1>3. worker'[w].pc = "post" => summary'
  BY DEF StoreSummary
<1>4. \/ /\ Moved(w, "post", worker[w].phase, worker[w].token, worker[w].beat)
         /\ lock' = lock
      \/ /\ Moved(w, "retry", worker[w].phase, worker[w].token, worker[w].beat)
         /\ lock = Free /\ lock' = w
  BY <1>1, TaskMoves, StageNames
<1>5. Moved(w, "post", worker[w].phase, worker[w].token, worker[w].beat) => summary'
  BY <1>3 DEF Moved
<1>6. QED
  BY <1>1, <1>2, <1>4, <1>5

LEMMA TypeStep == TypeOK /\ [Next]_vars => TypeOK'
<1> SUFFICES ASSUME TypeOK, [Next]_vars PROVE TypeOK'
  OBVIOUS
<1>0. /\ \A w \in Worker : worker[w] \in Task /\ worker[w].phase \in SummaryStates
      /\ IdleTask \in Task
      /\ MaxRetries \in Nat /\ job.retry_count + 1 \in Nat
  BY PipelineAssumption, StageNames DEF TypeOK, Task, IdleTask, JobRow
<1> USE PipelineAssumption
    DEF TypeOK, Moved, MeetingStates, SummaryStates, RecoverySteps, rows, artifacts,
        process, Leave, Cas, FailMeeting, StatementFails, Disturb
<1>1. ASSUME NEW w \in Worker, Start(w) PROVE TypeOK'
  BY <1>1, <1>0, TaskMoves, StageNames DEF Start
<1>2. ASSUME NEW w \in Worker, StartFails(w) PROVE TypeOK'
  BY <1>2, <1>0 DEF StartFails
<1>3. ASSUME NEW w \in Worker, Claim(w) PROVE TypeOK'
  BY <1>3, <1>0, TaskClaims, JobWrites
<1>4. ASSUME NEW w \in Worker, Refresh(w) PROVE TypeOK'
  BY <1>4, <1>0, TaskRefreshed, TaskMoves, StageNames, JobWrites DEF Refresh
<1>5. ASSUME NEW w \in Worker, BackgroundHeartbeat(w) PROVE TypeOK'
  BY <1>5, <1>0, HeartbeatStops, JobWrites DEF BackgroundHeartbeat
<1>6. ASSUME NEW w \in Worker, Return(w) PROVE TypeOK'
  BY <1>6, <1>0, TaskReturns DEF Return
<1>7. ASSUME NEW w \in Worker, Prepare(w) PROVE TypeOK'
  BY <1>7, <1>0, TaskRetries, TaskMoves, StageNames, JobWrites DEF Prepare
<1>8. ASSUME NEW w \in Worker, ToTranscribing(w) PROVE TypeOK'
  BY <1>8, <1>0, TaskAdvances, StageNames DEF ToTranscribing
<1>9. ASSUME NEW w \in Worker, ToSummarizing(w) PROVE TypeOK'
  BY <1>9, <1>0, TaskAdvances, StageNames DEF ToSummarizing
<1>10. ASSUME NEW w \in Worker, TransitionFailed(w) PROVE TypeOK'
  BY <1>10, <1>0, TaskRetries, TaskMoves, StageNames, JobWrites
     DEF TransitionFailed
<1>11. ASSUME NEW w \in Worker, Transcribe(w) PROVE TypeOK'
  BY <1>11, <1>0, TaskMoves, StageNames DEF Transcribe, Stage
<1>12. ASSUME NEW w \in Worker, PersistTranscript(w) PROVE TypeOK'
  <2>1. worker' \in [Worker -> Task]
    BY <1>12, <1>0, TaskMoves, StageNames DEF PersistTranscript
  <2>2. transcript' \in BOOLEAN /\ summary' \in BOOLEAN
    BY <1>12 DEF PersistTranscript
  <2>3. QED
    BY <1>12, <2>1, <2>2 DEF PersistTranscript
<1>13. ASSUME NEW w \in Worker, MaterializeContext(w) PROVE TypeOK'
  BY <1>13, <1>0, TaskMoves, StageNames DEF MaterializeContext, Stage
<1>14. ASSUME NEW w \in Worker, Summarize(w) PROVE TypeOK'
  BY <1>14, <1>0, TaskMoves, StageNames DEF Summarize, Stage
<1>15. ASSUME NEW w \in Worker, StoreSummary(w) PROVE TypeOK'
  <2>1. worker' \in [Worker -> Task]
    BY <1>15, <1>0, TaskMoves, StageNames DEF StoreSummary, Stage
  <2>2. transcript' \in BOOLEAN /\ summary' \in BOOLEAN
    BY <1>15 DEF StoreSummary
  <2>3. QED
    BY <1>15, <2>1, <2>2 DEF StoreSummary, Stage
<1>16. ASSUME NEW w \in Worker, RetryHeartbeat(w) PROVE TypeOK'
  BY <1>16, <1>0, TaskMoves, StageNames, JobWrites DEF RetryHeartbeat
<1>17. ASSUME NEW w \in Worker, RestoreStopping(w) PROVE TypeOK'
  BY <1>17, <1>0, TaskMoves, StageNames, JobWrites DEF RestoreStopping
<1>18. ASSUME NEW w \in Worker, RequeueJob(w) PROVE TypeOK'
  BY <1>18, <1>0, TaskRetries, TaskMoves, StageNames, JobWrites DEF RequeueJob
<1>19. ASSUME NEW w \in Worker, PutBack(w) PROVE TypeOK'
  BY <1>19, <1>0, TaskMoves, StageNames DEF PutBack
<1>20. ASSUME NEW w \in Worker, InvalidTranscript(w) PROVE TypeOK'
  BY <1>20, <1>0, TaskMoves, StageNames, JobWrites DEF InvalidTranscript
<1>21. ASSUME NEW w \in Worker, MarkMeetingFailed(w) PROVE TypeOK'
  BY <1>21, <1>0, TaskMoves, StageNames DEF MarkMeetingFailed
<1>22. ASSUME NEW w \in Worker, Post(w) PROVE TypeOK'
  BY <1>22, <1>0, TaskMoves, StageNames DEF Post, Smaller, ManyPosts
<1>23. ASSUME NEW w \in Worker, RepostJob(w) PROVE TypeOK'
  BY <1>23, <1>0, TaskRetries, TaskMoves, StageNames, JobWrites DEF RepostJob
<1>24. ASSUME NEW w \in Worker, ReopenMeeting(w) PROVE TypeOK'
  BY <1>24, <1>0, TaskMoves, StageNames DEF ReopenMeeting
<1>25. ASSUME NEW w \in Worker, Complete(w) PROVE TypeOK'
  BY <1>25, <1>0, TaskMoves, StageNames, JobWrites DEF Complete
<1>26. ASSUME NEW w \in Worker, MarkPosted(w) PROVE TypeOK'
  BY <1>26, <1>0, TaskMoves, StageNames DEF MarkPosted
<1>27. ASSUME NEW w \in Worker, MarkDone(w) PROVE TypeOK'
  BY <1>27, <1>0, TaskMoves, StageNames, JobWrites DEF MarkDone
<1>28. CASE Stop
  BY <1>28, <1>0 DEF Stop
<1>29. CASE Enqueue
  BY <1>29, <1>0, JobWrites DEF Enqueue
<1>30. CASE Poll
  BY <1>30, <1>0, JobWrites DEF Poll
<1>31. CASE Ready
  BY <1>31, <1>0 DEF Ready
<1>32. CASE RecoverMeeting
  BY <1>32, <1>0 DEF RecoverMeeting
<1>33. CASE RecoverJob
  BY <1>33, <1>0, JobWrites DEF RecoverJob
<1>34. CASE Crash
  <2>1. worker' \in [Worker -> Task]
    BY <1>34, <1>0 DEF Crash
  <2>2. up' \in BOOLEAN /\ session' \in BOOLEAN /\ pending' \in BOOLEAN
    BY <1>34 DEF Crash
  <2>3. QED
    BY <1>34, <2>1, <2>2 DEF Crash
<1>35. CASE Restart
  BY <1>35, <1>0 DEF Restart
<1>36. CASE Tick
  BY <1>36, <1>0, JobWrites DEF Tick
<1>37. CASE AdminRetry
  BY <1>37, <1>0, JobWrites DEF AdminRetry
<1>38. CASE AdminCancel
  BY <1>38, <1>0, JobWrites DEF AdminCancel
<1>39. CASE UNCHANGED vars
  BY <1>39, <1>0 DEF vars
<1>40. QED
  BY <1>1, <1>2, <1>3, <1>4, <1>5, <1>6, <1>7, <1>8, <1>9, <1>10, <1>11,
     <1>12, <1>13, <1>14, <1>15, <1>16, <1>17, <1>18, <1>19, <1>20, <1>21,
     <1>22, <1>23, <1>24, <1>25, <1>26, <1>27, <1>28, <1>29, <1>30, <1>31,
     <1>32, <1>33, <1>34, <1>35, <1>36, <1>37, <1>38, <1>39 DEF Next, Run

LEMMA TypeInit == Init => TypeOK
<1>1. IdleTask \in Task
  BY StageNames DEF IdleTask, Task
<1>2. AbsentJob \in JobRow
  BY DEF AbsentJob, JobRow, JobStatus
<1>3. ASSUME Init PROVE worker \in [Worker -> Task] /\ job \in JobRow
  BY <1>1, <1>2, <1>3 DEF Init
<1>4. ASSUME Init
      PROVE  /\ audio \in BOOLEAN /\ transcript \in BOOLEAN /\ summary \in BOOLEAN
             /\ up \in BOOLEAN /\ session \in BOOLEAN /\ pending \in BOOLEAN
  BY <1>4 DEF Init
<1>5. ASSUME Init
      PROVE  /\ meeting \in MeetingStates /\ recovery \in RecoverySteps
             /\ posts \in 0..ManyPosts /\ faults \in 0..MaxFaults
             /\ lock \in Worker \cup {Free}
  <2>1. meeting = "recording" /\ recovery = "none" /\ posts = 0 /\ faults = 0 /\ lock = Free
    BY <1>5 DEF Init
  <2>2. QED
    BY <2>1, PipelineAssumption DEF MeetingStates, RecoverySteps, ManyPosts
<1>6. QED
  BY <1>3, <1>4, <1>5 DEF TypeOK

(* Every row, artifact and task stays well-formed, however many tasks run,   *)
(* crash or are refused.                                                     *)
THEOREM TypeCorrect == Spec => []TypeOK
BY TypeInit, TypeStep, PTL DEF Spec

(***************************************************************************)
(* What posted and done mean.                                              *)
(***************************************************************************)

(* The notice goes out after the summary is stored, and the statements that   *)
(* end the run come after the notice.                                         *)
NoticeFirst ==
    \A w \in Worker :
        /\ worker[w].pc \in {"post", "complete", "posted", "done"} => summary
        /\ worker[w].pc \in {"complete", "posted", "done"} => posts >= 1

(* The job is completed after the meeting, whose new status nobody takes back. *)
PostedFirst == \A w \in Worker : worker[w].pc = "done" => meeting = "posted"

NoticeInv ==
    TypeOK /\ NoticeFirst /\ NoticeBeforePosted /\ PostedFirst /\ DoneMeansPosted

(* Posted is final, and only an administrator reopens a failed meeting:      *)
(* every other statement that writes the status first looks for another one. *)
LEMMA SettledStep ==
  ASSUME TypeOK, [Next]_vars
  PROVE  /\ meeting = "posted" => meeting' = "posted"
         /\ meeting = "failed" =>
              \/ meeting' = "failed"
              \/ meeting' = "stopping" /\ job'.status = "queued"
                   /\ job'.retry_count = 0
<1> DEFINE Goal ==
      /\ meeting = "posted" => meeting' = "posted"
      /\ meeting = "failed" =>
           \/ meeting' = "failed"
           \/ meeting' = "stopping" /\ job'.status = "queued" /\ job'.retry_count = 0
<1>0. /\ TypeOK /\ job \in JobRow
      /\ \A w \in Worker : worker[w].phase \in SummaryStates
  BY DEF TypeOK, Task
<1> USE DEF SummaryStates, rows, Cas, FailMeeting
<1>1. ASSUME NEW w \in Worker, Start(w) PROVE Goal
  BY <1>1, <1>0 DEF Start
<1>2. ASSUME NEW w \in Worker, StartFails(w) PROVE Goal
  BY <1>2, <1>0 DEF StartFails
<1>3. ASSUME NEW w \in Worker, Claim(w) PROVE Goal
  BY <1>3, <1>0, TaskClaims
<1>4. ASSUME NEW w \in Worker, Refresh(w) PROVE Goal
  BY <1>4, <1>0 DEF Refresh
<1>5. ASSUME NEW w \in Worker, BackgroundHeartbeat(w) PROVE Goal
  BY <1>5, <1>0 DEF BackgroundHeartbeat
<1>6. ASSUME NEW w \in Worker, Return(w) PROVE Goal
  BY <1>6, <1>0 DEF Return
<1>7. ASSUME NEW w \in Worker, Prepare(w) PROVE Goal
  BY <1>7, <1>0 DEF Prepare
<1>8. ASSUME NEW w \in Worker, ToTranscribing(w) PROVE Goal
  BY <1>8, <1>0, TaskAdvances, StageNames DEF ToTranscribing
<1>9. ASSUME NEW w \in Worker, ToSummarizing(w) PROVE Goal
  BY <1>9, <1>0, TaskAdvances, StageNames DEF ToSummarizing
<1>10. ASSUME NEW w \in Worker, TransitionFailed(w) PROVE Goal
  BY <1>10, <1>0 DEF TransitionFailed
<1>11. ASSUME NEW w \in Worker, Transcribe(w) PROVE Goal
  BY <1>11, <1>0 DEF Transcribe, Stage
<1>12. ASSUME NEW w \in Worker, PersistTranscript(w) PROVE Goal
  BY <1>12, <1>0, TaskPersists
<1>13. ASSUME NEW w \in Worker, MaterializeContext(w) PROVE Goal
  BY <1>13, <1>0 DEF MaterializeContext, Stage
<1>14. ASSUME NEW w \in Worker, Summarize(w) PROVE Goal
  BY <1>14, <1>0 DEF Summarize, Stage
<1>15. ASSUME NEW w \in Worker, StoreSummary(w) PROVE Goal
  BY <1>15, <1>0, TaskStores
<1>16. ASSUME NEW w \in Worker, RetryHeartbeat(w) PROVE Goal
  BY <1>16, <1>0 DEF RetryHeartbeat
<1>17. ASSUME NEW w \in Worker, RestoreStopping(w) PROVE Goal
  BY <1>17, <1>0 DEF RestoreStopping
<1>18. ASSUME NEW w \in Worker, RequeueJob(w) PROVE Goal
  BY <1>18, <1>0 DEF RequeueJob
<1>19. ASSUME NEW w \in Worker, PutBack(w) PROVE Goal
  BY <1>19, <1>0 DEF PutBack
<1>20. ASSUME NEW w \in Worker, InvalidTranscript(w) PROVE Goal
  BY <1>20, <1>0 DEF InvalidTranscript
<1>21. ASSUME NEW w \in Worker, MarkMeetingFailed(w) PROVE Goal
  BY <1>21, <1>0 DEF MarkMeetingFailed
<1>22. ASSUME NEW w \in Worker, Post(w) PROVE Goal
  BY <1>22, <1>0 DEF Post
<1>23. ASSUME NEW w \in Worker, RepostJob(w) PROVE Goal
  BY <1>23, <1>0 DEF RepostJob
<1>24. ASSUME NEW w \in Worker, ReopenMeeting(w) PROVE Goal
  BY <1>24, <1>0 DEF ReopenMeeting
<1>25. ASSUME NEW w \in Worker, Complete(w) PROVE Goal
  BY <1>25, <1>0 DEF Complete
<1>26. ASSUME NEW w \in Worker, MarkPosted(w) PROVE Goal
  BY <1>26, <1>0 DEF MarkPosted
<1>27. ASSUME NEW w \in Worker, MarkDone(w) PROVE Goal
  BY <1>27, <1>0 DEF MarkDone
<1>28. CASE Stop
  BY <1>28, <1>0 DEF Stop
<1>29. CASE Enqueue
  BY <1>29, <1>0 DEF Enqueue
<1>30. CASE Poll
  BY <1>30, <1>0 DEF Poll
<1>31. CASE Ready
  BY <1>31, <1>0 DEF Ready
<1>32. CASE RecoverMeeting
  BY <1>32, <1>0 DEF RecoverMeeting
<1>33. CASE RecoverJob
  BY <1>33, <1>0 DEF RecoverJob
<1>34. CASE Crash
  BY <1>34, <1>0 DEF Crash
<1>35. CASE Restart
  BY <1>35, <1>0 DEF Restart
<1>36. CASE Tick
  BY <1>36, <1>0 DEF Tick
<1>37. CASE AdminRetry
  BY <1>37, <1>0, JobColumns DEF AdminRetry
<1>38. CASE AdminCancel
  BY <1>38, <1>0 DEF AdminCancel
<1>39. CASE UNCHANGED vars
  BY <1>39, <1>0 DEF vars
<1>40. QED
  BY <1>1, <1>2, <1>3, <1>4, <1>5, <1>6, <1>7, <1>8, <1>9, <1>10, <1>11,
     <1>12, <1>13, <1>14, <1>15, <1>16, <1>17, <1>18, <1>19, <1>20, <1>21,
     <1>22, <1>23, <1>24, <1>25, <1>26, <1>27, <1>28, <1>29, <1>30, <1>31,
     <1>32, <1>33, <1>34, <1>35, <1>36, <1>37, <1>38, <1>39 DEF Next, Run

(* A settled meeting is left alone by late tasks and stale recoveries. *)
THEOREM SettledMeetingsStay == Spec => SettledStays
<1> DEFINE Step ==
        /\ meeting = "posted" => meeting' = "posted"
        /\ meeting = "failed" =>
             \/ meeting' = "failed"
             \/ meeting' = "stopping" /\ job'.status = "queued"
                  /\ job'.retry_count = 0
<1>1. TypeOK /\ [Next]_vars => Step
  BY SettledStep
<1>2. TypeOK /\ [Next]_vars => [Step]_vars
  BY <1>1
<1>3. QED
  BY <1>2, TypeCorrect, PTL DEF Spec, SettledStays

LEMMA NoticeStep == NoticeInv /\ [Next]_vars => NoticeInv'
<1> SUFFICES ASSUME NoticeInv, [Next]_vars
             PROVE  (NoticeFirst /\ NoticeBeforePosted /\ PostedFirst /\ DoneMeansPosted)'
  BY TypeStep DEF NoticeInv
<1> DEFINE Goal == (NoticeFirst /\ NoticeBeforePosted /\ PostedFirst /\ DoneMeansPosted)'
<1> USE DEF NoticeInv, NoticeFirst, NoticeBeforePosted, PostedFirst, DoneMeansPosted,
            Moved, IdleTask, SummaryStates, rows, artifacts, At, Leave, Cas, FailMeeting,
            FailedJob, DoneJob, CanceledJob, RequeuedJob, JobStatus
<1>0. /\ TypeOK /\ job \in JobRow /\ MaxRetries \in Nat /\ job.retry_count + 1 \in Nat
      /\ posts \in Nat /\ \A w \in Worker : worker[w].phase \in SummaryStates
      /\ meeting = "posted" => meeting' = "posted"
  BY SettledStep, PipelineAssumption DEF TypeOK, JobRow, Task, ManyPosts
<1>1. ASSUME NEW w \in Worker, Start(w) PROVE Goal
  BY <1>1, <1>0, TaskMoves, StageNames DEF Start
<1>2. ASSUME NEW w \in Worker, StartFails(w) PROVE Goal
  BY <1>2, <1>0 DEF StartFails
<1>3. ASSUME NEW w \in Worker, Claim(w) PROVE Goal
  BY <1>3, <1>0, TaskClaims, JobColumns
<1>4. ASSUME NEW w \in Worker, Refresh(w) PROVE Goal
  BY <1>4, <1>0, TaskRefreshed, TaskMoves, StageNames, JobColumns DEF Refresh
<1>5. ASSUME NEW w \in Worker, BackgroundHeartbeat(w) PROVE Goal
  BY <1>5, <1>0, HeartbeatStops, JobColumns DEF BackgroundHeartbeat
<1>6. ASSUME NEW w \in Worker, Return(w) PROVE Goal
  BY <1>6, <1>0, TaskReturns DEF Return
<1>7. ASSUME NEW w \in Worker, Prepare(w) PROVE Goal
  BY <1>7, <1>0, TaskRetries, TaskMoves, StageNames, JobColumns DEF Prepare
<1>8. ASSUME NEW w \in Worker, ToTranscribing(w) PROVE Goal
  BY <1>8, <1>0, TaskAdvances, StageNames DEF ToTranscribing
<1>9. ASSUME NEW w \in Worker, ToSummarizing(w) PROVE Goal
  BY <1>9, <1>0, TaskAdvances, StageNames DEF ToSummarizing
<1>10. ASSUME NEW w \in Worker, TransitionFailed(w) PROVE Goal
  BY <1>10, <1>0, TaskRetries, TaskMoves, StageNames, JobColumns, SMTT(60)
     DEF TransitionFailed
<1>11. ASSUME NEW w \in Worker, Transcribe(w) PROVE Goal
  BY <1>11, <1>0, TaskMoves, StageNames DEF Transcribe, Stage
<1>12. ASSUME NEW w \in Worker, PersistTranscript(w) PROVE Goal
  BY <1>12, <1>0, TaskPersists
<1>13. ASSUME NEW w \in Worker, MaterializeContext(w) PROVE Goal
  BY <1>13, <1>0, TaskMoves, StageNames DEF MaterializeContext, Stage
<1>14. ASSUME NEW w \in Worker, Summarize(w) PROVE Goal
  BY <1>14, <1>0, TaskMoves, StageNames DEF Summarize, Stage
<1>15. ASSUME NEW w \in Worker, StoreSummary(w) PROVE Goal
  BY <1>15, <1>0, TaskStores
<1>16. ASSUME NEW w \in Worker, RetryHeartbeat(w) PROVE Goal
  BY <1>16, <1>0, TaskMoves, StageNames, JobColumns DEF RetryHeartbeat
<1>17. ASSUME NEW w \in Worker, RestoreStopping(w) PROVE Goal
  BY <1>17, <1>0, TaskMoves, StageNames, JobColumns DEF RestoreStopping
<1>18. ASSUME NEW w \in Worker, RequeueJob(w) PROVE Goal
  BY <1>18, <1>0, TaskRetries, TaskMoves, StageNames, JobColumns, SMTT(60)
     DEF RequeueJob
<1>19. ASSUME NEW w \in Worker, PutBack(w) PROVE Goal
  BY <1>19, <1>0, TaskMoves, StageNames DEF PutBack
<1>20. ASSUME NEW w \in Worker, InvalidTranscript(w) PROVE Goal
  BY <1>20, <1>0, TaskMoves, StageNames, JobColumns DEF InvalidTranscript
<1>21. ASSUME NEW w \in Worker, MarkMeetingFailed(w) PROVE Goal
  BY <1>21, <1>0, TaskMoves, StageNames DEF MarkMeetingFailed
<1>22. ASSUME NEW w \in Worker, Post(w) PROVE Goal
  BY <1>22, <1>0, TaskMoves, StageNames DEF Post, Smaller, ManyPosts
<1>23. ASSUME NEW w \in Worker, RepostJob(w) PROVE Goal
  BY <1>23, <1>0, TaskRetries, TaskMoves, StageNames, JobColumns, SMTT(60) DEF RepostJob
<1>24. ASSUME NEW w \in Worker, ReopenMeeting(w) PROVE Goal
  BY <1>24, <1>0, TaskMoves, StageNames DEF ReopenMeeting
<1>25. ASSUME NEW w \in Worker, Complete(w) PROVE Goal
  BY <1>25, <1>0, TaskMoves, StageNames, JobColumns DEF Complete
<1>26. ASSUME NEW w \in Worker, MarkPosted(w) PROVE Goal
  BY <1>26, <1>0, TaskMoves, StageNames DEF MarkPosted
<1>27. ASSUME NEW w \in Worker, MarkDone(w) PROVE Goal
  BY <1>27, <1>0, TaskMoves, StageNames, JobColumns DEF MarkDone
<1>28. CASE Stop
  BY <1>28, <1>0 DEF Stop
<1>29. CASE Enqueue
  BY <1>29, <1>0, JobColumns DEF Enqueue
<1>30. CASE Poll
  BY <1>30, <1>0, JobColumns DEF Poll
<1>31. CASE Ready
  BY <1>31, <1>0 DEF Ready
<1>32. CASE RecoverMeeting
  BY <1>32, <1>0 DEF RecoverMeeting
<1>33. CASE RecoverJob
  BY <1>33, <1>0, JobColumns DEF RecoverJob
<1>34. CASE Crash
  BY <1>34, <1>0 DEF Crash
<1>35. CASE Restart
  BY <1>35, <1>0 DEF Restart
<1>36. CASE Tick
  BY <1>36, <1>0, JobColumns DEF Tick
<1>37. CASE AdminRetry
  BY <1>37, <1>0, JobColumns DEF AdminRetry
<1>38. CASE AdminCancel
  BY <1>38, <1>0, JobColumns DEF AdminCancel
<1>39. CASE UNCHANGED vars
  BY <1>39, <1>0 DEF vars
<1>40. QED
  BY <1>1, <1>2, <1>3, <1>4, <1>5, <1>6, <1>7, <1>8, <1>9, <1>10, <1>11,
     <1>12, <1>13, <1>14, <1>15, <1>16, <1>17, <1>18, <1>19, <1>20, <1>21,
     <1>22, <1>23, <1>24, <1>25, <1>26, <1>27, <1>28, <1>29, <1>30, <1>31,
     <1>32, <1>33, <1>34, <1>35, <1>36, <1>37, <1>38, <1>39 DEF Next, Run

THEOREM NoticeInvariant == Spec => []NoticeInv
<1>1. Init => NoticeInv
  BY TypeInit DEF Init, NoticeInv, NoticeFirst, NoticeBeforePosted, PostedFirst,
         DoneMeansPosted, IdleTask, AbsentJob
<1>2. QED
  BY <1>1, NoticeStep, PTL DEF Spec

(* Nobody sees a meeting as posted before its summary is stored and a whole  *)
(* notice is out.                                                            *)
THEOREM PostedAfterNotice == Spec => []NoticeBeforePosted
BY NoticeInvariant, PTL DEF NoticeInv

(* The two rows agree in the end: a job is done only if its meeting is posted. *)
THEOREM DoneAfterPosted == Spec => []DoneMeansPosted
BY NoticeInvariant, PTL DEF NoticeInv

(***************************************************************************)
(* The retry budget.                                                       *)
(***************************************************************************)

(* A job that may still run has not used up its retries, apart from those     *)
(* that a failed status write added.                                          *)
RetriesLeft ==
    job.status \in {"queued", "running"} => job.retry_count <= MaxRetries + faults

(* The task that owns the job and is about to retry it without a limit has    *)
(* paid for that with the disturbance that brought it there.                  *)
RetryPaid ==
    \A w \in Worker :
        /\ worker[w].pc = "transition_error" /\ job.status = "running"
        /\ job.claim_token = worker[w].token
        => job.retry_count + 1 <= MaxRetries + faults

BudgetInv == TypeOK /\ RetriesLeft /\ RetryPaid /\ RetryBudget

LEMMA RetryWithinBudget ==
  ASSUME BudgetInv, NEW w \in Worker, NEW p \in Stages, NEW q \in Stages,
         p # "transition_error", q # "transition_error",
         RetryJob(w, MaxRetries, p, q), faults' \in Nat, faults <= faults'
  PROVE  (RetriesLeft /\ RetryPaid /\ RetryBudget)'
<1>0. /\ TypeOK /\ job \in JobRow /\ job.retry_count \in Nat
      /\ MaxRetries \in Nat /\ faults \in Nat
  BY PipelineAssumption DEF BudgetInv, TypeOK, JobRow
<1>1. CASE ~Owns(w)
  <2>1. job' = job /\ Moved(w, "leave", worker[w].phase, NoToken, worker[w].beat)
    BY <1>0, <1>1, TaskRetries
  <2>2. QED
    BY <1>0, <2>1 DEF BudgetInv, RetriesLeft, RetryPaid, RetryBudget, Moved
<1>2. CASE Owns(w)
  <2>1. job' = RetriedJob(job, MaxRetries)
    BY <1>0, <1>2, TaskRetries
  <2>2. job.retry_count <= MaxRetries + faults
    BY <1>2 DEF BudgetInv, RetriesLeft, Owns, HasActiveClaim
  <2>3. QED
    BY <1>0, <2>1, <2>2, JobColumns DEF RetriesLeft, RetryPaid, RetryBudget
<1>3. QED
  BY <1>1, <1>2

LEMMA BudgetStep == BudgetInv /\ [Next]_vars => BudgetInv'
<1> SUFFICES ASSUME BudgetInv, [Next]_vars
             PROVE  (RetriesLeft /\ RetryPaid /\ RetryBudget)'
  BY TypeStep DEF BudgetInv
<1> DEFINE Goal == (RetriesLeft /\ RetryPaid /\ RetryBudget)'
<1> USE DEF BudgetInv, RetriesLeft, RetryPaid, RetryBudget, Moved, IdleTask, rows, At,
            Owns, HasActiveClaim, Leave, StatementFails, Disturb,
            FailedJob, DoneJob, CanceledJob, RequeuedJob, JobStatus
<1>0. /\ TypeOK /\ job \in JobRow /\ job.retry_count \in Nat
      /\ MaxRetries \in Nat /\ job.retry_count + 1 \in Nat /\ faults \in Nat
  BY PipelineAssumption DEF TypeOK, JobRow
<1>1. ASSUME NEW w \in Worker, Start(w) PROVE Goal
  BY <1>1, <1>0, TaskMoves, StageNames DEF Start
<1>2. ASSUME NEW w \in Worker, StartFails(w) PROVE Goal
  BY <1>2, <1>0 DEF StartFails
<1>3. ASSUME NEW w \in Worker, Claim(w) PROVE Goal
  BY <1>3, <1>0, TaskClaims, JobColumns DEF LiveTokens, Claimable
<1>4. ASSUME NEW w \in Worker, Refresh(w) PROVE Goal
  BY <1>4, <1>0, TaskRefreshed, TaskMoves, StageNames, JobColumns DEF Refresh
<1>5. ASSUME NEW w \in Worker, BackgroundHeartbeat(w) PROVE Goal
  BY <1>5, <1>0, HeartbeatStops, JobColumns DEF BackgroundHeartbeat
<1>6. ASSUME NEW w \in Worker, Return(w) PROVE Goal
  BY <1>6, <1>0, TaskReturns DEF Return
<1>7. ASSUME NEW w \in Worker, Prepare(w) PROVE Goal
  <2>1. CASE RetryJob(w, MaxRetries, "leave", "fail_meeting")
    <3>1. faults' \in Nat /\ faults <= faults'
      BY <1>7, <1>0 DEF Prepare
    <3>2. QED
      BY <2>1, <3>1, RetryWithinBudget, StageNames
  <2>2. CASE ~RetryJob(w, MaxRetries, "leave", "fail_meeting")
    BY <1>7, <2>2, <1>0, TaskMoves, StageNames DEF Prepare
  <2>3. QED
    BY <2>1, <2>2
<1>8. ASSUME NEW w \in Worker, ToTranscribing(w) PROVE Goal
  BY <1>8, <1>0, TaskAdvances, StageNames DEF ToTranscribing
<1>9. ASSUME NEW w \in Worker, ToSummarizing(w) PROVE Goal
  BY <1>9, <1>0, TaskAdvances, StageNames DEF ToSummarizing
<1>10. ASSUME NEW w \in Worker, TransitionFailed(w) PROVE Goal
  BY <1>10, <1>0, TaskRetries, TaskMoves, StageNames, JobColumns, SMTT(60)
     DEF TransitionFailed
<1>11. ASSUME NEW w \in Worker, Transcribe(w) PROVE Goal
  BY <1>11, <1>0, TaskMoves, StageNames DEF Transcribe, Stage
<1>12. ASSUME NEW w \in Worker, PersistTranscript(w) PROVE Goal
  BY <1>12, <1>0, TaskPersists
<1>13. ASSUME NEW w \in Worker, MaterializeContext(w) PROVE Goal
  BY <1>13, <1>0, TaskMoves, StageNames DEF MaterializeContext, Stage
<1>14. ASSUME NEW w \in Worker, Summarize(w) PROVE Goal
  BY <1>14, <1>0, TaskMoves, StageNames DEF Summarize, Stage
<1>15. ASSUME NEW w \in Worker, StoreSummary(w) PROVE Goal
  BY <1>15, <1>0, TaskStores
<1>16. ASSUME NEW w \in Worker, RetryHeartbeat(w) PROVE Goal
  BY <1>16, <1>0, TaskMoves, StageNames, JobColumns DEF RetryHeartbeat
<1>17. ASSUME NEW w \in Worker, RestoreStopping(w) PROVE Goal
  BY <1>17, <1>0, TaskMoves, StageNames, JobColumns DEF RestoreStopping
<1>18. ASSUME NEW w \in Worker, RequeueJob(w) PROVE Goal
  <2>1. CASE RetryJob(w, MaxRetries, "leave", "fail_meeting")
    <3>1. faults' \in Nat /\ faults <= faults'
      BY <1>18, <1>0 DEF RequeueJob
    <3>2. QED
      BY <2>1, <3>1, RetryWithinBudget, StageNames
  <2>2. CASE ~RetryJob(w, MaxRetries, "leave", "fail_meeting")
    BY <1>18, <2>2, <1>0, TaskMoves, StageNames DEF RequeueJob
  <2>3. QED
    BY <2>1, <2>2
<1>19. ASSUME NEW w \in Worker, PutBack(w) PROVE Goal
  BY <1>19, <1>0, TaskMoves, StageNames DEF PutBack
<1>20. ASSUME NEW w \in Worker, InvalidTranscript(w) PROVE Goal
  BY <1>20, <1>0, TaskMoves, StageNames, JobColumns DEF InvalidTranscript
<1>21. ASSUME NEW w \in Worker, MarkMeetingFailed(w) PROVE Goal
  BY <1>21, <1>0, TaskMoves, StageNames DEF MarkMeetingFailed
<1>22. ASSUME NEW w \in Worker, Post(w) PROVE Goal
  BY <1>22, <1>0, TaskMoves, StageNames DEF Post
<1>23. ASSUME NEW w \in Worker, RepostJob(w) PROVE Goal
  <2>1. CASE RetryJob(w, MaxRetries, "reopen", "fail_meeting")
    <3>1. faults' \in Nat /\ faults <= faults'
      BY <1>23, <1>0 DEF RepostJob
    <3>2. QED
      BY <2>1, <3>1, RetryWithinBudget, StageNames
  <2>2. CASE ~RetryJob(w, MaxRetries, "reopen", "fail_meeting")
    BY <1>23, <2>2, <1>0, TaskMoves, StageNames DEF RepostJob
  <2>3. QED
    BY <2>1, <2>2
<1>24. ASSUME NEW w \in Worker, ReopenMeeting(w) PROVE Goal
  BY <1>24, <1>0, TaskMoves, StageNames DEF ReopenMeeting
<1>25. ASSUME NEW w \in Worker, Complete(w) PROVE Goal
  BY <1>25, <1>0, TaskMoves, StageNames, JobColumns DEF Complete
<1>26. ASSUME NEW w \in Worker, MarkPosted(w) PROVE Goal
  BY <1>26, <1>0, TaskMoves, StageNames DEF MarkPosted
<1>27. ASSUME NEW w \in Worker, MarkDone(w) PROVE Goal
  BY <1>27, <1>0, TaskMoves, StageNames, JobColumns DEF MarkDone
<1>28. CASE Stop
  BY <1>28, <1>0 DEF Stop
<1>29. CASE Enqueue
  BY <1>29, <1>0, JobColumns DEF Enqueue
<1>30. CASE Poll
  BY <1>30, <1>0, JobColumns DEF Poll, StaleRunning
<1>31. CASE Ready
  BY <1>31, <1>0 DEF Ready
<1>32. CASE RecoverMeeting
  BY <1>32, <1>0 DEF RecoverMeeting
<1>33. CASE RecoverJob
  BY <1>33, <1>0, JobColumns DEF RecoverJob, StaleRunning
<1>34. CASE Crash
  BY <1>34, <1>0 DEF Crash
<1>35. CASE Restart
  BY <1>35, <1>0 DEF Restart
<1>36. CASE Tick
  BY <1>36, <1>0, JobColumns DEF Tick
<1>37. CASE AdminRetry
  BY <1>37, <1>0, JobColumns DEF AdminRetry
<1>38. CASE AdminCancel
  BY <1>38, <1>0, JobColumns DEF AdminCancel
<1>39. CASE UNCHANGED vars
  BY <1>39, <1>0 DEF vars
<1>40. QED
  BY <1>1, <1>2, <1>3, <1>4, <1>5, <1>6, <1>7, <1>8, <1>9, <1>10, <1>11,
     <1>12, <1>13, <1>14, <1>15, <1>16, <1>17, <1>18, <1>19, <1>20, <1>21,
     <1>22, <1>23, <1>24, <1>25, <1>26, <1>27, <1>28, <1>29, <1>30, <1>31,
     <1>32, <1>33, <1>34, <1>35, <1>36, <1>37, <1>38, <1>39 DEF Next, Run

(* The budget holds across all tasks of the meeting, administrators' retries  *)
(* and recoveries: a limitless retry costs a disturbance.                     *)
THEOREM BudgetHolds == Spec => []RetryBudget
<1>1. Init => BudgetInv
  BY TypeInit, PipelineAssumption
     DEF Init, BudgetInv, RetriesLeft, RetryPaid, RetryBudget, AbsentJob, IdleTask
<1>2. BudgetInv => RetryBudget
  BY DEF BudgetInv
<1>3. QED
  BY <1>1, <1>2, BudgetStep, PTL DEF Spec

(***************************************************************************)
(* Where a task is and what it holds there.                                *)
(***************************************************************************)

(* The places of a task that has no claim yet, or has given it up. *)
Unclaimed == {"idle", "claim", "leave", "fail_meeting", "reopen"}

(* A task claims before it works, its phase follows its place, and it holds  *)
(* both locks while it retries or completes the job.                         *)
Placed ==
    \A w \in Worker :
        LET t == worker[w]
        IN  /\ t.pc \in {"idle", "claim"} => t.token = NoToken /\ t.beat = NoToken
            /\ t.pc \notin Unclaimed => t.token # NoToken
            /\ t.pc \in {"idle", "claim", "prepare", "to_transcribing"}
                 => t.phase = "stopping"
            /\ t.pc \in {"transcribe", "persist", "context", "to_summarizing"}
                 => t.phase = "transcribing"
            /\ t.pc \in {"summarize", "store", "post", "complete", "repost", "posted"}
                 => t.phase = "summarizing"
            /\ t.pc \in {"retry", "restore", "requeue", "put_back", "invalid", "repost",
                        "reopen", "posted", "done"} => lock = w

LEMMA PlacedStep ==
  ASSUME TypeOK, Placed, [Next]_vars
  PROVE  Placed'
<1> USE DEF Placed, Unclaimed, Moved, IdleTask, rows, Leave, At
<1>0. /\ TypeOK /\ MaxRetries \in Nat /\ job.retry_count + 1 \in Nat
      /\ Free \notin Worker
  BY PipelineAssumption DEF TypeOK, JobRow
<1>1. ASSUME NEW w \in Worker, Start(w) PROVE Placed'
  BY <1>1, <1>0, TaskMoves, StageNames DEF Start
<1>2. ASSUME NEW w \in Worker, StartFails(w) PROVE Placed'
  BY <1>2, <1>0 DEF StartFails
<1>3. ASSUME NEW w \in Worker, Claim(w) PROVE Placed'
  BY <1>3, <1>0, TaskClaims, TokenAssumption
<1>4. ASSUME NEW w \in Worker, Refresh(w) PROVE Placed'
  BY <1>4, <1>0, TaskRefreshed, TaskMoves, StageNames DEF Refresh, Refreshed
<1>5. ASSUME NEW w \in Worker, BackgroundHeartbeat(w) PROVE Placed'
  BY <1>5, <1>0, HeartbeatStops DEF BackgroundHeartbeat
<1>6. ASSUME NEW w \in Worker, Return(w) PROVE Placed'
  BY <1>6, <1>0, TaskReturns DEF Return
<1>7. ASSUME NEW w \in Worker, Prepare(w) PROVE Placed'
  BY <1>7, <1>0, TaskRetries, TaskMoves, StageNames DEF Prepare
<1>8. ASSUME NEW w \in Worker, ToTranscribing(w) PROVE Placed'
  BY <1>8, <1>0, TaskAdvances, StageNames, SMTT(60) DEF ToTranscribing
<1>9. ASSUME NEW w \in Worker, ToSummarizing(w) PROVE Placed'
  BY <1>9, <1>0, TaskAdvances, StageNames DEF ToSummarizing
<1>10. ASSUME NEW w \in Worker, TransitionFailed(w) PROVE Placed'
  BY <1>10, <1>0, TaskRetries, TaskMoves, StageNames DEF TransitionFailed
<1>11. ASSUME NEW w \in Worker, Transcribe(w) PROVE Placed'
  BY <1>11, <1>0, TaskMoves, StageNames DEF Transcribe, Stage
<1>12. ASSUME NEW w \in Worker, PersistTranscript(w) PROVE Placed'
  BY <1>12, <1>0, TaskPersists
<1>13. ASSUME NEW w \in Worker, MaterializeContext(w) PROVE Placed'
  BY <1>13, <1>0, TaskMoves, StageNames DEF MaterializeContext, Stage
<1>14. ASSUME NEW w \in Worker, Summarize(w) PROVE Placed'
  BY <1>14, <1>0, TaskMoves, StageNames DEF Summarize, Stage
<1>15. ASSUME NEW w \in Worker, StoreSummary(w) PROVE Placed'
  BY <1>15, <1>0, TaskStores
<1>16. ASSUME NEW w \in Worker, RetryHeartbeat(w) PROVE Placed'
  BY <1>16, <1>0, TaskMoves, StageNames DEF RetryHeartbeat
<1>17. ASSUME NEW w \in Worker, RestoreStopping(w) PROVE Placed'
  BY <1>17, <1>0, TaskMoves, StageNames DEF RestoreStopping
<1>18. ASSUME NEW w \in Worker, RequeueJob(w) PROVE Placed'
  BY <1>18, <1>0, TaskRetries, TaskMoves, StageNames DEF RequeueJob
<1>19. ASSUME NEW w \in Worker, PutBack(w) PROVE Placed'
  BY <1>19, <1>0, TaskMoves, StageNames DEF PutBack
<1>20. ASSUME NEW w \in Worker, InvalidTranscript(w) PROVE Placed'
  BY <1>20, <1>0, TaskMoves, StageNames DEF InvalidTranscript
<1>21. ASSUME NEW w \in Worker, MarkMeetingFailed(w) PROVE Placed'
  BY <1>21, <1>0, TaskMoves, StageNames DEF MarkMeetingFailed
<1>22. ASSUME NEW w \in Worker, Post(w) PROVE Placed'
  BY <1>22, <1>0, TaskMoves, StageNames DEF Post
<1>23. ASSUME NEW w \in Worker, RepostJob(w) PROVE Placed'
  BY <1>23, <1>0, TaskRetries, TaskMoves, StageNames DEF RepostJob
<1>24. ASSUME NEW w \in Worker, ReopenMeeting(w) PROVE Placed'
  BY <1>24, <1>0, TaskMoves, StageNames DEF ReopenMeeting
<1>25. ASSUME NEW w \in Worker, Complete(w) PROVE Placed'
  BY <1>25, <1>0, TaskMoves, StageNames DEF Complete
<1>26. ASSUME NEW w \in Worker, MarkPosted(w) PROVE Placed'
  BY <1>26, <1>0, TaskMoves, StageNames DEF MarkPosted
<1>27. ASSUME NEW w \in Worker, MarkDone(w) PROVE Placed'
  BY <1>27, <1>0, TaskMoves, StageNames DEF MarkDone
<1>28. CASE Stop
  BY <1>28, <1>0 DEF Stop
<1>29. CASE Enqueue
  BY <1>29, <1>0 DEF Enqueue
<1>30. CASE Poll
  BY <1>30, <1>0 DEF Poll
<1>31. CASE Ready
  BY <1>31, <1>0 DEF Ready
<1>32. CASE RecoverMeeting
  BY <1>32, <1>0 DEF RecoverMeeting
<1>33. CASE RecoverJob
  BY <1>33, <1>0 DEF RecoverJob
<1>34. CASE Crash
  BY <1>34, <1>0 DEF Crash
<1>35. CASE Restart
  BY <1>35, <1>0 DEF Restart
<1>36. CASE Tick
  BY <1>36, <1>0 DEF Tick
<1>37. CASE AdminRetry
  BY <1>37, <1>0 DEF AdminRetry
<1>38. CASE AdminCancel
  BY <1>38, <1>0 DEF AdminCancel
<1>39. CASE UNCHANGED vars
  BY <1>39, <1>0 DEF vars
<1>40. QED
  BY <1>1, <1>2, <1>3, <1>4, <1>5, <1>6, <1>7, <1>8, <1>9, <1>10, <1>11,
     <1>12, <1>13, <1>14, <1>15, <1>16, <1>17, <1>18, <1>19, <1>20, <1>21,
     <1>22, <1>23, <1>24, <1>25, <1>26, <1>27, <1>28, <1>29, <1>30, <1>31,
     <1>32, <1>33, <1>34, <1>35, <1>36, <1>37, <1>38, <1>39 DEF Next, Run

-----------------------------------------------------------------------------

(***************************************************************************)
(* The summary tasks use the job queue as JobQueue describes it: every     *)
(* statement of SummaryPipeline is an operation of the queue, or does not  *)
(* touch the job and the claims at all.                                    *)
(***************************************************************************)

(* The queue's operations write the same rows under both names. *)
LEMMA SameOperators ==
  /\ Queue!EnqueuedJob = EnqueuedJob /\ Queue!AbsentJob = AbsentJob
  /\ \A r : /\ Queue!HeartbeatJob(r) = HeartbeatJob(r)
            /\ Queue!DoneJob(r) = DoneJob(r) /\ Queue!FailedJob(r) = FailedJob(r)
            /\ Queue!CanceledJob(r) = CanceledJob(r) /\ Queue!RequeuedJob(r) = RequeuedJob(r)
            /\ Queue!Ticked(r) = Ticked(r)
            /\ Queue!Claimable(r) = Claimable(r) /\ Queue!StaleRunning(r) = StaleRunning(r)
  /\ \A r, t : /\ Queue!ClaimedJob(r, t) = ClaimedJob(r, t)
               /\ Queue!HasActiveClaim(r, t) = HasActiveClaim(r, t)
               /\ Queue!AdminRetriedJob(r, t) = AdminRetriedJob(r, t)
               /\ Queue!RetriedJob(r, t) = RetriedJob(r, t)
BY DEF EnqueuedJob, Queue!EnqueuedJob, AbsentJob, Queue!AbsentJob,
       HeartbeatJob, Queue!HeartbeatJob, DoneJob, Queue!DoneJob, FailedJob,
       Queue!FailedJob, CanceledJob, Queue!CanceledJob, RequeuedJob,
       Queue!RequeuedJob, Ticked, Queue!Ticked, Claimable, Queue!Claimable,
       StaleRunning, Queue!StaleRunning, ClaimedJob, Queue!ClaimedJob,
       HasActiveClaim, Queue!HasActiveClaim, AdminRetriedJob,
       Queue!AdminRetriedJob, RetriedJob, Queue!RetriedJob, Released,
       Queue!Released, RetryDelay, Queue!RetryDelay, Multiplier,
       Queue!Multiplier, Smaller, Queue!Smaller, DueForClaim,
       Queue!DueForClaim, LeaseExpired, Queue!LeaseExpired

LEMMA NoneCounted == Queue!Cardinality({}) = 0
<1>1. Queue!Cardinality({}) = Cardinality({})
  BY DEF Queue!Cardinality, Cardinality, Queue!IsFiniteSet, IsFiniteSet
<1>2. QED
  BY <1>1, FS_EmptySet

(* A single row is never earlier than another. *)
LEMMA OneRowTouched == Queue!Touch("summary")
BY DEF Queue!Touch

(* What the queue sees of a task: the copy of the job that carries its token. *)
Copy(token) == IF token = NoToken THEN NoToken ELSE [job |-> "summary", token |-> token]

Held == [w \in Worker |-> Copy(worker[w].token)]

Beat == [w \in Worker |-> Copy(worker[w].beat)]

Table == [j \in {"summary"} |-> job]

LEMMA QueueInit == Init => Queue!Init
BY SameOperators DEF Init, Queue!Init, IdleTask, AbsentJob

(* A copy is the queue's NoClaim exactly when there is no token. *)
LEMMA CopyOfToken ==
  ASSUME NEW t \in Token \cup {NoToken}
  PROVE  /\ Copy(t) = NoToken <=> t = NoToken
         /\ t # NoToken => Copy(t).job = "summary" /\ Copy(t).token = t
<1>1. t # NoToken => [job |-> "summary", token |-> t] \in [job : {"summary"}, token : Token]
  OBVIOUS
<1>2. QED
  BY <1>1, PipelineAssumption DEF Copy

(* The claims and the heartbeats of all tasks are what they were. *)
SameClaims == \A v \in Worker : worker'[v].token = worker[v].token

SameBeats == \A v \in Worker : worker'[v].beat = worker[v].beat

(* A step of the queue, or none. *)
QueueStep == Queue!Next \/ UNCHANGED Queue!vars

LEMMA QueueIdle ==
  ASSUME job' = job, SameClaims, SameBeats
  PROVE  QueueStep
BY DEF QueueStep, Queue!vars, SameClaims, SameBeats

LEMMA QueueOwns ==
  ASSUME TypeOK, NEW w \in Worker
  PROVE  /\ Held[w] = NoToken <=> worker[w].token = NoToken
         /\ Beat[w] = NoToken <=> worker[w].beat = NoToken
         /\ Held[w] # NoToken => Held[w].job = "summary" /\ Held[w].token = worker[w].token
         /\ Beat[w] # NoToken => Beat[w].job = "summary" /\ Beat[w].token = worker[w].beat
         /\ Queue!Owns(Held[w]) <=> Owns(w)
         /\ Queue!Owns(Beat[w])
              <=> worker[w].beat # NoToken /\ HasActiveClaim(job, worker[w].beat)
<1>1. worker[w].token \in Token \cup {NoToken} /\ worker[w].beat \in Token \cup {NoToken}
  BY DEF TypeOK, Task
<1>2. /\ Held[w] = NoToken <=> worker[w].token = NoToken
      /\ Beat[w] = NoToken <=> worker[w].beat = NoToken
      /\ Held[w] # NoToken => Held[w].job = "summary" /\ Held[w].token = worker[w].token
      /\ Beat[w] # NoToken => Beat[w].job = "summary" /\ Beat[w].token = worker[w].beat
  BY <1>1, CopyOfToken DEF Held, Beat
<1>3. QED
  BY <1>2, SameOperators DEF Queue!Owns, Owns

(* The step changes the copy of one task. *)
LEMMA CopyChanges ==
  ASSUME NEW w \in Worker
  PROVE  /\ (\A v \in Worker : v # w => worker'[v].token = worker[v].token)
              => Held' = [Held EXCEPT ![w] = Copy(worker'[w].token)]
         /\ (\A v \in Worker : v # w => worker'[v].beat = worker[v].beat)
              => Beat' = [Beat EXCEPT ![w] = Copy(worker'[w].beat)]
BY DEF Held, Beat

LEMMA CopiesKept ==
  /\ SameClaims => Held' = Held
  /\ SameBeats => Beat' = Beat
  /\ Table' = [Table EXCEPT !["summary"] = job'] /\ Table["summary"] = job
BY DEF Held, Beat, Table, SameClaims, SameBeats

LEMMA QueueHeartbeat ==
  ASSUME TypeOK, NEW w \in Worker, SameBeats, worker[w].token # NoToken,
         \/ Owns(w) /\ job' = HeartbeatJob(job) /\ SameClaims
         \/ /\ ~Owns(w) /\ job' = job /\ worker'[w].token = NoToken
            /\ \A v \in Worker : v # w => worker'[v].token = worker[v].token
  PROVE  Queue!Heartbeat(w)
<1>1. /\ Held[w] # NoToken /\ Held[w].job = "summary"
      /\ Queue!Owns(Held[w]) <=> Owns(w)
  BY QueueOwns
<1>2. Beat' = Beat /\ Table["summary"] = job /\ Table' = [Table EXCEPT !["summary"] = job']
  BY CopyChanges, CopiesKept DEF Table
<1>3. IF Owns(w) THEN Table' = [Table EXCEPT !["summary"] = HeartbeatJob(job)] /\ Held' = Held
      ELSE Held' = [Held EXCEPT ![w] = NoToken] /\ Table' = Table
  BY <1>2, CopyChanges, CopiesKept DEF Copy, Table
<1>4. (job.status = "absent") <=> (job'.status = "absent")
  BY JobColumns DEF TypeOK
<1>5. QED
  BY <1>1, <1>2, <1>3, <1>4, OneRowTouched, SameOperators
     DEF Queue!Heartbeat, Queue!SetRow, Queue!order, Held, Beat, Table, Copy

LEMMA QueueBackgroundHeartbeat ==
  ASSUME TypeOK, NEW w \in Worker, BackgroundHeartbeat(w)
  PROVE  Queue!BackgroundHeartbeat(w)
<1>1. /\ Beat[w] # NoToken /\ Beat[w].job = "summary"
      /\ Queue!Owns(Beat[w]) <=> HasActiveClaim(job, worker[w].beat)
  BY QueueOwns DEF BackgroundHeartbeat
<1>2. SameClaims
  BY HeartbeatStops DEF BackgroundHeartbeat, Moved, SameClaims
<1>3. Held' = Held /\ Table["summary"] = job /\ Table' = [Table EXCEPT !["summary"] = job']
  BY <1>2, CopyChanges, CopiesKept DEF Table
<1>4. IF HasActiveClaim(job, worker[w].beat)
      THEN Table' = [Table EXCEPT !["summary"] = HeartbeatJob(job)] /\ Beat' = Beat
      ELSE Beat' = [Beat EXCEPT ![w] = NoToken] /\ Table' = Table
  <2>1. CASE HasActiveClaim(job, worker[w].beat)
    BY <2>1, <1>3, CopyChanges, CopiesKept DEF BackgroundHeartbeat, SameBeats
  <2>2. CASE ~HasActiveClaim(job, worker[w].beat)
    <3>1. Moved(w, worker[w].pc, worker[w].phase, worker[w].token, NoToken) /\ job' = job
      BY <2>2, HeartbeatStops DEF BackgroundHeartbeat
    <3>2. QED
      BY <2>2, <3>1, CopyChanges, CopiesKept DEF Moved, Copy, Table
  <2>3. QED
    BY <2>1, <2>2
<1>5. (job.status = "absent") <=> (job'.status = "absent")
  BY JobColumns DEF TypeOK, BackgroundHeartbeat
<1>6. QED
  BY <1>1, <1>3, <1>4, <1>5, OneRowTouched, SameOperators
     DEF Queue!BackgroundHeartbeat, Queue!SetRow, Queue!order, Held, Beat, Table, Copy

(* The claim is given up, and the row is what the operation wrote, or as it   *)
(* was when the operation was refused.                                        *)
LEMMA ClaimEnds ==
  ASSUME TypeOK, NEW w \in Worker, NEW p, NEW r \in JobRow,
         Moved(w, p, worker[w].phase, NoToken, worker[w].beat),
         worker[w].token # NoToken, r.status # "absent",
         job' = IF Owns(w) THEN r ELSE job
  PROVE  /\ Held[w] # NoToken /\ Held[w].job = "summary"
         /\ Queue!Owns(Held[w]) <=> Owns(w)
         /\ Beat' = Beat /\ Held' = [Held EXCEPT ![w] = NoToken]
         /\ IF Owns(w) THEN Table' = [Table EXCEPT !["summary"] = r] ELSE Table' = Table
         /\ (job.status = "absent") <=> (job'.status = "absent")
<1>1. Held[w] # NoToken /\ Held[w].job = "summary" /\ (Queue!Owns(Held[w]) <=> Owns(w))
  BY QueueOwns
<1>2. SameBeats /\ \A v \in Worker : v # w => worker'[v].token = worker[v].token
  BY DEF Moved, SameBeats
<1>3. /\ Beat' = Beat /\ Held' = [Held EXCEPT ![w] = NoToken]
      /\ Table' = [Table EXCEPT !["summary"] = job'] /\ Table["summary"] = job
  BY <1>2, CopyChanges, CopiesKept DEF Moved, Copy, Table
<1>4. IF Owns(w) THEN Table' = [Table EXCEPT !["summary"] = r] ELSE Table' = Table
  BY <1>3 DEF Table
<1>5. (job.status = "absent") <=> (job'.status = "absent")
  BY DEF Owns, HasActiveClaim
<1>6. QED
  BY <1>1, <1>3, <1>4, <1>5

LEMMA QueueMarks ==
  ASSUME TypeOK, NEW w \in Worker, NEW p,
         Moved(w, p, worker[w].phase, NoToken, worker[w].beat)
  PROVE  /\ job' = (IF Owns(w) THEN DoneJob(job) ELSE job) => QueueStep
         /\ job' = (IF Owns(w) THEN FailedJob(job) ELSE job) => QueueStep
         /\ \A m \in 0..(MaxRetries + MaxFaults + 1) :
              job' = (IF Owns(w) THEN RetriedJob(job, m) ELSE job) => QueueStep
<1>0. job \in JobRow /\ Table["summary"] = job /\ MaxRetries + MaxFaults + 1 \in Nat
  BY PipelineAssumption DEF TypeOK, Table
<1>1. CASE worker[w].token = NoToken
  <2>1. ~Owns(w) /\ SameClaims /\ SameBeats
    BY <1>1 DEF Owns, Moved, SameClaims, SameBeats
  <2>2. QED
    BY <2>1, QueueIdle
<1>2. CASE worker[w].token # NoToken
  <2>1. ASSUME job' = IF Owns(w) THEN DoneJob(job) ELSE job PROVE QueueStep
    <3>1. /\ Held[w] # NoToken /\ Held[w].job = "summary"
          /\ Queue!Owns(Held[w]) <=> Owns(w)
          /\ Beat' = Beat /\ Held' = [Held EXCEPT ![w] = NoToken]
          /\ IF Owns(w) THEN Table' = [Table EXCEPT !["summary"] = DoneJob(job)]
             ELSE Table' = Table
          /\ (job.status = "absent") <=> (job'.status = "absent")
      BY <1>0, <1>2, <2>1, ClaimEnds, JobWrites, JobColumns DEF DoneJob, JobStatus
    <3>2. Queue!MarkDone(w)
      BY <1>0, <3>1, SameOperators
         DEF Queue!MarkDone, Queue!EndClaim, Queue!SetRow, Queue!order, Held, Beat, Copy, Table
    <3>3. QED
      BY <3>2 DEF QueueStep, Queue!Next, Queue!WorkerStep
  <2>2. ASSUME job' = IF Owns(w) THEN FailedJob(job) ELSE job PROVE QueueStep
    <3>1. /\ Held[w] # NoToken /\ Held[w].job = "summary"
          /\ Queue!Owns(Held[w]) <=> Owns(w)
          /\ Beat' = Beat /\ Held' = [Held EXCEPT ![w] = NoToken]
          /\ IF Owns(w) THEN Table' = [Table EXCEPT !["summary"] = FailedJob(job)]
             ELSE Table' = Table
          /\ (job.status = "absent") <=> (job'.status = "absent")
      BY <1>0, <1>2, <2>2, ClaimEnds, JobWrites, JobColumns DEF FailedJob, JobStatus
    <3>2. Queue!MarkFailed(w)
      BY <1>0, <3>1, SameOperators
         DEF Queue!MarkFailed, Queue!EndClaim, Queue!SetRow, Queue!order, Held, Beat, Copy, Table
    <3>3. QED
      BY <3>2 DEF QueueStep, Queue!Next, Queue!WorkerStep
  <2>3. ASSUME NEW m \in 0..(MaxRetries + MaxFaults + 1),
               job' = IF Owns(w) THEN RetriedJob(job, m) ELSE job
         PROVE QueueStep
    <3>1. /\ Held[w] # NoToken /\ Held[w].job = "summary"
          /\ Queue!Owns(Held[w]) <=> Owns(w)
          /\ Beat' = Beat /\ Held' = [Held EXCEPT ![w] = NoToken]
          /\ IF Owns(w) THEN Table' = [Table EXCEPT !["summary"] = RetriedJob(job, m)]
             ELSE Table' = Table
          /\ (job.status = "absent") <=> (job'.status = "absent")
      BY <1>0, <1>2, <2>3, ClaimEnds, JobWrites, JobColumns
    <3>2. Queue!Retry(w)
      BY <1>0, <3>1, SameOperators
         DEF Queue!Retry, Queue!EndClaim, Queue!SetRow, Queue!order, Held, Beat, Copy, Table
    <3>3. QED
      BY <3>2 DEF QueueStep, Queue!Next, Queue!WorkerStep
  <2>4. QED
    BY <2>1, <2>2, <2>3
<1>3. QED
  BY <1>1, <1>2

(* The steps that write the row and leave every copy alone. *)
LEMMA QueueRow ==
  ASSUME TypeOK, SameClaims, SameBeats,
         \/ job.status = "absent" /\ job' = EnqueuedJob
         \/ job.status = "queued" /\ job' = CanceledJob(job)
         \/ job.status \in {"failed", "canceled"} /\ job' = AdminRetriedJob(job, 0)
         \/ StaleRunning(job) /\ job' = RequeuedJob(job)
         \/ job' = Ticked(job) /\ job' # job
  PROVE  QueueStep
<1>0. /\ job \in JobRow /\ Held' = Held /\ Beat' = Beat
      /\ Table["summary"] = job /\ Table' = [Table EXCEPT !["summary"] = job']
      /\ Table' = [j \in {"summary"} |-> job']
      /\ Queue!Cardinality({}) = 0
  BY CopiesKept, NoneCounted DEF Table, TypeOK
<1>1. CASE job.status = "absent" /\ job' = EnqueuedJob
  <2>1. {k \in {"summary"} : Table[k].status # "absent"} = {}
    BY <1>0, <1>1
  <2>2. job'.status = "queued"
    BY <1>0, <1>1, JobColumns
  <2>3. Queue!Enqueue("summary")
    BY <1>0, <1>1, <2>1, <2>2, SameOperators, SMTT(60)
       DEF Queue!Enqueue, Queue!SetRow, Queue!order, Held, Beat, Copy, Table
  <2>4. QED
    BY <2>3 DEF QueueStep, Queue!Next, Queue!JobStep
<1>2. CASE job.status = "queued" /\ job' = CanceledJob(job)
  <2>1. job'.status = "canceled"
    BY <1>0, <1>2, JobColumns DEF CanceledJob, JobStatus
  <2>2. Queue!Cancel("summary")
    BY <1>0, <1>2, <2>1, SameOperators
       DEF Queue!Cancel, Queue!SetRow, Queue!order, Held, Beat, Copy, Table
  <2>3. QED
    BY <2>2 DEF QueueStep, Queue!Next, Queue!JobStep
<1>3. CASE job.status \in {"failed", "canceled"} /\ job' = AdminRetriedJob(job, 0)
  <2>1. job'.status = "queued"
    BY <1>0, <1>3, JobColumns
  <2>2. Queue!AdminRetry("summary")
    BY <1>0, <1>3, <2>1, SameOperators
       DEF Queue!AdminRetry, Queue!SetRow, Queue!order, Held, Beat, Copy, Table
  <2>3. QED
    BY <2>2 DEF QueueStep, Queue!Next, Queue!JobStep
<1>4. CASE StaleRunning(job) /\ job' = RequeuedJob(job)
  <2>1. job.status = "running" /\ job'.status = "queued"
    BY <1>0, <1>4, JobColumns DEF StaleRunning, RequeuedJob, JobStatus
  <2>2. Queue!Stale = {"summary"}
    BY <1>0, <1>4, SameOperators DEF Queue!Stale
  <2>3. Queue!Recovered = {"summary"}
    <3>1. {k \in {"summary"} : 1 < 1} = {}
      OBVIOUS
    <3>2. QED
      BY <1>0, <2>1, <2>2, <3>1 DEF Queue!Recovered
  <2>4. Queue!RecoverStaleRunning
    BY <1>0, <1>4, <2>1, <2>2, <2>3, SameOperators
       DEF Queue!RecoverStaleRunning, Queue!order, Held, Beat, Copy, Table
  <2>5. QED
    BY <2>4 DEF QueueStep, Queue!Next
<1>5. CASE job' = Ticked(job) /\ job' # job
  <2>1. job'.status = job.status
    BY <1>0, <1>5, JobColumns
  <2>2. Queue!Tick
    BY <1>0, <1>5, <2>1, SameOperators DEF Queue!Tick, Queue!order, Held, Beat, Copy, Table
  <2>3. QED
    BY <2>2 DEF QueueStep, Queue!Next
<1>6. QED
  BY <1>1, <1>2, <1>3, <1>4, <1>5

(* A claim: the copy's token is one no row and no copy carries. *)
LEMMA QueueClaim ==
  ASSUME TypeOK, NEW w \in Worker, NEW p, NEW t \in Token \ LiveTokens, Claimable(job),
         worker[w].token = NoToken, worker[w].beat = NoToken,
         job' = ClaimedJob(job, t), Moved(w, p, worker[w].phase, t, t)
  PROVE  QueueStep
<1>1. /\ Held[w] = NoToken /\ Beat[w] = NoToken
      /\ Held' = [Held EXCEPT ![w] = Copy(t)] /\ Beat' = [Beat EXCEPT ![w] = Copy(t)]
      /\ Table["summary"] = job /\ Table' = [Table EXCEPT !["summary"] = job']
  BY QueueOwns, CopyChanges, CopiesKept DEF Moved, Table
<1>2. Copy(t) = [job |-> "summary", token |-> t]
  BY TokenAssumption DEF Copy
<1>3. job.status = "queued" /\ job'.status = "running"
  BY JobColumns DEF TypeOK, Claimable
<1>4. t \notin Queue!LiveTokens
  <2>1. t # job.claim_token /\ \A v \in Worker : t # worker[v].token /\ t # worker[v].beat
    BY DEF LiveTokens
  <2>2. \A v \in Worker : /\ Held[v] # NoToken => Held[v].token # t
                          /\ Beat[v] # NoToken => Beat[v].token # t
    BY <2>1, QueueOwns
  <2>3. Queue!LiveTokens
          = {Table[j].claim_token : j \in {"summary"}}
              \cup {c.token : c \in {Held[v] : v \in Worker} \ {NoToken}}
              \cup {c.token : c \in {Beat[v] : v \in Worker} \ {NoToken}}
    BY DEF Queue!LiveTokens, Held, Beat, Copy, Table
  <2>4. /\ \A c \in {Held[v] : v \in Worker} \ {NoToken} : c.token # t
        /\ \A c \in {Beat[v] : v \in Worker} \ {NoToken} : c.token # t
    BY <2>2
  <2>5. Table["summary"].claim_token # t
    BY <1>1, <2>1
  <2>6. QED
    BY <2>3, <2>4, <2>5
<1>5. Queue!TakeJob(w, "summary")
  BY <1>1, <1>2, <1>3, <1>4, OneRowTouched, SameOperators
     DEF Queue!TakeJob, Queue!SetRow, Queue!order, Held, Beat, Copy, Table
<1>6. Queue!ClaimById(w, "summary")
  BY <1>1, <1>5, SameOperators DEF Queue!ClaimById, Held, Beat, Copy, Table
<1>7. QED
  BY <1>6 DEF QueueStep, Queue!Next, Queue!WorkerStep

(* Tasks that are gone take their copies with them. *)
LEMMA QueueVanish ==
  ASSUME TypeOK, NEW gone \in SUBSET Worker, job' = job,
         \A v \in gone : worker'[v].token = NoToken /\ worker'[v].beat = NoToken,
         \A v \in Worker \ gone : /\ worker'[v].token = worker[v].token
                                  /\ worker'[v].beat = worker[v].beat
  PROVE  QueueStep
<1>1. CASE \E v \in gone : worker[v].token # NoToken \/ worker[v].beat # NoToken
  <2>1. \E v \in gone : Held[v] # NoToken \/ Beat[v] # NoToken
    BY <1>1, QueueOwns
  <2>2. /\ Held' = [v \in Worker |-> IF v \in gone THEN NoToken ELSE Held[v]]
        /\ Beat' = [v \in Worker |-> IF v \in gone THEN NoToken ELSE Beat[v]]
        /\ Table' = Table
    BY DEF Held, Beat, Copy, Table
  <2>3. Queue!Vanish(gone)
    BY <2>1, <2>2 DEF Queue!Vanish, Queue!order, Held, Beat, Copy, Table
  <2>4. QED
    BY <2>3 DEF QueueStep, Queue!Next
<1>2. CASE \A v \in gone : worker[v].token = NoToken /\ worker[v].beat = NoToken
  BY <1>2, QueueIdle DEF SameClaims, SameBeats
<1>3. QED
  BY <1>1, <1>2

(***************************************************************************)
(* What a statement does to the task's claim, and the operation it is.     *)
(***************************************************************************)

LEMMA MoveIsIdle ==
  ASSUME NEW w \in Worker, NEW p, NEW f, job' = job,
         Moved(w, p, f, worker[w].token, worker[w].beat)
  PROVE  QueueStep
BY QueueIdle DEF Moved, SameClaims, SameBeats

LEMMA MoveIsRefusal ==
  ASSUME TypeOK, NEW w \in Worker, NEW p, ~Owns(w), job' = job,
         Moved(w, p, worker[w].phase, NoToken, worker[w].beat)
  PROVE  QueueStep
BY QueueMarks

LEMMA MoveIsHeartbeat ==
  ASSUME TypeOK, NEW w \in Worker, NEW p, NEW f, Owns(w), job' = HeartbeatJob(job),
         Moved(w, p, f, worker[w].token, worker[w].beat)
  PROVE  QueueStep
<1>1. SameClaims /\ SameBeats /\ worker[w].token # NoToken
  BY DEF Moved, SameClaims, SameBeats, Owns
<1>2. Queue!Heartbeat(w)
  BY <1>1, QueueHeartbeat
<1>3. QED
  BY <1>2 DEF QueueStep, Queue!Next, Queue!WorkerStep

LEMMA MoveIsRetry ==
  ASSUME TypeOK, NEW w \in Worker, NEW m \in Nat, NEW p \in Stages, NEW q \in Stages,
         RetryJob(w, m, p, q),
         Owns(w) => m \in 0..(MaxRetries + MaxFaults + 1)
  PROVE  QueueStep
<1>1. CASE Owns(w)
  <2>1. PICK s \in Stages : /\ job' = RetriedJob(job, m)
                            /\ Moved(w, s, worker[w].phase, NoToken, worker[w].beat)
    BY <1>1, TaskRetries
  <2>2. QED
    BY <1>1, <2>1, QueueMarks
<1>2. CASE ~Owns(w)
  BY <1>2, TaskRetries, MoveIsRefusal
<1>3. QED
  BY <1>1, <1>2

RefinementInv == BudgetInv /\ Placed

LEMMA PipelineStep ==
  ASSUME RefinementInv, [Next]_vars
  PROVE  QueueStep
<1>0. /\ TypeOK /\ MaxRetries \in Nat /\ job.retry_count + 1 \in Nat
      /\ MaxRetries \in 0..(MaxRetries + MaxFaults + 1)
      /\ \A w \in Worker : Owns(w) =>
           job.retry_count + 1 \in 0..(MaxRetries + MaxFaults + 1)
      /\ job.status \in {"queued", "running"} =>
           job.retry_count + 1 \in 0..(MaxRetries + MaxFaults + 1)
  BY PipelineAssumption DEF RefinementInv, BudgetInv, RetriesLeft, TypeOK, JobRow,
     Owns, HasActiveClaim
<1> USE DEF rows, Leave
<1>1. ASSUME NEW w \in Worker, Start(w) PROVE QueueStep
  BY <1>1, <1>0, TaskMoves, StageNames, MoveIsIdle DEF Start
<1>2. ASSUME NEW w \in Worker, StartFails(w) PROVE QueueStep
  BY <1>2, <1>0, QueueIdle DEF StartFails, SameClaims, SameBeats
<1>3. ASSUME NEW w \in Worker, Claim(w) PROVE QueueStep
  <2>1. worker[w].token = NoToken /\ worker[w].beat = NoToken
    BY <1>3, <1>0, TaskClaims DEF At, RefinementInv, Placed
  <2>2. CASE job' = job /\ Moved(w, "idle", "stopping", NoToken, NoToken)
    BY <1>0, <2>1, <2>2, MoveIsIdle
  <2>3. CASE /\ Claimable(job)
             /\ \E t \in Token \ LiveTokens :
                  job' = ClaimedJob(job, t) /\ Moved(w, "prepare", worker[w].phase, t, t)
    BY <1>0, <2>1, <2>3, QueueClaim
  <2>4. QED
    BY <1>3, <1>0, <2>2, <2>3, TaskClaims
<1>4. ASSUME NEW w \in Worker, Refresh(w) PROVE QueueStep
  BY <1>4, <1>0, TaskRefreshed, TaskMoves, StageNames, MoveIsIdle,
     MoveIsHeartbeat, MoveIsRefusal DEF Refresh
<1>5. ASSUME NEW w \in Worker, BackgroundHeartbeat(w) PROVE QueueStep
  BY <1>5, <1>0, QueueBackgroundHeartbeat DEF QueueStep, Queue!Next, Queue!WorkerStep
<1>6. ASSUME NEW w \in Worker, Return(w) PROVE QueueStep
  <2>1. Moved(w, "idle", "stopping", NoToken, NoToken)
    BY <1>6, <1>0, TaskReturns DEF Return
  <2>2. /\ {w} \in SUBSET Worker /\ job' = job
        /\ \A v \in {w} : worker'[v].token = NoToken /\ worker'[v].beat = NoToken
        /\ \A v \in Worker \ {w} : /\ worker'[v].token = worker[v].token
                                   /\ worker'[v].beat = worker[v].beat
    BY <1>6, <2>1 DEF Return, Moved
  <2>3. QED
    BY <1>0, <2>2, QueueVanish
<1>7. ASSUME NEW w \in Worker, Prepare(w) PROVE QueueStep
  BY <1>7, <1>0, TaskRetries, TaskMoves, StageNames, MoveIsIdle, MoveIsRetry
     DEF Prepare
<1>8. ASSUME NEW w \in Worker, ToTranscribing(w) PROVE QueueStep
  BY <1>8, <1>0, TaskAdvances, StageNames, MoveIsIdle DEF ToTranscribing
<1>9. ASSUME NEW w \in Worker, ToSummarizing(w) PROVE QueueStep
  BY <1>9, <1>0, TaskAdvances, StageNames, MoveIsIdle DEF ToSummarizing
<1>10. ASSUME NEW w \in Worker, TransitionFailed(w) PROVE QueueStep
  BY <1>10, <1>0, TaskRetries, TaskMoves, StageNames, MoveIsIdle, MoveIsRetry,
     QueueMarks DEF TransitionFailed
<1>11. ASSUME NEW w \in Worker, Transcribe(w) PROVE QueueStep
  BY <1>11, <1>0, TaskMoves, StageNames, MoveIsIdle DEF Transcribe, Stage
<1>12. ASSUME NEW w \in Worker, PersistTranscript(w) PROVE QueueStep
  BY <1>12, <1>0, TaskPersists, MoveIsIdle
<1>13. ASSUME NEW w \in Worker, MaterializeContext(w) PROVE QueueStep
  BY <1>13, <1>0, TaskMoves, StageNames, MoveIsIdle
     DEF MaterializeContext, Stage
<1>14. ASSUME NEW w \in Worker, Summarize(w) PROVE QueueStep
  BY <1>14, <1>0, TaskMoves, StageNames, MoveIsIdle DEF Summarize, Stage
<1>15. ASSUME NEW w \in Worker, StoreSummary(w) PROVE QueueStep
  BY <1>15, <1>0, TaskStores, MoveIsIdle
<1>16. ASSUME NEW w \in Worker, RetryHeartbeat(w) PROVE QueueStep
  BY <1>16, <1>0, TaskMoves, StageNames, MoveIsIdle, MoveIsHeartbeat,
     MoveIsRefusal DEF RetryHeartbeat
<1>17. ASSUME NEW w \in Worker, RestoreStopping(w) PROVE QueueStep
  BY <1>17, <1>0, TaskMoves, StageNames, MoveIsIdle, QueueMarks
     DEF RestoreStopping
<1>18. ASSUME NEW w \in Worker, RequeueJob(w) PROVE QueueStep
  BY <1>18, <1>0, TaskRetries, TaskMoves, StageNames, MoveIsIdle, MoveIsRetry
     DEF RequeueJob
<1>19. ASSUME NEW w \in Worker, PutBack(w) PROVE QueueStep
  BY <1>19, <1>0, TaskMoves, StageNames, MoveIsIdle DEF PutBack
<1>20. ASSUME NEW w \in Worker, InvalidTranscript(w) PROVE QueueStep
  BY <1>20, <1>0, TaskMoves, StageNames, MoveIsIdle, QueueMarks
     DEF InvalidTranscript
<1>21. ASSUME NEW w \in Worker, MarkMeetingFailed(w) PROVE QueueStep
  BY <1>21, <1>0, TaskMoves, StageNames, MoveIsIdle DEF MarkMeetingFailed
<1>22. ASSUME NEW w \in Worker, Post(w) PROVE QueueStep
  BY <1>22, <1>0, TaskMoves, StageNames, MoveIsIdle DEF Post
<1>23. ASSUME NEW w \in Worker, RepostJob(w) PROVE QueueStep
  BY <1>23, <1>0, TaskRetries, TaskMoves, StageNames, MoveIsIdle, MoveIsRetry
     DEF RepostJob
<1>24. ASSUME NEW w \in Worker, ReopenMeeting(w) PROVE QueueStep
  BY <1>24, <1>0, TaskMoves, StageNames, MoveIsIdle DEF ReopenMeeting
<1>25. ASSUME NEW w \in Worker, Complete(w) PROVE QueueStep
  BY <1>25, <1>0, TaskMoves, StageNames, MoveIsIdle, MoveIsHeartbeat,
     MoveIsRefusal DEF Complete
<1>26. ASSUME NEW w \in Worker, MarkPosted(w) PROVE QueueStep
  BY <1>26, <1>0, TaskMoves, StageNames, MoveIsIdle DEF MarkPosted
<1>27. ASSUME NEW w \in Worker, MarkDone(w) PROVE QueueStep
  BY <1>27, <1>0, TaskMoves, StageNames, MoveIsIdle, QueueMarks DEF MarkDone
<1>28. CASE Stop
  BY <1>28, <1>0, QueueIdle DEF Stop, SameClaims, SameBeats
<1>29. CASE Enqueue
  BY <1>29, <1>0, QueueRow, QueueIdle DEF Enqueue, SameClaims, SameBeats
<1>30. CASE Poll
  BY <1>30, <1>0, QueueRow, QueueIdle DEF Poll, SameClaims, SameBeats
<1>31. CASE Ready
  BY <1>31, <1>0, QueueIdle DEF Ready, SameClaims, SameBeats
<1>32. CASE RecoverMeeting
  BY <1>32, <1>0, QueueIdle DEF RecoverMeeting, SameClaims, SameBeats
<1>33. CASE RecoverJob
  BY <1>33, <1>0, QueueRow, QueueIdle DEF RecoverJob, SameClaims, SameBeats
<1>34. CASE Crash
  <2>1. \A v \in Worker : worker'[v].token = NoToken /\ worker'[v].beat = NoToken
    BY <1>34 DEF Crash, IdleTask
  <2>2. QED
    BY <1>34, <1>0, <2>1, QueueVanish DEF Crash
<1>35. CASE Restart
  BY <1>35, <1>0, QueueIdle DEF Restart, SameClaims, SameBeats
<1>36. CASE Tick
  BY <1>36, <1>0, QueueRow, QueueIdle DEF Tick, SameClaims, SameBeats
<1>37. CASE AdminRetry
  BY <1>37, <1>0, QueueRow, QueueIdle DEF AdminRetry, SameClaims, SameBeats
<1>38. CASE AdminCancel
  BY <1>38, <1>0, QueueRow, QueueIdle DEF AdminCancel, SameClaims, SameBeats
<1>39. CASE UNCHANGED vars
  BY <1>39, <1>0, QueueIdle DEF vars, SameClaims, SameBeats
<1>40. QED
  BY <1>1, <1>2, <1>3, <1>4, <1>5, <1>6, <1>7, <1>8, <1>9, <1>10, <1>11,
     <1>12, <1>13, <1>14, <1>15, <1>16, <1>17, <1>18, <1>19, <1>20, <1>21,
     <1>22, <1>23, <1>24, <1>25, <1>26, <1>27, <1>28, <1>29, <1>30, <1>31,
     <1>32, <1>33, <1>34, <1>35, <1>36, <1>37, <1>38, <1>39 DEF Next, Run

(* What a task may rely on when it claims, refreshes, retries or ends a job   *)
(* is what JobQueue says of it: every behaviour of the pipeline, seen through *)
(* the job row and the tokens of the tasks, is a behaviour of the job queue.  *)
THEOREM PipelineImplementsQueue == Spec => ImplementsQueue
<1>1. Init => RefinementInv
  BY TypeInit, PipelineAssumption
     DEF Init, RefinementInv, Placed, Unclaimed, BudgetInv, RetriesLeft, RetryPaid, RetryBudget,
         AbsentJob, IdleTask
<1>2. RefinementInv /\ [Next]_vars => RefinementInv'
  BY PlacedStep, BudgetStep DEF RefinementInv, BudgetInv
<1>3. RefinementInv /\ [Next]_vars => [Queue!Next]_(Queue!vars)
  BY PipelineStep DEF QueueStep
<1>4. QED
  BY <1>1, <1>2, <1>3, QueueInit, PTL DEF Spec, ImplementsQueue, Queue!Spec

-----------------------------------------------------------------------------

(***************************************************************************)
(* A run of SummaryPipeline that nothing disturbs posts one notice: for    *)
(* every number of tasks and tokens, every retry limit, and whatever       *)
(* stages fail, are retried, canceled and retried by administrators.       *)
(***************************************************************************)

(* The status of the meeting while the task that owns the job is at its pc. *)
StatusAt(w) ==
    IF worker[w].pc = "requeue" THEN "stopping"
    ELSE IF worker[w].pc = "done" THEN "posted" ELSE worker[w].phase

(* A task with a claim still owns the job, with a live heartbeat, and the    *)
(* meeting is where it left it; it is the only one.                          *)
OwnerKnown ==
    /\ \A w \in Worker : worker[w].token # NoToken =>
        /\ Owns(w) /\ worker[w].beat = worker[w].token
        /\ worker[w].pc \notin Unclaimed \cup {"conflict", "transition_error", "put_back"}
        /\ meeting = StatusAt(w)
    /\ \A v, w \in Worker :
        worker[v].token # NoToken /\ worker[w].token # NoToken => v = w
    /\ job.status = "running" => \E w \in Worker : worker[w].token # NoToken

(* A job waits in the queue only for a stopping meeting, or for one that the *)
(* task which put it back is about to reopen, under the locks.               *)
QueuedIsStopping ==
    /\ job.status = "queued" =>
         meeting = "stopping" \/ \E w \in Worker : worker[w].pc = "reopen"
    /\ \A w \in Worker : worker[w].pc = "reopen" =>
         meeting = "summarizing" /\ job.status \in {"queued", "canceled"}

(* One task fails the meeting of a failed job, before anybody can retry it. *)
FailureIsLast ==
    /\ \A w \in Worker : worker[w].pc = "fail_meeting" =>
         meeting \in SummaryStates /\ job.status = "failed"
    /\ \A v, w \in Worker :
         worker[v].pc = "fail_meeting" /\ worker[w].pc = "fail_meeting" => v = w

(* Before the job is enqueued. *)
NotYetQueued ==
    /\ meeting = "recording" => job.status = "absent" /\ ~pending
    /\ job.status = "absent" => meeting \in {"recording", "stopping"}

(* After the notice only the completion of the job is left. *)
NoticeIsLast ==
    /\ posts \in {0, 1}
    /\ posts = 1 => \/ job.status = "done"
                    \/ \E w \in Worker : worker[w].pc \in {"complete", "posted", "done"}

(* Nothing restarts the process or runs recovery. *)
ProcessQuiet == up /\ recovery = "none"

Calm ==
    /\ ProcessQuiet /\ OwnerKnown /\ QueuedIsStopping /\ FailureIsLast /\ NotYetQueued
    /\ NoticeIsLast

CalmInv == TypeOK /\ Placed /\ (faults = 0 => Calm)

(* What the invariant says of a task at work. *)
LEMMA OwnerAlone ==
  ASSUME TypeOK, Placed, Calm, NEW w \in Worker, worker[w].pc \notin Unclaimed
  PROVE  /\ worker[w].token # NoToken /\ Owns(w) /\ worker[w].beat = worker[w].token
         /\ job.status = "running" /\ job.claim_token = worker[w].token
         /\ job.leased_until # 0
         /\ worker[w].pc \notin {"conflict", "transition_error", "put_back"}
         /\ meeting = StatusAt(w)
         /\ \A v \in Worker : v # w =>
              worker[v].token = NoToken /\ worker[v].pc \in Unclaimed \ {"reopen", "fail_meeting"}
         /\ posts \in {0, 1}
         /\ posts = 1 => worker[w].pc \in {"complete", "posted", "done"}
         /\ meeting # "recording"
<1>1. worker[w].token # NoToken
  BY DEF Placed
<1>2. /\ Owns(w) /\ worker[w].beat = worker[w].token /\ meeting = StatusAt(w)
      /\ worker[w].pc \notin {"conflict", "transition_error", "put_back"}
  BY <1>1 DEF Calm, OwnerKnown
<1>3. job.status = "running" /\ job.claim_token = worker[w].token /\ job.leased_until # 0
  BY <1>2 DEF Owns, HasActiveClaim, LeaseExpired
<1>4. ASSUME NEW v \in Worker, v # w
      PROVE  worker[v].token = NoToken /\ worker[v].pc \in Unclaimed \ {"reopen", "fail_meeting"}
  <2>1. worker[v].token = NoToken
    BY <1>1, <1>4 DEF Calm, OwnerKnown
  <2>2. worker[v].pc \in Unclaimed
    BY <2>1 DEF Placed
  <2>3. worker[v].pc # "reopen" /\ worker[v].pc # "fail_meeting"
    BY <1>3 DEF Calm, QueuedIsStopping, FailureIsLast
  <2>4. QED
    BY <2>1, <2>2, <2>3
<1>5. posts \in {0, 1} /\ (posts = 1 => worker[w].pc \in {"complete", "posted", "done"})
  BY <1>3, <1>4 DEF Calm, NoticeIsLast, Unclaimed
<1>6. meeting # "recording"
  BY <1>3 DEF Calm, NotYetQueued
<1>7. QED
  BY <1>1, <1>2, <1>3, <1>4, <1>5, <1>6

(* The owner goes on, and keeps the claim. *)
LEMMA OwnerGoesOn ==
  ASSUME TypeOK, Placed, Calm, NEW w \in Worker, worker[w].pc \notin Unclaimed, NEW p, NEW f,
         Moved(w, p, f, worker[w].token, worker[w].beat),
         p \notin Unclaimed \cup {"conflict", "transition_error", "put_back"},
         job' = job \/ job' = HeartbeatJob(job),
         meeting' = StatusAt(w)', meeting' # "recording", ProcessQuiet',
         posts' \in {0, 1}, posts' = 1 => p \in {"complete", "posted", "done"}
  PROVE  Calm'
<1>1. /\ job'.status = "running" /\ job'.claim_token = worker[w].token
      /\ job'.leased_until # 0 /\ worker[w].token # NoToken
      /\ worker[w].beat = worker[w].token
  BY OwnerAlone, JobColumns DEF TypeOK
<1>2. \A v \in Worker : v # w =>
        worker'[v].token = NoToken /\ worker'[v].pc \in Unclaimed \ {"reopen", "fail_meeting"}
  BY OwnerAlone DEF Moved
<1>3. worker'[w].pc = p /\ worker'[w].token = worker[w].token /\ worker'[w].beat = worker[w].beat
  BY DEF Moved
<1>4. OwnerKnown'
  BY <1>1, <1>2, <1>3 DEF OwnerKnown, Owns, HasActiveClaim, LeaseExpired
<1>5. (QueuedIsStopping /\ FailureIsLast)'
  BY <1>1, <1>2, <1>3 DEF QueuedIsStopping, FailureIsLast, Unclaimed
<1>6. (NotYetQueued /\ NoticeIsLast)'
  BY <1>1, <1>3 DEF NotYetQueued, NoticeIsLast
<1>7. QED
  BY <1>4, <1>5, <1>6 DEF Calm

(* The owner gives up the claim and the job with it. *)
LEMMA OwnerGivesUp ==
  ASSUME TypeOK, Placed, Calm, NEW w \in Worker, worker[w].pc \notin Unclaimed,
         NEW p \in {"leave", "fail_meeting", "reopen"},
         Moved(w, p, worker[w].phase, NoToken, worker[w].beat),
         job'.status \in {"queued", "failed", "done"},
         job'.status = "queued" => meeting = "stopping" \/ p = "reopen",
         p = "reopen" => meeting = "summarizing" /\ job'.status = "queued",
         p = "fail_meeting" => meeting \in SummaryStates /\ job'.status = "failed",
         meeting' = meeting, ProcessQuiet', posts' = posts,
         posts = 1 => job'.status = "done"
  PROVE  Calm'
<1>1. /\ \A v \in Worker : v # w =>
           worker'[v].token = NoToken /\ worker'[v].pc \in Unclaimed \ {"reopen", "fail_meeting"}
      /\ posts \in {0, 1} /\ meeting # "recording"
  BY OwnerAlone DEF Moved
<1>2. worker'[w].pc = p /\ worker'[w].token = NoToken
  BY DEF Moved
<1>3. OwnerKnown'
  BY <1>1, <1>2 DEF OwnerKnown
<1>4. (QueuedIsStopping /\ FailureIsLast)'
  BY <1>1, <1>2 DEF QueuedIsStopping, FailureIsLast, Unclaimed
<1>5. (NotYetQueued /\ NoticeIsLast)'
  BY <1>1 DEF NotYetQueued, NoticeIsLast
<1>6. QED
  BY <1>3, <1>4, <1>5 DEF Calm

(* queue.retry by the owner, for a run that has not posted. *)
LEMMA OwnerRetries ==
  ASSUME TypeOK, Placed, Calm, NEW w \in Worker, NEW p \in {"leave", "reopen"},
         worker[w].pc \notin Unclaimed \cup {"complete", "posted", "done"},
         RetryJob(w, MaxRetries, p, "fail_meeting"),
         p = "leave" => meeting = "stopping",
         p = "reopen" => meeting = "summarizing",
         meeting' = meeting, ProcessQuiet', posts' = posts
  PROVE  Calm'
<1>1. Owns(w) /\ (posts = 1 => FALSE) /\ MaxRetries \in Nat /\ job \in JobRow
  BY OwnerAlone, PipelineAssumption DEF TypeOK
<1>2. /\ job'.status \in {"queued", "failed"}
      /\ \/ /\ job'.status = "queued"
            /\ Moved(w, p, worker[w].phase, NoToken, worker[w].beat)
         \/ /\ job'.status = "failed"
            /\ Moved(w, "fail_meeting", worker[w].phase, NoToken, worker[w].beat)
  <2>1. p \in Stages /\ "fail_meeting" \in Stages
    BY StageNames
  <2>2. QED
    BY <1>1, <2>1, TaskRetries, JobColumns
<1>3. meeting \in SummaryStates
  BY DEF SummaryStates
<1>4. QED
  BY <1>1, <1>2, <1>3, OwnerGivesUp

(* A task without a claim moves on, and the job is left alone. *)
LEMMA OthersMove ==
  ASSUME TypeOK, Placed, Calm, NEW w \in Worker, worker[w].pc \in Unclaimed,
         NEW p \in {"idle", "claim", "leave"}, NEW f, NEW b,
         Moved(w, p, f, NoToken, b), job' = job, posts' = posts, ProcessQuiet',
         worker[w].pc \notin {"reopen", "fail_meeting"} => meeting' = meeting,
         worker[w].pc = "reopen" => meeting' = "stopping",
         worker[w].pc = "fail_meeting" => meeting' = "failed",
         pending' = pending
  PROVE  Calm'
<1>1. worker[w].token = NoToken
  BY DEF Calm, OwnerKnown
<1>2. \A v \in Worker : /\ worker'[v].token = worker[v].token
                        /\ v # w => worker'[v] = worker[v]
  BY <1>1 DEF Moved
<1>3. worker'[w].pc = p /\ worker'[w].token = NoToken
  BY DEF Moved
<1>4. CASE worker[w].pc \in {"reopen", "fail_meeting"}
  <2>1. /\ job.status \in {"queued", "canceled", "failed"} /\ meeting # "recording"
        /\ job.status = "queued" => worker[w].pc = "reopen"
    BY <1>4 DEF Calm, QueuedIsStopping, FailureIsLast, NotYetQueued
  <2>2. \A v \in Worker : worker'[v].token = NoToken
    BY <1>2, <2>1 DEF Calm, OwnerKnown, Owns, HasActiveClaim
  <2>3. \A v \in Worker : worker'[v].pc \notin {"reopen", "fail_meeting"}
    BY <1>2, <1>3, <1>4, <2>1 DEF Calm, QueuedIsStopping, FailureIsLast, Placed
  <2>4. OwnerKnown' /\ QueuedIsStopping' /\ FailureIsLast' /\ NotYetQueued'
    BY <1>4, <2>1, <2>2, <2>3 DEF OwnerKnown, QueuedIsStopping, FailureIsLast, NotYetQueued
  <2>5. NoticeIsLast'
    BY <1>2, <1>3, <1>4 DEF Calm, NoticeIsLast, Unclaimed
  <2>6. QED
    BY <2>4, <2>5 DEF Calm
<1>5. CASE worker[w].pc \notin {"reopen", "fail_meeting"}
  <2>1. OwnerKnown'
    BY <1>2, <1>3, <1>5 DEF Calm, OwnerKnown, Owns, StatusAt
  <2>2. (QueuedIsStopping /\ FailureIsLast)'
    <3>1. \A v \in Worker : worker'[v].pc = "reopen" => worker[v].pc = "reopen" /\ v # w
      BY <1>2, <1>3
    <3>2. \A v \in Worker : worker[v].pc = "reopen" => worker'[v].pc = "reopen"
      BY <1>2, <1>5
    <3>3. \A v \in Worker : worker'[v].pc = "fail_meeting" => worker[v].pc = "fail_meeting"
      BY <1>2, <1>3
    <3>4. QED
      BY <1>5, <3>1, <3>2, <3>3 DEF Calm, QueuedIsStopping, FailureIsLast
  <2>3. (NotYetQueued /\ NoticeIsLast)'
    <3>1. \A v \in Worker : worker[v].pc \in {"complete", "posted", "done"} =>
            worker'[v].pc = worker[v].pc
      BY <1>2 DEF Unclaimed
    <3>2. QED
      BY <1>5, <3>1 DEF Calm, NotYetQueued, NoticeIsLast
  <2>4. QED
    BY <2>1, <2>2, <2>3 DEF Calm
<1>6. QED
  BY <1>4, <1>5

(* A claim is taken only for a stopping meeting: nobody is about to reopen   *)
(* it, because that task would hold the locks.                               *)
LEMMA OwnerClaims ==
  ASSUME TypeOK, Placed, Calm, NEW w \in Worker, Claim(w), faults' = 0
  PROVE  Calm'
<1>1. /\ At(w, "claim") /\ UNCHANGED <<meeting, posts, up, recovery, pending, lock>>
      /\ \/ /\ Claimable(job)
            /\ \E t \in Token \ LiveTokens :
                 job' = ClaimedJob(job, t) /\ Moved(w, "prepare", worker[w].phase, t, t)
         \/ job' = job /\ Moved(w, "idle", "stopping", NoToken, NoToken)
  BY TaskClaims DEF artifacts, process
<1>2. ProcessQuiet' /\ worker[w].pc \in Unclaimed \ {"reopen", "fail_meeting", "leave"}
  BY <1>1 DEF Calm, ProcessQuiet, At, Unclaimed
<1>3. CASE job' = job /\ Moved(w, "idle", "stopping", NoToken, NoToken)
  BY <1>1, <1>2, <1>3, OthersMove
<1>4. ASSUME Claimable(job), NEW t \in Token, job' = ClaimedJob(job, t),
             Moved(w, "prepare", worker[w].phase, t, t)
      PROVE  Calm'
  <2>1. job.status = "queued" /\ t # NoToken
    BY <1>4, TokenAssumption DEF Claimable
  <2>2. \A v \in Worker : worker[v].token = NoToken /\ worker[v].pc \in Unclaimed
    BY <2>1 DEF Calm, OwnerKnown, Owns, HasActiveClaim, Placed
  <2>3. \A v \in Worker : worker[v].pc \notin {"reopen", "fail_meeting"}
    <3>1. ASSUME NEW v \in Worker, worker[v].pc = "reopen" PROVE FALSE
      BY <1>1, <3>1, PipelineAssumption DEF Placed, At
    <3>2. ASSUME NEW v \in Worker, worker[v].pc = "fail_meeting" PROVE FALSE
      BY <2>1, <3>2 DEF Calm, FailureIsLast
    <3>3. QED
      BY <3>1, <3>2
  <2>4. meeting = "stopping" /\ posts = 0
    BY <2>1, <2>2, <2>3 DEF Calm, QueuedIsStopping, NoticeIsLast, Unclaimed
  <2>5. worker[w].phase = "stopping"
    BY <1>1 DEF Placed, At
  <2>6. /\ job'.status = "running" /\ job'.claim_token = t /\ job'.leased_until # 0
    BY <1>4, JobColumns DEF TypeOK
  <2>7. /\ worker'[w].pc = "prepare" /\ worker'[w].phase = "stopping"
        /\ worker'[w].token = t /\ worker'[w].beat = t
        /\ \A v \in Worker : v # w => worker'[v] = worker[v]
    BY <1>4, <2>5 DEF Moved
  <2>8. OwnerKnown'
    <3>1. meeting' = StatusAt(w)'
      BY <1>1, <2>4, <2>7 DEF StatusAt
    <3>2. Owns(w)'
      BY <2>1, <2>6, <2>7 DEF Owns, HasActiveClaim, LeaseExpired
    <3>3. \A v \in Worker : worker'[v].token # NoToken <=> v = w
      BY <2>1, <2>2, <2>7
    <3>4. worker'[w].pc \notin Unclaimed \cup {"conflict", "transition_error", "put_back"}
      BY <2>7 DEF Unclaimed
    <3>5. QED
      BY <2>7, <3>1, <3>2, <3>3, <3>4 DEF OwnerKnown
  <2>9. (QueuedIsStopping /\ FailureIsLast /\ NotYetQueued /\ NoticeIsLast)'
    BY <1>1, <2>3, <2>4, <2>6, <2>7
       DEF QueuedIsStopping, FailureIsLast, NotYetQueued, NoticeIsLast
  <2>10. QED
    BY <1>2, <2>8, <2>9 DEF Calm
<1>5. QED
  BY <1>1, <1>3, <1>4

(* A heartbeat, which is refused only after the job is over. *)
LEMMA CalmHeartbeat ==
  ASSUME TypeOK, Placed, Calm, NEW w \in Worker, BackgroundHeartbeat(w)
  PROVE  Calm'
<1>1. UNCHANGED <<meeting, posts, up, recovery, pending, lock>>
  BY DEF BackgroundHeartbeat, artifacts, process
<1>2. CASE HasActiveClaim(job, worker[w].beat)
  <2>1. worker' = worker /\ job' = HeartbeatJob(job)
    BY <1>2 DEF BackgroundHeartbeat
  <2>2. job'.status = job.status /\ job'.claim_token = job.claim_token /\ job'.leased_until # 0
    BY <2>1, JobColumns DEF TypeOK
  <2>3. OwnerKnown'
    BY <1>1, <2>1, <2>2 DEF Calm, OwnerKnown, Owns, HasActiveClaim, LeaseExpired, StatusAt
  <2>4. QED
    BY <1>1, <2>1, <2>2, <2>3
       DEF Calm, ProcessQuiet, QueuedIsStopping, FailureIsLast, NotYetQueued, NoticeIsLast
<1>3. CASE ~HasActiveClaim(job, worker[w].beat)
  <2>1. job' = job /\ Moved(w, worker[w].pc, worker[w].phase, worker[w].token, NoToken)
    BY <1>3, HeartbeatStops DEF BackgroundHeartbeat
  <2>2. worker[w].token = NoToken
    BY <1>3 DEF Calm, OwnerKnown, Owns
  <2>3. \A v \in Worker : /\ worker'[v].pc = worker[v].pc /\ worker'[v].token = worker[v].token
                          /\ worker'[v].phase = worker[v].phase
                          /\ worker[v].token # NoToken => worker'[v].beat = worker[v].beat
    BY <2>1, <2>2 DEF Moved
  <2>4. OwnerKnown'
    BY <1>1, <2>1, <2>3 DEF Calm, OwnerKnown, Owns, StatusAt
  <2>5. QED
    BY <1>1, <2>1, <2>3, <2>4
       DEF Calm, ProcessQuiet, QueuedIsStopping, FailureIsLast, NotYetQueued, NoticeIsLast
<1>4. QED
  BY <1>2, <1>3

(* Time passes; the lease of an owner with a live heartbeat does not run out. *)
LEMMA CalmTick ==
  ASSUME TypeOK, Placed, Calm, Tick, faults = 0, faults' = 0
  PROVE  Calm'
<1>1. /\ job' = Ticked(job) /\ UNCHANGED <<meeting, posts, up, recovery, pending, lock, worker>>
      /\ ~LeaseKept
  BY DEF Tick, artifacts, process, Disturb
<1>2. /\ job'.status = job.status /\ job'.claim_token = job.claim_token
      /\ job.leased_until \notin {0, 1} => job'.leased_until # 0
  BY <1>1, JobColumns DEF TypeOK
<1>3. ASSUME NEW w \in Worker, worker[w].token # NoToken
      PROVE  job'.leased_until # 0
  BY <1>1, <1>2, <1>3
     DEF Calm, ProcessQuiet, OwnerKnown, Owns, HasActiveClaim, LeaseExpired, LeaseKept
<1>4. OwnerKnown'
  BY <1>1, <1>2, <1>3 DEF Calm, OwnerKnown, Owns, HasActiveClaim, LeaseExpired, StatusAt
<1>5. QED
  BY <1>1, <1>2, <1>4
     DEF Calm, ProcessQuiet, QueuedIsStopping, FailureIsLast, NotYetQueued, NoticeIsLast

(* Stop, enqueue and the administrators' requests: no task is at work. *)
LEMMA CalmRows ==
  ASSUME TypeOK, Placed, Calm, worker' = worker, posts' = posts, ProcessQuiet',
         \/ Stop /\ UNCHANGED job
         \/ /\ job.status = "absent" /\ job'.status = "queued" /\ meeting' = meeting
            /\ pending
         \/ /\ job.status = "queued" /\ job'.status = "canceled" /\ meeting' = meeting
            /\ pending' = pending
         \/ /\ job.status \in {"failed", "canceled"} /\ job'.status = "queued"
            /\ meeting = "failed" /\ meeting' = "stopping"
  PROVE  Calm'
<1>1. job.status # "running" /\ job'.status # "running" /\ job.status # "done"
  BY DEF Stop, Cas, Calm, NotYetQueued
<1>2. \A w \in Worker : worker[w].token = NoToken /\ worker[w].pc \in Unclaimed
  BY <1>1 DEF Calm, OwnerKnown, Owns, HasActiveClaim, Placed
<1>3. OwnerKnown'
  BY <1>1, <1>2 DEF OwnerKnown
<1>4. posts = 0
  BY <1>1, <1>2 DEF Calm, NoticeIsLast, Unclaimed
<1>5. (QueuedIsStopping /\ FailureIsLast /\ NotYetQueued)'
  BY <1>1 DEF Calm, QueuedIsStopping, FailureIsLast, NotYetQueued, Stop, Cas, SummaryStates
<1>6. QED
  BY <1>3, <1>4, <1>5 DEF Calm, NoticeIsLast

(* The owner goes on without a change of the meeting's status. *)
LEMMA OwnerStage ==
  ASSUME TypeOK, Placed, Calm, NEW w \in Worker, NEW p,
         worker[w].pc \notin Unclaimed \cup {"requeue", "done"},
         p \notin Unclaimed \cup {"requeue", "done", "conflict", "transition_error", "put_back"},
         Moved(w, p, worker[w].phase, worker[w].token, worker[w].beat),
         worker[w].pc \in {"complete", "posted"} => p \in {"complete", "posted"},
         job' = job \/ job' = HeartbeatJob(job),
         meeting' = meeting, posts' = posts, ProcessQuiet'
  PROVE  Calm'
<1>1. /\ meeting = worker[w].phase /\ meeting # "recording" /\ posts \in {0, 1}
      /\ posts = 1 => worker[w].pc \in {"complete", "posted", "done"}
  BY OwnerAlone DEF StatusAt
<1>2. meeting' = StatusAt(w)'
  BY <1>1 DEF StatusAt, Moved
<1>3. QED
  BY <1>1, <1>2, OwnerGoesOn

LEMMA FaultsGrow ==
  ASSUME TypeOK, [Next]_vars
  PROVE  faults' \in {faults, faults + 1}
<1> USE DEF StatementFails, Disturb
<1>0. TypeOK
  OBVIOUS
<1>1. ASSUME NEW w \in Worker, Start(w) PROVE faults' \in {faults, faults + 1}
  BY <1>1, <1>0 DEF Start
<1>2. ASSUME NEW w \in Worker, StartFails(w) PROVE faults' \in {faults, faults + 1}
  BY <1>2, <1>0 DEF StartFails
<1>3. ASSUME NEW w \in Worker, Claim(w) PROVE faults' \in {faults, faults + 1}
  BY <1>3, <1>0, TaskClaims
<1>4. ASSUME NEW w \in Worker, Refresh(w) PROVE faults' \in {faults, faults + 1}
  BY <1>4, <1>0 DEF Refresh
<1>5. ASSUME NEW w \in Worker, BackgroundHeartbeat(w) PROVE faults' \in {faults, faults + 1}
  BY <1>5, <1>0 DEF BackgroundHeartbeat
<1>6. ASSUME NEW w \in Worker, Return(w) PROVE faults' \in {faults, faults + 1}
  BY <1>6, <1>0 DEF Return
<1>7. ASSUME NEW w \in Worker, Prepare(w) PROVE faults' \in {faults, faults + 1}
  BY <1>7, <1>0 DEF Prepare
<1>8. ASSUME NEW w \in Worker, ToTranscribing(w) PROVE faults' \in {faults, faults + 1}
  BY <1>8, <1>0, TaskAdvances, StageNames DEF ToTranscribing
<1>9. ASSUME NEW w \in Worker, ToSummarizing(w) PROVE faults' \in {faults, faults + 1}
  BY <1>9, <1>0, TaskAdvances, StageNames DEF ToSummarizing
<1>10. ASSUME NEW w \in Worker, TransitionFailed(w) PROVE faults' \in {faults, faults + 1}
  BY <1>10, <1>0 DEF TransitionFailed
<1>11. ASSUME NEW w \in Worker, Transcribe(w) PROVE faults' \in {faults, faults + 1}
  BY <1>11, <1>0 DEF Transcribe, Stage
<1>12. ASSUME NEW w \in Worker, PersistTranscript(w) PROVE faults' \in {faults, faults + 1}
  BY <1>12, <1>0, TaskPersists
<1>13. ASSUME NEW w \in Worker, MaterializeContext(w) PROVE faults' \in {faults, faults + 1}
  BY <1>13, <1>0 DEF MaterializeContext, Stage
<1>14. ASSUME NEW w \in Worker, Summarize(w) PROVE faults' \in {faults, faults + 1}
  BY <1>14, <1>0 DEF Summarize, Stage
<1>15. ASSUME NEW w \in Worker, StoreSummary(w) PROVE faults' \in {faults, faults + 1}
  BY <1>15, <1>0, TaskStores
<1>16. ASSUME NEW w \in Worker, RetryHeartbeat(w) PROVE faults' \in {faults, faults + 1}
  BY <1>16, <1>0 DEF RetryHeartbeat
<1>17. ASSUME NEW w \in Worker, RestoreStopping(w) PROVE faults' \in {faults, faults + 1}
  BY <1>17, <1>0 DEF RestoreStopping
<1>18. ASSUME NEW w \in Worker, RequeueJob(w) PROVE faults' \in {faults, faults + 1}
  BY <1>18, <1>0 DEF RequeueJob
<1>19. ASSUME NEW w \in Worker, PutBack(w) PROVE faults' \in {faults, faults + 1}
  BY <1>19, <1>0 DEF PutBack
<1>20. ASSUME NEW w \in Worker, InvalidTranscript(w) PROVE faults' \in {faults, faults + 1}
  BY <1>20, <1>0 DEF InvalidTranscript
<1>21. ASSUME NEW w \in Worker, MarkMeetingFailed(w) PROVE faults' \in {faults, faults + 1}
  BY <1>21, <1>0 DEF MarkMeetingFailed
<1>22. ASSUME NEW w \in Worker, Post(w) PROVE faults' \in {faults, faults + 1}
  BY <1>22, <1>0 DEF Post
<1>23. ASSUME NEW w \in Worker, RepostJob(w) PROVE faults' \in {faults, faults + 1}
  BY <1>23, <1>0 DEF RepostJob
<1>24. ASSUME NEW w \in Worker, ReopenMeeting(w) PROVE faults' \in {faults, faults + 1}
  BY <1>24, <1>0 DEF ReopenMeeting
<1>25. ASSUME NEW w \in Worker, Complete(w) PROVE faults' \in {faults, faults + 1}
  BY <1>25, <1>0 DEF Complete
<1>26. ASSUME NEW w \in Worker, MarkPosted(w) PROVE faults' \in {faults, faults + 1}
  BY <1>26, <1>0 DEF MarkPosted
<1>27. ASSUME NEW w \in Worker, MarkDone(w) PROVE faults' \in {faults, faults + 1}
  BY <1>27, <1>0 DEF MarkDone
<1>28. CASE Stop
  BY <1>28, <1>0 DEF Stop
<1>29. CASE Enqueue
  BY <1>29, <1>0 DEF Enqueue
<1>30. CASE Poll
  BY <1>30, <1>0 DEF Poll
<1>31. CASE Ready
  BY <1>31, <1>0 DEF Ready
<1>32. CASE RecoverMeeting
  BY <1>32, <1>0 DEF RecoverMeeting
<1>33. CASE RecoverJob
  BY <1>33, <1>0 DEF RecoverJob
<1>34. CASE Crash
  BY <1>34, <1>0 DEF Crash
<1>35. CASE Restart
  BY <1>35, <1>0 DEF Restart
<1>36. CASE Tick
  BY <1>36, <1>0 DEF Tick
<1>37. CASE AdminRetry
  BY <1>37, <1>0 DEF AdminRetry
<1>38. CASE AdminCancel
  BY <1>38, <1>0 DEF AdminCancel
<1>39. CASE UNCHANGED vars
  BY <1>39, <1>0 DEF vars
<1>40. QED
  BY <1>1, <1>2, <1>3, <1>4, <1>5, <1>6, <1>7, <1>8, <1>9, <1>10, <1>11,
     <1>12, <1>13, <1>14, <1>15, <1>16, <1>17, <1>18, <1>19, <1>20, <1>21,
     <1>22, <1>23, <1>24, <1>25, <1>26, <1>27, <1>28, <1>29, <1>30, <1>31,
     <1>32, <1>33, <1>34, <1>35, <1>36, <1>37, <1>38, <1>39 DEF Next, Run

LEMMA CalmStep ==
  ASSUME TypeOK, Placed, Calm, faults = 0, faults' = 0, [Next]_vars
  PROVE  Calm'
<1>a. ~StatementFails /\ ~Disturb("ready") /\ ~Disturb("crash")
  BY DEF StatementFails, Disturb
<1>b. up /\ recovery = "none" /\ (up' = up /\ recovery' = recovery => ProcessQuiet')
  BY DEF Calm, ProcessQuiet
<1>0. /\ TypeOK /\ MaxRetries \in Nat /\ job \in JobRow /\ up /\ recovery = "none"
      /\ ~StatementFails /\ ~Disturb("ready") /\ ~Disturb("crash")
      /\ up' = up /\ recovery' = recovery => ProcessQuiet'
  BY <1>a, <1>b, PipelineAssumption DEF TypeOK
<1> USE DEF rows, artifacts, process, At, Leave
<1>1. ASSUME NEW w \in Worker, Start(w) PROVE Calm'
  <2>1. worker[w].pc = "idle" /\ worker[w].token = NoToken /\ worker[w].pc \in Unclaimed
    BY <1>1 DEF Start, IdleTask, Unclaimed
  <2>2. QED
    BY <1>1, <1>0, <2>1, TaskMoves, StageNames, OthersMove DEF Start
<1>2. ASSUME NEW w \in Worker, StartFails(w) PROVE Calm'
  BY <1>2, <1>0 DEF StartFails
<1>3. ASSUME NEW w \in Worker, Claim(w) PROVE Calm'
  BY <1>3, <1>0, OwnerClaims
<1>4. ASSUME NEW w \in Worker, Refresh(w) PROVE Calm'
  <2>1. worker[w].pc \notin Unclaimed \cup {"requeue", "done"}
    BY <1>4, <1>0 DEF Unclaimed, Refresh, Refreshed
  <2>2. Owns(w)
    BY <1>0, <2>1, OwnerAlone
  <2>3. QED
    BY <1>4, <1>0, <2>1, <2>2, TaskRefreshed, TaskMoves, StageNames, OwnerStage, OwnerAlone DEF Unclaimed, Refresh
<1>5. ASSUME NEW w \in Worker, BackgroundHeartbeat(w) PROVE Calm'
  BY <1>5, <1>0, CalmHeartbeat
<1>6. ASSUME NEW w \in Worker, Return(w) PROVE Calm'
  <2>1. worker[w].pc = "leave" /\ worker[w].pc \in Unclaimed
    BY <1>6 DEF Return, Unclaimed
  <2>2. QED
    BY <1>6, <1>0, <2>1, TaskReturns, OthersMove DEF Return
<1>7. ASSUME NEW w \in Worker, Prepare(w) PROVE Calm'
  <2>1. worker[w].pc = "prepare" /\ worker[w].pc \notin Unclaimed
    BY <1>7 DEF Prepare, Unclaimed
  <2>2. meeting = "stopping"
    BY <1>0, <2>1, OwnerAlone DEF StatusAt, Placed
  <2>3. CASE Goto(w, "to_transcribing") /\ job' = job
    BY <1>7, <1>0, <2>1, <2>3, TaskMoves, StageNames, OwnerStage DEF Prepare, Unclaimed
  <2>4. CASE RetryJob(w, MaxRetries, "leave", "fail_meeting")
    BY <1>7, <1>0, <2>1, <2>2, <2>4, OwnerRetries DEF Prepare
  <2>5. QED
    BY <1>7, <1>0, <2>3, <2>4 DEF Prepare
<1>8. ASSUME NEW w \in Worker, ToTranscribing(w) PROVE Calm'
  <2>1. worker[w].pc = "to_transcribing" /\ worker[w].pc \notin Unclaimed
    BY <1>8 DEF ToTranscribing, Advance, Unclaimed
  <2>2. meeting = worker[w].phase
    BY <1>0, <2>1, OwnerAlone DEF StatusAt
  <2>3. /\ meeting' = "transcribing" /\ job' = job /\ posts' = posts /\ UNCHANGED <<up, recovery>>
        /\ Moved(w, "transcribe", "transcribing", worker[w].token, worker[w].beat)
    BY <1>8, <1>0, <2>2, TaskAdvances, StageNames DEF ToTranscribing
  <2>4. meeting' = StatusAt(w)'
    BY <2>3 DEF StatusAt, Moved
  <2>5. posts' = 0 /\ meeting' # "recording" /\ ProcessQuiet'
    BY <1>0, <2>1, <2>3, OwnerAlone
  <2>6. "transcribe" \notin Unclaimed \cup {"conflict", "transition_error", "put_back"}
    BY DEF Unclaimed
  <2>7. QED
    BY <1>0, <2>1, <2>3, <2>4, <2>5, <2>6, OwnerGoesOn
<1>9. ASSUME NEW w \in Worker, ToSummarizing(w) PROVE Calm'
  <2>1. worker[w].pc = "to_summarizing" /\ worker[w].pc \notin Unclaimed
    BY <1>9 DEF ToSummarizing, Advance, Unclaimed
  <2>2. meeting = worker[w].phase
    BY <1>0, <2>1, OwnerAlone DEF StatusAt
  <2>3. /\ meeting' = "summarizing" /\ job' = job /\ posts' = posts /\ UNCHANGED <<up, recovery>>
        /\ Moved(w, "summarize", "summarizing", worker[w].token, worker[w].beat)
    BY <1>9, <1>0, <2>2, TaskAdvances, StageNames DEF ToSummarizing
  <2>4. meeting' = StatusAt(w)'
    BY <2>3 DEF StatusAt, Moved
  <2>5. posts' = 0 /\ meeting' # "recording" /\ ProcessQuiet'
    BY <1>0, <2>1, <2>3, OwnerAlone
  <2>6. "summarize" \notin Unclaimed \cup {"conflict", "transition_error", "put_back"}
    BY DEF Unclaimed
  <2>7. QED
    BY <1>0, <2>1, <2>3, <2>4, <2>5, <2>6, OwnerGoesOn
<1>10. ASSUME NEW w \in Worker, TransitionFailed(w) PROVE Calm'
  <2>1. worker[w].pc \in {"conflict", "transition_error"} /\ worker[w].pc \notin Unclaimed
    BY <1>10 DEF TransitionFailed, Unclaimed
  <2>2. QED
    BY <1>0, <2>1, OwnerAlone
<1>11. ASSUME NEW w \in Worker, Transcribe(w) PROVE Calm'
  <2>1. worker[w].pc \notin Unclaimed \cup {"requeue", "done"}
    BY <1>11, <1>0 DEF Unclaimed, Transcribe, Stage
  <2>2. QED
    BY <1>11, <1>0, <2>1, TaskMoves, StageNames, OwnerStage DEF Unclaimed, Transcribe, Stage
<1>12. ASSUME NEW w \in Worker, PersistTranscript(w) PROVE Calm'
  <2>1. worker[w].pc \notin Unclaimed \cup {"requeue", "done"}
    BY <1>12, <1>0, TaskPersists DEF Unclaimed
  <2>2. QED
    BY <1>12, <1>0, <2>1, TaskPersists, OwnerStage DEF Unclaimed
<1>13. ASSUME NEW w \in Worker, MaterializeContext(w) PROVE Calm'
  <2>1. worker[w].pc \notin Unclaimed \cup {"requeue", "done"}
    BY <1>13, <1>0 DEF Unclaimed, MaterializeContext, Stage
  <2>2. QED
    BY <1>13, <1>0, <2>1, TaskMoves, StageNames, OwnerStage DEF Unclaimed, MaterializeContext, Stage
<1>14. ASSUME NEW w \in Worker, Summarize(w) PROVE Calm'
  <2>1. worker[w].pc \notin Unclaimed \cup {"requeue", "done"}
    BY <1>14, <1>0 DEF Unclaimed, Summarize, Stage
  <2>2. QED
    BY <1>14, <1>0, <2>1, TaskMoves, StageNames, OwnerStage DEF Unclaimed, Summarize, Stage
<1>15. ASSUME NEW w \in Worker, StoreSummary(w) PROVE Calm'
  <2>1. worker[w].pc \notin Unclaimed \cup {"requeue", "done"}
    BY <1>15, <1>0, TaskStores DEF Unclaimed
  <2>2. QED
    BY <1>15, <1>0, <2>1, TaskStores, OwnerStage DEF Unclaimed
<1>16. ASSUME NEW w \in Worker, RetryHeartbeat(w) PROVE Calm'
  <2>1. worker[w].pc \notin Unclaimed \cup {"requeue", "done"}
    BY <1>16, <1>0 DEF Unclaimed, RetryHeartbeat
  <2>2. Owns(w)
    BY <1>0, <2>1, OwnerAlone
  <2>3. QED
    BY <1>16, <1>0, <2>1, <2>2, TaskMoves, StageNames, OwnerStage, OwnerAlone DEF Unclaimed, RetryHeartbeat
<1>17. ASSUME NEW w \in Worker, RestoreStopping(w) PROVE Calm'
  <2>1. worker[w].pc = "restore" /\ worker[w].pc \notin Unclaimed
    BY <1>17 DEF RestoreStopping, Unclaimed
  <2>2. meeting = worker[w].phase /\ posts = 0
    BY <1>0, <2>1, OwnerAlone DEF StatusAt
  <2>3. /\ meeting' = "stopping" /\ job' = job /\ posts' = posts /\ UNCHANGED <<up, recovery>>
        /\ Moved(w, "requeue", worker[w].phase, worker[w].token, worker[w].beat)
    BY <1>17, <1>0, <2>2, TaskMoves, StageNames DEF RestoreStopping, Cas
  <2>4. meeting' = StatusAt(w)'
    BY <2>3 DEF StatusAt, Moved
  <2>5. QED
    BY <1>0, <2>1, <2>2, <2>3, <2>4, OwnerGoesOn DEF Unclaimed
<1>18. ASSUME NEW w \in Worker, RequeueJob(w) PROVE Calm'
  <2>1. worker[w].pc = "requeue" /\ worker[w].pc \notin Unclaimed
    BY <1>18 DEF RequeueJob, Unclaimed
  <2>2. meeting = "stopping"
    BY <1>0, <2>1, OwnerAlone DEF StatusAt
  <2>3. QED
    BY <1>18, <1>0, <2>1, <2>2, OwnerRetries DEF RequeueJob
<1>19. ASSUME NEW w \in Worker, PutBack(w) PROVE Calm'
  <2>1. worker[w].pc = "put_back" /\ worker[w].pc \notin Unclaimed
    BY <1>19 DEF PutBack, Unclaimed
  <2>2. QED
    BY <1>0, <2>1, OwnerAlone
<1>20. ASSUME NEW w \in Worker, InvalidTranscript(w) PROVE Calm'
  <2>1. worker[w].pc = "invalid" /\ worker[w].pc \notin Unclaimed
    BY <1>20 DEF InvalidTranscript, Unclaimed
  <2>2. meeting \in SummaryStates /\ posts # 1 /\ Owns(w)
    BY <1>0, <2>1, OwnerAlone DEF StatusAt, TypeOK, Task
  <2>3. job'.status = "failed"
    BY <1>20, <1>0, <2>2, JobColumns DEF InvalidTranscript, FailedJob, JobStatus
  <2>4. QED
    BY <1>20, <1>0, <2>1, <2>2, <2>3, TaskMoves, StageNames, OwnerGivesUp DEF InvalidTranscript
<1>21. ASSUME NEW w \in Worker, MarkMeetingFailed(w) PROVE Calm'
  <2>1. /\ worker[w].pc = "fail_meeting" /\ worker[w].pc \in Unclaimed
        /\ meeting \in SummaryStates /\ worker[w].token = NoToken
    BY <1>21 DEF MarkMeetingFailed, Unclaimed, Calm, FailureIsLast, OwnerKnown
  <2>2. meeting' = "failed"
    BY <1>21, <1>0, <2>1 DEF MarkMeetingFailed, FailMeeting
  <2>3. QED
    BY <1>21, <1>0, <2>1, <2>2, TaskMoves, StageNames, OthersMove DEF MarkMeetingFailed
<1>22. ASSUME NEW w \in Worker, Post(w) PROVE Calm'
  <2>1. worker[w].pc = "post" /\ worker[w].pc \notin Unclaimed \cup {"requeue", "done"}
    BY <1>22 DEF Post, Unclaimed
  <2>2. posts = 0 /\ meeting = worker[w].phase /\ meeting # "recording"
    BY <1>0, <2>1, OwnerAlone DEF StatusAt
  <2>3. CASE Goto(w, "complete")
    <3>1. Moved(w, "complete", worker[w].phase, worker[w].token, worker[w].beat)
      BY <1>0, <2>3, TaskMoves, StageNames
    <3>2. posts' \in {0, 1} /\ meeting' = meeting /\ job' = job /\ UNCHANGED <<up, recovery>>
      BY <1>22, <2>2 DEF Post, Smaller, ManyPosts
    <3>3. meeting' = StatusAt(w)'
      BY <2>2, <3>1, <3>2 DEF StatusAt, Moved
    <3>4. QED
      BY <1>0, <2>1, <2>2, <3>1, <3>2, <3>3, OwnerGoesOn DEF Unclaimed
  <2>4. CASE Goto(w, "repost") /\ posts' = posts
    BY <1>22, <1>0, <2>1, <2>4, TaskMoves, StageNames, OwnerStage DEF Post, Unclaimed
  <2>5. QED
    BY <1>22, <2>3, <2>4 DEF Post
<1>23. ASSUME NEW w \in Worker, RepostJob(w) PROVE Calm'
  <2>1. worker[w].pc = "repost" /\ worker[w].pc \notin Unclaimed
    BY <1>23 DEF RepostJob, Unclaimed
  <2>2. meeting = "summarizing"
    BY <1>0, <2>1, OwnerAlone DEF StatusAt, Placed
  <2>3. QED
    BY <1>23, <1>0, <2>1, <2>2, OwnerRetries DEF RepostJob
<1>24. ASSUME NEW w \in Worker, ReopenMeeting(w) PROVE Calm'
  <2>1. /\ worker[w].pc = "reopen" /\ worker[w].pc \in Unclaimed
        /\ meeting = "summarizing" /\ worker[w].token = NoToken
    BY <1>24 DEF ReopenMeeting, Unclaimed, Calm, QueuedIsStopping, OwnerKnown
  <2>2. meeting' = "stopping"
    BY <1>24, <1>0, <2>1 DEF ReopenMeeting
  <2>3. QED
    BY <1>24, <1>0, <2>1, <2>2, TaskMoves, StageNames, OthersMove DEF ReopenMeeting
<1>25. ASSUME NEW w \in Worker, Complete(w) PROVE Calm'
  <2>1. worker[w].pc \notin Unclaimed \cup {"requeue", "done"}
    BY <1>25, <1>0 DEF Unclaimed, Complete
  <2>2. Owns(w)
    BY <1>0, <2>1, OwnerAlone
  <2>3. QED
    BY <1>25, <1>0, <2>1, <2>2, TaskMoves, StageNames, OwnerStage, OwnerAlone DEF Unclaimed, Complete
<1>26. ASSUME NEW w \in Worker, MarkPosted(w) PROVE Calm'
  <2>1. worker[w].pc = "posted" /\ worker[w].pc \notin Unclaimed
    BY <1>26 DEF MarkPosted, Unclaimed
  <2>2. meeting = "summarizing" /\ posts \in {0, 1}
    BY <1>0, <2>1, OwnerAlone DEF StatusAt, Placed
  <2>3. /\ meeting' = "posted" /\ job' = job /\ posts' = posts /\ UNCHANGED <<up, recovery>>
        /\ Moved(w, "done", worker[w].phase, worker[w].token, worker[w].beat)
    BY <1>26, <1>0, <2>2, TaskMoves, StageNames DEF MarkPosted, Cas
  <2>4. meeting' = StatusAt(w)'
    BY <2>3 DEF StatusAt, Moved
  <2>5. QED
    BY <1>0, <2>1, <2>2, <2>3, <2>4, OwnerGoesOn DEF Unclaimed
<1>27. ASSUME NEW w \in Worker, MarkDone(w) PROVE Calm'
  <2>1. worker[w].pc = "done" /\ worker[w].pc \notin Unclaimed
    BY <1>27 DEF MarkDone, Unclaimed
  <2>2. Owns(w)
    BY <1>0, <2>1, OwnerAlone
  <2>3. job'.status = "done"
    BY <1>27, <1>0, <2>2, JobColumns DEF MarkDone, DoneJob, JobStatus
  <2>4. QED
    BY <1>27, <1>0, <2>1, <2>3, TaskMoves, StageNames, OwnerGivesUp DEF MarkDone
<1>28. CASE Stop
  BY <1>28, <1>0, CalmRows DEF Stop
<1>29. CASE Enqueue
  <2>1. CASE job.status = "absent"
    BY <1>29, <1>0, <2>1, JobColumns, CalmRows DEF Enqueue
  <2>2. CASE job.status # "absent"
    BY <1>29, <1>0, <2>2
       DEF Enqueue, Calm, OwnerKnown, Owns, StatusAt, QueuedIsStopping, FailureIsLast,
           NotYetQueued, NoticeIsLast
  <2>3. QED
    BY <2>1, <2>2
<1>30. CASE Poll
  BY <1>30 DEF Poll, StaleRunning, Calm, OwnerKnown, Owns, HasActiveClaim
<1>31. CASE Ready
  BY <1>31, <1>0 DEF Ready
<1>32. CASE RecoverMeeting
  BY <1>32, <1>0 DEF RecoverMeeting, SummaryStates
<1>33. CASE RecoverJob
  BY <1>33, <1>0 DEF RecoverJob
<1>34. CASE Crash
  BY <1>34, <1>0 DEF Crash
<1>35. CASE Restart
  BY <1>35, <1>0 DEF Restart
<1>36. CASE Tick
  BY <1>36, <1>0, CalmTick
<1>37. CASE AdminRetry
  BY <1>37, <1>0, JobColumns, CalmRows DEF AdminRetry
<1>38. CASE AdminCancel
  BY <1>38, <1>0, JobColumns, CalmRows DEF AdminCancel, CanceledJob, JobStatus
<1>39. CASE UNCHANGED vars
  BY <1>39, <1>0
     DEF vars, Calm, OwnerKnown, Owns, StatusAt, QueuedIsStopping, FailureIsLast,
         NotYetQueued, NoticeIsLast
<1>40. QED
  BY <1>1, <1>2, <1>3, <1>4, <1>5, <1>6, <1>7, <1>8, <1>9, <1>10, <1>11,
     <1>12, <1>13, <1>14, <1>15, <1>16, <1>17, <1>18, <1>19, <1>20, <1>21,
     <1>22, <1>23, <1>24, <1>25, <1>26, <1>27, <1>28, <1>29, <1>30, <1>31,
     <1>32, <1>33, <1>34, <1>35, <1>36, <1>37, <1>38, <1>39 DEF Next, Run

LEMMA CalmNext == CalmInv /\ [Next]_vars => CalmInv'
<1> SUFFICES ASSUME CalmInv, [Next]_vars PROVE CalmInv'
  OBVIOUS
<1>1. TypeOK' /\ Placed'
  BY TypeStep, PlacedStep DEF CalmInv
<1>2. faults' = 0 => faults = 0
  BY FaultsGrow DEF CalmInv, TypeOK
<1>3. QED
  BY <1>1, <1>2, CalmStep DEF CalmInv

LEMMA CalmInit == Init => CalmInv
<1> SUFFICES ASSUME Init PROVE CalmInv
  OBVIOUS
<1>1. /\ meeting = "recording" /\ job.status = "absent" /\ posts = 0 /\ recovery = "none"
      /\ \A w \in Worker : worker[w] = IdleTask
  BY DEF Init, AbsentJob
<1>2. up /\ ~pending
  BY DEF Init
<1>3. Placed
  BY <1>1 DEF Placed, IdleTask, Unclaimed
<1>4. Calm
  BY <1>1, <1>2 DEF Calm, ProcessQuiet, OwnerKnown, QueuedIsStopping, FailureIsLast,
                    NotYetQueued, NoticeIsLast, IdleTask
<1>5. QED
  BY <1>3, <1>4, TypeInit DEF CalmInv

THEOREM CalmInvariant == Spec => []CalmInv
BY CalmInit, CalmNext, PTL DEF Spec

(* However many tasks are started for the meeting, whatever stages fail, and  *)
(* whatever administrators cancel and retry, the summary is posted once, as   *)
(* long as no statement fails, no lease runs out under a live heartbeat, the  *)
(* process does not die and recovery does not run beside the tasks.           *)
THEOREM PostedOnce == Spec => []OneNotice
<1>1. CalmInv => OneNotice
  BY DEF CalmInv, Calm, NoticeIsLast, OneNotice
<1>2. QED
  BY <1>1, CalmInvariant, PTL

=============================================================================
