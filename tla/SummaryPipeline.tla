-------------------------- MODULE SummaryPipeline --------------------------
(***************************************************************************)
(* How one stopped meeting becomes a posted summary.                       *)
(*                                                                         *)
(* The bot process runs any number of summary tasks for the same meeting    *)
(* (run_summary_and_notify of application/runtime.rs): one is started by    *)
(* the stop command, others by the 30 second poll, by retry timers, by an   *)
(* administrator's retry and by startup recovery.  They meet only in two    *)
(* database rows, the meeting's status and its summary job, which are       *)
(* written in separate statements and, often, under separate locks.  The    *)
(* process may die between any two statements, and the administrator's web  *)
(* requests do not take the bot's locks at all.                             *)
(*                                                                         *)
(* A step below is one statement (or one locked section no other actor can  *)
(* split); a task's pc names the statement it executes next.                *)
(*                                                                         *)
(* The meeting has summaries enabled.  One whose snapshot disables them is  *)
(* set from stopping to posted by the stop itself, without a job, summary   *)
(* or notice, and its job is not recovered; RecordingLifecycle has it.      *)
(***************************************************************************)
EXTENDS JobRecord

CONSTANTS
    Worker,       \* summary tasks of the bot process
    Free,         \* no task holds the service and the queue lock
    MaxRetries,   \* summary_max_retries
    MaxFaults,    \* bound: disturbances of one behaviour
    FaultKinds,   \* the disturbances that may happen
    Cancels       \* BOOLEAN: administrators may cancel the queued job

ASSUME PipelineAssumption ==
    /\ MaxRetries \in Nat
    /\ MaxFaults \in Nat
    /\ FaultKinds \subseteq {"statement", "stall", "crash", "ready"}
    /\ Cancels \in BOOLEAN
    /\ Free \notin Worker
    /\ NoToken \notin [job : {"summary"}, token : Token]

VARIABLES
    meeting,     \* meetings.status
    job,         \* the row of the job "summary-<meeting>"
    audio,       \* non-empty audio chunks are on disk
    transcript,  \* final transcript rows are persisted
    summary,     \* the generated summary is persisted
    posts,       \* complete summary notices posted to Discord
    worker,      \* Worker -> the task's local state
    lock,        \* the task that holds both mutexes over several statements
    up,          \* the bot process is running
    session,     \* a local recording session exists for the meeting
    pending,     \* a stop has marked the meeting and has still to enqueue
    recovery,    \* run_startup_recovery: what it does next
    faults       \* disturbances so far

vars == <<meeting, job, audio, transcript, summary, posts, worker, lock, up,
          session, pending, recovery, faults>>

rows == <<meeting, job>>
artifacts == <<audio, transcript, summary, posts>>
process == <<up, session, pending, recovery>>

SummaryStates == {"stopping", "transcribing", "summarizing"}

MeetingStates == SummaryStates \cup {"recording", "posted", "failed"}

(* Statements that follow refresh_summary_job_ownership. *)
Refreshed == {"to_transcribing", "persist", "context", "to_summarizing",
              "summarize", "store", "post", "complete"}

Stages == Refreshed \cup
    {"idle", "claim", "prepare", "transcribe", "conflict", "transition_error",
     "invalid", "retry", "restore", "requeue", "put_back", "repost", "reopen",
     "fail_meeting", "posted", "done", "leave"}

(* Bound on the count of notices: two stands for any larger number. *)
ManyPosts == 2

(* token: the claim it works under; beat: the copy its heartbeat task holds; *)
(* fresh: ownership was refreshed for the next statement; phase: the status  *)
(* it last gave the meeting.                                                 *)
Task == [pc : Stages, fresh : BOOLEAN, phase : SummaryStates,
         token : Token \cup {NoToken}, beat : Token \cup {NoToken}]

IdleTask == [pc |-> "idle", fresh |-> FALSE, phase |-> "stopping",
             token |-> NoToken, beat |-> NoToken]

RecoverySteps == {"boot", "none", "recover_job"} \cup SummaryStates \cup {"recording"}

TypeOK ==
    /\ meeting \in MeetingStates
    /\ job \in JobRow
    /\ audio \in BOOLEAN /\ transcript \in BOOLEAN /\ summary \in BOOLEAN
    /\ posts \in 0..ManyPosts
    /\ worker \in [Worker -> Task]
    /\ lock \in Worker \cup {Free}
    /\ up \in BOOLEAN /\ session \in BOOLEAN /\ pending \in BOOLEAN
    /\ recovery \in RecoverySteps
    /\ faults \in 0..MaxFaults

Init ==
    /\ meeting = "recording" /\ session = TRUE /\ up = TRUE
    /\ job = AbsentJob
    /\ audio \in BOOLEAN
    /\ transcript = FALSE /\ summary = FALSE /\ posts = 0
    /\ worker = [w \in Worker |-> IdleTask]
    /\ lock = Free
    /\ pending = FALSE /\ recovery = "none" /\ faults = 0

(***************************************************************************)
(* Building blocks.                                                        *)
(***************************************************************************)

(* One more disturbance: a failed statement, a stalled process, a crash, or  *)
(* a gateway that sends ready again.                                         *)
Disturb(kind) ==
    /\ kind \in FaultKinds
    /\ faults < MaxFaults
    /\ faults' = faults + 1

StatementFails == Disturb("statement")

Owns(w) == worker[w].token # NoToken /\ HasActiveClaim(job, worker[w].token)

(* The task is at statement pc and the locks do not keep it waiting. *)
At(w, pc) ==
    /\ up /\ worker[w].pc = pc
    /\ lock \in {Free, w}
    /\ pc \in Refreshed => worker[w].fresh

Goto(w, pc) ==
    worker' = [worker EXCEPT ![w].pc = pc, ![w].fresh = FALSE]

(* The claim is given up, and the task goes on without it. *)
GiveUp(w, pc) ==
    worker' = [worker EXCEPT ![w].pc = pc, ![w].fresh = FALSE, ![w].token = NoToken]

(* The heartbeat task is aborted on the way out. *)
Leave(w) == GiveUp(w, "leave")

(* set_meeting_status with an expected status, and the error message's write. *)
Cas(from, to) == meeting = from /\ meeting' = to

(* Mutant: the status is written without looking at the old one. *)
FailMeetingAlways == meeting' = "failed"

(* mark_summary_meeting_failed_from_summary_state. *)
FailMeeting ==
    meeting' = IF meeting \in SummaryStates THEN "failed" ELSE meeting

(***************************************************************************)
(* A task's run: claim.                                                    *)
(***************************************************************************)

(* A wakeup, a poll, a timer, a stop or recovery starts a task, and the      *)
(* report channel is looked up.                                              *)
Start(w) ==
    /\ up /\ worker[w] = IdleTask /\ job.status # "absent"
    /\ Goto(w, "claim")
    /\ UNCHANGED <<rows, artifacts, process, lock, faults>>

(* The lookup fails: the meeting is failed although nothing is claimed. *)
StartFails(w) ==
    /\ up /\ worker[w] = IdleTask /\ job.status # "absent" /\ lock = Free
    /\ StatementFails
    /\ FailMeeting
    /\ UNCHANGED <<job, artifacts, process, worker, lock>>

LiveTokens == {job.claim_token} \cup {worker[w].token : w \in Worker}
                 \cup {worker[w].beat : w \in Worker}

(* claim_by_id; a job that is not due, taken or finished ends the run, and   *)
(* so does a failure to load what the run needs before it claims.            *)
Claim(w) ==
    /\ At(w, "claim")
    /\ \/ /\ Claimable(job)
          /\ \E t \in Token \ LiveTokens :
              /\ job' = ClaimedJob(job, t)
              /\ worker' = [worker EXCEPT ![w].pc = "prepare", ![w].token = t,
                                          ![w].beat = t]
          /\ UNCHANGED faults
       \/ /\ ~Claimable(job)
          /\ worker' = [worker EXCEPT ![w] = IdleTask]
          /\ UNCHANGED <<job, faults>>
       \/ /\ StatementFails
          /\ worker' = [worker EXCEPT ![w] = IdleTask]
          /\ UNCHANGED job
    /\ UNCHANGED <<meeting, artifacts, process, lock>>

(* refresh_summary_job_ownership. *)
Refresh(w) ==
    /\ up /\ worker[w].pc \in Refreshed /\ ~worker[w].fresh
    /\ lock = Free
    /\ \/ /\ Owns(w)
          /\ job' = HeartbeatJob(job)
          /\ worker' = [worker EXCEPT ![w].fresh = TRUE]
          /\ UNCHANGED faults
       \/ ~Owns(w) /\ Leave(w) /\ UNCHANGED <<job, faults>>
       \/ StatementFails /\ Goto(w, "leave") /\ UNCHANGED job
    /\ UNCHANGED <<meeting, artifacts, process, lock>>

(* The task behind the heartbeat guard; it ends when it is refused. *)
BackgroundHeartbeat(w) ==
    /\ up /\ lock = Free /\ worker[w].beat # NoToken
    /\ \/ /\ HasActiveClaim(job, worker[w].beat)
          /\ job' = HeartbeatJob(job)
          /\ UNCHANGED worker
       \/ /\ ~HasActiveClaim(job, worker[w].beat)
          /\ worker' = [worker EXCEPT ![w].beat = NoToken]
          /\ UNCHANGED job
    /\ UNCHANGED <<meeting, artifacts, process, lock, faults>>

(* Mutant: the locks are not given back. *)
ReturnKeepsLock(w) ==
    /\ up /\ worker[w].pc = "leave"
    /\ worker' = [worker EXCEPT ![w] = IdleTask]
    /\ UNCHANGED <<rows, artifacts, process, lock, faults>>

(* The run returns and drops what it still holds. *)
Return(w) ==
    /\ up /\ worker[w].pc = "leave"
    /\ worker' = [worker EXCEPT ![w] = IdleTask]
    /\ lock' = IF lock = w THEN Free ELSE lock
    /\ UNCHANGED <<rows, artifacts, process, faults>>

(***************************************************************************)
(* A task's run: from audio to a persisted summary.                        *)
(***************************************************************************)

(* Mutant: the retry is not bound to the claim. *)
RetryJobUnowned(w, max_retries, requeued, exhausted) ==
    /\ job' = RetriedJob(job, max_retries)
    /\ GiveUp(w, IF job'.status = "queued" THEN requeued ELSE exhausted)

(* queue.retry by the task that holds the claim, and where it goes next. *)
RetryJob(w, max_retries, requeued, exhausted) ==
    IF Owns(w)
    THEN /\ job' = RetriedJob(job, max_retries)
         /\ GiveUp(w, IF job'.status = "queued" THEN requeued ELSE exhausted)
    ELSE Leave(w) /\ UNCHANGED job

(* Final rows, or else audio, manifest, mixdown and speaker inputs.  Without *)
(* them the job is retried, and the meeting failed in a later statement.     *)
Prepare(w) ==
    /\ At(w, "prepare")
    /\ \/ /\ transcript \/ audio
          /\ Goto(w, "to_transcribing")
          /\ UNCHANGED <<job, faults>>
       \/ /\ RetryJob(w, MaxRetries, "leave", "fail_meeting")
          /\ IF transcript THEN StatementFails ELSE UNCHANGED faults
       \/ ~transcript /\ StatementFails /\ Goto(w, "leave") /\ UNCHANGED job
    /\ UNCHANGED <<meeting, artifacts, process, lock>>

(* Stopping->Transcribing and Transcribing->Summarizing. *)
Advance(w, pc, to, next) ==
    /\ At(w, pc)
    /\ \/ /\ Cas(worker[w].phase, to)
          /\ worker' = [worker EXCEPT ![w].pc = next, ![w].phase = to, ![w].fresh = FALSE]
          /\ UNCHANGED faults
       \/ /\ meeting # worker[w].phase
          /\ Goto(w, "conflict")
          /\ UNCHANGED <<meeting, faults>>
       \/ StatementFails /\ Goto(w, "transition_error") /\ UNCHANGED meeting
    /\ UNCHANGED <<job, artifacts, process, lock>>

ToTranscribing(w) == Advance(w, "to_transcribing", "transcribing", "transcribe")

ToSummarizing(w) == Advance(w, "to_summarizing", "summarizing", "summarize")

(* handle_summary_status_transition_failure: a lost race fails the job and   *)
(* leaves the meeting alone; a store error retries it without a limit.       *)
TransitionFailed(w) ==
    /\ \/ /\ At(w, "conflict")
          /\ job' = IF Owns(w) THEN FailedJob(job) ELSE job
          /\ Leave(w)
          /\ UNCHANGED faults
       \/ /\ At(w, "transition_error")
          /\ RetryJob(w, job.retry_count + 1, "leave", "leave")
          /\ UNCHANGED faults
       \/ /\ At(w, "conflict") \/ At(w, "transition_error")
          /\ StatementFails
          /\ Goto(w, "leave")
          /\ UNCHANGED job
    /\ UNCHANGED <<meeting, artifacts, process, lock>>

(* A stage that can only succeed or fail as a whole; a failure takes both    *)
(* locks and runs retry_summary_job_after_transcribing_phase_failure.        *)
Stage(w, pc, next) ==
    /\ At(w, pc)
    /\ \/ Goto(w, next) /\ UNCHANGED lock
       \/ lock = Free /\ Goto(w, "retry") /\ lock' = w

Transcribe(w) ==
    /\ Stage(w, "transcribe", "persist")
    /\ UNCHANGED <<rows, artifacts, process, faults>>

(* persist_transcript_segments, which writes nothing when nobody spoke.      *)
(* Out-of-range timestamps fail the job at once.                             *)
PersistTranscript(w) ==
    /\ At(w, "persist")
    /\ \/ Goto(w, "context") /\ transcript' \in {transcript, TRUE} /\ UNCHANGED lock
       \/ /\ lock = Free /\ lock' = w
          /\ Goto(w, "retry") \/ Goto(w, "invalid")
          /\ UNCHANGED transcript
    /\ UNCHANGED <<rows, audio, summary, posts, process, faults>>

MaterializeContext(w) ==
    /\ Stage(w, "context", "to_summarizing")
    /\ UNCHANGED <<rows, artifacts, process, faults>>

Summarize(w) ==
    /\ Stage(w, "summarize", "store")
    /\ UNCHANGED <<rows, artifacts, process, faults>>

(* Mutant: the notice does not wait for the summary to be stored. *)
StoreSummaryLost(w) ==
    /\ Stage(w, "store", "post")
    /\ summary' \in {summary, TRUE}
    /\ UNCHANGED <<rows, audio, transcript, posts, process, faults>>

(* persist_summary, and then the title, whose write may fail after it. *)
StoreSummary(w) ==
    /\ Stage(w, "store", "post")
    /\ summary' \in {summary, TRUE}
    /\ worker'[w].pc = "post" => summary'
    /\ UNCHANGED <<rows, audio, transcript, posts, process, faults>>

(***************************************************************************)
(* Retry of a failed stage; both locks are held from "retry" to the return. *)
(***************************************************************************)

RetryHeartbeat(w) ==
    /\ At(w, "retry")
    /\ \/ /\ Owns(w)
          /\ job' = HeartbeatJob(job)
          /\ Goto(w, "restore")
          /\ UNCHANGED faults
       \/ ~Owns(w) /\ Leave(w) /\ UNCHANGED <<job, faults>>
       \/ StatementFails /\ Goto(w, "leave") /\ UNCHANGED job
    /\ UNCHANGED <<meeting, artifacts, process, lock>>

(* The meeting goes back to Stopping before the job goes back to the queue.  *)
RestoreStopping(w) ==
    /\ At(w, "restore")
    /\ \/ /\ Cas(worker[w].phase, "stopping")
          /\ Goto(w, "requeue")
          /\ UNCHANGED <<job, faults>>
       \/ /\ meeting # worker[w].phase
          /\ job' = IF Owns(w) THEN FailedJob(job) ELSE job
          /\ Leave(w)
          /\ UNCHANGED <<meeting, faults>>
       \/ /\ StatementFails
          /\ job' = IF Owns(w) THEN FailedJob(job) ELSE job
          /\ GiveUp(w, "fail_meeting")
          /\ UNCHANGED meeting
    /\ UNCHANGED <<artifacts, process, lock>>

RequeueJob(w) ==
    /\ At(w, "requeue")
    /\ \/ /\ RetryJob(w, MaxRetries, "leave", "fail_meeting")
          /\ UNCHANGED faults
       \/ StatementFails /\ Goto(w, "put_back") /\ UNCHANGED job
    /\ UNCHANGED <<meeting, artifacts, process, lock>>

(* The job could not be requeued: the meeting gets its old status back. *)
PutBack(w) ==
    /\ At(w, "put_back")
    /\ meeting' = IF meeting = "stopping" THEN worker[w].phase ELSE meeting
    /\ Goto(w, "leave")
    /\ UNCHANGED <<job, artifacts, process, lock, faults>>

(* Validation failure of the transcript. *)
InvalidTranscript(w) ==
    /\ At(w, "invalid")
    /\ \/ /\ job' = IF Owns(w) THEN FailedJob(job) ELSE job
          /\ GiveUp(w, "fail_meeting")
          /\ UNCHANGED faults
       \/ StatementFails /\ Goto(w, "fail_meeting") /\ UNCHANGED job
    /\ UNCHANGED <<meeting, artifacts, process, lock>>

MarkMeetingFailed(w) ==
    /\ At(w, "fail_meeting")
    /\ \/ FailMeeting /\ UNCHANGED faults
       \/ StatementFails /\ UNCHANGED meeting
    /\ Goto(w, "leave")
    /\ UNCHANGED <<job, artifacts, process, lock>>

(***************************************************************************)
(* Notification and completion.                                            *)
(***************************************************************************)

(* Mutant: the notice is out when the failure that requeues the job occurs. *)
PostThenFail(w) ==
    /\ At(w, "post")
    /\ posts' = Smaller(posts + 1, ManyPosts)
    /\ \/ Goto(w, "complete") /\ UNCHANGED lock
       \/ lock = Free /\ lock' = w /\ Goto(w, "repost")
    /\ UNCHANGED <<rows, audio, transcript, summary, process, faults>>

Post(w) ==
    /\ At(w, "post")
    /\ \/ posts' = Smaller(posts + 1, ManyPosts) /\ Goto(w, "complete") /\ UNCHANGED lock
       \/ lock = Free /\ lock' = w /\ Goto(w, "repost") /\ UNCHANGED posts
    /\ UNCHANGED <<rows, audio, transcript, summary, process, faults>>

(* retry_summary_job_after_posting_failure: the job first, then the meeting. *)
RepostJob(w) ==
    /\ At(w, "repost")
    /\ \/ RetryJob(w, MaxRetries, "reopen", "fail_meeting") /\ UNCHANGED faults
       \/ StatementFails /\ Goto(w, "leave") /\ UNCHANGED job
    /\ UNCHANGED <<meeting, artifacts, process, lock>>

ReopenMeeting(w) ==
    /\ At(w, "reopen")
    /\ \/ /\ meeting' = IF meeting = "summarizing" THEN "stopping" ELSE meeting
          /\ UNCHANGED faults
       \/ StatementFails /\ UNCHANGED meeting
    /\ Goto(w, "leave")
    /\ UNCHANGED <<job, artifacts, process, lock>>

(* complete_summary_job_after_notification: heartbeat, ... *)
Complete(w) ==
    /\ At(w, "complete") /\ lock = Free
    /\ \/ /\ Owns(w)
          /\ job' = HeartbeatJob(job)
          /\ Goto(w, "posted") /\ lock' = w
          /\ UNCHANGED faults
       \/ ~Owns(w) /\ Leave(w) /\ UNCHANGED <<job, lock, faults>>
       \/ StatementFails /\ Goto(w, "leave") /\ UNCHANGED <<job, lock>>
    /\ UNCHANGED <<meeting, artifacts, process>>

(* Mutant: the job is completed although the meeting's status was not. *)
MarkPostedConflict(w) ==
    /\ At(w, "posted")
    /\ \/ Cas("summarizing", "posted") /\ UNCHANGED faults
       \/ meeting # "summarizing" /\ UNCHANGED <<meeting, faults>>
       \/ StatementFails /\ UNCHANGED meeting
    /\ Goto(w, "done")
    /\ UNCHANGED <<job, artifacts, process, lock>>

(* ... the meeting's status first, ... *)
MarkPosted(w) ==
    /\ At(w, "posted")
    /\ \/ Cas("summarizing", "posted") /\ Goto(w, "done") /\ UNCHANGED faults
       \/ meeting # "summarizing" /\ Goto(w, "leave") /\ UNCHANGED <<meeting, faults>>
       \/ StatementFails /\ Goto(w, "leave") /\ UNCHANGED meeting
    /\ UNCHANGED <<job, artifacts, process, lock>>

(* ... then the job. *)
MarkDone(w) ==
    /\ At(w, "done")
    /\ \/ /\ job' = IF Owns(w) THEN DoneJob(job) ELSE job
          /\ Leave(w)
          /\ UNCHANGED faults
       \/ StatementFails /\ Goto(w, "leave") /\ UNCHANGED job
    /\ UNCHANGED <<meeting, artifacts, process, lock>>

(***************************************************************************)
(* The rest of the bot process.                                            *)
(***************************************************************************)

(* stop_meeting by whoever is first, then the summary job is enqueued under  *)
(* the queue's lock.                                                         *)
Stop ==
    /\ up /\ lock = Free /\ session
    /\ Cas("recording", "stopping")
    /\ session' = FALSE /\ pending' = TRUE
    /\ UNCHANGED <<job, artifacts, worker, lock, up, recovery, faults>>

Enqueue ==
    /\ up /\ pending /\ lock = Free
    /\ pending' = FALSE
    /\ job' = IF job.status = "absent" THEN EnqueuedJob ELSE job
    /\ UNCHANGED <<meeting, artifacts, worker, lock, up, session, recovery, faults>>

(* wake_ready_summary_jobs: a running job whose lease is over is requeued. *)
Poll ==
    /\ up /\ lock = Free
    /\ StaleRunning(job)
    /\ job' = RequeuedJob(job)
    /\ UNCHANGED <<meeting, artifacts, process, worker, lock, faults>>

(* The gateway's ready event starts run_startup_recovery, which reads the    *)
(* meeting's status; it may come again without a restart.                    *)
Ready ==
    /\ up /\ lock = Free
    /\ \/ recovery = "boot" /\ UNCHANGED faults
       \/ recovery = "none" /\ Disturb("ready")
    /\ recovery' = IF meeting \in SummaryStates \cup {"recording"} THEN meeting ELSE "none"
    /\ UNCHANGED <<rows, artifacts, worker, lock, up, session, pending>>

HasRecordingFile == audio \/ (recovery \in SummaryStates /\ transcript)

(* run_recovery on the status that was read then, which may be out of date.  *)
(* A recording with a session and a voice connection is left alone; whether  *)
(* the gateway reports the connection is not up to the process.              *)
RecoverMeeting ==
    /\ up /\ lock = Free /\ recovery \in SummaryStates \cup {"recording"}
    /\ \/ /\ recovery = "recording" /\ session
          /\ UNCHANGED meeting
          /\ recovery' = "none"
       \/ /\ HasRecordingFile
          /\ recovery \in {"recording", "stopping"} \/ meeting = recovery
          /\ meeting' = IF meeting = recovery THEN "stopping" ELSE meeting
          /\ recovery' = "recover_job"
       \/ /\ HasRecordingFile
          /\ recovery \in {"transcribing", "summarizing"} /\ meeting # recovery
          /\ UNCHANGED meeting
          /\ recovery' = "none"
       \/ /\ ~HasRecordingFile
          /\ meeting' = IF meeting = recovery THEN "failed" ELSE meeting
          /\ recovery' = "none"
    /\ UNCHANGED <<job, artifacts, worker, lock, up, session, pending, faults>>

(* recover_summary_job_for_startup; a claimable job is then run, a delayed   *)
(* one scheduled, a taken or finished one left alone.                        *)
RecoverJob ==
    /\ up /\ lock = Free /\ recovery = "recover_job"
    /\ recovery' = "none"
    /\ job' = IF StaleRunning(job) THEN RequeuedJob(job)
              ELSE IF job.status = "absent" THEN EnqueuedJob ELSE job
    /\ UNCHANGED <<meeting, artifacts, worker, lock, up, session, pending, faults>>

Crash ==
    /\ up /\ Disturb("crash")
    /\ up' = FALSE /\ session' = FALSE /\ pending' = FALSE /\ recovery' = "none"
    /\ worker' = [w \in Worker |-> IdleTask]
    /\ lock' = Free
    /\ UNCHANGED <<rows, artifacts>>

Restart ==
    /\ ~up
    /\ up' = TRUE /\ recovery' = "boot"
    /\ UNCHANGED <<rows, artifacts, worker, lock, session, pending, faults>>

(***************************************************************************)
(* Everybody else.                                                         *)
(***************************************************************************)

(* A lease is three heartbeat intervals long, so it runs out under a live    *)
(* heartbeat task only if the process stalls.                                *)
LeaseKept == up /\ job.leased_until = 1
               /\ \E w \in Worker : HasActiveClaim(job, worker[w].beat)

Tick ==
    /\ job' = Ticked(job) /\ job' # job
    /\ IF LeaseKept THEN Disturb("stall") ELSE UNCHANGED faults
    /\ UNCHANGED <<meeting, artifacts, process, worker, lock>>

(* ADMIN_RETRY_JOB_SQL: both rows in one statement. *)
AdminRetry ==
    /\ meeting = "failed" /\ job.status \in {"failed", "canceled"} /\ audio
    /\ meeting' = "stopping"
    /\ job' = AdminRetriedJob(job, 0)
    /\ UNCHANGED <<artifacts, process, worker, lock, faults>>

(* ADMIN_CANCEL_JOB_SQL: the job alone. *)
AdminCancel ==
    /\ Cancels
    /\ job.status = "queued"
    /\ job' = CanceledJob(job)
    /\ UNCHANGED <<meeting, artifacts, process, worker, lock, faults>>

Run(w) ==
    \/ Claim(w) \/ Refresh(w) \/ Return(w)
    \/ Prepare(w) \/ ToTranscribing(w) \/ ToSummarizing(w) \/ TransitionFailed(w)
    \/ Transcribe(w) \/ PersistTranscript(w) \/ MaterializeContext(w)
    \/ Summarize(w) \/ StoreSummary(w)
    \/ RetryHeartbeat(w) \/ RestoreStopping(w) \/ RequeueJob(w) \/ PutBack(w)
    \/ InvalidTranscript(w) \/ MarkMeetingFailed(w)
    \/ Post(w) \/ RepostJob(w) \/ ReopenMeeting(w)
    \/ Complete(w) \/ MarkPosted(w) \/ MarkDone(w)

Next ==
    \/ \E w \in Worker : Start(w) \/ StartFails(w) \/ Run(w) \/ BackgroundHeartbeat(w)
    \/ Stop \/ Enqueue \/ Poll
    \/ Ready \/ RecoverMeeting \/ RecoverJob
    \/ Crash \/ Restart
    \/ Tick \/ AdminRetry \/ AdminCancel

Spec == Init /\ [][Next]_vars

(* Tasks, the poll, the clock and a supervisor that restarts the process keep *)
(* going; a task is started again and again while the job is claimable.       *)
Fairness ==
    /\ \A w \in Worker : WF_vars(Run(w))
    /\ WF_vars(Claimable(job) /\ \E w \in Worker : Start(w))
    /\ WF_vars(Enqueue) /\ WF_vars(Poll) /\ WF_vars(Tick) /\ WF_vars(Restart)
    /\ WF_vars(Ready /\ recovery = "boot") /\ WF_vars(RecoverMeeting) /\ WF_vars(RecoverJob)

FairSpec == Spec /\ Fairness

(***************************************************************************)
(* Properties.                                                             *)
(***************************************************************************)

(* A meeting is shown as posted only when its summary is stored and a whole  *)
(* notice went out: complete_summary_job_after_notification runs last, and   *)
(* no retry, recovery or second task can reach Posted another way.           *)
NoticeBeforePosted == meeting = "posted" => summary /\ posts >= 1

(* A job is done only for a posted meeting, although the two rows are        *)
(* written one after the other: recovery and admin retries never take the    *)
(* meeting of a done job back.                                               *)
DoneMeansPosted == job.status = "done" => meeting = "posted"

(* However many tasks the poll, the timers and the administrators start for  *)
(* the meeting, and whatever stages fail and are retried, the summary is     *)
(* posted once, unless a crash, a stall, a failed statement or a repeated    *)
(* ready event disturbs the run.                                             *)
OneNotice == faults = 0 => posts <= 1

(* The retry budget holds across tasks; only retries after a failed status   *)
(* write (handle_summary_status_transition_failure) may exceed it.           *)
RetryBudget == job.retry_count <= MaxRetries + 1 + faults

(* A posted meeting stays posted, whatever late tasks and stale recoveries   *)
(* do, and a failed one is reopened only by an administrator, together with  *)
(* its job.                                                                  *)
SettledStays ==
    [][/\ meeting = "posted" => meeting' = "posted"
       /\ meeting = "failed" =>
            \/ meeting' = "failed"
            \/ meeting' = "stopping" /\ job'.status = "queued"
                 /\ job'.retry_count = 0]_vars

(* The pipeline uses the job queue as JobQueue describes it, so that what is  *)
(* proved there about claims and leases holds for the tasks here.             *)
Queue == INSTANCE JobQueue WITH
    Job <- {"summary"},
    NoClaim <- NoToken,
    RetryLimits <- 0..(MaxRetries + MaxFaults + 1),
    AdminDelays <- {0},
    RecoverLimit <- 1,
    row <- [j \in {"summary"} |-> job],
    rank <- [j \in {"summary"} |-> IF job.status = "absent" THEN 0 ELSE 1],
    earlier <- {},
    held <- [w \in Worker |-> IF worker[w].token = NoToken THEN NoToken
                              ELSE [job |-> "summary", token |-> worker[w].token]],
    beat <- [w \in Worker |-> IF worker[w].beat = NoToken THEN NoToken
                              ELSE [job |-> "summary", token |-> worker[w].beat]]

ImplementsQueue == Queue!Spec

(* With no disturbance, a stopped meeting always ends as posted or failed:   *)
(* stage failures use up the retries, and no task waits for ever.            *)
Settles == meeting \in SummaryStates ~> meeting \in {"posted", "failed"}

(* What the comments on the completion order promise: a run that a crash     *)
(* interrupts leaves its job Running, and the meeting is recovered after the *)
(* restart.                                                                  *)
InterruptedRunRecovers ==
    ~up /\ job.status = "running" /\ meeting \in SummaryStates
      ~> meeting \in {"posted", "failed"}
=============================================================================
