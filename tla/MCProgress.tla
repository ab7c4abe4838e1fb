----------------------------- MODULE MCProgress -----------------------------
(***************************************************************************)
(* What must happen in the end on the way of a recording, for TLC: small   *)
(* instances of the modules whose liveness is checked, LiveOutbox with its *)
(* safety. A behaviour is one of a single instance, named by part; the     *)
(* others rest in their initial state, so that the state spaces add up and *)
(* do not multiply. Each property assumes the fairness of its own          *)
(* component.                                                              *)
(***************************************************************************)
EXTENDS LiveOutbox, TLC

CONSTANTS
  NoToken, NoClaim, Free

VARIABLES
  part,
  rowQueue, rank, earlier, held, beat,
  meeting, jobTask, audioTask, transcript, summary, posts, worker, lock, up, session,
  pendingTask, recoveryTask, faultsTask,
  clock, tracker, buffer, perUserSeq, pendingSession, queueSession, acks, files, staged,
  accepted, lost, trimmed, doubled, phase, faultsSession,
  version, stagedMirror, remote, tombstone, q, receipt, wants, rec, del, budget, leftover,
  unlisted,
  day, statusRetention, stoppedAt, snapshot, cleaned, title, filesRetention, liveRetention,
  dead, summaries, artifacts, run, delRetention, approved, raced, faultsRetention, retries,
  deletes

Days(r, t, s) == [raw |-> r, transcript |-> t, summary |-> s]
NoSnapshotKept == [none |-> TRUE]

(* The meeting of the chunk, which has a summary.                          *)
OneMeeting == <<"m1">>
WithSummary == [m \in {"m1"} |-> TRUE]

(* Two jobs that compete for the one row a recovery pass may requeue.    *)
Queue == INSTANCE JobQueue WITH
  Token <- 1 .. 3, NoToken <- NoToken, LeaseDuration <- 1, RetryBase <- 1, RetryCap <- 1,
  Job <- {"job1", "job2"}, Worker <- {"w1"}, NoClaim <- NoClaim, RetryLimits <- {0},
  AdminDelays <- {}, RecoverLimit <- 1,
  row <- rowQueue

(* No disturbance: every stage may fail and be retried.                  *)
Pipeline == INSTANCE SummaryPipeline WITH
  Token <- 1 .. 3, NoToken <- NoToken, LeaseDuration <- 1, RetryBase <- 1, RetryCap <- 1,
  Worker <- {"w1", "w2"}, Free <- Free, MaxRetries <- 1, MaxFaults <- 0, FaultKinds <- {},
  Cancels <- FALSE,
  job <- jobTask, audio <- audioTask, pending <- pendingTask, recovery <- recoveryTask,
  faults <- faultsTask

(* A user, failed writes, and a teardown.                                *)
OneUser == INSTANCE RecordingSession WITH
  Ssrc <- {1}, Owner <- <<11>>, Ticks <- 2, MaxBuffer <- 2, MaxTasks <- 2, MaxBytes <- 2,
  MaxPending <- 1, MaxFaults <- 2,
  pending <- pendingSession, queue <- queueSession, faults <- faultsSession

(* Built files, failing requests and a restart.                          *)
Outage == INSTANCE UploadMirror WITH
  Proc <- {"bot"}, Chunks <- {}, Snapshots <- {}, Files <- {"file1", "file2"},
  QueueBound <- 2, MaxPending <- 2, MaxInline <- 1, ReconcileLimit <- 1, MaxVersion <- 2,
  MaxGeneration <- 2, MaxFaults <- 1, MaxPermanent <- 0, MaxBlind <- 0, MaxCrashes <- 1,
  Deleting <- FALSE,
  staged <- stagedMirror

(* The bot's cleanup of one meeting, with a failed removal or statement  *)
(* anywhere.                                                             *)
Hourly == INSTANCE RetentionCleanup WITH
  Meeting <- {"m1"}, Policy <- Days(1, 1, 0), AdminPolicy <- {},
  Snapshots <- {NoSnapshotKept, Days(1, 1, 1)}, Targets <- {{"raw"}}, MaxDay <- 3,
  MaxFaults <- 1, MaxRetries <- 0, MaxDeletes <- 0,
  status <- statusRetention, files <- filesRetention, live <- liveRetention,
  del <- delRetention, faults <- faultsRetention

ASSUME
  /\ OneUser!SsrcAssumption /\ OneUser!BoundAssumption
  /\ Outage!KindAssumption /\ Outage!BoundAssumption
  /\ Hourly!PolicyAssumption /\ Hourly!TargetsAssumption /\ Hourly!BoundAssumption

queueVars ==
  <<rowQueue, rank, earlier, held, beat>>
pipelineVars ==
  <<meeting, jobTask, audioTask, transcript, summary, posts, worker, lock, up, session,
    pendingTask, recoveryTask, faultsTask>>
sessionVars ==
  <<clock, tracker, buffer, perUserSeq, pendingSession, queueSession, acks, files, staged,
    accepted, lost, trimmed, doubled, phase, faultsSession>>
mirrorVars ==
  <<version, stagedMirror, remote, tombstone, q, receipt, wants, rec, del, budget,
    leftover, unlisted>>
retentionVars ==
  <<day, statusRetention, stoppedAt, snapshot, cleaned, title, filesRetention,
    liveRetention, dead, summaries, artifacts, run, delRetention, approved, raced,
    faultsRetention, retries, deletes>>
ProgressVars == <<part, vars, queueVars, pipelineVars, sessionVars, mirrorVars, retentionVars>>

ProgressInit ==
  /\ part \in {"outbox", "jobs", "summary", "session", "outage", "hourly"}
  /\ Init
  /\ Queue!Init
  /\ Pipeline!Init
  /\ part # "summary" => audioTask
  /\ OneUser!Init
  /\ Outage!Init
  /\ Hourly!Init
  /\ part # "hourly" => statusRetention["m1"] = "posted" /\ snapshot["m1"] = NoSnapshotKept

ProgressNext ==
  /\ UNCHANGED part
  /\ \/ /\ part = "outbox" /\ Next
        /\ UNCHANGED <<queueVars, pipelineVars, sessionVars, mirrorVars, retentionVars>>
     \/ /\ part = "jobs" /\ Queue!Next
        /\ UNCHANGED <<vars, pipelineVars, sessionVars, mirrorVars, retentionVars>>
     \/ /\ part = "summary" /\ Pipeline!Next
        /\ UNCHANGED <<vars, queueVars, sessionVars, mirrorVars, retentionVars>>
     \/ /\ part = "session" /\ OneUser!Next
        /\ UNCHANGED <<vars, queueVars, pipelineVars, mirrorVars, retentionVars>>
     \/ /\ part = "outage" /\ Outage!Next
        /\ UNCHANGED <<vars, queueVars, pipelineVars, sessionVars, retentionVars>>
     \/ /\ part = "hourly" /\ Hourly!Next
        /\ UNCHANGED <<vars, queueVars, pipelineVars, sessionVars, mirrorVars>>

ProgressSpec == ProgressInit /\ [][ProgressNext]_ProgressVars

(* A running job nobody works on any more is not stuck: once its worker and  *)
(* its heartbeat task are gone, the lease runs out and the poll requeues it, *)
(* although a pass takes RecoverLimit rows and other jobs, claimed and       *)
(* abandoned again and again, compete with it for them.                      *)
AbandonedJobRequeued == part = "jobs" /\ Queue!Fairness => Queue!AbandonedJobRequeued

(* With no disturbance, a stopped meeting always ends as posted or failed:   *)
(* stage failures use up the retries, and no task waits for ever.            *)
Settles == part = "summary" /\ Pipeline!Fairness => Pipeline!Settles

(* A teardown of the recording session that has begun ends: the drain      *)
(* under the gate never waits for a write that needs the gate. And once    *)
(* failures end, every queued chunk is transcribed or given up, whatever   *)
(* client, claim or recovery it was caught in.                             *)
CaptureDrains ==
  /\ part = "session" /\ OneUser!Fairness => OneUser!TeardownEnds
  /\ part = "outbox" /\ Fairness => QueueDrains

(* Whoever waits for the receipt of an upload gets an answer, and what is  *)
(* staged when a process starts is stored in the end, although requests    *)
(* fail and the queue is full, unless it is deleted or rewritten. Raw      *)
(* audio of a meeting that no longer changes is gone in the end if its     *)
(* lifetime is finite, although removals and statements fail on the way.   *)
StoreCatchesUp ==
  /\ part = "outage" /\ Outage!Fairness
       => Outage!ReceiptAnswered /\ Outage!StagedReachesStore
  /\ part = "hourly" /\ Hourly!Fairness => Hourly!RawAudioGoes
=============================================================================
