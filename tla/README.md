# Formal models of discord-transcript

discord-transcript is a Discord bot that records voice meetings, transcribes
them, has a language model summarise them, and posts the summary. It is one Rust
process (Tokio tasks) beside a PostgreSQL database, a workspace on disk, an
optional S3 mirror, and a web API that may run as a process of its own.

This directory holds TLA+ modules of the parts of it where correctness depends on
the order of steps of several tasks, the TLC runs over them, and TLAPS proofs.
`PROJECT.json` is the index: components, runs, the source lines each definition
models, hazards, findings, theorems, and one mutant per property.

To repeat a run: `tlc -config <X>.cfg <module>`, with the module and the file that
`PROJECT.json` names. To repeat the proofs: `tlapm <M>.tla` for `JobRecordProofs`,
`JobQueueProofs`, `SummaryPipelineProofs`, `RecordingLifecycleProofs`, `LiveOutboxProofs`,
`RetentionCleanupProofs`, `MeetingSchedulesProofs` and `AccessChecksProofs`.

## 1. Inventory

Paths are relative to the crate's `src/`.

| Component | State | Operations | Interacts with |
| --- | --- | --- | --- |
| Summary job queue (`infrastructure/queue.rs`, `sql.rs`, `sql_store.rs`) | table `jobs`: status, retry count, claim token, lease, next run | enqueue, claim, heartbeat, done, failed, retry, recover, cancel, admin retry | every summary task, the 30 s poll, startup recovery, the jobs API |
| Summary pipeline (`application/runtime.rs`, `worker.rs`, `summary_persistence.rs`) | the meeting's status, its job, transcript and summary rows; per task: claim, heartbeat task, locks | `run_summary_and_notify` and the retry and completion paths | queue, meeting store, ASR, agent, Discord |
| Startup recovery (`runtime.rs`, `recovery_runner.rs`, `domain/recovery.rs`) | a snapshot of unfinished meetings | reads candidates after every ready event and resets, fails or reruns them | meeting store, queue, sessions, voice |
| Recording lifecycle (`runtime.rs`, `command.rs`, `bot.rs`, `meeting_flow.rs`) | startup reservations, sessions, cleanup retries, voice connection; two locks, `command_gate` and `ssrc_tracker_reset_gate` | start, join, verify, stop, cleanup, terminal absence | meeting store, queue, sessions, songbird |
| Automatic stop (`auto_stop.rs`, `runtime.rs`) | timers with generations per guild | evaluate, arm, cancel, fire, retry | voice events, recording lifecycle |
| Lost voice connection (`runtime.rs`) | per report: a target, counters of failures | resolve, wait, look again, stop or mark failed | songbird, recording lifecycle |
| Recording sessions (`audio/recording_session.rs`, `receiver.rs`, `recording_writer.rs`) | buffers per speaker, chunk sequence, retry buffer, writer permits | frame, cut, re-key, save, retry, flush, tear down | songbird, disk, mirror |
| Live transcription outbox (`live_transcription_dispatcher.rs`, `runtime.rs`) | table `live_transcription_chunks`, the process's permit | enqueue, claim, transcribe, write, requeue, recover | sessions, ASR, pipeline |
| Meeting audio and mixdown (`audio/meeting_audio.rs`, `wav.rs`) | chunk files, `ssrc_mapping.json`, `mixdown.wav`, `speakers/` | scan, select, prepare, stitch, mix, promote | pipeline, web API |
| S3 mirror (`storage_s3.rs`, `s3.rs`) | upload queue, receipts, staged copies, tombstones | submit, upload, retry, reconcile, delete a prefix | sessions, retention, other processes |
| Retention cleanup (`retention_cleanup.rs`, `domain/retention.rs`) | plans, a gate | plan, remove, mark, delete a meeting | meeting store, disk, S3 |
| Posting and status message (`posting.rs`, `runtime.rs`, `main.rs`) | ids of the status message and of the thread in the meeting's row; Discord's messages | split, find or make the thread, post, edit or send the status | pipeline, recording lifecycle, worker |
| Meeting schedules (`domain/schedule.rs`, `runtime.rs`, `web.rs`) | rows with the next start; an advisory lock | create, cancel, move on, claim, start, end | recording lifecycle, web API |
| Bot token and gateway (`bot_token.rs`, `main.rs`, `web.rs`) | encrypted row, cache with one refresh, revision | store, delete, read, restart the gateway | web API, bot |
| Web sessions (`web.rs`) | signed cookies, revocations, membership cache | login, request, renew, stream, logout | Discord |
| Permission checks (`web.rs`, `runtime.rs`) | permission cache, guild cache with one refresh | check, refresh, invalidate on gateway events | Discord, gateway |
| Transcript stream (`web.rs`) | per connection: cursor, what was sent; permits per user | poll, snapshot, end | outbox, pipeline |
| Plans, usage, audit (`web.rs`, `sql.rs`, `domain/usage.rs`) | plans, quotas, assignments; usage events; audit events and the pruning gate | administer, resolve; append, observe; trigger, prune | every request |
| Knowledge (`web.rs`, `summary.rs`, `worker.rs`, `sql.rs`) | knowledge items, memory notes, templates, aliases, feedback; a summary's context files | create, edit, review, archive, load, propose | pipeline, administrators |
| ASR, agent, configuration, frontend | none that other tasks race for | calls that succeed or fail, pure decisions | the pipeline |

### What is hard here

* **Two rows, many writers.** A meeting and its summary job are separate rows,
  written in separate statements, often under separate locks. Several summary
  tasks, a poll, retry timers, startup recovery and administrators (who take none
  of the bot's locks) write them. The process may die between any two statements.
* **Leases.** A worker works from a copy of its job. The copy may be out of date
  when its heartbeat, retry or completion arrives.
* **Stops overlap starts.** A meeting that is *stopping* does not refuse the next
  recording, so leaving voice, the tail flush and the deferred summary job of one
  meeting run beside the start of the next on the same voice connection.
* **Locks given up in the middle.** A start releases the command gate twice and
  joins voice without any lock; a stop exchanges one gate for another.
* **Ready comes again.** Startup recovery runs after *every* ready event, with
  a snapshot that is read first and acted on later.
* **Audio is in memory.** A flush may fail; a session may be dropped with audio
  in it. The loss has to reach the database whichever path dropped it.
* **Two names for one speaker.** Audio is filed under a stream until the speaker is
  known, while chunks wait for retries, uploads and the live transcription.
* **Requests are dropped.** The web server drops a handler when its client goes
  away, at any await: a leader of a refresh, the holder of a lock, a change that was
  written and not announced.
* **Read, compute, write.** Counts, roles, tokens and memberships are read before an
  await and written down after it.
* **Several processes.** Bot, web server and worker share the database and the
  object store and nothing else.

### What makes each component correct

* Queue: at most one worker passes the claim check of a job; a lost claim never
  comes back; only the end of the lease takes a claim away; the backoff is kept;
  an abandoned job is requeued.
* Pipeline and recovery: *posted* means stored and notified; *done* means
  *posted*; one notice; a retry budget across tasks; settled meetings stay so;
  every stopped meeting settles; an interrupted run recovers.
* Recording lifecycle: one recording per guild; nothing of a finished meeting is
  left behind; lost audio is on record; a late leave does not hit the successor;
  stopped meetings are summarised; reservations are returned.
* Automatic stop and lost connections: a recording in a channel that stays empty, or
  without a connection, ends; one that is in order, or came later, does not.
* Outbox: every chunk's speech is in the final transcript once; nothing stays
  running without an owner.
* Sessions: every frame is in exactly one file, or counted as lost.
* Audio: nothing is transcribed twice or not at all; what is played is whole.
* Mirror: who was told *durable* finds the file; deleted recordings stay deleted.
* Retention: nothing a running task needs is deleted; *cleaned* means gone.
* Posting: the whole summary, in one place; the status tells how it ended.
* Schedules: each occurrence is started once, windows do not overlap.
* Caches (permissions, membership, token): nothing that was revoked is served from
  an answer computed before and stored after.
* Ledgers (usage, audit, plans, knowledge): retries count once; a review stands; a
  version names one text.

## 2. Modules

```
the meeting's way
  RecordingLifecycle   starts and stops of one guild        RecordingLifecycleProofs
    AutoStop           the empty channel                    (the stop is one step)
    DriverDisconnect   the lost voice connection            (the stop is one step)
    MeetingSchedules   weekly starts and their end          MeetingSchedulesProofs
                                                            (start and stop are steps)
  RecordingSession     voice frames into files
    UploadMirror       the copies in the object store
  LiveOutbox           transcription while recording        LiveOutboxProofs
  JobRecord            one jobs row and what operations     JobRecordProofs
                       write (operators)
    JobQueue           the queue: rows, copies, heartbeats  JobQueueProofs
    SummaryPipeline    tasks over one meeting and its job;  SummaryPipelineProofs
                       refines JobQueue
      MeetingAudio     what a task transcribes and what can be played
      Mixdown          how mixdown.wav is made
      KnowledgeBase    what a summary is given
      SummaryPosting   how the summary and the status reach Discord
  RetentionCleanup     the end of it all                    RetentionCleanupProofs
the web API
  AccessChecks         permissions and their caches         AccessChecksProofs
  WebSession, TranscriptStream, BotToken, PlanAdministration, UsageLedger,
  AuditTrail, SummaryTemplates, PersonAliases, TranscriptFeedback
instances for TLC
  MCStored             JobQueue; UploadMirror
  MCRetention          RetentionCleanup
  MCProgress           LiveOutbox; liveness of JobQueue, SummaryPipeline, RecordingSession,
                       UploadMirror, RetentionCleanup
  MCSummary            SummaryPipeline; SummaryPosting, KnowledgeBase, SummaryTemplates,
                       PersonAliases, TranscriptFeedback, UsageLedger
  MCRecording          RecordingLifecycle; RecordingSession, LiveOutbox, Mixdown, MeetingAudio
  MCGuildAndWeb        AccessChecks; AutoStop, DriverDisconnect, MeetingSchedules, BotToken,
                       TranscriptStream, WebSession, PlanAdministration, AuditTrail
  MCAnswers            MeetingSchedules; liveness of AutoStop, DriverDisconnect, BotToken,
                       TranscriptStream, AccessChecks, WebSession, AuditTrail
```

### JobRecord and JobQueue

`JobRecord` is `struct Job` with the transitions of `queue.rs` and of the SQL
statements in `sql.rs`, which agree. Instants are kept as *time left*: a tick
lowers `leased_until` and `next_run_at`, and zero means over or due. Nothing needs
an absolute clock, and the state space is finite without bounding time. Tokens
stand for random UUIDs: a claim takes one that no row and no copy still carries.

`JobQueue` has the table `row`, the insertion order `rank` by which a worker claims, the order of
the last claim or refresh `earlier` (`updated_at`), the copy each worker
holds (`held`) and the copy its background heartbeat holds (`beat`). Recovery takes the rows that
were touched least recently, up to its limit. There is
one action for each operation of the trait, one for the bounded recovery pass
(`RECOVERY_READY_SUMMARY_JOBS_SQL`), the administrator's `Cancel` and
`AdminRetry`, and `Vanish` for a worker whose future is dropped or whose process
dies. A refused operation changes no row and the worker gives its copy up.

### SummaryPipeline

One meeting, its job, and several tasks running `run_summary_and_notify`. A step is
one statement, or one locked section no other actor can split. A task's `pc`
names its next statement. `Refreshed` are the statements that follow
`refresh_summary_job_ownership`. `lock` stands for the service and the queue mutex
where a path keeps them over several statements. Stage contents (ASR, agent,
prompts) are a success or a failure. `Poll`, `Stop`, `Enqueue`, `Ready`,
`RecoverMeeting`, `RecoverJob`, `Crash` and `Restart` are the rest of the process;
`AdminRetry` and `AdminCancel` come from outside and take no lock. The meeting has its summary
enabled: the branches for one without (`runtime.rs:449`, `3157`), which end it as posted with no
job, summary or notice, are in `RecordingLifecycle` (`NoSummary`) and not here, so
`NoticeBeforePosted` is about meetings that are summarised.

Disturbances are counted by `faults` and chosen by `FaultKinds`: `statement` (a
statement fails), `stall` (a lease runs out under a live heartbeat), `crash`, and
`ready` (a second ready event). Stage failures are not counted; they may happen
every time.

`Queue == INSTANCE JobQueue WITH ...` maps the tasks to workers of the queue.
`ImplementsQueue` says that every step of the pipeline is a step of `JobQueue` or
leaves it alone, so what is proved about claims and leases holds here.

### RecordingLifecycle

One guild. Meetings are numbered in the order of `started_at`, since
`find_active_meeting_by_guild` takes the newest (`Active`).

* `start[m]` is where `start_recording_in_channel` is for meeting m: the row and the
  reservation under the gate, the workspace without it, the recheck, the session
  under both gates, join attempts without a lock, cleanup between attempts, and
  `verify_recording_start_after_join`.
* `stop[s]` is a stop command or a grace timer (`auto`): flush, mark, remove the
  session under the command gate, then leave, tail flush and finalise under the
  reset gate, then retries in the background without a lock. `deferred` means that
  the first flush failed and the job waits for the tail flush; `carry` that this
  stop owns the session it removed.
* `HoldsGate` and `HoldsReset` name the steps over which a task keeps each lock.
* `unsaved` and `lost` are what the audio properties need of a session.
* `cleanup` is the retry of a failed start, `absent` the sessions a terminal
  absence cleanup took out and has still to flush, `recovery` what startup recovery
  has read and not acted on.

Abstractions: how many failures a timer or a cleanup tolerates is not kept, after
any failure it may try again or give up. songbird is external: a join takes the
guild's one connection, and succeeds only if nobody left or joined since; a leave
may fail (fault kind `leave`, not counted). Flushes and joins may fail every time. The counted
fault kinds are `statement` (any statement of the store or the queue fails), `enqueue` (the late
enqueue of a deferred job fails, a part of the former) and `ready` (a second ready event).
Authorization, status messages, scheduled starts and shutdown are left out. The
pipeline is one step here (`Summarize`) and takes up a meeting only if it is
stopping; `SummaryPipeline` has the detail.

Scheduled starts, the empty channel and the lost connection have modules of their
own, in which the stop is one step that succeeds or fails.

### RecordingSession, UploadMirror, LiveOutbox

`RecordingSession`: a frame is `<<tick, ssrc>>` and one byte long. Buffers, chunks with
reserved numbers, the retry buffer with its eviction, re-keying of a speaker whose
name arrives, the writer with its two permits (tasks and bytes) and
acknowledgements, staged and superseded copies, and the two gated steps of the
teardown. A flush may be due at any tick. A chunk that cannot be built is an error of the flush,
and a superseded copy that cannot be removed stays and is counted as left over.

`UploadMirror`: per process a queue, a worker and a reconciler. Contents are
versions. Tasks are accepted, superseded, retried, refused or settled, each with its
share of the accounting; a deletion cancels, waits, leaves a tombstone and lists. A listing of the
tombstones may fail, which the worker takes for fetched (`blind`, and `unlisted` for what it then
stores), and so may the removal of a superseded copy (`leftover`).

`LiveOutbox`: rows with claims, one dispatcher per gateway client, the permit that the
clients of a process share, the write of live rows in one transaction, and the
summary task's three uses of them: reading, excluding, replacing. The stop enqueues the job before
it removes the session and flushes it for the last time, so chunks may be stored while the
task already lists and loads. `due` are the chunks that were stored when the job was enqueued, and those are the ones
`EveryChunkOnce` promises; of the others it says that they are not there twice (finding 19).

### MeetingAudio and Mixdown

Both are algorithms with failures. In `MeetingAudio` a sample is `<<chunk, index>>`,
a chunk file has a name, a start, a rate and a body that may be cut off;
`Overlap`, `Skip` and `Prepared` are the arithmetic of
`prepare_manifest_asr_inputs` with its truncation to milliseconds. `heard` and `metered`
are what the properties compare. In `Mixdown` a sample of the timeline is the set of
samples mixed into it and a sample of the file is what the filter sees of the
timeline, so `WindowsUnseen` compares the windowed algorithm with the reference
definition on the whole timeline, for every directory of the instance.

### SummaryPosting

`SplitDiscordMessage` and its helpers work on characters of one or two UTF-16 units.
`att` are the attempts of the job, `upd` the update of the status message each actor has
under way (read, edit, send, save; no lock over them). A thread made from a message
has the message's id, as in Discord.

### RetentionCleanup

Days are numbers. The bot's plan and an administrator's exclude each other through the
gate, a deletion of one meeting does not take it; each plan is carried out in
separate removals and statements that may fail, the mark, transcripts, summaries and
artifacts of a deletion one by one, while an administrator's retry may reopen
a meeting (`reopened`, of a run and of a deletion). A removal that fails leaves its directory and is counted against the meeting, whatever the others do, as
in `retention_cleanup.rs:626`: only a workspace without a failed removal is marked.

### AutoStop, DriverDisconnect, MeetingSchedules

`AutoStop`: the handler of an event is three steps (look up and count, ask for the
grace, write under the lock), several may overlap (`Overlap`); a timer task sleeps,
looks and stops. When its stops have failed too often it marks the recording failed, which may fail as well, and
after `MaxCleanups` of those it leaves the recording (`outcome = "left"`). `DriverDisconnect`: a report is resolved to a target, and its task makes
rounds with four counters. `MeetingSchedules`: a week has a few hours; the command
creates in one transaction, the web API in statements under a session lock
(`held`), the loop moves on, claims and starts.

### The web API

`WebSession`, `AccessChecks` and `BotToken` are the same pattern met three times: one
leader refreshes, others wait, and a change overtakes the refresh. Answers are
versions of what they were computed from, and a client may be dropped at every await.
A membership check gives up its marker and stores its answer in two steps, as under the two locks of the code.
`TranscriptStream` has the reads of a connection apart from the writers between them. One transaction
writes at a time (the service's lock and the process's permit), its rows carry the time of its
beginning, it may be rolled back, and reads may fail without bound.
`PlanAdministration` has requests that load, announce, change and announce again.
`AuditTrail` has the atomic steps of the pruning gate. `SummaryTemplates` has the parts of one
SQL statement, their snapshot and the unique index. `TranscriptFeedback` has the trigger under
its advisory lock, the checks and foreign keys of the table and all types of feedback,
`PersonAliases` the two unique keys a proposal meets,
`UsageLedger` the identities of events and the window of 30 days they are observed in, `KnowledgeBase` the lists, limits and files of a
summary's context.

### The MC modules

An MC module puts several components, and several instances of a component with other
constants, under one run. It extends one component, whose constants the cfg gives and whose
properties keep their names, and instantiates the others (`MCRetention` has none).
The variable `part` is chosen in the initial state and names the instance this behaviour is about; the variables of the other instances rest in one
initial state of theirs. A next step is a step of that instance, so the state spaces of the
instances add up and do not multiply, and every instance is explored as if it had a run of its
own. Instances of one component share its variables. A property of an MC module says of each
instance what its component's module says under that name (`part = "..." => ...`), in
the order in which its comment tells it. The variables of an MC module are those of its
components, with a suffix where two components use the same name.

## 3. Runs

Of each property that holds parts, the table names the definitions of the component modules it is
made of.

| Run | Property | Holds |
| --- | --- | --- |
| `stored_state` | `TypeOK`, `ExclusiveClaim`, `NoRevival`, `LeasedClaimStable`, `BackoffKept` | `JobQueue`: two jobs, two workers, three tokens, leases of two ticks, recovery limited to one row |
| | `StoreAgrees` | `UploadMirror`: `AccountingExact`, `OneStagedCopy`, `DurableIsStored`, `DeletedStaysDeleted` |
| | `NewestWins` | `UploadMirror`: `NewestWins` |
| `retention` | `RetentionExact` | `RetentionCleanup`, with one fault anywhere: `CleanedMeansGone`, `TitleNeedsSummary`, `PreviewIsExact` and the types |
| | `NothingRemovedEarly` | the same: `ActiveKeepsFiles` (no row is lost, and no file but to a removal that was planned before the meeting was reopened), `SnapshotKeeps` |
| `progress` | `SpeechOnce` | `LiveOutbox`: `LiveYieldsToFinal`, `EveryChunkOnce`, `OneInference`, `RunningIsOwned`, for two meetings |
| | `AbandonedJobRequeued` | `JobQueue`, two jobs and a recovery of one at a time: a job nobody works on leaves *running*, behind the limit too |
| | `Settles` | `SummaryPipeline`: undisturbed, however often stages fail, a stopped meeting ends as posted or failed |
| | `CaptureDrains` | `RecordingSession`: `TeardownEnds`; `LiveOutbox`: `QueueDrains` |
| | `StoreCatchesUp` | `UploadMirror`: `ReceiptAnswered`, `StagedReachesStore`; `RetentionCleanup`: `RawAudioGoes` |
| `summary_pipeline` | `NoticeBeforePosted`, `DoneMeansPosted`, `OneNotice`, `RetryBudget`, `SettledStays`, `ImplementsQueue` | `SummaryPipeline`: two tasks, one disturbance of any kind at any point, cancels |
| | `PostedWhole` | `SummaryPosting`: `PostedWhole`, `OneThread`, `ThreadUsed`, `StatusTells` |
| | `RecordsSound` | `KnowledgeBase`: `ApprovedOnly`, `VersionNamesText`, `LoadedWithinChannel`, `ManifestComplete`; `PersonAliases`: `ChecksHold`; `TranscriptFeedback`: `QuotaKept`, `StoredOnce`, `ShapeImpliesChecks`; `UsageLedger`: `NeverOvercounted`, `FullyCounted` |
| | `ReviewsStand` | `KnowledgeBase`: `ManifestKept`, `ArchivedNoteFinal`; `SummaryTemplates`: `VersionPerChange`, `BackByActivation`, `ActiveKept`; `PersonAliases`: `ReviewStands`, `ArchivedFinal`; `TranscriptFeedback`: `ReviewedOnce`; `UsageLedger`: `ObservationExact` |
| `recording` | `TypeOK`, `OneRecording`, `NothingLeftBehind`, `LossRecorded`, `SuccessorVoiceKept`, `PostedFailsForLossOnly` | `RecordingLifecycle`: two meetings, two stops, failing flushes, joins and leaves |
| | `FramesAccounted` | `RecordingSession`: `FramesAccounted`, `FramesStoredOnce`, `WriterBounded`, `RightSpeaker`; `LiveOutbox`, three chunks of one meeting: `SpeechOnce` |
| | `AudioExact` | `Mixdown`: `WindowsUnseen`, `PlaybackWhole`; `MeetingAudio`: `NotTwice`, `AllHeard`, `MeteredAsHeard`, `SpeakersPlayable`, `ManifestReadable` |
| `recording_lifecycle_faults` | `OneRecording` | `RecordingLifecycle`: up to two failed statements or ready events, one stop |
| `recording_lifecycle_live` | `GuildSettles` | `RecordingLifecycle`, where the late enqueue of a deferred job may fail once: `StoppingSettles`, `ReservationReturned` |
| `guild_and_web` | `AccessCurrent` | `AccessChecks`, while the channel changes: `ChannelDecisionFresh`, `GuildCacheFresh` and the types |
| | `GuildExact` | `MeetingSchedules`: `NoOverlap`; `AutoStop`: `WaiterWaits`; `BotToken`: `CacheIsCurrent` |
| | `AccessIsCurrent` | `AccessChecks`, while the roles change: `GuildCacheFresh`, `StrictIsCurrent`; `WebSession`: `LogoutFinal`, `StreamEnds`, `LoginIsOwn`; `TranscriptStream`: `LiveDelivered`, `PermitsExact`; `PlanAdministration`: `ResolutionDeterminate`, `AnchorShared`; `AuditTrail`: `OnePrune`, `NoLostTrigger` |
| | `GuildAndWebSteps` | `DriverDisconnect`: `LaterKept`; `MeetingSchedules`: `NoneSkipped`, `CanceledRests`; `WebSession`: `SessionEnds`, `StrangerOut`, `PublishedInOrder`; `AccessChecks`: `RefreshMonotone`; `PlanAdministration`: `AuditedFirst`, `ArchivedPlanKept`, `RevokedFinal` |
| `answers` | `OncePerOccurrence` | `MeetingSchedules`: a schedule that a request creates, with evaluations that are out of date, restarts between claim and start, and recordings stopped early |
| | `StopsFollow` | `AutoStop`: `EmptyChannelEnds`; `DriverDisconnect`: `DisconnectedEnds`, `TaskEnds`; `MeetingSchedules`: `WindowCloses` |
| | `AnswersFollow` | `MeetingSchedules`: `LockGivenBack`; `BotToken`: `RequestAnswered`, `GatewayCatchesUp`; `TranscriptStream`: `StreamEnds`; `AccessChecks`: `WaiterServed`; `WebSession`: `FollowerAnswered`; `AuditTrail`: `PruneFollows` |
| `summary_pipeline_crash` | `InterruptedRunRecovers` | **violated** |
| `recording_lifecycle_voice_released` | `VoiceReleased` | **violated** |
| `recording_lifecycle_deferred_job` | `DeferredJobWaits` | **violated** |

**Bounds.** Two workers are what a race for a claim needs, and three tokens let a
lost copy, a current one and a new one coexist (one job of the pipeline needs two of
them: a task that claims holds no copy, and a job it can claim carries no token). A lease of two ticks separates the
last tick from the others; the pipeline uses one tick, its tasks refresh anyway.
One retry gives a run that is requeued and one that exhausts the budget. Two
meetings are what a stop overlapping its successor's start needs, two stops what a
second stop of the same meeting needs. Meeting 2 has its summary disabled, so both
ends of a stop occur. Two join attempts let a retry occur; the runs with faults
have one. Notices are counted up to two (`ManyPosts`), which tells one from many.

The other instances follow the same rule: as many actors as the race needs, and each
limit of the code small enough to be reached. Two requests are a leader and a
follower, and more are needed only where a queue has a middle (`AuditTrail` uses
four). Three chunks are two that overlap and one that follows.
Versions, days and hours go up to the first value at which the behaviour repeats. One
or two faults (`MaxFaults`) suffice where a fault is survived by a retry; where a
counter gives up at a limit, the instances have enough of them to reach it. Retention has
one, which may break several directories of a workspace at once, and three days, since a plan may be
carried out on a later day than it was made.
`Mixdown` and `MeetingAudio` check *every* directory of their instances, and
`SummaryPosting` every text of up to five characters with a limit of three, which has
lines that fit, that just fit and that have to be cut, with wide characters at the
edge. Symmetry is used only where model values are interchangeable and no liveness
is checked.

**Deadlock** is not checked: a system whose meetings are all over may stop.

**Fairness.** `JobQueue`: the clock goes on and the poll runs every 30 seconds.
`SummaryPipeline`: each task goes on, since every await returns or times out; a
claimable job is started again by the poll; a supervisor restarts the process
(`docker-compose.yml`), whose gateway becomes ready and whose recovery runs through.
`RecordingLifecycle`: strong fairness for tasks that wait for a lock, because
Tokio's mutex is a FIFO queue and every holder lets go. Nobody has to give a
command, no channel has to fall empty, no frame has to arrive, and no disturbance
has to happen.

In `progress` and `answers` the fairness is part of the properties: each part assumes the
`Fairness` of its component, for the actions of its instance. The modules of these two
runs have weak fairness for the steps of tasks that run and for the
clock, never for users, events, faults or dropped clients: `LiveOutbox` (dispatchers
tick every few seconds, a lost client is replaced), `RecordingSession` (the writer's
thread, acknowledgements, a teardown that has begun), `UploadMirror` (worker and
reconciler), `RetentionCleanup` (days go by; the hourly cleanup has strong fairness,
since an administrator's run may hold the gate at any hour but not at all of them),
`AutoStop` and `DriverDisconnect` (timers), `MeetingSchedules`, `BotToken`, `WebSession`,
`AccessChecks`, `TranscriptStream`, `AuditTrail` (a request that is not dropped goes on).

The liveness of the recording and the pipeline excludes failed statements but for one failed late enqueue of
a deferred job, which the stop retries: a stop command whose enqueue fails
reports an error and leaves its meeting stopping without a job, and canceling a
job leaves its meeting where it is. The code promises nothing else.

## 4. Proofs

For every number of jobs, workers, tokens, meetings, stops, chunks, clients and faults.
The only assumptions are the named ones in the modules: lengths and limits are naturals,
a lease is not empty, `NoToken` is not a token and not a copy of the job (it stands for
SQL's NULL), `NoClaim` is not a claim, `Free` is not a task, jobs are finite, at least
one join is attempted; for the outbox, chunks are numbered from one, each belongs to a
meeting, and there is at least one client; for retention, lifetimes are natural numbers of days, of
which a policy's for raw audio and transcripts is never zero (`NonZeroU32` in `retention.rs`), a request names something
to delete, and there is at least one day; for schedules, the week is not empty and
every window is shorter than it; for the permission checks, there is a first version of roles and channel, and
`None` is not a request. Where a theorem needs more, it says so as a hypothesis.

| Theorem | States | Inductive invariant |
| --- | --- | --- |
| `JobQueueProofs`: `TypeCorrect`, `ClaimsExclusive`, `LostClaimsStayLost`, `LeasesHold`, `BackoffHolds` | `TypeOK`, `ExclusiveClaim`, `NoRevival`, `LeasedClaimStable`, `BackoffKept` | `QueueInv` |
| `SummaryPipelineProofs`: `TypeCorrect`, `SettledMeetingsStay` | its `TypeOK`, `SettledStays` | `TypeOK` |
| `SummaryPipelineProofs`: `PostedAfterNotice`, `DoneAfterPosted` | `NoticeBeforePosted`, `DoneMeansPosted` | `NoticeInv` |
| `SummaryPipelineProofs`: `BudgetHolds` | `RetryBudget` | `BudgetInv` |
| `SummaryPipelineProofs`: `PipelineImplementsQueue` | `ImplementsQueue` | `RefinementInv` |
| `SummaryPipelineProofs`: `PostedOnce` | `OneNotice` | `CalmInv` |
| `RecordingLifecycleProofs`: `TypeCorrect`, `RecordsOneMeeting`, `PostedIsKept` | `TypeOK`, `OneRecording`, `PostedFailsForLossOnly` | `TypeInv`, `RecordingInv` |
| `RecordingLifecycleProofs`: `NothingStays`, `LossIsRecorded`, `VoiceIsKept` | `NothingLeftBehind`, `LossRecorded`, `SuccessorVoiceKept` | `CleanupInv` |
| `LiveOutboxProofs`: `SpeechIsOnce` | `SpeechOnce` | `OutboxInv` |
| `RetentionCleanupProofs`: `RetentionIsExact`, `NothingGoesEarly` | `RetentionExact`, `NothingRemovedEarly` | `RetentionInv`, `Predicted`, `Bounds` |
| `MeetingSchedulesProofs`: `OccurrencesStartOnce` | `OncePerOccurrence` | `SchedulesInv` |
| `MeetingSchedulesProofs`: `SchedulesNeverOverlap`, `NoOccurrenceSkipped`, `CanceledNeverClaimed` | the schedules' part of `GuildExact` and `GuildAndWebSteps` | `SchedulesInv` |
| `AccessChecksProofs`: `AccessIsFresh` | `AccessCurrent`, `StrictIsCurrent` | `AccessInv` |
| `AccessChecksProofs`: `RefreshesAreMonotone` | the refreshes' part of `GuildAndWebSteps` | `AccessInv` |

**`JobRecordProofs`** has what the operations on a row write, for every row. The queue
and the pipeline use the same operators and share these lemmas.

**`JobQueueProofs`.** `ExclusiveClaim` is not inductive: nothing in it forbids a
second worker with the same token on a row that is not running *yet*. `QueueInv`
adds that copies held by different workers carry different tokens
(`HolderTokensDiffer`) and that a row carries a token exactly while it is running
(`TokenMarksRunning`). A claim takes a token outside `LiveTokens`, every other
operation keeps tokens or clears them. `StepKinds` sorts the steps by what they write.

* `LostClaimsStayLost` (`NoRevival`): a heartbeat needs a lease that is not over; a
  row that is claimed again has a token no copy carries.
* `LeasesHold` (`LeasedClaimStable`): of all steps only the tick can end the claim
  of a worker that keeps its copy, and only from the lease's last tick.
* `BackoffHolds` (`BackoffKept`): a queued row that is not due is written by the tick
  and by a cancel only; claims and recovery do not see it, and the copy of a worker
  does not fit it, since it carries no token.

**`SummaryPipelineProofs`.** Lemmas say how a task moves in each kind of statement
(`TaskMoves`, `TaskAdvances`, `TaskClaims`, ...), and each invariant has one step per
action on top of them.

* `SettledMeetingsStay`: every status write names the statuses it expects, and only the
  administrator's retry, which requeues the job with it, expects a settled one.
* `NoticeInv`: `NoticeBeforePosted` and `DoneMeansPosted` are about the rows, but the steps that
  write them trust where the task is. The invariant therefore says of tasks: from
  `post` on the summary is stored, from `complete` on a notice is out, and at `done` the
  meeting is posted, which nobody takes back although the job is completed later and
  by a statement that may fail.
* `BudgetInv`: a retry of a failed status write uses `retry_count + 1` as its limit and
  never exhausts it. Each is preceded by a disturbance. The invariant counts this
  in advance: a job that may still run has at most `MaxRetries + faults` retries, and
  the task that is about to retry without a limit has its disturbance already counted.

**The refinement** (`SummaryPipelineProofs`). `Held`, `Beat` and `Table` are the mapping. For each action a
lemma names the step of `JobQueue` it is, or that job and claims are unchanged: a
claim is `ClaimById`, a refresh `Heartbeat`, completions and failures are `MarkDone` and
`MarkFailed`, a crash is `Vanish` of every worker at once. The mapping needs that a task
without a claim has no copy and one at work has one (`Placed`), and that retries lie within the bounds of the queue (`BudgetInv`).
So exclusive claims and leases hold of the pipeline for any number of tasks.

**One notice** (`SummaryPipelineProofs`). `OneNotice` is about runs in which nothing is disturbed. The invariant
(`Calm`) has to say that then a task keeps what it claimed: its lease does not run out
under its heartbeat, the meeting is where its `pc` expects it (`StatusAt`), so
conflicts and failed transitions do not occur; a queued job's meeting is stopping, or
about to be reopened under the locks; a failed job's meeting is failed by one task
before an administrator can retry; after the notice only the completion is left.

**`RecordingLifecycleProofs`.**

* `RecordsOneMeeting` (`OneRecording`). The start command looks up the *newest*
  meeting that is not over and refuses if that one is recording. This protects
  an older recording only if nothing newer is live, so the inductive invariant
  `RecordingInv` says that meetings start in order, that only a started meeting is
  live, and that nothing was started after a meeting that is recording. Every step
  but a start only ends recordings (`NoNewRecording`); the start finds the
  recording, if there is one, as `Active`. That the newest live meeting exists is
  from the well-foundedness of the naturals.
* `TypeCorrect` (`TypeOK`). Strengthened with: a join that is about to be tried has
  attempts left, and a stop at work has a target.
* `PostedIsKept` (`PostedFailsForLossOnly`), assuming that the store answers
  (`"statement" \notin FaultKinds`): a stop fails a posted meeting only from a step
  it reaches by losing audio; recovery compares with the status it read, which was
  not posted; the cleanup that fails a row whatever it is follows failed statements
  only. Without the assumption it does not hold (`CleanupForce`).

**Cleaning up** (`RecordingLifecycleProofs`). What the two gates are for. `CleanupInv` says that the command gate is
held once (`GateHeldOnce`); that its holder aims at the recording (`GateAims`) and has ended it before
the session is removed (`StoppedIsOver`); that a session belongs to a recording or to a
meeting whose stop is about to remove it (`SessionRuns`); that there is no session while
the reset gate is held (`ResetAlone`), which is why the leave of a stop cannot hit
the successor; and that audio in memory and losses not yet recorded are in the hands
of a task (`UnsavedHeld`, `LossPending`). Flushes, joins and leaves may fail at any
time. The hypothesis `Undisturbed` leaves out failed statements and a repeated ready
event, since the code does not do more: after a failed
statement a start keeps its session for a retry that may give up, and a repeated ready event
ends a recording that has its session (finding 4).

**`LiveOutboxProofs`.** The final transcript is made from two sets the task has loaded, the live
rows and the chunks that are done. `EveryChunkOnce` holds because they agree on every chunk with
speech (`InputFits`), which in turn needs that a chunk marked done has its live rows
until final ones replace them (`DoneIsLive`), and that what was stored when the job was enqueued is still stored when
the task lists the chunks, whatever is stored after it (`QueuedFirst`).
`PermitHeld` says that who is busy holds the process's permit, and is what makes claims
of two clients exclude each other; a crash, a panic and a lost client hand a running row to
the recovery (`RunningIsOwned`). All faults of the module are allowed.

**`RetentionCleanupProofs`.** A plan is made in one step and carried out in later ones, while
meetings are reopened, deletions run beside it and removals fail.

* `CleanedMeansGone` is about a mark that is written in a later step than the removals. `RetentionInv` therefore
  says it of what a run or a deletion has *found* clean as well (`Gone`), that only planned
  meetings are found clean (`FoundIsCleaned`), and that a meeting with a cleanup behind or before it is over
  (`Sealed`), so that nothing comes back into its directories. This is said of meetings that were not
  reopened on the way (`raced`).
* `ActiveKeepsFiles` needs that what a run or a deletion is about is over still, unless it was reopened since this run or
  deletion was planned (`PlannedOver`); rows need nothing, since each statement asks for the status. `SnapshotKeeps` needs that what the bot has planned is still expired when it
  is removed (`BotPlans`): days go forward only, and rows that a rerun writes come with a reopened meeting.
* `PreviewIsExact` compares the end of an undisturbed run with an estimate from its beginning. `Predicted` holds in
  between: the estimate is what was freed together with what the remaining phases will find.
* `Bounds` has what the types need beyond that: faults and retries within their limits, dates that have come, current
  and superseded rows apart.

The attempt at `Gone` found an error of the model that a run with one fault cannot show: with two failed removals in
one workspace the model marked the meeting after the second. The code counts every failed
removal (`retention_cleanup.rs:626`); so does the model now.

**`MeetingSchedulesProofs`.**

* `OncePerOccurrence`: what was begun lies before the occurrence the schedule waits for (`OnceEach`), and an occurrence that is
  claimed is behind the schedule but not begun (`Claimed`). The claim compares the start it has read with the
  row's, so an evaluation that is out of date claims nothing.
* `NoOverlap` is about every instant of the week, while the code asks whether one of two windows begins in the other,
  and schedules are moved on by different numbers of weeks. The invariant is the code's comparison (`Apart`);
  `SameDistance` shows that moving on by whole weeks does not change it, and `SharedInstant` that windows with an instant
  in common fail it. A request that has found its window free must still be
  right when it inserts (`CheckedFits`): one request is between lock and unlock (`OneWriter`), and a command
  cannot insert meanwhile.
* `NoneSkipped` and `CanceledRests` follow from what a move and a claim compare.

Requests may be dropped between lock and unlock: the lock then stays taken (finding 14), which blocks and never overlaps.

**`AccessChecksProofs`.** A decision is computed from a fetch and stored later; an event that clears the cache may come in between. The code
protects itself with revisions and with the identity of the leader, and the invariant says what each of them means:
as long as the permission cache has the revision a request saw, what it fetched is as new as every clearing
(`FetchedSince`), so what it stores is (`EntryWhole`); as long as the guild cache names a request as its
leader, what this one fetched is as new as every invalidation and as all that was published
(`GuildFresh`), which is also `RefreshMonotone`; a strict check uses neither cache (`StrictAlone`); an event is never ahead of
Discord (`Announced`); and an answer was made from roles, and a channel where it is about one (`DecidedFrom`).
The roles of a stored *decision* are not covered and cannot be: finding 7.

The inductive invariants are in no run, since they are proved; TLC checks their
consequences.

**Model-checked only.** Liveness and everything that rests on fairness or ENABLED (`Settles`,
`AbandonedJobRequeued`, `CaptureDrains`, `StoreCatchesUp`, `GuildSettles`,
`StopsFollow`, `AnswersFollow`), which this prover does not reason about. The pure algorithms
(`AudioExact`, `PostedWhole`): they fold over sequences of chunks or characters, and
what a fold computes needs an induction over data. Of the composed properties, the parts that are about a proved
module hold for all constants: `SpeechOnce` in `FramesAccounted`, the schedules in
`GuildExact` and `GuildAndWebSteps`, the permission checks in `AccessIsCurrent` and `GuildAndWebSteps`. Their other
parts, `NewestWins`, `RecordsSound` and `ReviewsStand` are checked on the instances only. `UploadMirror` and
`RecordingSession` keep sequences from which elements are taken in the middle (queues, retry buffers), and their
invariants sum over them, which again needs inductions; the ledgers of the web API are within
reach and have no proof yet.

## 5. Findings

Runs that end in a violation show a behaviour of the code that a comment, a document or
a test says otherwise about.

1. **An interrupted run is not always recovered** (`summary_pipeline_crash`).
   `runtime.rs:8668` and `worker.rs:1784` say that a job left *running* is recovered
   or retried. The poll starts before the gateway is ready, requeues the job once its lease
   is over and reruns it while the meeting still has the status of the interrupted
   run, or while recovery resets it; the conflict fails the job and recovery leaves
   the meeting stopping, a pair nobody takes up again.
2. **A stopped meeting may keep the bot in voice** (`recording_lifecycle_voice_released`).
   `command.rs:186` says that a stopping meeting has released the channel. A join
   that connects after its own meeting's stop has left finds no session at
   verification and does not leave.
3. **A deferred job may become claimable too early**
   (`recording_lifecycle_deferred_job`). `runtime.rs:479` says that it must wait for the
   tail flush. A second stop has no session to flush, therefore no failure, and
   enqueues it.

Below are disagreements of the same kind, and exposures of the code, that have no run. Where a
property is named, it is defined in the module and TLC refutes it for the constants that are
named; where it is also part of a run above, the run's constants leave the case out, or the
property names the case as its exception. The others are read off the code while modelling it.

4. `RecordingLifecycle`, `SuccessorVoiceKept` with a fault of the kind `ready`: a terminal absence
   cleanup may disconnect the next recording. `runtime.rs:6885` says that removing the matching
   session first avoids this. The gate is given up before the reset gate is taken, and a
   successor may join in between. A second ready event also stops a recording that is running when
   the voice cache is still empty (`runtime.rs:6462`); its session stays, and the next start replaces it
   with the audio that is in it.
5. `RecordingSession`, `RetriesKeepPath`: a chunk that waits for its retry is renamed when
   its speaker's name arrives, though `recording_session.rs:23` says that retries target the
   same path. Nothing is stored twice (`FramesStoredOnce`).
6. `RetentionCleanup`, `SnapshotDecides`: an administrator's run ignores the settings fixed at
   the start of a meeting, which `docs/saas-readiness.md:48` says decide.
7. `AccessChecks`, `RolesDecisionFresh`: the permission cache is cleared before the guild cache
   (`runtime.rs:5393`), and a request in between stores a decision from the old roles.
8. `UploadMirror`, `DeletedStaysDeleted` with two processes: a deletion does not wait for
   the uploads of the other (`storage_s3.rs:1103`). With one process, a listing of the tombstones that fails
   after a restart counts as fetched (`storage_s3.rs:493`, `564`), and uploads of a deleted recording go through until
   the next listing; the property excepts what is stored then (`unlisted`). A superseded staged
   copy that cannot be removed is uploaded beside the new one (`storage_s3.rs:1592`), which `OneStagedCopy` and
   `FramesStoredOnce` except.
9. `UsageLedger`, `ExactlyOnePerMeeting`: a recording's usage event that could not be written
   is never written again; `docs/saas-readiness.md:103` promises exactly one.
10. `KnowledgeBase`, `LimitCountsEligible` and `LoadedIsGiven`: inactive notes count against the
    limit of eligible ones (`worker.rs:289`); notes of sibling meetings are loaded
    (`worker.rs:385`) and never given.
11. `SummaryTemplates`, `LoneStatementSucceeds`: the statement that activates a template
    (`sql.rs:3428`) depends on an order of its parts that the database does not promise.
12. `AutoStop`, `EmptyChannelEnds` with `Overlap` or `EventFaults`: a count written late, or a
    lookup that fails, leaves a recording in an empty channel. So does a failed mark: the tick
    has cleared `empty_since` (`auto_stop.rs:119`), a mark that fails after the last failed stop
    goes on without arming again (`runtime.rs:6115`), the next tick is idle, and the timer is gone. `timer_active` may stay set,
    so that later events of the empty channel are told that a timer waits. `EmptyChannelEnds`
    and `WaiterWaits` except such a recording (`"left"`).
13. `DriverDisconnect`, `DisconnectedEnds` with `ResolveFaults`: a report whose first lookup
    fails ends nothing; `LaterKept` with `MaxFaults = MaxLookups`: it ends a later
    recording (`runtime.rs:11127`).
14. `MeetingSchedules`, `LockGivenBack` with `Drops`: a web request dropped between lock and
    unlock leaves the session's advisory lock held (`web.rs:9577`).
15. `BotToken`, `GatewayCatchesUp` with `Drops`: a request dropped between storing the token and
    announcing it leaves the gateway with the old one (`main.rs:347`).
16. `TranscriptStream`: the final snapshot is sent once per connection (`web.rs:12612`, `12643`), whether or not it
    was final: the state and the rows are read in two statements (`web.rs:12727`), and a snapshot
    taken early, or before an administrator's retry, uses it up; the final transcript is then not sent as a reset.
    Snapshots that fail again and again start the count of idle polls again each time
    (`web.rs:12618`), so that such a stream ends only with its session or its access.
17. `MeetingAudio`, `NotTwice` and `SpeakersPlayable` with the local backend: a chunk filed under
    its stream is transcribed twice, and without live transcription the speakers' files
    are not built (`runtime.rs:9528`).
18. `SummaryPosting`, `FailureShown`: the stop's own update of the status message may come after
    the failure of the job and hide it (`runtime.rs:6659`).
19. `LiveOutbox`: the job is enqueued before the session's last flush (`runtime.rs:6823`, `6894`). The speech of
    a chunk that this flush stores after the task has listed the chunks is in no final transcript,
    and no comment or counter records it. It needs a task that claims and lists during the leave.
20. `TranscriptFeedback`: a well-formed body that names a segment or a target unknown to the guild passes the
    handler, fails a foreign key (`migrations/0021`) and is answered as an error of the server (`web.rs:6025`).
21. `KnowledgeBase`: an item that is edited after its approval keeps the approval unless the request
    takes it back, so what summaries are given is what was approved, or a later edit of it.
22. `PersonAliases`: an archived alias that had been renamed, or was written by hand, has another id than its
    names are proposed under, and the next summary proposes them again (`ArchivedFinal` is about the others).
23. `WebSession`: a membership answer is stored after its marker was given up (`web.rs:1555`-`1565`); one that is held up
    between the two may replace a newer answer that was published meanwhile, until it expires.
24. `RetentionCleanup`: the plan is carried out after the lock is released (`retention_cleanup.rs:564`), and removals ask
    for no status: a meeting that a retry reopens in between loses the audio the retry needs. Its
    rows are safe, since every statement asks again.
25. `SummaryPipeline`: the retry that exhausts the budget and the failure of the meeting are two statements
    (`runtime.rs:9207`). An administrator's retry between them is undone by the second; the next run of the
    job conflicts and fails, after which the administrator can retry again.

## 6. Not modelled, and the plan

Not modelled, and why:

* ASR, agent, prompts, the voice channel's chat (`vc_text.rs`): calls that succeed or fail in
  `SummaryPipeline`. Their retry policies (`retry.rs`) sleep and try again within one stage.
* Decision tables (`domain/authz.rs`, `domain/privacy.rs`): pure, covered by unit tests.
* Routes of the web API that only read, and the guild settings, whose write is one
  statement; they are most of what `web.rs` has left.
* Configuration, migrations, the frontend: no state that tasks race for.
* The shutdown of the process beyond what `UploadMirror`, `BotToken` and crashes show.

About some behaviours the code promises nothing, and no property is stated: the meeting of a
canceled job, a stop command whose enqueue fails (`runtime.rs:501`; it reports an error, and another stop or a restart has
to follow), a job that kills its process again and again.

To be proved next, of the modules with a short inductive invariant: `AuditTrail` (`OnePrune`,
`NoLostTrigger`), `PlanAdministration` (`AuditedFirst`), `UsageLedger` (`NeverOvercounted`),
`BotToken` (`CacheIsCurrent`, along the lines of `GuildFresh`). The modules are written
without RECURSIVE operators for that purpose.
