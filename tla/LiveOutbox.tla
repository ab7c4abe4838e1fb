----------------------------- MODULE LiveOutbox -----------------------------
(***************************************************************************)
(* The durable outbox of the live transcription (runtime.rs): chunks of a  *)
(* running recording are queued in live_transcription_chunks, one          *)
(* dispatcher per gateway client claims them in order of their start,      *)
(* transcribes them and stores live transcript rows; the summary job of    *)
(* the stopped meeting reuses what is done, transcribes the rest and       *)
(* replaces the live rows by the final transcript.  The job is enqueued by *)
(* the stop, before the session is removed and flushed for the last time,  *)
(* so that chunks may still be stored while it runs.  A token change       *)
(* starts a second client in the same process, at times before the first   *)
(* has drained; a crash starts a new process.                              *)
(***************************************************************************)
EXTENDS Naturals, FiniteSets

CONSTANTS
  Chunk,            \* recorded chunks, numbered in the order of start_ms
  Meeting,
  MeetingOf,        \* meeting of a chunk
  Silent,           \* chunks without speech: their transcription is empty
  SummaryEnabled,   \* effective summary_enabled of a meeting
  Gateways,         \* clients started one after the other, over restarts too
  MaxFaults         \* bound on failed statements, panics and failed stages

ChunkAssumption == Chunk \subseteq Nat \ {0}
MeetingAssumption ==
  /\ MeetingOf \in [Chunk -> Meeting]
  /\ Silent \subseteq Chunk
  /\ SummaryEnabled \in [Meeting -> BOOLEAN]
BoundAssumption == Gateways \in Nat \ {0} /\ MaxFaults \in Nat

VARIABLES
  status,     \* meetings.status, as far as live transcription looks at it
  flushed,    \* meetings whose session has been flushed for the last time
  job,        \* meetings whose summary job is in the queue
  due,        \* history: chunks that were stored when their job was enqueued
  audio,      \* chunks whose file is stored
  pending,    \* stored chunks on their way into the outbox
  row,        \* live_transcription_chunks.status
  live,       \* chunks with live transcript rows
  finalText,  \* how often a chunk's speech is in the final transcript
  active,     \* LIVE_TRANSCRIPTION_INFERENCE_ACTIVE
  recovery,   \* LIVE_TRANSCRIPTION_RECOVERY_NEEDED
  gateway,    \* number of the newest client
  disp,       \* per client: where its dispatcher is and the job it holds
  closing,    \* clients whose shutting_down is set
  task,       \* per meeting: the summary task and what it has read so far
  faults

vars == <<status, flushed, job, due, audio, pending, row, live, finalText, active,
          recovery, gateway, disp, closing, task, faults>>

queue   == <<job, due>>
outbox  == <<row, live>>
shared  == <<active, recovery>>
process == <<gateway, closing>>

Clients == 1 .. Gateways
NoJob == 0
Idle == [at |-> "idle", job |-> NoJob]
NoTask == [at |-> "none", heard |-> {}, live |-> {}, done |-> {}]
ChunksOf(m) == {c \in Chunk : MeetingOf[c] = m}
FinalRowsExist(m) == \E c \in ChunksOf(m) : finalText[c] > 0

Fault == faults < MaxFaults /\ faults' = faults + 1

(* A live result may be stored while the meeting records or stops, and for *)
(* good once it is posted without a summary.                               *)
LiveTranscriptionStatusAllows(m) ==
  \/ status[m] \in {"recording", "stopping"}
  \/ status[m] = "posted" /\ ~SummaryEnabled[m]

Admitted(m) == LiveTranscriptionStatusAllows(m) /\ ~FinalRowsExist(m)

Init ==
  /\ status = [m \in Meeting |-> "recording"]
  /\ flushed = {} /\ job = {} /\ due = {} /\ audio = {} /\ pending = {}
  /\ row = [c \in Chunk |-> "none"]
  /\ live = {}
  /\ finalText = [c \in Chunk |-> 0]
  /\ active = FALSE /\ recovery = FALSE
  /\ gateway = 1
  /\ disp = [g \in Clients |-> IF g = 1 THEN Idle ELSE [Idle EXCEPT !.at = "off"]]
  /\ closing = {}
  /\ task = [m \in Meeting |-> NoTask]
  /\ faults = 0

-----------------------------------------------------------------------------
(* The recording side.                                                     *)

(* The writer has stored a chunk; its completion will enqueue it.          *)
ChunkPersisted(c) ==
  /\ c \notin audio
  /\ MeetingOf[c] \notin flushed
  /\ audio' = audio \cup {c}
  /\ pending' = pending \cup {c}
  /\ UNCHANGED <<status, flushed, queue, outbox, finalText, shared, process, disp, task, faults>>

(* ON CONFLICT keeps a row that is done or running.                        *)
PersistQueued(c) ==
  [row EXCEPT ![c] = IF @ \in {"done", "running"} THEN @ ELSE "queued"]

(* Five attempts, after which the chunk is left to the final transcription. *)
EnqueueLiveTranscriptionChunk(c) ==
  /\ c \in pending
  /\ pending' = pending \ {c}
  /\ \/ row' = PersistQueued(c) /\ UNCHANGED faults
     \/ Fault /\ UNCHANGED row
  /\ UNCHANGED <<status, flushed, queue, audio, live, finalText, shared, process, disp, task>>

Stopped(m) == IF SummaryEnabled[m] THEN "stopping" ELSE "posted"

(* The job becomes claimable; what is stored by now is due in the final    *)
(* transcript.  An existing job is left alone.                             *)
EnqueueSummaryJob(m) ==
  /\ job' = job \cup {m}
  /\ due' = IF m \in job THEN due ELSE due \cup (ChunksOf(m) \cap audio)

(* The stop and the job in one critical section.  When the flush before it *)
(* failed, the job waits for the flush after the leave.                    *)
StopMeeting(m) ==
  /\ status[m] = "recording"
  /\ status' = [status EXCEPT ![m] = Stopped(m)]
  /\ \/ SummaryEnabled[m] /\ EnqueueSummaryJob(m) /\ UNCHANGED faults
     \/ ~SummaryEnabled[m] /\ UNCHANGED <<queue, faults>>
     \/ SummaryEnabled[m] /\ Fault /\ UNCHANGED queue
  /\ UNCHANGED <<flushed, audio, pending, outbox, finalText, shared, process, disp, task>>

(* The removed session is flushed after the leave, while the job may be at *)
(* work already; a job that had to wait is enqueued.  A flush that fails   *)
(* again fails the meeting, whatever it has come to.                       *)
FinalFlush(m) ==
  /\ status[m] # "recording" /\ m \notin flushed
  /\ flushed' = flushed \cup {m}
  /\ \/ /\ IF SummaryEnabled[m] THEN EnqueueSummaryJob(m) ELSE UNCHANGED queue
        /\ UNCHANGED <<status, faults>>
     \/ /\ Fault /\ status' = [status EXCEPT ![m] = "failed"] /\ UNCHANGED queue
  /\ UNCHANGED <<audio, pending, outbox, finalText, shared, process, disp, task>>

(* Retention removes the files of a meeting that is long over.             *)
AudioRemoved(c) ==
  /\ status[MeetingOf[c]] \in {"posted", "failed"} /\ MeetingOf[c] \in flushed
  /\ c \in audio \ pending
  /\ audio' = audio \ {c}
  /\ UNCHANGED <<status, flushed, queue, pending, outbox, finalText, shared, process, disp, task, faults>>

-----------------------------------------------------------------------------
(* The dispatcher.                                                         *)

Goto(g, pc) == disp' = [disp EXCEPT ![g].at = pc]

(* The job is over and the permit dropped.  job_claimed was reset, so the  *)
(* drop asks for no recovery of its own.                                   *)
Finish(g) == disp' = [disp EXCEPT ![g] = Idle] /\ active' = FALSE

(* A tick or a wakeup; a client that shuts down leaves its loop.           *)
TryAcquire(g) ==
  /\ disp[g].at = "idle" /\ g \notin closing
  /\ ~active
  /\ active' = TRUE
  /\ Goto(g, "claim")
  /\ UNCHANGED <<status, flushed, queue, audio, pending, outbox, finalText, recovery, process, task, faults>>

RecoverInterrupted(r) ==
  [c \in Chunk |-> IF r[c] = "running" THEN "queued" ELSE r[c]]

Queued(r) == {c \in Chunk : r[c] = "queued"}
NextQueued(r) == CHOOSE c \in Queued(r) : \A d \in Queued(r) : c <= d

(* Under the service lock: recover rows when a failure asked for it, then  *)
(* claim the oldest queued row.  A row whose file is gone is quarantined.  *)
ClaimNextLiveTranscriptionJob(g) ==
  /\ disp[g].at = "claim"
  /\ \/ /\ Fault                        \* the recovery fails
        /\ recovery /\ UNCHANGED <<recovery, row>> /\ Finish(g)
     \/ LET r == IF recovery THEN RecoverInterrupted(row) ELSE row IN
          \/ /\ Queued(r) = {}
             /\ row' = r /\ recovery' = FALSE /\ Finish(g) /\ UNCHANGED faults
          \/ /\ Queued(r) # {}
             /\ LET c == NextQueued(r) IN
                  IF c \in audio
                  THEN /\ row' = [r EXCEPT ![c] = "running"]
                       /\ recovery' = FALSE
                       /\ disp' = [disp EXCEPT ![g] = [at |-> "admit", job |-> c]]
                       /\ UNCHANGED <<active, faults>>
                  ELSE /\ row' = [r EXCEPT ![c] = "failed"]
                       /\ recovery' = FALSE /\ Finish(g) /\ UNCHANGED faults
          \/ /\ Queued(r) # {} /\ Fault  \* the claiming update fails, outcome unknown
             /\ \E out \in {r, [r EXCEPT ![NextQueued(r)] = "running"]} : row' = out
             /\ recovery' = TRUE /\ Finish(g)
  /\ UNCHANGED <<status, flushed, queue, audio, pending, live, finalText, process, task>>

(* The first admission check; an unreadable meeting keeps the item.        *)
CheckAdmission(g) ==
  /\ disp[g].at = "admit"
  /\ \/ g \in closing /\ Goto(g, "requeue") /\ UNCHANGED faults
     \/ g \notin closing /\ Fault /\ Goto(g, "requeue")
     \/ /\ g \notin closing /\ UNCHANGED faults
        /\ Goto(g, IF Admitted(MeetingOf[disp[g].job]) THEN "infer" ELSE "mark")
  /\ UNCHANGED <<status, flushed, queue, audio, pending, outbox, finalText, shared, process, task>>

(* Whisper, with the wait for the upload before it.                        *)
Infer(g) ==
  /\ disp[g].at = "infer"
  /\ \/ Goto(g, "write") /\ UNCHANGED faults
     \/ Fault /\ Goto(g, IF g \in closing THEN "requeue" ELSE "mark")
     \/ Fault /\ Goto(g, "requeue")      \* the upload is not durable in time
  /\ UNCHANGED <<status, flushed, queue, audio, pending, outbox, finalText, shared, process, task>>

(* DELETE, INSERT and the row's status in one transaction.                 *)
PersistLiveTranscriptionSuccess(c) ==
  /\ row' = [row EXCEPT ![c] = "done"]
  /\ live' = IF c \in Silent THEN live \ {c} ELSE live \cup {c}

(* The second check and the write share one critical section.              *)
WriteLiveResult(g) ==
  /\ disp[g].at = "write"
  /\ LET c == disp[g].job IN
       \/ /\ g \in closing
          /\ Goto(g, "requeue") /\ UNCHANGED <<outbox, active, faults>>
       \/ /\ g \notin closing /\ Fault
          /\ Goto(g, "requeue") /\ UNCHANGED <<outbox, active>>
       \/ /\ g \notin closing /\ ~Admitted(MeetingOf[c])
          /\ Goto(g, "mark") /\ UNCHANGED <<outbox, active, faults>>
       \/ /\ g \notin closing /\ Admitted(MeetingOf[c])
          /\ PersistLiveTranscriptionSuccess(c)
          /\ Finish(g) /\ UNCHANGED faults
       \/ /\ g \notin closing /\ Admitted(MeetingOf[c])
          /\ Fault                       \* rolled back, or a COMMIT without an answer
          /\ UNCHANGED outbox \/ PersistLiveTranscriptionSuccess(c)
          /\ Goto(g, "mark") /\ UNCHANGED active
  /\ UNCHANGED <<status, flushed, queue, audio, pending, finalText, recovery, process, task>>

MarkLiveTranscriptionChunkFailed(c) ==
  /\ row' = [row EXCEPT ![c] = "failed"]
  /\ live' = live \ {c}

FailLiveTranscriptionJob(g) ==
  /\ disp[g].at = "mark"
  /\ \/ MarkLiveTranscriptionChunkFailed(disp[g].job) /\ UNCHANGED <<recovery, faults>>
     \/ Fault /\ recovery' = TRUE /\ UNCHANGED outbox
  /\ Finish(g)
  /\ UNCHANGED <<status, flushed, queue, audio, pending, finalText, process, task>>

RequeueLiveTranscriptionChunk(c) ==
  row' = [row EXCEPT ![c] = IF @ = "running" THEN "queued" ELSE @]

RetryLiveTranscriptionJob(g) ==
  /\ disp[g].at = "requeue"
  /\ \/ RequeueLiveTranscriptionChunk(disp[g].job) /\ UNCHANGED <<recovery, faults>>
     \/ Fault /\ recovery' = TRUE /\ UNCHANGED row
  /\ Finish(g)
  /\ UNCHANGED <<status, flushed, queue, audio, pending, live, finalText, process, task>>

(* A panic drops the permit with the job claimed; the loop is gone.        *)
DispatcherPanics(g) ==
  /\ disp[g].job # NoJob
  /\ Fault
  /\ disp' = [disp EXCEPT ![g] = [Idle EXCEPT !.at = "off"]]
  /\ recovery' = TRUE /\ active' = FALSE
  /\ UNCHANGED <<status, flushed, queue, audio, pending, outbox, finalText, process, task>>

-----------------------------------------------------------------------------
(* Clients and processes.                                                  *)

(* A changed token sets shutting_down and cancels the loop; the wait for   *)
(* the tasks gives up after the grace period, with a job still running.    *)
BeginShutdown ==
  /\ gateway < Gateways /\ gateway \notin closing
  /\ closing' = closing \cup {gateway}
  /\ UNCHANGED <<status, flushed, queue, audio, pending, outbox, finalText, shared, gateway, disp, task, faults>>

(* run_bot requeues interrupted rows unless an older client is still at    *)
(* work, and starts the new dispatcher.                                    *)
StartClient ==
  /\ gateway \in closing /\ gateway < Gateways
  /\ gateway' = gateway + 1
  /\ row' = IF active THEN row ELSE RecoverInterrupted(row)
  /\ disp' = [disp EXCEPT ![gateway + 1] = Idle]
  /\ UNCHANGED <<status, flushed, queue, audio, pending, live, finalText, shared, closing, task, faults>>

Unqueued == {m \in Meeting \ job : SummaryEnabled[m] /\ status[m] \in {"recording", "stopping"}}

(* The process dies with everything in memory; startup recovery stops what *)
(* was recording, takes an interrupted summary back to stopping and        *)
(* enqueues the jobs that are missing.                                     *)
CrashAndRestart ==
  /\ gateway < Gateways
  /\ gateway' = gateway + 1
  /\ active' = FALSE /\ recovery' = FALSE
  /\ pending' = {}
  /\ row' = RecoverInterrupted(row)
  /\ disp' = [g \in Clients |-> IF g = gateway + 1 THEN Idle ELSE [Idle EXCEPT !.at = "off"]]
  /\ closing' = Clients \cap (1 .. gateway)
  /\ status' = [m \in Meeting |->
       IF status[m] \in {"recording", "transcribing"} THEN Stopped(m) ELSE status[m]]
  /\ flushed' = Meeting
  /\ job' = job \cup Unqueued
  /\ due' = due \cup {c \in audio : MeetingOf[c] \in Unqueued}
  /\ task' = [m \in Meeting |-> NoTask]
  /\ UNCHANGED <<audio, live, finalText, faults>>

-----------------------------------------------------------------------------
(* The summary task, as far as it reads and writes transcripts.            *)

(* The chunk files are listed first; final rows of an earlier run are used *)
(* as they are, unless they cannot be read.                                *)
ListChunks(m) ==
  /\ status[m] = "stopping" /\ m \in job /\ task[m] = NoTask
  /\ \/ /\ FinalRowsExist(m) /\ UNCHANGED faults
        /\ task' = [task EXCEPT ![m].at = "final"]
     \/ /\ IF FinalRowsExist(m) THEN Fault ELSE UNCHANGED faults
        /\ ChunksOf(m) \cap audio # {}
        /\ task' = [task EXCEPT ![m].at = "listed", ![m].heard = ChunksOf(m) \cap audio]
  /\ UNCHANGED <<status, flushed, queue, audio, pending, outbox, finalText, shared, process, disp>>

(* Mutant: chunks still running are excluded too, and done ones although   *)
(* no live rows were loaded.                                               *)
MutSummaryInput(m) ==
  [task[m] EXCEPT !.at = "loaded", !.live = ChunksOf(m) \cap live,
                  !.done = {c \in ChunksOf(m) : row[c] \in {"done", "running"}}]

(* Live rows and the chunks they cover, read under one lock.  Without live *)
(* rows nothing is excluded.                                               *)
LiveTranscriptSegments(m) == {c \in ChunksOf(m) \cap live : row[c] = "done"}
CompletedLiveChunks(m) == {c \in ChunksOf(m) : row[c] = "done"}

SummaryInput(m) ==
  [task[m] EXCEPT
     !.at = "loaded", !.live = LiveTranscriptSegments(m),
     !.done = IF LiveTranscriptSegments(m) = {} THEN {} ELSE CompletedLiveChunks(m)]

(* Either read may fail; then all audio is transcribed again.              *)
LoadLiveSegments(m) ==
  /\ task[m].at = "listed"
  /\ \/ task' = [task EXCEPT ![m] = SummaryInput(m)] /\ UNCHANGED faults
     \/ Fault /\ task' = [task EXCEPT ![m].at = "loaded"]
  /\ UNCHANGED <<status, flushed, queue, audio, pending, outbox, finalText, shared, process, disp>>

(* Where the meeting is no longer stopping, the task ends at the conflict. *)
SetTranscribing(m) ==
  /\ task[m].at \in {"loaded", "final"}
  /\ IF status[m] = "stopping"
     THEN /\ status' = [status EXCEPT ![m] = "transcribing"]
          /\ task' = [task EXCEPT ![m].at = IF @ = "final" THEN "written" ELSE "hearing"]
     ELSE task' = [task EXCEPT ![m] = NoTask] /\ UNCHANGED status
  /\ UNCHANGED <<flushed, queue, audio, pending, outbox, finalText, shared, process, disp, faults>>

(* Mutant: what was transcribed live is transcribed again.                 *)
MutFinalSegments(m) ==
  [c \in ChunksOf(m) |->
     (IF c \in task[m].live THEN 1 ELSE 0) + (IF c \in task[m].heard \ Silent THEN 1 ELSE 0)]

(* Merged live segments and the speech found in the listed files that were *)
(* not excluded.                                                           *)
FinalSegments(m) ==
  [c \in ChunksOf(m) |->
     (IF c \in task[m].live THEN 1 ELSE 0)
     + (IF c \in (task[m].heard \ task[m].done) \ Silent THEN 1 ELSE 0)]

(* One transaction: the final rows are written, stale final rows and all   *)
(* live rows of the meeting removed.  Without a segment nothing is done.   *)
PersistTranscriptSegments(m) ==
  /\ task[m].at = "hearing"
  /\ LET text == FinalSegments(m) IN
       IF \E c \in ChunksOf(m) : text[c] > 0
       THEN /\ finalText' = [c \in Chunk |-> IF c \in ChunksOf(m) THEN text[c] ELSE finalText[c]]
            /\ live' = live \ ChunksOf(m)
       ELSE UNCHANGED <<finalText, live>>
  /\ task' = [task EXCEPT ![m].at = "written"]
  /\ UNCHANGED <<status, flushed, queue, audio, pending, row, shared, process, disp, faults>>

(* Summary and posting, unless the meeting has failed meanwhile; or a      *)
(* failed stage, which takes the meeting back to stopping.                 *)
FinishSummary(m) ==
  /\ task[m].at = "written"
  /\ status' = [status EXCEPT ![m] = IF @ = "transcribing" THEN "posted" ELSE @]
  /\ task' = [task EXCEPT ![m] = NoTask]
  /\ UNCHANGED <<flushed, queue, audio, pending, outbox, finalText, shared, process, disp, faults>>

RetrySummary(m) ==
  /\ task[m] # NoTask
  /\ Fault
  /\ status' = [status EXCEPT ![m] = IF @ = "transcribing" THEN "stopping" ELSE @]
  /\ task' = [task EXCEPT ![m] = NoTask]
  /\ UNCHANGED <<flushed, queue, audio, pending, outbox, finalText, shared, process, disp>>

-----------------------------------------------------------------------------
Dispatch(g) ==
  \/ TryAcquire(g) \/ ClaimNextLiveTranscriptionJob(g) \/ CheckAdmission(g)
  \/ Infer(g) \/ WriteLiveResult(g) \/ FailLiveTranscriptionJob(g)
  \/ RetryLiveTranscriptionJob(g)

Summarize(m) ==
  \/ ListChunks(m) \/ LoadLiveSegments(m) \/ SetTranscribing(m)
  \/ PersistTranscriptSegments(m) \/ FinishSummary(m)

Next ==
  \/ \E c \in Chunk : ChunkPersisted(c) \/ EnqueueLiveTranscriptionChunk(c) \/ AudioRemoved(c)
  \/ \E m \in Meeting : StopMeeting(m) \/ FinalFlush(m) \/ Summarize(m) \/ RetrySummary(m)
  \/ \E g \in Clients : Dispatch(g) \/ DispatcherPanics(g)
  \/ BeginShutdown \/ StartClient \/ CrashAndRestart

Spec == Init /\ [][Next]_vars

(* The tick of the dispatcher fires every 500 ms and a claimed job runs to *)
(* its end; a client that shuts down is followed by another one.           *)
Fairness ==
  /\ \A g \in Clients : WF_vars(Dispatch(g))
  /\ WF_vars(StartClient)

FairSpec == Spec /\ Fairness

-----------------------------------------------------------------------------
Points == {"off", "idle", "claim", "admit", "infer", "write", "mark", "requeue"}

(* Every variable keeps its type.                                          *)
TypeOK ==
  /\ status \in [Meeting -> {"recording", "stopping", "transcribing", "posted", "failed"}]
  /\ flushed \subseteq Meeting /\ job \subseteq Meeting /\ due \subseteq Chunk
  /\ audio \subseteq Chunk /\ pending \subseteq audio
  /\ row \in [Chunk -> {"none", "queued", "running", "done", "failed"}]
  /\ live \subseteq Chunk
  /\ finalText \in [Chunk -> 0 .. 2]
  /\ active \in BOOLEAN /\ recovery \in BOOLEAN
  /\ gateway \in Clients /\ closing \subseteq Clients
  /\ disp \in [Clients -> [at : Points, job : Chunk \cup {NoJob}]]
  /\ task \in [Meeting -> [at : {"none", "listed", "loaded", "final", "hearing", "written"},
                         heard : SUBSET Chunk, live : SUBSET Chunk, done : SUBSET Chunk]]
  /\ faults \in 0 .. MaxFaults

(* The readers of transcripts never see a live row next to final rows of   *)
(* the same meeting, although a Whisper call may outlast the stop, the     *)
(* final transcription and a restart (the comment at runtime.rs:5101).     *)
LiveYieldsToFinal == \A c \in live : ~FinalRowsExist(MeetingOf[c])

(* No chunk's speech is twice in the final transcript, and what was stored *)
(* when the job was enqueued is in it: chunks done live are excluded from  *)
(* the final ASR exactly when their live rows are merged (runtime.rs:9361  *)
(* and 9744), although the dispatcher goes on and chunks of the last flush *)
(* are stored while the task lists, loads and transcribes.  A chunk stored *)
(* later than the listing is in the transcript only if it was done live.   *)
EveryChunkOnce ==
  /\ \A c \in Chunk : finalText[c] <= 1
  /\ \A c \in due \ Silent : FinalRowsExist(MeetingOf[c]) => finalText[c] = 1

(* Two clients never work on live jobs at the same time: the permit of the *)
(* process outlives the client that took it.                               *)
OneInference ==
  \A g, h \in Clients : disp[g].job # NoJob /\ disp[h].job # NoJob => g = h

(* A row in running is under work, or a recovery is asked for: no row is   *)
(* left running for good.                                                  *)
RunningIsOwned ==
  \A c \in Chunk : row[c] = "running" =>
    \/ recovery
    \/ \E g \in Clients : disp[g].job = c

(* The final transcript has no speech twice and all that was stored when   *)
(* the job was enqueued, transcribed live or not; live rows never outlive  *)
(* or follow the final ones; one inference runs at a time over all         *)
(* clients; and a chunk that is running belongs to a dispatcher or to the  *)
(* recovery.                                                               *)
SpeechOnce ==
  TypeOK /\ LiveYieldsToFinal /\ EveryChunkOnce /\ OneInference /\ RunningIsOwned

(* Once failures end, every queued chunk is transcribed or given up,       *)
(* whatever client, claim or recovery it was caught in.  A panic of the    *)
(* newest dispatcher ends its loop, and only a restart takes it up again.  *)
QueueDrains ==
  \A c \in Chunk : [](row[c] = "queued" =>
    <>(row[c] \in {"done", "failed"} \/ disp[gateway].at = "off"))
=============================================================================
