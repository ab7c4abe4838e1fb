---------------------------- MODULE UsageLedger -----------------------------
(***************************************************************************)
(* What is written into usage_events, and what the entitlement check makes *)
(* of it.  Every event has an identity made of what it is about: the       *)
(* meeting, or for a debug download the user and the window of time; a     *)
(* second insert of it does nothing.  The work an event is about is        *)
(* retried, runs in the bot or in the batch worker, and may be cut off by  *)
(* a crash before its event is written; a failed insert is only logged.    *)
(***************************************************************************)
EXTENDS Naturals, FiniteSets, FiniteSetsExt

CONSTANTS
  Meeting, User,
  GuildOf,      \* guild of a meeting
  DebugGuild,   \* guild of the artifact that is downloaded
  Durations,    \* lengths a recording can have, in seconds
  Heard,        \* total lengths of the audio files a run can read: speakers
                \* overlap, and what live transcription has done is not read again
  MinuteLength, \* seconds of a minute
  DedupeWindow, \* DEBUG_DOWNLOAD_DEDUPE_WINDOW_SECS
  RecentWindow, \* the 30 days usage is summed over
  Policy,       \* limit of each metric
  MaxTime,      \* bound on time
  MaxRuns,      \* bound on runs of the summary job of a meeting
  MaxDownloads, \* bound on downloads
  MaxFaults     \* bound on failed statements and crashes

Metric == {"recording_minutes", "asr_seconds", "summary_runs", "debug_downloads"}

PolicyAssumption == Policy \in [Metric -> Nat]
BoundAssumption ==
  /\ {MinuteLength, DedupeWindow, RecentWindow, MaxTime} \subseteq Nat \ {0}
  /\ {MaxRuns, MaxDownloads, MaxFaults} \subseteq Nat
  /\ Durations \subseteq Nat /\ Heard \subseteq Nat

VARIABLES
  now,
  stage,     \* of a meeting: recording, stopped, queued, running, done
  seconds,   \* length of its recording
  task,      \* what the process still has to write for a meeting
  runs,      \* runs of its summary job so far
  segments,  \* final transcript rows of an earlier run are stored
  heard,     \* length of the audio files the last run of a meeting has read
  most,      \* history: the longest a run of a meeting has read
  counted,   \* history: when the event of a completed run was to be written, or 0
  downloads, \* pending and made downloads: user and time
  pending,   \* downloads whose event is not written yet
  events,    \* usage_events
  decision,  \* the last entitlement decision
  faults

history == <<heard, most, counted>>
vars == <<now, stage, seconds, task, runs, segments, heard, most, counted, downloads, pending,
          events, decision, faults>>

Init ==
  /\ now = 1
  /\ stage = [m \in Meeting |-> "recording"] /\ seconds = [m \in Meeting |-> 0]
  /\ task = [m \in Meeting |-> "none"] /\ runs = [m \in Meeting |-> 0]
  /\ segments = [m \in Meeting |-> FALSE]
  /\ heard = [m \in Meeting |-> 0] /\ most = heard /\ counted = heard
  /\ downloads = {} /\ pending = {} /\ events = {}
  /\ decision = [allowed |-> TRUE, exceeded |-> {}]
  /\ faults = 0

Fault == faults < MaxFaults /\ faults' = faults + 1

InsertUsageEvent(e) == IF \E f \in events : f.id = e.id THEN events ELSE events \cup {e}

(* Appended, or the failure is logged and that is all.                     *)
AppendUsageEvent(e) ==
  \/ events' = InsertUsageEvent(e) /\ UNCHANGED faults
  \/ Fault /\ UNCHANGED events

MeetingEvent(metric, m, quantity) ==
  [id |-> <<metric, m>>, metric |-> metric, guild |-> GuildOf[m], quantity |-> quantity, at |-> now]

-----------------------------------------------------------------------------
(* Recording minutes, by the stop that owns the transition.                *)

StopMeeting(m) ==
  /\ stage[m] = "recording"
  /\ stage' = [stage EXCEPT ![m] = "stopped"]
  /\ \E s \in Durations : seconds' = [seconds EXCEPT ![m] = s]
  /\ task' = [task EXCEPT ![m] = "duration"]
  /\ UNCHANGED <<now, runs, segments, downloads, pending, events, decision, faults, history>>

RecordingMinutes(s) == (s + MinuteLength - 1) \div MinuteLength

RecordRecordingDurationUsage(m) ==
  /\ task[m] = "duration"
  /\ AppendUsageEvent(MeetingEvent("recording_minutes", m, RecordingMinutes(seconds[m])))
  /\ task' = [task EXCEPT ![m] = "none"]
  /\ stage' = [stage EXCEPT ![m] = "queued"]
  /\ UNCHANGED <<now, seconds, runs, segments, downloads, pending, decision, history>>

-----------------------------------------------------------------------------
(* ASR seconds and summary runs, by every run of the summary job.          *)

(* A run that finds the final rows of an earlier one transcribes nothing.  *)
BeginRun(m) ==
  /\ stage[m] = "queued" /\ task[m] = "none" /\ runs[m] < MaxRuns
  /\ runs' = [runs EXCEPT ![m] = @ + 1]
  /\ stage' = [stage EXCEPT ![m] = "running"]
  /\ task' = [task EXCEPT ![m] = IF segments[m] THEN "complete" ELSE "transcribe"]
  /\ UNCHANGED <<now, seconds, segments, downloads, pending, events, decision, faults, history>>

Transcribe(m) ==
  /\ task[m] = "transcribe"
  /\ \/ /\ task' = [task EXCEPT ![m] = "asr"]
        /\ \E h \in Heard :
             /\ heard' = [heard EXCEPT ![m] = h]
             /\ most' = [most EXCEPT ![m] = IF h > @ THEN h ELSE @]
        /\ UNCHANGED <<stage, faults>>
     \/ /\ Fault
        /\ task' = [task EXCEPT ![m] = "none"]
        /\ stage' = [stage EXCEPT ![m] = "queued"]
        /\ UNCHANGED <<heard, most>>
  /\ UNCHANGED <<now, seconds, runs, segments, counted, downloads, pending, events, decision>>

(* The lengths of the files that were read, added up; one that is gone by  *)
(* now is one of the failures.                                             *)
RecordAsrSecondsUsage(m) ==
  /\ task[m] = "asr"
  /\ AppendUsageEvent(MeetingEvent("asr_seconds", m, heard[m]))
  /\ task' = [task EXCEPT ![m] = "store"]
  /\ UNCHANGED <<now, stage, seconds, runs, segments, downloads, pending, decision, history>>

StoreFinalSegments(m) ==
  /\ task[m] = "store"
  /\ segments' = [segments EXCEPT ![m] = TRUE]
  /\ task' = [task EXCEPT ![m] = "complete"]
  /\ UNCHANGED <<now, stage, seconds, runs, downloads, pending, events, decision, faults, history>>

(* The run posts and completes its job, or fails and is retried.  Only the *)
(* run that completed the job goes on to count it.                         *)
CompleteRun(m) ==
  /\ task[m] = "complete"
  /\ \/ /\ stage' = [stage EXCEPT ![m] = "done"]
        /\ task' = [task EXCEPT ![m] = "summary"]
        /\ UNCHANGED faults
     \/ /\ Fault
        /\ stage' = [stage EXCEPT ![m] = "queued"]
        /\ task' = [task EXCEPT ![m] = "none"]
  /\ UNCHANGED <<now, seconds, runs, segments, downloads, pending, events, decision, history>>

RecordSummaryRunUsage(m) ==
  /\ task[m] = "summary"
  /\ AppendUsageEvent(MeetingEvent("summary_runs", m, 1))
  /\ task' = [task EXCEPT ![m] = "observe"]
  /\ counted' = [counted EXCEPT ![m] = now]
  /\ UNCHANGED <<now, stage, seconds, runs, segments, heard, most, downloads, pending, decision>>

-----------------------------------------------------------------------------
(* The entitlement check.                                                  *)

Total(S) == FoldSet(LAMBDA e, sum : sum + e.quantity, 0, S)

(* Mutant: usage of any age counts.                                        *)
MutAggregateRecentUsage(metric, g) ==
  Total({e \in events : e.metric = metric /\ e.guild = g})

AggregateRecentUsage(metric, g) ==
  Total({e \in events : e.metric = metric /\ e.guild = g /\ e.at + RecentWindow >= now})

Exceeded(g) == {metric \in Metric : AggregateRecentUsage(metric, g) > Policy[metric]}

(* The mode is observe-only.                                               *)
Evaluate(g) == [allowed |-> TRUE, exceeded |-> Exceeded(g)]

ObserveWorkerCompletion(m) ==
  /\ task[m] = "observe"
  /\ decision' = Evaluate(GuildOf[m])
  /\ task' = [task EXCEPT ![m] = "none"]
  /\ UNCHANGED <<now, stage, seconds, runs, segments, downloads, pending, events, faults, history>>

-----------------------------------------------------------------------------
(* Debug downloads; the event is written after the response has begun.     *)

DebugDownloadDedupeBucket(t) == t \div DedupeWindow

ApiDebugFile(u) ==
  /\ Cardinality(downloads) < MaxDownloads
  /\ <<u, now>> \notin downloads
  /\ downloads' = downloads \cup {<<u, now>>}
  /\ pending' = pending \cup {<<u, now>>}
  /\ UNCHANGED <<now, stage, seconds, task, runs, segments, events, decision, faults, history>>

DebugDownloadUsageEventId(u, t) == <<"debug_downloads", u, DebugDownloadDedupeBucket(t)>>

RecordUsageEvent(d) ==
  /\ AppendUsageEvent([id |-> DebugDownloadUsageEventId(d[1], d[2]), metric |-> "debug_downloads",
                       guild |-> DebugGuild, quantity |-> 1, at |-> d[2]])
  /\ pending' = pending \ {d}
  /\ UNCHANGED <<now, stage, seconds, task, runs, segments, downloads, decision, history>>

-----------------------------------------------------------------------------
(* A crash drops what the process had still to write; recovery queues the  *)
(* jobs of stopped meetings and of runs that were cut off.                 *)
Crash ==
  /\ Fault
  /\ task' = [m \in Meeting |-> "none"]
  /\ stage' = [m \in Meeting |-> IF stage[m] \in {"stopped", "running"} THEN "queued" ELSE stage[m]]
  /\ pending' = {}
  /\ UNCHANGED <<now, seconds, runs, segments, downloads, events, decision, history>>

Tick ==
  /\ now < MaxTime /\ now' = now + 1
  /\ UNCHANGED <<stage, seconds, task, runs, segments, downloads, pending, events, decision, faults, history>>

Next ==
  \/ \E m \in Meeting :
       \/ StopMeeting(m) \/ RecordRecordingDurationUsage(m) \/ BeginRun(m) \/ Transcribe(m)
       \/ RecordAsrSecondsUsage(m) \/ StoreFinalSegments(m) \/ CompleteRun(m)
       \/ RecordSummaryRunUsage(m) \/ ObserveWorkerCompletion(m)
  \/ \E u \in User : ApiDebugFile(u)
  \/ \E d \in pending : RecordUsageEvent(d)
  \/ Crash \/ Tick

Spec == Init /\ [][Next]_vars

-----------------------------------------------------------------------------
Windows == {<<d[1], DebugDownloadDedupeBucket(d[2])>> : d \in downloads}

Recorded(metric) == Total({e \in events : e.metric = metric})
SumOverMeetings(f(_)) == FoldSet(LAMBDA m, sum : sum + f(m), 0, Meeting)

(* However often jobs are retried and processes restarted, the ledger      *)
(* never claims more than was used: the minutes of each recording once,    *)
(* of its audio no more than one run has read, a summary only for a job    *)
(* that is done, downloads once a window.                                  *)
NeverOvercounted ==
  /\ Recorded("recording_minutes")
       <= SumOverMeetings(LAMBDA m : (seconds[m] + MinuteLength - 1) \div MinuteLength)
  /\ Recorded("asr_seconds") <= SumOverMeetings(LAMBDA m : most[m])
  /\ Recorded("summary_runs") <= Cardinality({m \in Meeting : stage[m] = "done"})
  /\ Recorded("debug_downloads") <= Cardinality(Windows)

(* Without faults nothing is missed either: once a meeting is done and     *)
(* nothing is left to write, all its usage is in the ledger, in full.      *)
FullyCounted ==
  faults = 0 =>
    \A m \in Meeting : stage[m] = "done" /\ task[m] = "none" =>
      /\ \A metric \in Metric \ {"debug_downloads"} : \E e \in events : e.id = <<metric, m>>
      /\ \A e \in events :
           e.id = <<"recording_minutes", m>> => e.quantity * MinuteLength >= seconds[m]

(* The check after a run sees that run and all that its guild completed in *)
(* the last 30 days: without faults it reports the quota of summaries      *)
(* exactly when more of them than the policy allows were counted then, and *)
(* neither an older one nor one of another guild has a part in it.         *)
ObservationExactStep ==
  \A m \in Meeting : task[m] = "observe" /\ task'[m] = "none" /\ faults' = 0 =>
    ("summary_runs" \in decision'.exceeded
       <=> Cardinality({k \in Meeting : /\ GuildOf[k] = GuildOf[m] /\ counted[k] # 0
                                        /\ now - counted[k] <= RecentWindow})
             > Policy["summary_runs"])

ObservationExact == [][ObservationExactStep]_vars

(* Every meeting whose recording was accounted for has its event.          *)
ExactlyOnePerMeeting ==
  \A m \in Meeting :
    stage[m] \in {"queued", "running", "done"} =>
      \E e \in events : e.id = <<"recording_minutes", m>>
=============================================================================
