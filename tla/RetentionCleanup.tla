--------------------------- MODULE RetentionCleanup ---------------------------
(***************************************************************************)
(* Retention: the hourly cleanup of the bot and the cleanup run of an      *)
(* administrator, which exclude each other through one gate, and the       *)
(* deletion of one meeting by an administrator, which takes no gate.       *)
(* Each collects what has expired, removes directories and objects, and    *)
(* then cleans the database in separate statements; any of it can fail.    *)
(* An administrator's retry may reopen a meeting meanwhile.                *)
(*                                                                         *)
(* Days are numbers; a lifetime of 0 days means for ever.                  *)
(***************************************************************************)
EXTENDS Naturals, FiniteSets

CONSTANTS
  Meeting,
  Policy,      \* lifetimes of the bot's configuration
  AdminPolicy, \* lifetimes an administrator's run may ask for
  Snapshots,   \* lifetimes a meeting may have kept from its start
  Targets,     \* what a deletion of a meeting may name
  MaxDay,      \* bound on days that pass
  MaxFaults,   \* bound on failed removals, queries and statements
  MaxRetries,  \* bound on an administrator's retries
  MaxDeletes   \* bound on an administrator's deletions of a meeting

Scope == {"raw", "transcript", "summary", "debug"}
Lifetimes == [raw : Nat, transcript : Nat, summary : Nat]
NoSnapshot == [none |-> TRUE]

PolicyAssumption ==
  /\ {Policy} \cup AdminPolicy \subseteq Lifetimes
  /\ \A p \in {Policy} \cup AdminPolicy : p.raw > 0 /\ p.transcript > 0
  /\ Snapshots \subseteq Lifetimes \cup {NoSnapshot}
TargetsAssumption == Targets \subseteq (SUBSET Scope) \ {{}}
BoundAssumption ==
  MaxDay \in Nat \ {0} /\ {MaxFaults, MaxRetries, MaxDeletes} \subseteq Nat

(* Directories of a meeting; objects are the copies in the object store.   *)
AudioPart == {"audio", "speakers", "legacy", "objects"}
RawPart == AudioPart \cup {"context"}
DebugPart == {"debug", "legacyDebug", "agent"}
Part == RawPart \cup DebugPart \cup {"transcript", "summary"}
Artifact == [kind : Scope, at : Nat, expires : Nat]

VARIABLES
  day,
  status,     \* of a meeting
  stoppedAt,
  snapshot,   \* meeting_effective_settings, or NoSnapshot
  cleaned,    \* retention_raw_cleaned_at is set
  title,      \* whether the meeting has a title
  files,      \* parts present
  live,       \* days of transcript rows that are not deleted
  dead,       \* days of transcript rows marked deleted
  summaries,  \* days of summary rows
  artifacts,
  run,        \* the cleanup that holds retention_cleanup_gate
  del,        \* the deletion of a meeting under way
  approved,   \* meetings whose audio a retry request has seen
  raced,      \* meetings reopened while their files were being removed
  faults, retries, deletes

meetingVars == <<status, stoppedAt, snapshot>>
rowVars == <<cleaned, title, live, dead, summaries, artifacts>>
countVars == <<faults, retries, deletes>>
vars == <<day, meetingVars, rowVars, files, run, del, approved, raced, countVars>>

Terminal == {"posted", "failed", "aborted"}
NoRun == [phase |-> "idle"]
NoDelete == [phase |-> "idle"]
Plan == [Scope -> SUBSET Meeting]

Init ==
  /\ day = 1
  /\ status \in [Meeting -> {"posted", "failed", "recording"}]
  /\ stoppedAt = [m \in Meeting |-> IF status[m] = "recording" THEN 0 ELSE 1]
  /\ snapshot \in [Meeting -> Snapshots]
  /\ cleaned = [m \in Meeting |-> FALSE]
  /\ title = [m \in Meeting |-> status[m] = "posted"]
  /\ files = [m \in Meeting |-> IF status[m] = "posted" THEN Part ELSE AudioPart]
  /\ live = [m \in Meeting |-> IF status[m] = "posted" THEN {1} ELSE {}]
  /\ dead = [m \in Meeting |-> {}]
  /\ summaries = live
  /\ artifacts = [m \in Meeting |->
       IF status[m] = "posted" THEN {[kind |-> k, at |-> 1, expires |-> e] : k \in Scope, e \in {0, 2}}
       ELSE {}]
  /\ run = NoRun /\ del = NoDelete
  /\ approved = {} /\ raced = {}
  /\ faults = 0 /\ retries = 0 /\ deletes = 0

-----------------------------------------------------------------------------
(* What has expired.                                                       *)

(* The snapshot decides where there is one; an administrator's run takes   *)
(* its own lifetimes for every meeting.                                    *)
Ttl(who, policy, m, scope) ==
  IF who = "admin" \/ snapshot[m] = NoSnapshot THEN policy[scope] ELSE snapshot[m][scope]

Expired(at, ttl) == ttl # 0 /\ at + ttl < day

(* Mutant: the query forgets the status of the meeting.                    *)
MutStoppedLongAgo(who, policy, m) ==
  stoppedAt[m] # 0 /\ Expired(stoppedAt[m], Ttl(who, policy, m, "raw"))

StoppedLongAgo(who, policy, m) ==
  /\ status[m] \in Terminal
  /\ stoppedAt[m] # 0 /\ Expired(stoppedAt[m], Ttl(who, policy, m, "raw"))

RawWorkspaces(who, policy) ==
  {m \in Meeting : StoppedLongAgo(who, policy, m) /\ ~cleaned[m]}

DebugWorkspaces(who, policy) ==
  {m \in Meeting : StoppedLongAgo(who, policy, m) /\ cleaned[m]}

TranscriptWorkspaces(who, policy) ==
  {m \in Meeting :
     LET ttl == Ttl(who, policy, m, "transcript") IN
     /\ status[m] \in Terminal /\ ttl # 0
     /\ \A d \in live[m] : Expired(d, ttl)
     /\ \/ \E d \in live[m] \cup dead[m] : Expired(d, ttl)
        \/ stoppedAt[m] # 0 /\ Expired(stoppedAt[m], ttl)}

SummaryWorkspaces(who, policy) ==
  {m \in Meeting :
     LET ttl == Ttl(who, policy, m, "summary") IN
     /\ status[m] \in Terminal /\ ttl # 0
     /\ \A d \in summaries[m] : Expired(d, ttl)
     /\ \/ \E d \in summaries[m] : Expired(d, ttl)
        \/ stoppedAt[m] # 0 /\ Expired(stoppedAt[m], ttl)}

(* A query that fails contributes no workspace.                            *)
CollectPlan(who, policy, failed) ==
  LET expired == [raw |-> RawWorkspaces(who, policy), debug |-> DebugWorkspaces(who, policy),
                  transcript |-> TranscriptWorkspaces(who, policy),
                  summary |-> SummaryWorkspaces(who, policy)]
  IN [s \in Scope |-> IF s \in failed THEN {} ELSE expired[s]]

CollectAdminPlan(policy) == CollectPlan("admin", policy, {})

(* Local parts an estimate counts under a scope; the size of the audio     *)
(* directory includes the speakers in it.                                  *)
MeetingUsage(m, scope) ==
  files[m] \cap
    CASE scope = "raw" -> {"audio", "speakers", "legacy", "context"}
      [] scope = "debug" -> DebugPart
      [] OTHER -> {scope}

PlanUsage(plan) ==
  {f \in Meeting \X Part :
     \/ \E s \in Scope : f[1] \in plan[s] /\ f[2] \in MeetingUsage(f[1], s)
     \/ f[1] \in plan["raw"] /\ f[2] \in MeetingUsage(f[1], "debug")}

-----------------------------------------------------------------------------
(* Directories.                                                            *)

(* Parts of a raw workspace, with the audio directory left alone when the  *)
(* speakers in it could not be removed; the empty summary directory is no  *)
(* loss.                                                                   *)
RawTargets(broken) ==
  (RawPart \cup DebugPart) \ (broken \cup (IF "speakers" \in broken THEN {"audio"} ELSE {}))

Removed(m, targets) == files[m] \ targets

(* Mutant: a workspace counts as clean although a removal has failed.      *)
MutCleanWorkspaces(S, broken) == S

(* Workspaces without a failed removal.                                    *)
CleanWorkspaces(S, broken) == {m \in S : broken[m] = {}}

(* At most one part of one meeting of S cannot be removed.                 *)
Broken(S, parts) ==
  {[m \in Meeting |-> {}]} \cup
  (IF faults < MaxFaults
   THEN {[n \in Meeting |-> IF n = m THEN {p} ELSE {}] : m \in S, p \in parts}
   ELSE {})

Faulty(broken) == \E m \in Meeting : broken[m] # {}
CountFault(b) == faults' = IF b THEN faults + 1 ELSE faults

FreedBy(before, after) == {f \in Meeting \X Part : f[2] \in before[f[1]] \ after[f[1]]}

(* The files have changed under a run or a deletion.                       *)
Disturbed(r) == IF r.phase = "idle" THEN r ELSE [r EXCEPT !.quiet = FALSE]

RemoveDirs(S, targets, broken) ==
  /\ files' = [m \in Meeting |-> IF m \in S THEN Removed(m, targets[m]) ELSE files[m]]
  /\ CountFault(Faulty(broken))

PhaseParts ==
  [raw |-> RawPart \cup DebugPart, debug |-> DebugPart,
   transcript |-> {"transcript"}, summary |-> {"summary"}]

PhaseTargets(phase, broken) ==
  IF phase = "raw" THEN RawTargets(broken) ELSE PhaseParts[phase] \ broken

Following == [raw |-> "debug", debug |-> "transcript", transcript |-> "summary", summary |-> "mark"]

-----------------------------------------------------------------------------
(* Cleanup of everything expired.                                          *)

StartRun(who, policy, failed) ==
  LET plan == CollectPlan(who, policy, failed) IN
  run' = [phase |-> "raw", who |-> who, policy |-> policy, plan |-> plan,
          estimate |-> PlanUsage(plan), freed |-> {}, clean |-> {},
          reopened |-> {}, quiet |-> failed = {}]

(* The loop of the bot; it goes on with the plan it could collect.         *)
RunRetentionCleanup ==
  /\ run = NoRun
  /\ \E failed \in {{}} \cup (IF faults < MaxFaults THEN {{s} : s \in Scope} ELSE {}) :
       /\ StartRun("bot", Policy, failed)
       /\ CountFault(failed # {})
  /\ UNCHANGED <<day, meetingVars, rowVars, files, del, approved, raced, retries, deletes>>

(* The administrator's run gives up, having changed nothing, unless every  *)
(* query succeeds and the request has been audited.                        *)
AdminCleanupRun ==
  /\ run = NoRun
  /\ \E policy \in AdminPolicy : StartRun("admin", policy, {})
  /\ UNCHANGED <<day, meetingVars, rowVars, files, del, approved, raced, countVars>>

FilesystemCleanup ==
  /\ run.phase \in DOMAIN Following
  /\ \E broken \in Broken(run.plan[run.phase], PhaseParts[run.phase]) :
       LET S == run.plan[run.phase]
           targets == [m \in S |-> PhaseTargets(run.phase, broken[m])] IN
       /\ RemoveDirs(S, targets, broken)
       /\ run' = [run EXCEPT !.phase = Following[run.phase],
                             !.freed = @ \cup FreedBy(files, files'),
                             !.clean = IF run.phase = "raw" THEN CleanWorkspaces(S, broken) ELSE @,
                             !.quiet = @ /\ ~Faulty(broken)]
  /\ del' = Disturbed(del)
  /\ UNCHANGED <<day, meetingVars, rowVars, approved, raced, retries, deletes>>

(* The bot marks a workspace whatever its meeting has become.              *)
Markable(who, S) == IF who = "bot" THEN S ELSE {m \in S : status[m] \in Terminal}

MarkRawWorkspaceCleaned ==
  /\ run.phase = "mark"
  /\ \E fails \in {FALSE} \cup (IF faults < MaxFaults THEN {TRUE} ELSE {}) :
       /\ cleaned' = [m \in Meeting |->
            cleaned[m] \/ (~fails /\ m \in Markable(run.who, run.clean))]
       /\ CountFault(fails)
  /\ run' = [run EXCEPT !.phase = "rows"]
  /\ UNCHANGED <<day, meetingVars, title, live, dead, summaries, artifacts, files, del,
                 approved, raced, retries, deletes>>

ExpiredTranscripts(who, policy, m) ==
  {d \in live[m] : status[m] \in Terminal /\ Expired(d, Ttl(who, policy, m, "transcript"))}

ExpiredSummaries(who, policy, m) ==
  {d \in summaries[m] : status[m] \in Terminal /\ Expired(d, Ttl(who, policy, m, "summary"))}

(* The last summary takes the title with it.                               *)
TitleCleared(who, policy, m) == m \in SummaryWorkspaces(who, policy)

ExpiredArtifacts(who, policy, m) ==
  {a \in artifacts[m] :
     /\ status[m] \in Terminal
     /\ \/ a.expires # 0 /\ a.expires <= day
        \/ a.kind \in {"raw", "debug"} /\ StoppedLongAgo(who, policy, m)
        \/ a.kind \in {"transcript", "summary"} /\ Expired(a.at, Ttl(who, policy, m, a.kind))}

(* One statement after the other; a failed one does not stop the rest.     *)
DatabaseCleanup ==
  /\ run.phase = "rows"
  /\ \E failed \in {{}} \cup (IF faults < MaxFaults THEN {{s} : s \in Scope} ELSE {}) :
       LET who == run.who
           policy == run.policy
           old(m) == ExpiredTranscripts(who, policy, m) IN
       /\ live' = [m \in Meeting |-> IF "transcript" \in failed THEN live[m] ELSE live[m] \ old(m)]
       /\ dead' = [m \in Meeting |-> IF "transcript" \in failed THEN dead[m] ELSE dead[m] \cup old(m)]
       /\ summaries' = [m \in Meeting |->
            summaries[m] \ (IF "summary" \in failed THEN {} ELSE ExpiredSummaries(who, policy, m))]
       /\ title' = [m \in Meeting |->
            title[m] /\ ("summary" \in failed \/ ~TitleCleared(who, policy, m))]
       /\ artifacts' = [m \in Meeting |->
            {a \in artifacts[m] : a \in ExpiredArtifacts(who, policy, m) => a.kind \in failed}]
       /\ CountFault(failed # {})
  /\ run' = NoRun
  /\ UNCHANGED <<day, meetingVars, cleaned, files, del, approved, raced, retries, deletes>>

-----------------------------------------------------------------------------
(* Deletion of one meeting; the targets are what the request names.        *)

DeleteParts(targets) ==
  UNION {IF s = "raw" THEN RawPart ELSE PhaseParts[s] : s \in targets}

DeleteTargets(targets, broken) ==
  DeleteParts(targets) \ (broken \cup (IF "speakers" \in broken THEN {"audio"} ELSE {}))

(* Local parts the preview of a deletion counts.                           *)
DeletePreview(m, targets) == UNION {MeetingUsage(m, s) : s \in targets}

MeetingDelete(m) ==
  /\ del = NoDelete /\ deletes < MaxDeletes
  /\ status[m] \in Terminal
  /\ \E targets \in Targets :
       del' = [phase |-> "files", meeting |-> m, targets |-> targets, clean |-> {},
               estimate |-> DeletePreview(m, targets), freed |-> {}, reopened |-> {}, quiet |-> TRUE]
  /\ deletes' = deletes + 1
  /\ UNCHANGED <<day, meetingVars, rowVars, files, run, approved, raced, faults, retries>>

MeetingFilesystemDelete ==
  /\ del.phase = "files"
  /\ \E broken \in Broken({del.meeting}, DeleteParts(del.targets)) :
       /\ RemoveDirs({del.meeting},
                     [m \in {del.meeting} |-> DeleteTargets(del.targets, broken[m])], broken)
       /\ del' = [del EXCEPT !.phase = "mark",
            !.freed = files[del.meeting] \ files'[del.meeting],
            !.quiet = @ /\ ~Faulty(broken),
            !.clean = IF "raw" \notin del.targets THEN {}
                      ELSE CleanWorkspaces({del.meeting}, [m \in Meeting |-> broken[m] \cap RawPart])]
  /\ run' = Disturbed(run)
  /\ UNCHANGED <<day, meetingVars, rowVars, approved, raced, retries, deletes>>

(* Every statement asks again whether the meeting is terminal.             *)
Hit(m, scope) == status[m] \in Terminal /\ scope \in del.targets

FollowingStatement == [mark |-> "transcripts", transcripts |-> "summaries", summaries |-> "artifacts"]

(* One statement after the other; a failed one does not stop the rest.     *)
MeetingDatabaseDelete ==
  /\ del.phase \in {"mark", "transcripts", "summaries", "artifacts"}
  /\ \E fails \in {FALSE} \cup (IF faults < MaxFaults THEN {TRUE} ELSE {}) :
       LET m == del.meeting
           hit(phase, s) == del.phase = phase /\ ~fails /\ Hit(m, s) IN
       /\ cleaned' = [cleaned EXCEPT ![m] = @ \/ (hit("mark", "raw") /\ m \in del.clean)]
       /\ live' = [live EXCEPT ![m] = IF hit("transcripts", "transcript") THEN {} ELSE @]
       /\ dead' = [dead EXCEPT ![m] = IF hit("transcripts", "transcript") THEN @ \cup live[m] ELSE @]
       /\ summaries' = [summaries EXCEPT ![m] = IF hit("summaries", "summary") THEN {} ELSE @]
       /\ title' = [title EXCEPT ![m] = @ /\ ~hit("summaries", "summary")]
       /\ artifacts' = [artifacts EXCEPT ![m] = {a \in @ : ~hit("artifacts", a.kind)}]
       /\ CountFault(fails)
  /\ del' = IF del.phase = "artifacts" THEN NoDelete
            ELSE [del EXCEPT !.phase = FollowingStatement[@]]
  /\ UNCHANGED <<day, meetingVars, files, run, approved, raced, retries, deletes>>

-----------------------------------------------------------------------------
(* What happens meanwhile.                                                 *)

NextDay ==
  /\ day < MaxDay
  /\ day' = day + 1
  /\ UNCHANGED <<meetingVars, rowVars, files, run, del, approved, raced, countVars>>

(* A retry request looks at the audio before its statement runs.           *)
RetryInput(m) ==
  /\ retries < MaxRetries
  /\ status[m] = "failed" /\ ~cleaned[m] /\ m \notin approved
  /\ files[m] \cap {"audio", "legacy"} # {}
  /\ approved' = approved \cup {m}
  /\ retries' = retries + 1
  /\ UNCHANGED <<day, meetingVars, rowVars, files, run, del, raced, faults, deletes>>

(* A run or deletion under way does not notice that a meeting is reopened. *)
Reopened(r, m) == IF r.phase = "idle" THEN r ELSE [r EXCEPT !.reopened = @ \cup {m}]

Cleaning(m) ==
  \/ run # NoRun /\ \E s \in Scope : m \in run.plan[s]
  \/ del # NoDelete /\ del.meeting = m

RetryJob(m) ==
  /\ m \in approved
  /\ approved' = approved \ {m}
  /\ LET ok == status[m] = "failed" /\ ~cleaned[m] IN
     /\ status' = [status EXCEPT ![m] = IF ok THEN "stopping" ELSE @]
     /\ raced' = IF ok /\ Cleaning(m) THEN raced \cup {m} ELSE raced
     /\ run' = IF ok THEN Reopened(run, m) ELSE run
     /\ del' = IF ok THEN Reopened(del, m) ELSE del
  /\ UNCHANGED <<day, stoppedAt, snapshot, rowVars, files, countVars>>

(* A recording ends with its audio and is processed.                       *)
StopRecording(m) ==
  /\ status[m] = "recording"
  /\ status' = [status EXCEPT ![m] = "stopping"]
  /\ stoppedAt' = [stoppedAt EXCEPT ![m] = day]
  /\ UNCHANGED <<day, snapshot, rowVars, files, run, del, approved, raced, countVars>>

(* Transcripts, then summary and title; a row written again keeps the day  *)
(* it was created.  Processing may fail after each of them.                *)
ProcessMeeting(m) ==
  /\ status[m] = "stopping"
  /\ \E reached \in IF files[m] \cap {"audio", "legacy"} = {} THEN {"nothing"}
                    ELSE {"nothing", "transcript", "summary", "posted"} :
       LET transcribed == reached # "nothing"
           summarized == reached \in {"summary", "posted"}
           rows == live[m] \cup dead[m] IN
       /\ status' = [status EXCEPT ![m] = IF reached = "posted" THEN "posted" ELSE "failed"]
       /\ files' = [files EXCEPT ![m] = @
            \cup (IF transcribed THEN {"audio", "speakers", "transcript", "context", "debug"} ELSE {})
            \cup (IF summarized THEN {"summary"} ELSE {})]
       /\ live' = [live EXCEPT ![m] =
            IF ~transcribed THEN @ ELSE IF rows = {} THEN {day} ELSE rows]
       /\ dead' = [dead EXCEPT ![m] = IF transcribed THEN {} ELSE @]
       /\ summaries' = [summaries EXCEPT ![m] = IF summarized /\ @ = {} THEN {day} ELSE @]
       /\ title' = [title EXCEPT ![m] = @ \/ summarized]
  /\ run' = Disturbed(run) /\ del' = Disturbed(del)
  /\ UNCHANGED <<day, stoppedAt, snapshot, cleaned, artifacts, approved, raced, countVars>>

Next ==
  \/ NextDay
  \/ RunRetentionCleanup
  \/ AdminCleanupRun
  \/ FilesystemCleanup
  \/ MarkRawWorkspaceCleaned
  \/ DatabaseCleanup
  \/ MeetingFilesystemDelete
  \/ MeetingDatabaseDelete
  \/ \E m \in Meeting :
       MeetingDelete(m) \/ RetryInput(m) \/ RetryJob(m) \/ StopRecording(m) \/ ProcessMeeting(m)

Spec == Init /\ [][Next]_vars

(* The loop of the bot runs every hour; a started cleanup goes on.         *)
Fairness ==
  /\ WF_vars(NextDay)
  /\ SF_vars(RunRetentionCleanup)
  /\ WF_vars(FilesystemCleanup)
  /\ WF_vars(MarkRawWorkspaceCleaned)
  /\ WF_vars(DatabaseCleanup)
  /\ WF_vars(MeetingFilesystemDelete)
  /\ WF_vars(MeetingDatabaseDelete)
  /\ WF_vars(\E m \in Meeting : StopRecording(m) \/ ProcessMeeting(m))

FairSpec == Spec /\ Fairness

-----------------------------------------------------------------------------
(* The lifetime documented for a meeting.                                  *)
Ttl0(m, s) == IF snapshot[m] = NoSnapshot THEN Policy[s] ELSE snapshot[m][s]

TypeOK ==
  /\ day \in 1 .. MaxDay
  /\ status \in [Meeting -> Terminal \cup {"recording", "stopping"}]
  /\ \A m \in Meeting :
       /\ stoppedAt[m] \in 0 .. MaxDay
       /\ files[m] \subseteq Part
       /\ artifacts[m] \subseteq Artifact
       /\ live[m] \cap dead[m] = {}
  /\ run # NoRun => run.plan \in Plan
  /\ del # NoDelete => del.targets \in (SUBSET Scope) \ {{}}
  /\ faults \in 0 .. MaxFaults /\ retries \in 0 .. MaxRetries /\ deletes \in 0 .. MaxDeletes

(* A meeting is only marked as cleaned when nothing of its raw workspace   *)
(* is left, however many removals and statements failed on the way.  The   *)
(* raw query never looks at a marked meeting again, so what is left then   *)
(* is left for ever.  (A meeting reopened during its cleanup may write     *)
(* again.)                                                                 *)
CleanedMeansGone ==
  \A m \in Meeting : cleaned[m] /\ m \notin raced => files[m] \cap RawPart = {}

Loses(m) == ~(files[m] \subseteq files'[m])
CleansUp(phase) == run.phase = phase /\ run'.phase = Following[phase]

(* The removal of this step was planned before the meeting was reopened.   *)
Overtaken(m) ==
  \/ run.phase \in DOMAIN Following /\ CleansUp(run.phase) /\ m \in run.reopened
  \/ del.phase = "files" /\ del'.phase = "mark" /\ m \in del.reopened

(* What is being recorded or processed loses no row to a cleanup or a      *)
(* deletion, whenever it was planned: each statement asks for the status   *)
(* again.  A removal of files does not, so a meeting reopened by a retry   *)
(* can lose its audio, but only to the removal that was under way when it  *)
(* was reopened and to none that was planned later.                        *)
ActiveKeepsFilesStep ==
  \A m \in Meeting : status[m] \notin Terminal =>
    /\ Loses(m) => Overtaken(m)
    /\ live[m] \subseteq live'[m] /\ summaries[m] \subseteq summaries'[m]
    /\ artifacts[m] \subseteq artifacts'[m] /\ (title[m] => title'[m])

ActiveKeepsFiles == [][ActiveKeepsFilesStep]_vars

(* The bot never removes what the snapshot of the meeting still keeps, nor *)
(* a directory whose rows are younger than the lifetime allows, unless the *)
(* meeting was reopened after this run was planned.                        *)
SnapshotKeepsStep ==
  \A m \in Meeting : Loses(m) /\ run.phase # "idle" /\ run.who = "bot" /\ m \notin run.reopened =>
    LET ttl(s) == Ttl0(m, s) IN
    /\ CleansUp("raw") => Expired(stoppedAt[m], ttl("raw"))
    /\ CleansUp("transcript")
         => ttl("transcript") # 0 /\ \A d \in live[m] : Expired(d, ttl("transcript"))
    /\ CleansUp("summary")
         => ttl("summary") # 0 /\ \A d \in summaries[m] : Expired(d, ttl("summary"))

SnapshotKeeps == [][SnapshotKeepsStep]_vars

(* What was fixed at the start of a meeting decides about its retention,   *)
(* whoever runs the cleanup.                                               *)
SnapshotDecides ==
  [][\A m \in Meeting :
       CleansUp("raw") /\ snapshot[m] # NoSnapshot /\ Loses(m)
         => Expired(stoppedAt[m], snapshot[m]["raw"])]_vars

(* A title comes from a summary and never outlives the last one.           *)
TitleNeedsSummary == \A m \in Meeting : title[m] => summaries[m] # {}

(* An undisturbed run or deletion without errors frees exactly what the    *)
(* preview, which walks the directories on its own, has announced.         *)
PreviewIsExact ==
  /\ run.phase = "mark" /\ run.quiet
       => run.estimate = {f \in run.freed : f[2] # "objects"}
  /\ del.phase = "mark" /\ del.quiet => del.estimate = del.freed \ {"objects"}

(* A marked meeting has lost its raw workspace, however many removals and  *)
(* statements failed on the way (the raw query never looks at it again); a *)
(* title has its summary; and previews tell what is freed.                 *)
RetentionExact ==
  TypeOK /\ CleanedMeansGone /\ TitleNeedsSummary /\ PreviewIsExact

(* Of a meeting that is being worked on no row is removed, and no file but *)
(* by a removal that was under way when the meeting was reopened; and the  *)
(* bot's cleanup removes nothing that its plan did not find expired.       *)
NothingRemovedEarly == ActiveKeepsFiles /\ SnapshotKeeps

(* Raw audio of a meeting that no longer changes is gone in the end if its *)
(* lifetime is finite, although removals and statements fail on the way.   *)
RawAudioGoes ==
  \A m \in Meeting :
    <>[](status[m] \in Terminal /\ Expired(stoppedAt[m], Ttl0(m, "raw"))
           => files[m] \cap RawPart = {} \/ m \in raced)
=============================================================================
