------------------------ MODULE RecordingLifecycle ------------------------
(***************************************************************************)
(* Starting and stopping the recordings of one guild.                      *)
(*                                                                         *)
(* A start (start_recording_in_channel) and a stop (stop_recording_for_user *)
(* or a grace timer) are long tasks that await disk, database and Discord   *)
(* and give up the lifecycle lock command_gate in between.  What they share *)
(* is the meeting rows, the guild's startup reservation, its local session  *)
(* with audio that is not on disk yet, and its one voice connection.  A     *)
(* meeting that is stopping no longer blocks a new recording, so the tail   *)
(* of one stop (leave voice, flush, settle the summary job) overlaps the    *)
(* next start; the lock ssrc_tracker_reset_gate keeps the two apart.        *)
(*                                                                         *)
(* Meetings are numbered in the order of started_at.  How many failures a   *)
(* timer or a cleanup tolerates before it gives up is not kept: after any   *)
(* failure it may do either.                                                *)
(***************************************************************************)
EXTENDS Naturals, FiniteSets

CONSTANTS
    Meetings,       \* bound: how many recordings are started
    Stopper,        \* stop commands and grace timers
    NoSummary,      \* meetings whose settings disable summaries
    JoinAttempts,   \* attempts to join voice (3 in the code)
    MaxFaults,      \* bound: disturbances of one behaviour
    FaultKinds      \* the disturbances that may happen ("enqueue" is a statement
                    \* too: the late enqueue of a deferred job)

Meeting == 1..Meetings

None == 0

ASSUME LifecycleAssumption ==
    /\ Meetings \in Nat
    /\ NoSummary \subseteq Meeting
    /\ JoinAttempts \in Nat \ {0}
    /\ MaxFaults \in Nat
    /\ FaultKinds \subseteq {"statement", "enqueue", "leave", "ready"}

VARIABLES
    status,    \* Meeting -> meetings.status; "posted" stands for what follows stopping
    job,       \* Meeting -> its summary job
    startup,   \* recording_startups: the meeting that reserved the guild
    session,   \* sessions: the meeting of the guild's local session
    unsaved,   \* Meeting -> its session holds audio that is not on disk
    lost,      \* Meeting -> audio was dropped with its session
    call,      \* the meeting whose join the voice connection belongs to
    start,     \* Meeting -> where its start task is
    tries,     \* Meeting -> join attempts so far
    cleanup,   \* Meeting -> recording_start_cleanup_retries
    stop,      \* Stopper -> a stop's local state
    absent,    \* the meetings whose session a terminal absence cleanup holds
    recovery,  \* what startup recovery has read and not acted on yet
    faults     \* disturbances so far

vars == <<status, job, startup, session, unsaved, lost, call, start, tries,
          cleanup, stop, absent, recovery, faults>>

Statuses == {"none", "recording", "stopping", "posted", "failed"}

StartSteps == {"none", "setup", "insert", "reset", "join", "joining",
               "join_cleanup", "verify", "fail", "done"}

StopSteps == {"idle", "armed", "flush", "mark", "exhaust", "remove", "leave",
              "tail", "finalize", "loss", "enqueue_retry", "mark_retry"}

(* auto: a grace timer, which retries; deferred: the job waits for the tail  *)
(* flush; carry: the stop owns the session it removed.                       *)
StopTask == [pc : StopSteps, target : Meeting \cup {None}, auto : BOOLEAN,
             deferred : BOOLEAN, carry : BOOLEAN]

IdleStop == [pc |-> "idle", target |-> None, auto |-> FALSE, deferred |-> FALSE,
             carry |-> FALSE]

(* RecoveryCandidate. *)
Candidate == [meeting : Meeting, status : {"recording", "stopping"},
              connected : BOOLEAN, local : BOOLEAN]

TypeOK ==
    /\ status \in [Meeting -> Statuses]
    /\ job \in [Meeting -> {"none", "queued", "done"}]
    /\ startup \in Meeting \cup {None} /\ session \in Meeting \cup {None}
    /\ unsaved \in [Meeting -> BOOLEAN] /\ lost \in [Meeting -> BOOLEAN]
    /\ call \in Meeting \cup {None} /\ absent \subseteq Meeting
    /\ start \in [Meeting -> StartSteps]
    /\ tries \in [Meeting -> 0..JoinAttempts]
    /\ cleanup \in [Meeting -> {"none", "retry", "force"}]
    /\ stop \in [Stopper -> StopTask]
    /\ recovery \subseteq Candidate
    /\ faults \in 0..MaxFaults

Init ==
    /\ status = [m \in Meeting |-> "none"] /\ job = [m \in Meeting |-> "none"]
    /\ startup = None /\ session = None /\ call = None /\ absent = {}
    /\ unsaved = [m \in Meeting |-> FALSE] /\ lost = [m \in Meeting |-> FALSE]
    /\ start = [m \in Meeting |-> "none"] /\ tries = [m \in Meeting |-> 0]
    /\ cleanup = [m \in Meeting |-> "none"]
    /\ stop = [s \in Stopper |-> IdleStop]
    /\ recovery = {}
    /\ faults = 0

(***************************************************************************)
(* Building blocks.                                                        *)
(***************************************************************************)

Disturb(kind) ==
    /\ kind \in FaultKinds
    /\ faults < MaxFaults
    /\ faults' = faults + 1

(* find_active_meeting_by_guild: the newest meeting that is not over. *)
Active ==
    LET live == {m \in Meeting : status[m] \in {"recording", "stopping"}}
    IN  IF live = {} THEN None ELSE CHOOSE m \in live : \A k \in live : k <= m

(* command_gate is held over these steps, ... *)
HoldsGate(s) == stop[s].pc \in {"flush", "mark", "exhaust", "remove"}

GateFree == (\A s \in Stopper : ~HoldsGate(s)) /\ (\A m \in Meeting : start[m] # "reset")

(* ... and ssrc_tracker_reset_gate over these. *)
HoldsReset(s) == stop[s].pc \in {"leave", "tail", "finalize", "loss"}

ResetFree == \A s \in Stopper : ~HoldsReset(s)

SetStatus(m, value) == status' = [status EXCEPT ![m] = value]

(* Mutants: the compare-and-set is forgotten; posted is not in the list. *)
FailAlways(m, expected) == SetStatus(m, "failed")

FailButPosted(m, expected) ==
    status' = [status EXCEPT ![m] = IF @ \in expected \ {"posted"} THEN "failed" ELSE @]

(* The meeting fails if its status is one of those expected. *)
FailFrom(m, expected) ==
    status' = [status EXCEPT ![m] = IF @ \in expected THEN "failed" ELSE @]

StopGoto(s, pc) == stop' = [stop EXCEPT ![s].pc = pc]

StopEnds(s) == stop' = [stop EXCEPT ![s] = IdleStop]

StartGoto(m, pc) == start' = [start EXCEPT ![m] = pc]

(* Mutant: the comparison never matches. *)
WithoutNothing(value, m) == value

(* clear_matching_recording_startup, remove_matching_recording_session. *)
Without(value, m) == IF value = m THEN None ELSE value

(* flush_removed_session_after_stop on a session nobody keeps: what cannot    *)
(* be written is gone.                                                        *)
DropAudio(m) ==
    /\ unsaved' = [unsaved EXCEPT ![m] = FALSE]
    /\ \/ UNCHANGED lost
       \/ unsaved[m] /\ lost' = [lost EXCEPT ![m] = TRUE]

(* Mutant: only the reservation is given back. *)
ClearReservation(m) ==
    /\ startup' = Without(startup, m)
    /\ UNCHANGED <<session, unsaved, lost>>

(* The session and the reservation of m are removed if they are still m's. *)
ClearLocal(m) ==
    /\ startup' = Without(startup, m)
    /\ session' = Without(session, m)
    /\ IF session = m THEN DropAudio(m) ELSE UNCHANGED <<unsaved, lost>>

(* Mutant: whatever session there is, or is not, is taken. *)
TakeAbsentUnchecked(m) ==
    /\ startup' = Without(startup, m)
    /\ session' = Without(session, m)
    /\ absent' = absent \cup {session}

(* remove_local_recording_state_after_terminal_absence: the session is taken   *)
(* out, to be flushed once the gate is given up.                               *)
TakeAbsent(m) ==
    /\ startup' = Without(startup, m)
    /\ session' = Without(session, m)
    /\ absent' = IF session = m THEN absent \cup {m} ELSE absent

EnqueueJob(m) == job' = [job EXCEPT ![m] = IF @ = "none" THEN "queued" ELSE @]

(* leave_voice_with_timeout, which may fail or time out. *)
LeaveVoice ==
    \/ call' = None
    \/ "leave" \in FaultKinds /\ UNCHANGED call

(* mark_recording_failed_after_teardown_exhaustion: whatever is not over fails. *)
FailUnlessOver(m) == FailFrom(m, {"recording", "stopping"})

(* try_cleanup_failed_recording_start: only a recording fails; local state is  *)
(* kept for the retry when the store cannot be written.                        *)
CleanupStart(m) ==
    \/ /\ FailFrom(m, {"recording"})
       /\ ClearLocal(m)
       /\ UNCHANGED <<cleanup, faults>>
    \/ /\ Disturb("statement")
       /\ cleanup' = [cleanup EXCEPT ![m] = IF @ = "none" THEN "retry" ELSE @]
       /\ UNCHANGED <<status, startup, session, unsaved, lost>>

(***************************************************************************)
(* start_recording_in_channel.                                             *)
(***************************************************************************)

(* Mutant: a meeting that is recording does not refuse the start. *)
StartCommandAlways(m) ==
    /\ start[m] = "none" /\ \A k \in 1..(m - 1) : start[k] # "none"
    /\ GateFree
    /\ startup = None
    /\ SetStatus(m, "recording")
    /\ startup' = m
    /\ StartGoto(m, "setup")
    /\ UNCHANGED <<job, session, unsaved, lost, call, tries, cleanup, stop, absent, recovery, faults>>

(* Under the gate: no reservation, and no meeting but one that is stopping;   *)
(* the row is created as recording and the guild is reserved.                 *)
StartCommand(m) ==
    /\ start[m] = "none" /\ \A k \in 1..(m - 1) : start[k] # "none"
    /\ GateFree
    /\ startup = None
    /\ Active # None => status[Active] = "stopping"
    /\ SetStatus(m, "recording")
    /\ startup' = m
    /\ StartGoto(m, "setup")
    /\ UNCHANGED <<job, session, unsaved, lost, call, tries, cleanup, stop, absent, recovery, faults>>

(* ensure_base_dirs runs without the gate; its failure is cleaned up under it. *)
PrepareWorkspace(m) ==
    /\ start[m] = "setup"
    /\ \/ /\ StartGoto(m, "insert")
          /\ UNCHANGED <<status, startup, session, unsaved, lost, cleanup, faults>>
       \/ /\ GateFree
          /\ CleanupStart(m)
          /\ StartGoto(m, "done")
    /\ UNCHANGED <<job, call, tries, stop, absent, recovery>>

(* The row is looked up again once the gate is back: a stop may have won.     *)
CheckStillRecording(m) ==
    /\ start[m] = "insert"
    /\ GateFree
    /\ \/ /\ Active = m /\ status[m] = "recording"
          /\ StartGoto(m, "reset")
          /\ UNCHANGED <<status, startup, session, unsaved, lost, cleanup, faults>>
       \/ /\ ~(Active = m /\ status[m] = "recording") \/ "statement" \in FaultKinds
          /\ CleanupStart(m)
          /\ StartGoto(m, "done")
    /\ UNCHANGED <<job, call, tries, stop, absent, recovery>>

(* Mutant: the reset gate is not taken. *)
InsertSessionAtOnce(m) ==
    /\ start[m] = "reset"
    /\ session' = m
    /\ StartGoto(m, "join")
    /\ UNCHANGED <<status, job, startup, unsaved, lost, call, tries, cleanup, stop, absent, recovery,
                   faults>>

(* Still under the gate, once no stop holds the reset gate: the session is    *)
(* visible before voice is joined.  One that is replaced takes its audio with *)
(* it.                                                                        *)
InsertSession(m) ==
    /\ start[m] = "reset"
    /\ ResetFree
    /\ session' = m
    /\ lost' = [k \in Meeting |-> lost[k] \/ (session = k /\ unsaved[k])]
    /\ unsaved' = [k \in Meeting |-> unsaved[k] /\ session # k]
    /\ StartGoto(m, "join")
    /\ UNCHANGED <<status, job, startup, call, tries, cleanup, stop, absent, recovery, faults>>

(* manager.join takes the guild's one voice connection, without any lock. *)
Join(m) ==
    /\ start[m] = "join"
    /\ call' = m
    /\ tries' = [tries EXCEPT ![m] = @ + 1]
    /\ StartGoto(m, "joining")
    /\ UNCHANGED <<status, job, startup, session, unsaved, lost, cleanup, stop, absent, recovery, faults>>

(* It succeeds unless somebody has left or joined since, and may fail or time *)
(* out at any time.                                                           *)
JoinReturns(m) ==
    /\ start[m] = "joining"
    /\ \/ call = m /\ StartGoto(m, "verify")
       \/ StartGoto(m, "join_cleanup")
    /\ UNCHANGED <<status, job, startup, session, unsaved, lost, call, tries, cleanup, stop,
                   absent, recovery, faults>>

(* cleanup_voice_join_retry_after_failed_attempt: leave unless a successor     *)
(* owns the session, and retry only while the session is still this start's.  *)
JoinCleanup(m) ==
    /\ start[m] = "join_cleanup"
    /\ GateFree
    /\ IF session = m
       THEN /\ LeaveVoice
            /\ StartGoto(m, IF tries[m] < JoinAttempts THEN "join" ELSE "fail")
            /\ UNCHANGED <<status, startup, session, unsaved, lost, cleanup, faults>>
       ELSE /\ IF session = None THEN LeaveVoice ELSE UNCHANGED call
            /\ CleanupStart(m)
            /\ StartGoto(m, "done")
    /\ UNCHANGED <<job, tries, stop, absent, recovery>>

(* All attempts failed. *)
JoinGivesUp(m) ==
    /\ start[m] = "fail"
    /\ GateFree
    /\ CleanupStart(m)
    /\ StartGoto(m, "done")
    /\ UNCHANGED <<job, call, tries, stop, absent, recovery>>

(* verify_recording_start_after_join, when the row can be read: ... *)
Verify(m) ==
    /\ start[m] = "verify"
    /\ GateFree
    /\ \/ (* ... it is the active recording and the session is its own; *)
          /\ Active = m /\ status[m] = "recording" /\ session = m
          /\ startup' = Without(startup, m)
          /\ UNCHANGED <<status, session, unsaved, lost, call, cleanup, faults>>
       \/ (* it was stopped meanwhile: leave only if the session is its own; *)
          /\ status[m] \in {"stopping", "posted", "failed"}
          /\ ClearLocal(m)
          /\ IF session = m THEN LeaveVoice ELSE UNCHANGED call
          /\ UNCHANGED <<status, cleanup, faults>>
       \/ (* it is recording but not active, or its session is gone. *)
          /\ status[m] = "recording" /\ ~(Active = m /\ session = m)
          /\ LeaveVoice
          /\ CleanupStart(m)
    /\ StartGoto(m, "done")
    /\ UNCHANGED <<job, tries, stop, absent, recovery>>

(* The row cannot be read: a start that has its session keeps it and its      *)
(* reservation; one that has not leaves voice and is cleaned up.              *)
VerifyBlind(m) ==
    /\ start[m] = "verify"
    /\ GateFree
    /\ Disturb("statement")
    /\ \/ session = m /\ UNCHANGED <<status, startup, session, unsaved, lost, call>>
       \/ /\ session # m
          /\ LeaveVoice
          /\ FailFrom(m, {"recording"})
          /\ ClearLocal(m)
    /\ StartGoto(m, "done")
    /\ UNCHANGED <<job, tries, cleanup, stop, absent, recovery>>

(* spawn_failed_recording_start_cleanup_retry: the same cleanup again, ...     *)
CleanupRetry(m) ==
    /\ cleanup[m] = "retry"
    /\ GateFree
    /\ \/ /\ FailFrom(m, {"recording"})
          /\ ClearLocal(m)
          /\ cleanup' = [cleanup EXCEPT ![m] = "none"]
          /\ UNCHANGED faults
       \/ /\ Disturb("statement")
          /\ \E next \in {"retry", "force"} : cleanup' = [cleanup EXCEPT ![m] = next]
          /\ UNCHANGED <<status, startup, session, unsaved, lost>>
    /\ UNCHANGED <<job, call, start, tries, stop, absent, recovery>>

(* ... and at its end the row is failed whatever it is, or nothing is written. *)
CleanupForce(m) ==
    /\ cleanup[m] = "force"
    /\ GateFree
    /\ \/ SetStatus(m, "failed") /\ UNCHANGED faults
       \/ Disturb("statement") /\ UNCHANGED status
    /\ ClearLocal(m)
    /\ cleanup' = [cleanup EXCEPT ![m] = "none"]
    /\ UNCHANGED <<job, call, start, tries, stop, absent, recovery>>

(***************************************************************************)
(* Stops: the command, and the grace timers of an empty channel and of a    *)
(* lost driver, which aim at one meeting and retry.                         *)
(***************************************************************************)

StopCommand(s) ==
    /\ stop[s].pc = "idle"
    /\ GateFree
    /\ Active # None
    /\ stop' = [stop EXCEPT ![s] = [IdleStop EXCEPT !.pc = "flush", !.target = Active]]
    /\ UNCHANGED <<status, job, startup, session, unsaved, lost, call, start, tries, cleanup,
                   absent, recovery, faults>>

ArmTimer(s) ==
    /\ stop[s].pc = "idle"
    /\ Active # None
    /\ stop' = [stop EXCEPT ![s] = [IdleStop EXCEPT !.pc = "armed", !.target = Active,
                                                     !.auto = TRUE]]
    /\ UNCHANGED <<status, job, startup, session, unsaved, lost, call, start, tries, cleanup,
                   absent, recovery, faults>>

(* The grace is over: stop, or call it off when members or the driver are back, *)
(* or give up on a voice cache that stays away; if the meeting is no longer the *)
(* active one, the auto-stop timer clears its local state and the driver's only *)
(* its reservation.                                                             *)
TimerFires(s) ==
    /\ stop[s].pc = "armed"
    /\ GateFree
    /\ IF Active = stop[s].target
       THEN /\ StopGoto(s, "flush") \/ StopGoto(s, "exhaust") \/ StopEnds(s)
            /\ UNCHANGED <<startup, session, unsaved, lost>>
       ELSE /\ ClearLocal(stop[s].target) \/ ClearReservation(stop[s].target)
            /\ StopEnds(s)
    /\ UNCHANGED <<status, job, call, start, tries, cleanup, absent, recovery, faults>>

(* The lookup fails once too often: give up. *)
TimerFiresBlind(s) ==
    /\ stop[s].pc = "armed"
    /\ GateFree
    /\ Disturb("statement")
    /\ StopGoto(s, "exhaust")
    /\ UNCHANGED <<status, job, startup, session, unsaved, lost, call, start, tries, cleanup,
                   absent, recovery>>

(* prepare_recording_stop_after_teardown: the target's session is flushed; a  *)
(* failure keeps its chunks and defers the summary job.                       *)
FlushForStop(s) ==
    LET m == stop[s].target IN
    /\ stop[s].pc = "flush"
    /\ \/ /\ unsaved' = [unsaved EXCEPT ![m] = @ /\ session # m]
          /\ StopGoto(s, "mark")
       \/ /\ session = m /\ unsaved[m]
          /\ stop' = [stop EXCEPT ![s].pc = "mark", ![s].deferred = TRUE]
          /\ UNCHANGED unsaved
    /\ UNCHANGED <<status, job, startup, session, lost, call, start, tries, cleanup, absent,
                   recovery, faults>>

(* stop_and_enqueue_summary_job_for_teardown. *)
MarkStopping(s) ==
    LET m == stop[s].target IN
    /\ stop[s].pc = "mark" /\ Active = m
    /\ IF m \in NoSummary
       THEN SetStatus(m, "posted") /\ UNCHANGED job
       ELSE /\ SetStatus(m, "stopping")
            /\ IF stop[s].deferred THEN UNCHANGED job ELSE EnqueueJob(m)
    /\ stop' = [stop EXCEPT ![s].pc = "remove",
                            ![s].deferred = @ /\ m \notin NoSummary]
    /\ UNCHANGED <<startup, session, unsaved, lost, call, start, tries, cleanup, absent, recovery, faults>>

(* The target is over or another meeting is active: a command reports it, a   *)
(* timer removes what is left of the target.                                  *)
MarkAbsent(s) ==
    /\ stop[s].pc = "mark" /\ Active # stop[s].target
    /\ IF stop[s].auto THEN TakeAbsent(stop[s].target) ELSE UNCHANGED <<startup, session, absent>>
    /\ StopEnds(s)
    /\ UNCHANGED <<status, job, unsaved, lost, call, start, tries, cleanup, recovery, faults>>

(* A statement fails, before the row is stopping or after: a command reports it, *)
(* a timer waits again or gives up.                                              *)
MarkFails(s) ==
    LET m == stop[s].target IN
    /\ stop[s].pc = "mark"
    /\ Disturb("statement")
    /\ UNCHANGED status \/ (Active = m /\ SetStatus(m, "stopping"))
    /\ IF stop[s].auto
       THEN \E next \in {"armed", "exhaust"} :
                stop' = [stop EXCEPT ![s].pc = next, ![s].deferred = FALSE]
       ELSE StopEnds(s)
    /\ UNCHANGED <<job, startup, session, unsaved, lost, call, start, tries, cleanup, absent, recovery>>

(* The session and the reservation are removed; the gate is given up for the   *)
(* reset gate.                                                                 *)
RemoveSession(s) ==
    LET m == stop[s].target IN
    /\ stop[s].pc = "remove"
    /\ ResetFree
    /\ startup' = Without(startup, m)
    /\ session' = Without(session, m)
    /\ stop' = [stop EXCEPT ![s].pc = "leave", ![s].carry = (session = m)]
    /\ UNCHANGED <<status, job, unsaved, lost, call, start, tries, cleanup, absent, recovery, faults>>

(* leave_after_recording_stop: leave voice whoever removed the session, ... *)
LeaveAfterStop(s) ==
    /\ stop[s].pc = "leave"
    /\ LeaveVoice
    /\ StopGoto(s, "tail")
    /\ UNCHANGED <<status, job, startup, session, unsaved, lost, start, tries, cleanup, absent,
                   recovery, faults>>

(* ... flush the removed session once more, ... *)
TailFlush(s) ==
    LET m == stop[s].target IN
    /\ stop[s].pc = "tail"
    /\ \/ StopGoto(s, "finalize") /\ UNCHANGED lost
       \/ /\ stop[s].carry /\ unsaved[m]
          /\ lost' = [lost EXCEPT ![m] = TRUE]
          /\ StopGoto(s, "loss")
    /\ unsaved' = [unsaved EXCEPT ![m] = @ /\ ~stop[s].carry]
    /\ UNCHANGED <<status, job, startup, session, call, start, tries, cleanup, absent, recovery, faults>>

(* Mutant: the deferred job is forgotten. *)
FinalizeForgets(s) ==
    /\ stop[s].pc = "finalize"
    /\ StopEnds(s)
    /\ UNCHANGED <<status, job, startup, session, unsaved, lost, call, start, tries, cleanup,
                   absent, recovery, faults>>

(* ... and finalize_stopped_recording_after_flush: enqueue the deferred job, *)
(* or fail the meeting whose audio is lost.  A write that fails is retried   *)
(* in the background, without a lock, until the retries are used up.         *)
Finalize(s) ==
    LET m == stop[s].target IN
    /\ stop[s].pc \in {"finalize", "enqueue_retry"}
    /\ \/ /\ IF stop[s].deferred THEN EnqueueJob(m) ELSE UNCHANGED job
          /\ StopEnds(s)
          /\ UNCHANGED faults
       \/ /\ stop[s].deferred
          /\ Disturb("statement") \/ Disturb("enqueue")
          /\ StopGoto(s, "enqueue_retry") \/ (stop[s].pc = "enqueue_retry" /\ StopEnds(s))
          /\ UNCHANGED job
    /\ UNCHANGED <<status, startup, session, unsaved, lost, call, start, tries, cleanup, absent, recovery>>

RecordLoss(s) ==
    LET m == stop[s].target IN
    /\ stop[s].pc \in {"loss", "mark_retry"}
    /\ \/ /\ FailFrom(m, {"stopping", "posted"})
          /\ StopEnds(s)
          /\ UNCHANGED faults
       \/ /\ Disturb("statement")
          /\ StopGoto(s, "mark_retry") \/ (stop[s].pc = "mark_retry" /\ StopEnds(s))
          /\ UNCHANGED status
    /\ UNCHANGED <<job, startup, session, unsaved, lost, call, start, tries, cleanup, absent, recovery>>

(* fail_recording_after_teardown_exhaustion, under both gates: the meeting     *)
(* fails, its local state goes and voice is left.                              *)
Exhaust(s) ==
    LET m == stop[s].target IN
    /\ stop[s].pc = "exhaust"
    /\ ResetFree
    /\ FailUnlessOver(m)
    /\ ClearLocal(m)
    /\ LeaveVoice
    /\ StopEnds(s)
    /\ UNCHANGED <<job, start, tries, cleanup, absent, recovery, faults>>

(* If that cannot be written the timer waits again; at the limit of            *)
(* handle_terminal_cleanup_retry_failure a second write may still go through.  *)
ExhaustFails(s) ==
    LET m == stop[s].target IN
    /\ stop[s].pc = "exhaust"
    /\ ResetFree
    /\ Disturb("statement")
    /\ \/ /\ StopGoto(s, "armed")
          /\ UNCHANGED <<status, startup, session, absent>>
       \/ /\ FailUnlessOver(m)
          /\ TakeAbsent(m)
          /\ StopEnds(s)
    /\ UNCHANGED <<job, unsaved, lost, call, start, tries, cleanup, recovery>>

(***************************************************************************)
(* The other actors.                                                       *)
(***************************************************************************)

(* voice_state_update with no active meeting: what a meeting left behind is    *)
(* cleaned up.                                                                 *)
VoiceEvent ==
    /\ Active = None
    /\ GateFree
    /\ \/ /\ session # None
          /\ TakeAbsent(session)
          /\ UNCHANGED <<status, unsaved, lost, cleanup, faults>>
       \/ /\ session = None /\ startup # None
          /\ CleanupStart(startup)
          /\ UNCHANGED absent
    /\ UNCHANGED <<job, call, start, tries, stop, recovery>>

(* finish_terminal_absence_cleanup, for who removed a session only. *)
FinishAbsent(m) ==
    /\ m \in absent
    /\ ResetFree
    /\ absent' = absent \ {m}
    /\ LeaveVoice
    /\ DropAudio(m)
    /\ UNCHANGED <<status, job, startup, session, start, tries, cleanup, stop, recovery, faults>>

(* Voice arrives in the guild's session while a call is up, and is written    *)
(* when a chunk is full.                                                      *)
VoiceTick ==
    /\ session # None /\ call # None
    /\ \E full \in BOOLEAN : unsaved' = [unsaved EXCEPT ![session] = ~full]
    /\ UNCHANGED <<status, job, startup, session, lost, call, start, tries, cleanup, stop, absent,
                   recovery, faults>>

(* The summary pipeline, which takes up a meeting that is stopping. *)
Summarize(m) ==
    /\ job[m] = "queued"
    /\ job' = [job EXCEPT ![m] = "done"]
    /\ IF status[m] = "stopping"
       THEN \E result \in {"posted", "failed"} : SetStatus(m, result)
       ELSE UNCHANGED status
    /\ UNCHANGED <<startup, session, unsaved, lost, call, start, tries, cleanup, stop, absent,
                   recovery, faults>>

(* run_startup_recovery runs after every ready event, also one of a gateway    *)
(* that reconnects.  It reads a candidate; a cache that is not filled yet says *)
(* that the bot is not connected.                                              *)
RecoveryScan(m) ==
    /\ Disturb("ready")
    /\ status[m] \in {"recording", "stopping"}
    /\ \E connected \in {FALSE, call = m} :
           recovery' = recovery \cup {[meeting |-> m, status |-> status[m],
                                      connected |-> connected, local |-> session = m]}
    /\ UNCHANGED <<status, job, startup, session, unsaved, lost, call, start, tries, cleanup, stop,
                   absent>>

(* run_recovery and what follows: a recording that is not connected or has no  *)
(* session is stopped and summarised if there is audio on disk, and failed if  *)
(* there is none; one that is stopping is summarised or failed the same way.   *)
RecoveryActs(c) ==
    LET m == c.meeting
        orphan == c.status = "recording" /\ c.connected /\ ~c.local
    IN
    /\ c \in recovery
    /\ recovery' = recovery \ {c}
    /\ orphan => GateFree
    /\ IF c.status = "recording" /\ c.connected /\ c.local
       THEN UNCHANGED <<status, job, call>>
       ELSE \/ /\ status' = [status EXCEPT ![m] = IF @ = "recording" /\ c.status = "recording"
                                                THEN "stopping" ELSE @]
               /\ IF m \in NoSummary THEN UNCHANGED job ELSE EnqueueJob(m)
               /\ IF orphan /\ session = None /\ Active \in {None, m}
                  THEN LeaveVoice ELSE UNCHANGED call
            \/ /\ FailFrom(m, {c.status})
               /\ IF orphan /\ status[m] = c.status /\ session = None
                     /\ \A k \in Meeting \ {m} : status[k] \notin {"recording", "stopping"}
                  THEN LeaveVoice ELSE UNCHANGED call
               /\ UNCHANGED job
    /\ UNCHANGED <<startup, session, unsaved, lost, start, tries, cleanup, stop, absent, faults>>

(***************************************************************************)
(* The specification.                                                      *)
(***************************************************************************)

StartTask(m) ==
    \/ PrepareWorkspace(m) \/ CheckStillRecording(m) \/ InsertSession(m) \/ Join(m)
    \/ JoinReturns(m) \/ JoinCleanup(m) \/ JoinGivesUp(m) \/ Verify(m) \/ VerifyBlind(m)

StopTaskStep(s) ==
    \/ TimerFires(s) \/ TimerFiresBlind(s) \/ FlushForStop(s) \/ MarkStopping(s)
    \/ MarkAbsent(s) \/ MarkFails(s) \/ RemoveSession(s) \/ LeaveAfterStop(s)
    \/ TailFlush(s) \/ Finalize(s) \/ RecordLoss(s) \/ Exhaust(s) \/ ExhaustFails(s)

Next ==
    \/ \E m \in Meeting : \/ StartCommand(m) \/ StartTask(m) \/ CleanupRetry(m) \/ CleanupForce(m)
                          \/ FinishAbsent(m) \/ Summarize(m) \/ RecoveryScan(m)
    \/ \E s \in Stopper : StopCommand(s) \/ ArmTimer(s) \/ StopTaskStep(s)
    \/ \E c \in recovery : RecoveryActs(c)
    \/ VoiceEvent \/ VoiceTick

Spec == Init /\ [][Next]_vars

(* Tasks run on until they return: tokio's locks are fair, every call to the   *)
(* store, to disk and to Discord returns or times out.  Nobody has to give a   *)
(* command, no channel has to fall empty and no frame has to arrive.           *)
Fairness ==
    /\ \A m \in Meeting :
          /\ SF_vars(StartTask(m)) /\ SF_vars(CleanupRetry(m) \/ CleanupForce(m))
          /\ SF_vars(FinishAbsent(m)) /\ WF_vars(Summarize(m))
    /\ \A s \in Stopper : SF_vars(StopTaskStep(s))

FairSpec == Spec /\ Fairness

(***************************************************************************)
(* Properties.                                                             *)
(***************************************************************************)

(* No task is at work on m. *)
Settled(m) ==
    /\ start[m] \in {"none", "done"} /\ cleanup[m] = "none" /\ m \notin absent
    /\ \A s \in Stopper : stop[s].target # m
    /\ \A c \in recovery : c.meeting # m

Over(m) == status[m] \in {"stopping", "posted", "failed"}

(* A guild records one meeting at a time, its newest, and nobody else has     *)
(* reserved the guild meanwhile (recording_startup_conflict and               *)
(* validate_record_start_preconditions against stops, cleanups and recovery). *)
OneRecording ==
    \A m \in Meeting : status[m] = "recording" => Active = m /\ startup \in {None, m}

(* Once every task of a meeting that is over has returned, it has no session, *)
(* no reservation and no audio in memory: the next start is not refused and   *)
(* no audio is forgotten.                                                     *)
NothingLeftBehind ==
    \A m \in Meeting : Over(m) /\ Settled(m) => session # m /\ startup # m /\ ~unsaved[m]

(* Audio that was dropped is on record: once its tasks have returned, the      *)
(* meeting has failed (mark_stopped_recording_failed_after_audio_loss and the  *)
(* paths that drop a session).                                                 *)
LossRecorded ==
    \A m \in Meeting : lost[m] /\ Settled(m) => status[m] = "failed"

(* A meeting that is posted stays so, unless a stop finds out that its audio    *)
(* was lost: recovery, cleanups and timers that act on an older status do not   *)
(* fail it.                                                                     *)
PostedFailsForLossOnly ==
    [][\A m \in Meeting : status[m] = "posted" => status'[m] = "posted" \/ lost[m]]_vars

(* A recording whose start has returned keeps its voice connection for as long *)
(* as it keeps its session: no late leave of another meeting's stop or cleanup *)
(* disconnects it (the reset gate, and the session checks before a leave).     *)
SuccessorVoiceKeptStep ==
    \A m \in Meeting :
       /\ status[m] = "recording" /\ start[m] = "done" /\ session = m /\ call = m
       /\ session' = m
       => call' # None

SuccessorVoiceKept == [][SuccessorVoiceKeptStep]_vars

(* "A Stopping meeting has already released the voice channel": once all tasks *)
(* of a meeting that is stopping have returned, the connection is not its own. *)
VoiceReleased ==
    \A m \in Meeting : status[m] = "stopping" /\ Settled(m) => call # m

(* "The job must not become claimable until the post-leave tail flush saves    *)
(* them": while a stop holds chunks that its first flush could not write, the  *)
(* meeting's summary job does not exist.                                       *)
DeferredJobWaits ==
    \A s \in Stopper :
        LET m == stop[s].target
        IN  stop[s].deferred /\ m # None /\ unsaved[m] => job[m] = "none"

(* A meeting that is stopping is summarised or fails. *)
StoppingSettles ==
    \A m \in Meeting : status[m] = "stopping" ~> status[m] \in {"posted", "failed"}

(* A reservation is given back: the guild can always start a recording again. *)
ReservationReturned == \A m \in Meeting : startup = m ~> startup # m

(* Both: whatever was started and stopped, the guild comes to rest again. *)
GuildSettles == StoppingSettles /\ ReservationReturned
=============================================================================
